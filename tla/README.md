# TLA+ models of WebWrite

WebWrite is a wiki-like web site: a FastCGI server in C++ (`src/src`) that keeps pages as
plain files, and a JavaScript client (`src/lib/webwrite.js`).  The modules in this directory
model the server and the client, TLC checks them on small instances and TLAPS proves the
main theorems for every value of the constants.  Paths below are relative to the repository.

Contents: 1 inventory, 2 modules and what they abstract, 3 runs, 4 fairness, 5 proofs,
6 what is not modelled, 7 plan.

## 1. Inventory

| Component | State | Operations | Hard behaviour |
|---|---|---|---|
| **Page store**: `RootServer::Save/Load/Upload/ServeMeta`, `Resource` | files below `data`, `attic`, `meta`; `m_meta` of each request's `Resource` | save, remove, load with renaming of older spellings, upload, write metadata | no locks between threads; every file-system call is a step; crash between any two; exceptions end the process |
| **Worker pool**: `main.cc`, `RootServer::Work` | threads, accept mutex, `Handler::count/elapse` | start, join, accept, dispatch, count, report | mutex across a blocking accept; threads that leave; counters read without a lock |
| **Stream parser**: `StreamParser` | 80-byte cache, end pointer, the input's position | `Refill`, `Consume`, `ReadUntil` (char, any, string) | a target that straddles the cache's end; short reads; end of input |
| **Form data**: `FormData` | boundary, parser, files | `Save` | several parts; the end of the form; headers longer than their buffer |
| **HTML filter**: `HTMLStreamFilter` | parser, current tag | `Parse` | an element to skip that holds others; input that ends inside a tag |
| **Browser client**: `webwrite.js` | address and history, content, editor, properties, menu, requests out | load, back and forward, edit, save, upload | answers that arrive out of order; state read when the answer comes |
| **URI**: `UriChar`, `UriCharIterator`, `Resource` names, `CheckRedir` | none | decode, redirect | redirects must settle; spellings of one name must meet |
| **FastCGI adapter**: `FCGIRequest` | the request's streams | URI without query, redirect, answers | none of its own |
| **Read-only handlers**: `ServeIndex`, `DefaultPage`, `ServeMimeCss`, `Query` | none | dispatch, listing, default page | the data change between a redirect and its answer |
| **JSON**: `Json` | reference-counted values | construct, copy, assign, access, add, find, parse | ownership through replacements and exceptions; a parse over several reads |
| **Files and streams**: `File`, `StringStream`, ... | descriptor, offset | open, read, write, seek, close | limits, short writes, exceptions between open and close |
| **SHA-1**: `sha1.c`, `SHA1`, `FilterSHA1` | block, index, 64-bit length | reset, input, result | block boundaries, carry of the length, what of a short write is hashed |
| **XML**: `Doc`, `Node` | libxml2 trees | parse, save | a failing file |
| **Start**: `main`, `Cfg`, `InitLog`, `RootServer::RootServer` | configuration, logs, index page, style sheet | read once, then constant | an exception before or after the logs are there |
| **Debug support** | | stack traces | |

How they interact: nginx hands a request to a worker thread over the FastCGI socket;
`Thread` (main.cc:80) builds a `Resource` from the URI and calls `RootServer::Work`, which
redirects to the canonical URL or calls the handler that the method and query name.  The
handlers read the posted stream (through `HtmlDoc` or `FormData`, which drives a
`StreamParser`) and change files; nginx serves the files themselves (`X-Accel-Redirect`).
Threads share only the files, the accept mutex and the statistics.  The client asks for the
text (`?data`), the properties (`?meta`) and the directory (`?index`) of the page in its
address bar, each on its own, and posts texts and files to the same address.

What makes each component correct: the page store must never lose a version it confirmed,
never lose the previous version in a crash, and leave page and metadata as posted; the pool
must take every request once and keep its statistics consistent; the parsers must copy
every byte once, whatever the sizes of the reads, and end for every input; an attic copy must
carry the digest of its own content, metadata must be read back as they were stored, and
neither values nor descriptors may leak; every spelling of a name must lead to one page
and every redirect to an answer; what the client shows must be what its address names.

## 2. Modules

| Module | Models | State and actions in the code |
|---|---|---|
| `FileSystem` | POSIX files (environment) | `file`: path to body and time; `fd`: a thread's open descriptor; `Create`, `WriteClose`, `Rename`, `Unlink`, `Crash` |
| `PageStore` | handlers of `RootServer` with `Resource` | `pc[t]` names the next call of thread t; one action per call: `LoadMeta`, `Stat`, `MoveToAttic`, `Fopen`, `Dump`, `Update`, `FilterSize`/`SaveSize`, `SaveMeta`, `RemoveData`/`RemoveMeta`, `ServeMeta`, `Find..MoveSpace` (Load), `UploadOpen`/`UploadCopy`; `Kill`, `Restart`, `Tick` are the environment |
| `VersionArchive` | the promise of `attic/<SHA1>` | contents are stored before they are confirmed and never leave |
| `PageStoreInv` | | the inductive invariant `IInv` |
| `PageStoreProofs` | | theorems |
| `WorkerPool` | `main`, `Thread`, `Work`, `ServeStats` | `process`, `created`, `joined`: main; `pc`, `req`, `mutex`: threads; `count`, `elapse`: `Handler`; `cursor`, `got`, `report`: a running `ServeStats` |
| `RequestService` | the promise of the pool | requests are taken in order, once, and answered once |
| `WorkerPoolProofs` | | theorems |
| `StreamParser` | `StreamParser` | `cache`: `m_cache` up to `m_end`; `taken`: `Consume`'s count; `call`, `found`, `target`: the call and its `Result`; `pc`: the loop it is in; `Begin` calls, `ConsumeLoop`, `FindUntil`, `TopUp`, `Search`, `Skip` are one turn of a loop each |
| `StreamParserProofs` | | theorems |
| `FormData` | `FormData::Save`, on top of `StreamParser` | `stage`: which of its parser calls Save is in; `name`, `saved`: the files; `ReadBoundary`, `CheckBoundary`, `CheckEnding`, `OpenFile`, `CloseFile` are the code between two calls |
| `FormDataProofs` | | theorems |
| `HTMLStreamFilter` | `HTMLStreamFilter::Parse`, on top of `StreamParser` | `stage` and `tag` likewise; `page`: what it has written |
| `HTMLStreamFilterProofs` | | theorems |
| `WebClient` | `webwrite.js` and the answers of the server | `history`, `here`: address bar; `content`, `view`, `menu`, `editing`: the document; `pending`: the requests out; an action for each thing the user may do, for the server's handling (`Serve`) and for each callback (`Receive...`, `InitProperties`) |
| `WebClientProofs` | | theorems |
| `Digest` | `sha1.c`, `SHA1.cc` | `ctx`: the `SHA1Context`; `rest`: the octets of the `SHA1Input` under way; `NextOctet` is one turn of its loop, `Result` pads and blanks |
| `JsonTree` | `Json.cc` on json-c's counted values | `heap`, `var`: the values and the C++ wrappers; `puts`: the `json_object_put` calls to come, one step each |
| `FileHandle` | `File.cc` on descriptors | `disk`, `kernel`, `m_fd`; `Open`, `OpenRandom`, `Read`, `Write` (short ones too), `Seek`, `Close` |
| `Storage` | `Resource::Update`, `LoadMeta`, `SaveMeta`, `FilterSHA1`, `Doc::Save` to a sink, `Json::Parse`, on top of the three above | `pc`: the next call; `left`: what libxml2 has still to write; `m_meta`, `field`, `tok`: the metadata and the tokener |
| `StorageProofs` | | theorems |
| `ResourceName` | `UriChar.hh`, `UriCharIterator.hh`, the constructor of `Resource`, `UrlPath`, `CheckRedir`, `SansQueryURI`, `SeeOther` | operators on texts |
| `Startup` | `main` up to the threads, `Cfg::Init`, `InitLog`, the logs, `RootServer`'s constructor, `GenerateMimeCss` | `pc`: the next call; `cfg`, `log`, `html`, `css` |
| `Site` | `Work`'s redirect and dispatch, `DefaultPage`, `Load` with older spellings, `ServeIndex`, a browser that follows redirects and links, another user's saves | `dirs`, `files`: the data; `request`, `reply`; `want`: what the user asked for and how |
| `SiteProofs` | | theorems |
| `MC...` | | instances for TLC |

`FormData` and `HTMLStreamFilter` extend `StreamParser`: every step of theirs is a step of the
parser or leaves it alone, so the parser's invariants hold in them as well.  `Storage`
extends `Digest`, `JsonTree` and `FileHandle`: a handler's step is one call on one or two of
them.  `Site` extends `Startup` and `ResourceName`: it begins with the start and serves when
that is done.  `PageStore` and `Storage` show the same handlers at two grains: `PageStore` has
many threads and takes `Update`, `SaveMeta` and `LoadMeta` in a few steps, `Storage` has one
thread and shows what happens inside of those.

### What the page store abstracts

* A body is a model value: `Empty` (a removal), `Torn` (part of a write or two writers
  mixed) or a member of `Content`.  libxml2's parse and dump is a function of the posted
  bytes, so posted content stands for what is dumped.
* The clock counts whole seconds, as `time(0)` does; the name of an attic copy is
  made of the page and such a time.
* A page may lie under its own name or under two older spellings of it (`%20`
  and space for `_`), as `Load` looks for them (RootServer.cc:147).  The two older
  spellings of different pages never coincide in the model.
* `folder` says whether the directory of a page exists: an upload or a rename into a
  missing one throws.  It grows only by a save's `create_directories`.
* `data.path` has no underscore; with one, `Load` looks for older spellings in another directory,
  which `Site` models.
* Metadata fit in one read of 1024 bytes; longer ones are the subject of `Storage`.
* Exceptions leave `Thread` (main.cc:97) without a handler, so `Throw` ends the process.
* Any call may fail for a reason of its own: no space, no permission, a file where a directory
  is to be made.  A call that throws then may do so at any time (`CallFails`): `create_directories`
  (RootServer.cc:182, Resource.cc:244 and 267), the constructors of `File`, `OpenRandom`, and
  `exists`, `remove`, `rename` and `file_size` where they are given no error code.  The one of
  Resource.cc:267 comes before `LoadMeta` and throws at its label.  A throw before a call did its work and
  one after a part of it leave the same pages, metadata and archive behind; they differ in
  directories made on the way and in random files of the attic, which no property reads.
* A call whose failure nobody notices goes on instead, with its own disjunct in its action
  (`Fails`, at most `MaxFailures` of them): the open or read of the metadata in `LoadMeta`, the time
  of the page, the rename to the attic (after which the page itself is truncated), `fopen` and the
  writes of `Doc::Save`, a short copy in `Update` (saved under the SHA1 of what was written), a
  short write of the metadata or of an upload.  A save whose archive copy was cut short is answered
  all the same; `short` remembers it, and `acked` does not count it.
* Reads of files by nginx change nothing and are left out.
* The history variables `solo`, `was`, `short` and `acked` only record: no guard reads them.  `solo` is a
  request that met no other on its page and none of whose calls failed unnoticed.

### What the pool abstracts

* A request is an id (its place in the order of arrival), a route (`invalid` URI,
  `redirect`, `notfound`, `handler`) and a handler of the table; the handlers are numbered
  in the order of the table.
* libfcgi's `FCGX_Accept_r` hands out requests in the order they reached the socket or
  fails; it blocks with the mutex held, as main.cc:87 calls it.
* A handler other than `ServeStats` is one step that returns or throws (its steps are in
  `PageStore`).  A call takes at least one unit of time.

### What the parsers abstract

* A byte is a model value; `filename="..."` in a header is one byte of `FileNames`, its name.
* The cache has `Cap` bytes instead of 80 and a `StringStream` keeps the first `SinkCap`
  bytes of what it is given instead of 1024, as `StringStream::write` does without an error.
* A source gives what it is asked for as long as it has it, as `FCGX_GetStr` and
  `StringStream::read` do.  With `ShortReads` it may give less: the parser is written for any
  `Source`.
* The code asserts that a string to look for is no longer than the cache (StreamParser.cc:151).
  A build with assertions stops there; one without goes on, searches to the end of the input and
  finds nothing.  The model does the latter; `short` has such a string.  The boundary of a form has
  at most 76 bytes, the name of an HTML tag is whatever the page says.
* A file that cannot be opened, or a full disk, ends `Save` by an exception (`OpenFile`,
  `WriteFails`).  The callback of an upload does nothing in the code.
* When nothing is found C++ leaves `Result::target` at 0 or at what it was; no caller reads
  it then, and the model has `None`.
* `HTMLStreamFilter` is used by the unit tests only.  Its white list is a set of tag names.
* A page is laid out as `Parse` goes through it: text, then turns (a tag, its attributes, what
  is skipped with it up to the string that `Parse` looks for, and the text behind).  Every page
  whose last tag and last end tag are complete has that form; any other is one of them, cut short.
  Each page comes with the rest and the output before and behind each turn (`rest`, `kept`), and
  `DocumentsAssumption`, which TLC evaluates, says that they belong together.

### What the client abstracts

* A page is a model value with a directory and a type; its text is known only by the page
  it is of and the directory its links were made absolute in.
* Requests are answered in any order; the ones whose answers do not replace one another are
  not ordered: `pending` has a queue for each class of requests.  The server's own work on a request is one step: saving stores the
  page or removes it when the text is empty, uploading stores the file, listing reads.
* The order in which answers come is recorded in `late`: for the content and for the menu,
  whether an answer came after one to a later request, or never.
* The browser's history is modelled, reloading the whole document and going to other sites
  are not.  When an edit ends, or a load fails, `InitViewer`
  binds the click handlers of the links in the text, and of "create this page", a second time
  (webwrite.js:136, 173, 179), and a click then runs them twice; in the model it runs them once.  The dialog of the upload is layout; a link to a sub-directory in the menu and
  "[parent]" are left out (the logo leads to the same page as "[parent]" below the root).

### What the storage classes abstract

* An octet is a number; a block has `BlockSize` of them instead of 64, the length starts at
  `LengthAt` instead of 56 and has two words of `Word` values instead of 2^32.  The compression of
  a block is taken as injective: the intermediate hash is the sequence of the blocks so far.
* `SHA1::Result` ignores the error code of `SHA1Result`; what it returns then is whatever was in
  the caller's memory, in the model the empty sequence.
* A JSON document is a sequence of cells, a brace or a member each; a read or a write may be
  cut between two of them.  A value's text is a number.  Json-c is modelled by what it does
  to the counts; the tokener by whether it wants more, and blanks between documents.
* libxml2 writes a document in any pieces, keeps what a sink did not take and tries the rest once
  when it closes (Doc.cc:95).
* A call of `Json` that throws changes nothing and is no step; an exception of `File` or `SHA1`
  ends the process (`Die`).  A temporary file of a save that died stays.
* `SaveMeta` does not look at the count that was written (Json.cc:373): a short write leaves a
  cut document, which `LoadMeta` then takes for no metadata at all.
* `LoadMeta` may fail to open the file for any reason and deduces all the fields then
  (`tok.err = "unopened"`).
* The null value as a member, memory exhaustion, the tokener's error class, `fsync` and power
  loss are left out: what a process has written is there after its death.
* Beside the handlers the initial states have programs that make any calls of one class, as
  the unit tests do (`AnyJson`, `AnySha`, `AnyFile`).

### What the site abstracts

* A text is a sequence of characters, but a run of letters that is never taken apart counts as
  one.  In the run a user types `%20`, `%27`, `%41` and plain characters; no `//`, no `.` segments, no `%`
  that begins no escape.  A question mark is typed only with a query behind it: FCGIRequest.cc:179
  takes the query off by its length, so an empty one leaves the question mark in the name.
  The theorems are about every spelling without a question mark, a `%` with nothing or anything
  behind it included; boost's paths are modelled as they are where no two slashes meet.
* The data are what `Tree` says: every directory above a page is there, no name is empty, `.` or
  has a slash or question mark, and in the name of a directory every `%` begins an escape, as
  otherwise the last one would swallow the slash behind it.
* A name is found under what it decodes to, with `_` for a blank.  A listing links to that name
  (`shown`); where the file is called otherwise (`%20`, a blank, `%27`) the link leads to what
  the name decodes to, and that file is not promised, so `FollowLink` marks such a link
  `renamed` and only what is promised of every request holds of it.
* `want.open` says that the user asked for a directory: a name that ends in a slash, or the link of
  a directory.  Its main page answers whether or not the directory exists yet.
* `Load` looks for older spellings in the whole path and renames; where the directory of the new
  name does not exist that throws and ends the process (`Rename`).  It replaces the underscores
  of `data.path` as well, so with a `data.path` that is not `plain` it finds nothing (`OlderOf`).
* `Resource::Type` takes the type of the stored metadata before it deduces one: `StoredType` says what
  is stored when the server starts, and a save keeps it.  `DeducedType` is `Cfg::MimeType`.
* `Cfg::MimeType` (Config.cc:56) asks whether the name below the site's root is a directory
  of the machine's root: a page that is called like one of those is served as a file
  (`HostDirs`).
* Another user's saves put a file and its directories there (RootServer.cc:182).  A save below a
  file, where `create_directories` throws, is no step here; `PageStore` has it as one of the calls
  that may fail (`CallFails`), with what a save does in detail.
* `Startup`: a configuration is the set of its keys and the values that matter; a log is the
  severities it passes.  What libfcgi makes of the socket is taken to succeed.

## 3. Runs

| Run | Question | Bounds | Result |
|---|---|---|---|
| `race` | what holds in every interleaving of two requests on one page, and what two in a row leave, with crashes and failing calls | 2 threads, 1 page, 2 contents, 2 requests, any call may throw, and the second changes once or 1 call fails unnoticed (`OneEvent`) | pass |
| `history` | is the attic a history of unmodified copies, as Config.hh:100 and RootServer.cc:203 say | 1 thread, 3 requests, 2 seconds | violated |
| `pool` | order, exclusion, statistics, end of main; is every request at the socket taken | 2 workers, 3 requests, 2 handlers, 2 accept errors | pass |
| `short` | what every call of the parser copies, and that it returns | cache of 3, every input up to 6 bytes over 3 values, reads of any size, any series of calls | pass |
| `form` | which bytes of a form get into which file | cache of 7, sinks of 6, forms of up to 2 parts, forms cut short, other texts | pass |
| `whole` | is the whole file read, as FormData.cc:78 says | as `form` | violated |
| `filter` | what is copied of a page, what is left out, and is any other tag than the white list's ever begun | cache of 12, sinks of 4, pages of up to 3 pieces, pages cut short, ends that are missed, other texts | pass |
| `client` | does the document settle on the page of the address, and the menu on its directory | 3 pages in 2 directories, 3 moves of the user, 1 failure, any order of answers | pass |
| `stored` | are attic copies named after their digest, metadata read back, values and descriptors freed | blocks of 4, 4 documents of up to 8 octets, 6 metadata files, 2 requests, deaths at any call; free programs with 3 live values, 8 octets, 2 handles | pass |
| `fields` | are the fields that a metadata file has read, as Resource.cc:195 says | as `stored` | violated |
| `longdoc` | does `Json::Parse` parse a file, as Json.cc:490 says | reads of 4 cells, documents of 6 | violated |
| `site` | does the start leave nothing out; do redirects settle, on what was asked | 5 configurations, names of up to 3 pieces, 4 states of the data, 5 queries, 1 save of another user | pass |

A run has few properties that say much: `CleanFound` is `CleanFormSaved` and `CleanStringFound`
together, `PageSettles` is `SettlesOnAddress` and `MenuSettles`, `CopiesExactly` what each call of
the parser returns, `NothingLeft` the counts of the JSON values and the owners of the
descriptors, `ArchiveNamed` includes `Digested`, and `PageFiltered` that nothing inside an
element to skip is copied.

Why the bounds are enough to be interesting: two threads suffice for every pairwise race of
calls on one page, which is all that two handlers can do to one another; two requests in a
row with a crash or a failing call between any two calls reach the states in which old metadata,
an attic copy and a truncated page are there together; two seconds tell the same second from
a later one, though not in a behaviour in which a call fails unnoticed.  Every property of `race`
is proved for any number of seconds, requests, failures and pages, library pages among them, which
`race` has none of.  The threads are symmetric.  `history` needs a third request.
Two workers and two accept errors include the pool that loses one or both workers; three
requests let a report run against two calls of each handler.  An input twice
as long as the cache has every target at every place of it, and over its end; a
cache of 7 holds the longest string of a form (5 bytes) while a part is longer than it.  Three
moves are two loads that overtake one another and a save, or a way back through the history,
among them.  Blocks of four octets with the length at the third give documents that end before,
at and behind the place of the length and at the end of a block, and words of four values let the
length carry from one to the other and run out.  Two requests are a save whose metadata the
next one reads, with a death at any call of the first; metadata files that are missing, cut,
short of the last fields or of the first one and followed by blanks are there from the start.  Three pieces hold a directory,
a slash and a name, or three letters in any spelling; one save of another user
between any two steps is enough to turn a page into a directory under a redirect.

The four violated runs:

* **history**.  Config.hh:100 calls the attic the place where the old copy is moved.  The
  copy's name is the last-modified second that `LoadMeta` reads.  If the server dies after
  truncating the page and before the metadata are written, the next save reads the same
  time and renames the truncated file over the good copy.  With two threads the copy may change
  without a crash as well: a descriptor still open for writing follows the file (RootServer.cc:204).
* **whole**.  `ReadUntil(string)` fills the cache from the first occurrence of the string's
  first byte and searches it once; when that fails it consumes the whole cache, and
  with it the beginning of the string if that was at the cache's end.  So an uploaded file
  with a carriage return a little less than 80 bytes before its end runs on through the
  boundary.  By `CleanFound`, checked in `form` and proved in `FormDataProofs`, nothing else goes
  wrong with those forms: one in which every carriage return is near the end of its part, and
  whose headers a sink can hold, is saved as it was posted.
* **fields**.  `LoadMeta` reads last-modified, name, type and sequence one after the other inside one
  `try`; the first that is missing throws, and what the file has behind it is not read.  So a file
  without last-modified, the comment's own example, loses its name and type and starts its sequence
  again at 0.  `MetaRead`, checked in `stored` and proved, leaves out just the files with such a `Gap`: what a
  `SaveMeta` has written whole, or died in, has none.
* **longdoc**.  `json_tokener_continue` is no error but a request for more; the loop of `Json::Parse`
  takes it for one, under a comment that says "check for parse error", and goes on reading when
  the document is complete.  So a document longer than one read of 1024 bytes is never parsed:
  metadata that long count as missing, a configuration that long does not start the server.

Two loads of the client may be answered in the other order, and the functions that put an answer
into the document do not compare it with the address; `PageSettles` therefore speaks of answers
that came in turn (`late`).

Known limits of the HTML filter that `filter` shows as the code behaves: an element that is
skipped ends at the first end tag of its name even if that is of an inner one (`Nested`), and a
comment without a space behind `<!--` is taken for an element that never ends (`Endless`).  The
search may also miss an end that is further from a `<` inside of the element than the cache holds
(`Long`): the element then ends at a later end tag of its name, or at the end of the page.  What is
behind that end is copied, so `Fenced` asks that it is text of the page, and `PageFiltered` says
that nothing from inside of an element or a comment gets to the output with it.

## 4. Fairness

`pool` assumes it of `main` and of each thread's steps but not of accept errors: the
mutex is free infinitely often only because its holder goes on.  `short` assumes that a call
that has begun goes on (`Run`), but not that another is made; `form` and `filter` that the one
thread that parses goes on, but not that a write fails.  Each turn of a loop is a step,
so these show that the loops end.  `site` assumes that a request in hand is answered
(`Answered`, which only `Handle` does) and that a browser follows a redirect by itself
(`Redirected`); nobody has to type, to close a page or to save.  `race`, `client` and `stored`
check safety only: what a document settles on is said of states in which no answer is due, and the
page store's handlers are straight-line code, so that a request which is received ends if its
calls return says nothing of the code.

## 5. Proofs

`PageStoreProofs` proves, for any sets of threads, pages and contents, any bounds and any
interleaving with crashes:

* `TypeCorrect`: `TypeOK` and `ControlInv`, which ties a thread's label to its request, its
  metadata and its descriptor.
* `Archived`: an answered save is in the archive.  `ArchivedAck` is not inductive: the
  strengthening `ArchiveInv` says that from `Update` on the posted content is archived.
* `Implements`: `Spec => KeepsPromise`, each step being a store, a confirm or a stutter.
* `BlanksOnlyFailing`: only a dying process, or a write of the metadata that falls short, leaves
  them blank; it needs `FdInv`, that a writer between open and write still has its descriptor.

Its second part proves the properties of requests that met no other on their page and none of whose
calls failed for a reason of its own.  Their
strengthening `SoloOK` says for each label what the page, its older spellings, its attic
copies and its metadata look like, and `Alone` that the other threads are busy elsewhere;
preservation is proved action by action, first for the thread that moves and then for any
other thread (whose page it cannot touch).  `SoloInvariant`, `ThrowsOnlyWithoutFolder`,
`SavesWhatWasPosted`, `KeepsPrevious` and `LoadsSafely` follow.  `ThrowsOnlyWithoutFolder` says
where such a request does run into an exception: a load that would rename an older spelling and an
upload, where the page's directory is missing, and nowhere else.

`WorkerPoolProofs` proves, for any number of workers, handlers and requests, `OneAccepts`,
`ReportsCover`, `CountsExact`, `MainReturnsAlone` and that the pool implements `RequestService`
(`PoolServes`).  One invariant, `PoolInv`, carries them all.  `LabelInv` says of each label whether
its thread has a request, `MutexInv` who holds the mutex, `MainInv` which threads have not been
started and which have been joined.  `IdInv` says that the requests at the socket are the
last that arrived and that the others were taken once each: without it an answer could be
a second one, and the counter of its handler would not grow with the answers.  `CountInv` is
about the cardinality of sets of threads and requests, so each step that moves a thread
into or out of such a set adds or removes one element.  `ReportCovers` is not inductive:
`CoverInv` says that the time of a handler covers its count and the calls that are
between the two additions as well, `ReadInv` that it covers the count a report has just read.

`StreamParserProofs` proves, for a cache of any size, any inputs, any targets and reads of any
size, that the cache holds exactly the bytes read and not taken (`Mirrors`) and what each call
returns (`EachCallCopies`), that the cache never outgrows its size (`ParserTypes`) and that it is
empty only at the end of the input (`CallsFeed`), which the code asserts.  What a call has
copied when it returns says nothing of the steps before: the inductive invariant `ParserInv`
adds `CallInv`, which says of each loop that what was copied is the input from where the call
began, that no byte of it is a target, and what the search has put into `found` and `target`.
Its first lemmas are about slices of a sequence, as the input, the cache and the copy are all
slices of one another.

`FormDataProofs` reuses them: `FormIsParser` shows that each step of `Save` is a step of the
parser, so the parser's invariants hold of it.  `FormInv` adds to them `StageInv`, which call
with which argument belongs to each stage and what has been seen of the boundary, and
`FilesInv`, that every file ends before the call under way.  `HeadersRead` shows that a file begins
behind the end of its headers, whatever a `StringStream` kept of them.  With them `SavesOnlyForms` and
`SavesInOrder` hold for any boundary and any input.  That the file name exists, the last
of its header, is the well-founded induction of the library (`WFMin`).

`FindsCleanForms` is the other half: what Save does find.  It is about any number of parts and any
cache that holds the end of a part (`Fits`), over a source that gives as many bytes as it is asked
for while it has them, as the request's input does.  Below it is `FindsCleanStrings`: `FoundInv` says
of each turn of `ReadUntil` that the first occurrence of the string is still to come and
that the turn cannot pass it, as whatever looks like its first byte is near enough to its end.  Above it,
`FormKept` says of each stage which text of the form is left and that the files of the parts before
are as they were posted.  For that a form comes with what follows the boundary before each of its
parts (`rest`), so that a step needs no induction over the parts.

`HTMLStreamFilterProofs` reuses the parser's proofs in the same way (`FilterIsParser`) and shows, for
any pages, any white list and a cache of any size, that whatever the filter writes is a copy of
text between tags and of tags whose names the white list has: a `<` in the output begins such a
name or stands inside of such a tag (`CopiesOnlyGoodTags`), whether the page is well formed, cut
short or no page at all.  `OnlyGoodTags` is not inductive, as the filter has to know what it will
read next: `StageInv` says for each stage which call with which argument is made, where the tag
under way began, and that, while the last tag in the output has no end, the parser stands at the
byte that follows what was copied.  A name longer than the cache is not excluded: the element is
then skipped to the end of the page.

`FiltersPages` says what is copied.  It is about any page that is laid out in turns, whole or
cut short at any byte, any cache and any sink, over a source that gives as many bytes as it is asked
for while it has them.  Its invariant `PageInv` says of each stage what is next in the page
(`WhatIsNext`): the rest of a text, a tag's name, its attributes, or what is skipped of turn `k`, and, if
the page is whole and `Clean`, that the output is what is to be kept up to there.  As the stage alone
does not tell the turn, each case has its own `k`.  Below it are lemmas on the parser's calls in a
text that is the beginning of another: one reads up to the first target or the end
(`ReadsUpTo`), or finds a string that ends a text plainly (`ReadsClosed`, from the parser's `FoundInv`), and
whatever string is found is at some place of it (`FindsAny`).  The last is what holds where an end is
missed: `EndsInText` says of every later place that only text follows it, and `Hides`, that nothing
inside of a skipped element is in the output, goes through all the stages with the rest.  There is one step lemma
per action of `Parse` (`AtTagPage` to `ReadTextPage`).

`WebClientProofs` proves, for any pages, any links and any order of the answers, `SettlesOnPage`:
the document shows the page of the address and the menu its directory once no answer is due and
none came late.  The property speaks of quiet states only; `LoadInv` and `MenuInv` say what is
true on the way: the last request of a class that is out, or if there is none the document, is for
what the address names, and a `late` mark is set whenever that is not so.

`StorageProofs` begins with the digest.  It proves `DigestIsOfMessage`, for blocks, a length field and words of any size:
whatever pieces a message comes in, a digest that is given without an error is that of exactly the
octets since `Reset`, padded as the standard asks (`IsPadding`).  The invariant `Collected` says
that the compressed blocks and the part of a block behind them are the message and that the two
length words count its bits.  The padding is a lemma of its own (`PadMessagePads`) with its two
cases, the length in the same block or in one more.  The code only looks for a low word of zero
to carry into the high one: that is right because a word holds a whole number of octets
(`NoPartialCarry`).

Its second part builds on it: `AtticIsNamed` says that every file that `Resource::Update` leaves
under the name of a digest is named after its own content, for any pages, any cutting into
writes, short writes and deaths.  `ArchiveNamed` says nothing of the file before it has its name;
`CopyInv` says that it holds what was hashed and what the context is about to take, that it
is written at its end and that the context refuses an octet only when the message is
too long for any digest (`FullContext`).  `OutInv` and `FreeInv` say that nothing else is written
under such a name.

Its third part proves `NothingLeaks`: the count of every JSON value is the number of its owners,
and one more for a value that `Json::Parse` forgot, and every open descriptor belongs to one object,
whatever is called of `Json` and `File` in whatever order and whenever a process dies.  The owners
are places: variables, copies, calls of `json_object_put` to come, and the members and elements of
other values, all of them functions in which `Times` counts the places of a value.  The lemma
behind every call is `Balanced`: a call that makes and drops references keeps the counts exact if it
adds to each count as many as it makes.  So each call of `JsonTree` needs only what it does to those
functions (`GridChange` for the values inside of values), and that a value with an owner is
alive (`OwnedAlive`), as without it a put could free a value that is still
held.  `NothingLeft` is not inductive: `LeftInv` adds the types, `FileInv` (an open descriptor
belongs to the one object whose `m_fd` it is) and `Scoped` (where a handler's variables own a value).

Its fourth part needs all of that and proves `ReadsWhatWasStored`: `LoadMeta` returns what `SaveMeta`
stored whole, or what the file held at first, and otherwise deduces
every field, for any first file without a `Gap`, any size of the buffer that holds the document, and deaths at any
call.  `MetaRead` speaks of one label; `MetaInv` says for each label what the way there has built.
`DocumentInv` says that the file, however it was cut, is what a reader should see (`stored` is
`Said` of it); `ParseInv` that `Json::Parse` has nothing of a short document or has it all, as an
object with exactly its fields (`IsFields`); `Taking` that `m_meta` has the fields before the next one
and no others; `ValueInv` the same for the object that `SaveMeta` builds, and that what it stores has
nothing left to deduce (`Complete`), as otherwise a later `LoadMeta` would return more than was stored.
A value may be freed between any two of these steps; `SameLabels` shows that it is none of those
the handlers still read, from `NothingLeaks`' invariant.  The lemmas on documents are `SaidIs` (a
cut document tells nothing), `TextIs` and `CutText` (what is written is read as it was, but for its
last cell) and `SaidTaken` (`Take` has all that the file says when there is no `Gap`).  `StoredTypes` follows from the
invariants of the four parts.

`SiteProofs` proves `StartIsSound` for every configuration: before the logs are set up their place is
taken by a log that writes everything, afterwards they pass on what ends the process (`Tells`).

It then proves `SiteTypes` and `AnswersMatch`, for names of any length and spelling, directories of any
depth and any history of saves and renames: the data stays a tree, and every answer is about what was asked
for, or about a main page below it.  Neither is inductive.  `SiteInv` says of every URL that is out,
a request's, a redirect's and each link's of a listing shown, that it has a `Goal`: behind the
site's root is a text `b` without a question mark, and what `b` decodes to leads to what the user is
after (`Reached`: through main pages that are directories).  For a link, `Direct` adds that `b` is
its own spelling, so no redirect comes between.  A handler keeps this because the path it finds
has a goal again, whatever was saved since the URL was made (`Arrives`).

Below it are lemmas on what decoding does to texts of any length: it leaves alone what it has
decoded (`DecodesOnce`), so the URL of a redirect needs none itself; it goes over a slash only where
a `%` swallows it (`DecodesEscaped`, `StableThenSlash`); the names on the way down are those of the
parts (`NamesCat`).  `DecodePercent`, `Names` and the older spellings are written with one recursive
function (`Chain`), and the inductions over a text are inductions over a set of texts
(`PieceInduction`, `NameInduction`, `CharInduction`), which the library's well-founded relation on the
numbers gives without a theorem that takes an operator.  A rename keeps the tree (`TreeRenamed`) because the
older spelling is a way down of the same length, so nothing moves below itself, and because the new names
are names of pages again.

The proofs assume only the named ASSUMEs on the constants (model values are different from
each other and from the data; a word holds whole octets; the pages of `Storage` are sequences of
octets; values, variables and objects are finitely many, and descriptors at least as many as objects;
the metadata file that the first server finds has a closing brace only if it begins with an
opening one, as nothing but `SaveMeta` writes it;
a form is laid out as RFC 2388 has it and its dashes are no carriage returns;
a form's source and a page's, for what is found in them, give what they are asked for (`~ShortReads`);
the delimiters of HTML that could be taken for one another are different bytes, and the names of the white list have no `<` and not
the byte that marks what is skipped; a page is laid out in turns (`DocumentsAssumption`);
two hexadecimal digits hold no character that means something in a path, the root of the site begins and does not
end with a slash and, like the name of the main page, has nothing to decode (`NameAssumption`);
the data are a tree at first and a page saved fits one (`SiteAssumption`)).
Left to TLC: liveness under fairness, which needs ENABLED (`EveryRequestTaken`, `CallsReturn`, `SaveEnds`, `ParseEnds` and `RedirectsSettle`).  Every invariant and every
other property of the passing runs is stated by a theorem.

## 6. Not modelled

* **XML**: wrappers of libxml2, one document per request; `Doc::Save` to a file is in `PageStore`, to
  a sink in `Storage`.  The tree and the ownership of its nodes are libxml2's.
* **Files and streams**: the memory map and the permissions of `File`, `DataStream`'s copy loop and
  `NullDataStream`, which only pass bytes on.
* **FastCGI adapter**: libfcgi's socket and streams; what the code asks of it is in `Site` and
  `WorkerPool`.
* **Logging**: the text of a message, time stamps; which log gets which message is in `Startup`.
* **Browser client**: the text of a page, image and link elements, the looks of the dialog.
* **Debug support**: stack traces; no state that another part reads.
* **nginx, libfcgi, json-c, libxml2, boost, the browser, the file system**: external; modelled as
  far as the code uses them.

Four hazards have no property, because the code does what they say and nothing in the repository
promises otherwise: the editor of the client outlives a load (webwrite.js:158); two loads answered in
the other order leave the first one's text (webwrite.js:228); `ServeMeta` replaces newer metadata of
a save that came between its two calls (RootServer.cc:384); and two loads rename the same older
spelling, of which the second throws (RootServer.cc:165).

## 7. Plan

Done, in this order: the page store and the worker pool with their proofs, the stream
parser, form data, the HTML filter and the client with their proofs, the storage classes with the
proofs of the attic's names, of the owners of values and descriptors and of the metadata that are
read, the start and the site.
What would come next:

1. **Upload into the page store**: `FormData` with failing files composed with the threads of
   `PageStore`, two uploads of one name.
