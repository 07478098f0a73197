# repo_manager in TLA+

repo_manager is a Go service with a React user interface that lets people look
into the RPM repositories of a host, download packages, upload them and rebuild
the index. This directory specifies the parts of it where order, failure and
concurrency matter, checks them with TLC on small instances and proves the most
important of what is checked for instances of any size with TLAPS.

File names below are relative to the repository's root; `W` stands for
`www/src/components`.

## The system

| Part | Code | State | Operations |
|---|---|---|---|
| File store | `internal/handler/files.go`, `internal/service/files.go`, `internal/repository/files.go`, `file_rpm.go` | the files under `<root>/<repo>/<folder>/RPMS.<name>`; nothing in memory | upload, download, file information, list |
| Reindexing | `handler/files.go`, `repository/repo_unix.go` | the index that the external tool writes | run the tool and wait for it |
| Listings | `handler/folders.go`, `service/folders.go`, `repository/folders.go`, `common.go` | none; they read directories | list folders, list files |
| Configuration | `internal/config/config.go` | the parsed configuration, shared by all requests; the auth section of a repository is completed in place when it is first used | read, complete |
| Sign-in | `handler/auth.go`, `middleware.go`, `service/auth.go`, `repository/auth_ldap.go` | none on the server: the session is a signed cookie that holds a signed token | sign in, authenticate a request |
| Start and shutdown | `cmd/main.go`, `internal/server/server.go` | the `http.Server` | run, shut down |
| Router | `handler/handler.go`, `middleware.go` | none | which handler a request meets, behind which guards |
| Repository view | `W/TreeView`, `W/tree`, `W/grid`, `W/redux` | one redux store: tree, grid, spinner, toasts; flags inside the tree's nodes and the grid's rows | what a user can click, and the answers |
| Details panel | `W/fileinfo` | the details it shows | ask for the details of the selected file |
| Login form, cookie | `W/login`, `W/webclient` | the cookie | sign in, log out, drop the cookie on a 401 |
| Toasts, answers | `W/ToastsList`, `W/redux` (toasts), `W/webclient` | the toasts; the helper text of the login form | turn an answer into rows, details or a text |
| Messages | `proto`, `api`, `www/src/api` | none | write and read a message |

**How they interact.** The browser calls the service over HTTP; every request runs
in a goroutine of its own. The handlers share the configuration and the
directories and take no lock on either. The directories are shared with
whatever built the repository and with the external index tool. In the browser
there is one thread: events and answers run to completion, one after the other,
on the one store.

**What is hard.**

* The files are written in place under their final names, block by block, with no
  lock, no temporary file and no rename: uploads of one name truncate each other's
  file, and downloads read what is half written. A write that fails, a killed
  process and a lost answer leave what was written so far.
* The order of the calls within an upload (parse, check, create, copy) decides
  what reaches the disk.
* Nothing keeps a user from starting requests while others are under way, and
  nothing orders, cancels or counts them: an answer works on whatever the store
  holds by then. The selection is kept twice, in the store and as flags in the
  objects shown.
* The auth section of the configuration is completed in place by concurrent
  sign-ins; the server's goroutine and the signal handler share a field.

**What makes each part correct.**

* File store: a folder holds packages of its architecture only; once uploads are
  over, each position of a file holds what one of them has there; an upload that
  nobody crossed is in its file, whole, and a download that nobody crossed is the
  file; every request comes to an end. To the outside it is a shelf whose places
  only change through uploads (`PackageShelf`).
* View: the highlights are the selections; the rows are those of the selected
  folder; the panel shows the selected file; the spinner stops. Where late answers
  break one of these, what is asked is that nothing else does.
* Sign-in: who may sign in does not depend on who else is signing in. A request
  passes only with a token of its repository.
* The login survives what a user may do in any order: a logout holds, a good
  cookie is not lost without a cause.
* Shutdown: requests in flight are answered before the process ends.
* Listings and index: what was uploaded before is in them.
* Router: nothing changes a repository but what went through the guards; every
  call of the page meets its handler; the log says what the client was sent.
* Answers: the page reads what the service wrote, tells every failure in the
  service's words and does not break over one.

`PROJECT.json` lists the parts with their status, and the hazards with the line
where each one bites and the properties that cover it.

## The modules

| Module | What it is |
|---|---|
| `PackageShelf` | the abstract specification of the file store |
| `FileStore` | uploads, downloads and file information, one action per system call |
| `FileStoreProofs` | theorems about `FileStore`, with their proofs |
| `MC_FileStore` | the instances of `FileStore` that TLC checks |
| `RepoView` | the page: store, tree, grid, toolbar, file dialog, details panel |
| `RepoViewProofs` | theorems about `RepoView` |
| `RepoAuth` | concurrent sign-ins that complete one auth section in place, memory access by memory access |
| `RepoAuthProofs` | theorems about `RepoAuth` |
| `Lifecycle` | the process from start to end: `main`, the goroutine that serves, signals, requests in flight |
| `LifecycleProofs` | theorems about `Lifecycle` |
| `Session` | the cookie, the token in it, and the requests that carry it |
| `SessionProofs` | theorems about `Session` |
| `StoreReaders` | `FileStore` with listings and the external index tool on top |
| `StoreReadersProofs` | theorems about `StoreReaders`, on top of `FileStoreProofs` |
| `Router` | one request's way: CORS, routes, middlewares, handler, log |
| `RouterProofs` | theorems about `Router` |
| `Messages` | the page's message classes and their fields (operators only) |
| `Conversions` | how these classes convert, write and read a message (operators only) |
| `Answers` | every call of the page with every outcome, decoded, intercepted and shown; uses `Conversions` |
| `AnswersProofs` | theorems about `Answers`, and the lemmas about `Conversions` that they rest on |
| `MC_...` | the instances that TLC checks, one module for each of the above |

### FileStore

*State and code.* `present` and `disk` are the directories. A file is a sequence
of blocks, each labelled with the package it comes from and with whether it was cut
from the whole package or from what follows its headers; the service only ever
writes block *i* of what it copies at position *i*, so the position tells the
block. `pc`, `op`, `path`, `pkg`, `off` and `got` are the locals of the
goroutines: the system call the request is about to make, what it asks for, and
how far it got. `Requests` are slots: an answered request's slot is taken by the
next one, so behaviours have no bound on the number of requests. `touched`,
`burst` and `torn` are history and no guard reads them.

*Actions.* Parsing the form, `rpm.Read` and the check of the architecture work on
the request's own data and are one action with its arrival (`UploadAccepted`,
`UploadRejected`). `os.Create` is `CreateFile`; each system call of
`uploadFile.Write` is a `WriteBlock` at the request's own offset; the answer is
`UploadStored`. A download is `DownloadOpened` or `DownloadMissing`, a
`ReadBlock` per system call of `os.ReadFile`, and `DownloadSent` when it meets
the end of the file, wherever that is by then. `IoFails` is an error of any of
these calls, `Crash` the end of the process, which its operator starts again; what
was written stays in both cases. An answer arrives (`ok`) or does not (`lost`).

*What `rpm.Read` does to the reader.* `FilesService.FileUploading` gives the
form's reader to `rpm.Read`, which consumes the lead, the signature and the
header, and then gives the same reader to `FilesPath.FileUploading`, whose
`io.ReadAll` finds what is left. The model stores that: `Remainder(p)`, not
`Rpm(p)`. The run `store_whole` shows what follows from it.

*Abstractions.* The three folder names are any set with a directory each; an
upload to a folder without a directory fails in `os.Create`, which is `IoFails`.
`os.ReadFile` opens the file in one action with the arrival: nothing the service
does between the two can be seen. Nobody removes files, because the service has
no operation that does.

### PackageShelf

A shelf has a place per path. Uploads hold a place (`busy`), and while they do it
promises nothing; otherwise it shows a content. Uploads that overlap form a burst,
and what the place shows after it is, position by position, what one upload of the
burst stores there; if one of them died half-way, positions may be missing too.
`FileStore` implements it with: a place is busy while some request has its file
open for writing, and shows the file otherwise.

The mixture is the weak promise it looks like: two different packages uploaded
under one name at once can leave a file that is neither. What the specification
excludes is anything else: old content that shines through, holes in a file whose
uploads all succeeded, a change without an upload.

### RepoView

*State and code.* `tree`, `grid` and `loading` are the reducers of
`W/redux/reducers`. `tree.marked` and `grid.flagged` are the `selected` fields
that live inside the nodes and the rows. A row is known by the request that
brought it, so that the same file listed twice is two objects. `pending` are the
requests of the store's actions, `infos` those of the panel; `page` and `dialog`
are the route and the browser's file dialog.

*Actions.* One per event with all it causes: the dispatches of the handler, the
render, and the panel's effect, which runs when its two properties have changed
(`Render`, `Effect`). Answers come in any order, and on the login page too, where
the store lives on. `GRID_REFRESH_ROWS` sets the selected row to `NormalModule`,
a class that `gridReducer.ts:19` imports from webpack: in the model that is
`Module`, a selected row that is none of the rows, whose name is the class's.
With no folder selected, `props.selectedNodeTree.name` throws and the handler
stops there: `PickFile` then sends nothing and `Download` is disabled.

The store keeps the filter of the search and the component the text of the search
box; the root node shows its leaves or not, and a leaf can only be clicked when it
does (`Reachable`).

*Abstractions.* A listing answers with any set of names, an upload's answer with
the file that was picked. What the toasts say is in `Answers`. Whether the cookie
enables a button is left open; `Session` has the cookie. React's strict mode, which
runs effects twice in development builds, is left out. The root of the tree has
children; in a repository without folders it would be a leaf and could be listed.

### RepoAuth

*State and code.* `GetRepoAuth` returns a pointer to a record that all requests
share and fills it first if it is incomplete. `field`, `groups` and `heap` are
that record: its strings, each with the section it came from, its slice header and
the arrays behind slice headers, with their capacity. `Checks` and `Writes` are
the two orders that matter: the condition looks at server, base and domain, the
assignments go base, domain, server. One action is one read or write that another
goroutine can come between. The insertion sort and the compaction of
`unique.Strings` are modelled to that grain because they work on the shared array
through a pointer to the shared slice: every comparison, every half of a swap and the
last cut read the slice header anew, and meet the slice that another sign-in has stored
by then. `CopyConf` is the dereference in `signIn`; the copy keeps
pointing to the shared array, which is what `Search` then reads.

*Undefined behaviour.* A string is two words, an address and a length. A place that
somebody is about to write (`Racing`: what a swap stores next, what `append` puts
behind the groups) may be read as half of each (`Torn`), and it is read by everyone: by
the comparisons of the sort and of the compaction, by their swaps, by the copy of
`append` into a new array, and by `Search`. A swap and a copy store what they have read,
so half a name can come to stay in the shared array. Two that write one place leave half
a name there too, when each has written one word last (`Writings`). A comparison with
half a name goes either way (`Before`, `NotBefore`), and half a name may be a length
without an address, over which the sign-in panics (`Chokes`). A slice header that is
being written may be read as the pointer of one array with the length of another:
`Fault`. net/http recovers from both panics. An array that nothing points to any more
may be reused, so the set of arrays is finite and behaviours are not bounded; `append`
doubles the capacity of an array that is too short, and more if it needs more.

*What follows from it.* A sign-in that fills the record alone sorts and compacts the list
as a sequential program would. Two that do it at once can lose a group, or leave half a
name that later sign-ins ask for, though they meet nobody, until the process is started
again; of three, one can cut the slice that another has stored to a length behind what
its array holds, and the directory is asked for an empty name. `KnownGroups` says
that halves have no other cause than a sign-in that is filling the record at the time, or
such a clash, and an empty name none but the clash.

*Bound.* `MaxSorted` is 12: as far as that Go's `sort.Sort` is an insertion sort, which
is what is modelled; a longer list of groups is outside the model.

*Files.* The instance has nine kinds of file: which fields each section gives, its
groups, and the sections that are missing.

### Lifecycle

`main` (with `quit`) and `serve` are the two goroutines, `http` the field
`Server.httpServer` that they share, `process` how the process ended. The calls
into net/http are what its documentation and code say: `Shutdown` makes
`ListenAndServe` return at once, and returns itself when no connection is active.
`End` ends every goroutine and cuts off the requests in flight. Signals come at
any time; before `signal.Notify` they kill. A loaded configuration is one that
`NewConfig` does not reject.

### Session

One user and one repository. `jar` is the browser's cookie, which all tabs share;
`req` are requests from when they are sent, with the cookie of that moment, to when
their answer has been dealt with. A cookie is known by the key it is sealed under
and the time its token was made. The token is good for `TTL` from then, the cookie
lives `life` from when the browser gets it, and `securecookie` opens it for
`CodecLife`. The page clears the cookie on any 401 (`Rejected`) whatever it is by
then. A restart may change the session key and loses what was not answered.
`out` and `sole` are history. The state of a page (which button is enabled) is not
kept: a page may have been rendered before the cookie changed, so any button may be
clicked. A repository's missing auth section, which is a 500, is in `RepoAuth`; the
cookie's `Secure` attribute is not modelled.

### StoreReaders

Extends `FileStore` with readers of whole directories. A listing finds every name
that was there when it was opened, and any of those that come while it reads. The
index tool is a process of its own that reads each file once in any order and then
writes the index at once: this is an assumption on the program that `exec_reindex`
names, as weak as one that an index could be made under. It may outlive a service
that is killed. `stored`, `before` and `alone` are history. The instance has a
`VIEW` that leaves out what no property and no guard reads any more: the locals of
an upload that is over.

### Router

A path is the sequence of the words between its slashes. `Routes` is
`configureRouter` in the order in which mux tries the routes and subrouters;
`Candidates` and `Min` are the match. One request is enough because requests share
nothing here. What a handler may do and answer is open within `Effects`, `Errors`
and `Panics`. `wire` is the status that was sent, `code` what `responseWriter`
kept for the log. The regular expression of `StripPrefix` is taken for what it
does: it takes the first word off. `Served` are the statuses of `http.FileServer`.

*The page's calls.* `gridActions.ts:120` and `fileinfo.tsx:47` put the name of a file
into the URL as it is. What becomes of it on the way is given for each name of
`FileNames`, as the record `[name, up, get, info]`: the browser ends the path at a `?` or
a `#`, takes a `\` for a slash and `..` for a step up (`up` words of
`/repo/files/folder` are lost), and `net/url` decodes escapes, so that the word or words
`get` and `info` follow, for a download and for the details; there are none if net/http
refuses the request for a `%` that begins no escape. A name that makes one word *travels
whole* (`GetWhole`, `InfoWhole`). Of other names the details of the file are a download of
another one, or a listing, or nothing; `PageCallsArrive` says that they meet a handler
that changes nothing, and never the file that was meant. `RepoView` and `Answers` take a
file's calls to reach their handlers: they are about names that travel whole.

### Messages and Answers

The generated classes repeat the same code for every field; `Messages` has it once,
driven by the list of a class's fields. A message is a partial function from
numbers to values, the bytes are the sequence of the fields written. `Conversions`
has the methods of a class: the loop of `deserialize` is a function on the positions of
the bytes, each turn (`ReadField`) working on what the one before has made; `serialize`
writes the fields in order (`Written`) and joins them; `fromObject` and `toObject` fill
in fields and defaults. Messages nest once: the handlers put files into the list of
files and folders into the root, and no folder of theirs has folders of its own. So what
is done to the messages in a message (`Each`) needs no recursion.

`Answers` has the calls: what the service answers (`Built`, `Marshalled`, `Error`), what
axios makes of it for each `responseType` (`Received`), what the interceptor does to an
error (`Intercept`), and where the result is shown. A service newer than the page may
have put one field more into the message, or into one of the messages that it holds
(`Newer`). React unmounts the page when a
toast's title is an object (`Rendered`). `Replaced` is another program that puts a
file in the folder, with a name that is not UTF-8 perhaps.

## The runs

| Run | Instance | Question |
|---|---|---|
| `store_shelf` | 2 requests, 2 folders, 3 packages | Does the store implement the shelf and keep the architectures apart, under every failure? |
| `store_races` | 3 requests, 1 file, 2 packages | What do racing uploads leave, and what is a request entitled to that nobody crossed? |
| `store_answers` | 2 requests, 1 file, 2 packages, fairness | Does every request end? |
| `store_whole` | as `store_answers`, safety | Is the package that was sent stored? No: see below. |
| `view_calm` | 2 folders, 2 files, 1 search, 4 store requests, 2 panel requests | When do store, highlights, rows, search box and panel agree? |
| `auth_merge` | 2 sign-ins, 9 files, 3 groups, 3 arrays | Which server, domain and groups does a sign-in use while another fills the record, and when does it panic? |
| `life_stop` | 3 requests, fairness | What does each way to end do to the requests in flight, and does a signal always end the process? |
| `life_log` | as `life_stop`, safety | Does the log line of a failure tell of one? No: see below. |
| `session` | 2 requests, 5 ticks, 2 keys, token of 2, cookies of 1 and 4 | Who passes, and what brings a cookie back or takes it away? |
| `store_readers` | 1 upload at a time, 2 files, 2 readers | What must a listing hold, and when can the index be relied on? |
| `request` | all paths of up to 5 words, 3 methods, 3 repositories, names of files of every kind | Which handler and guards does a request meet, what does the log say, and where do the page's calls go? |
| `answers_shown` | 2 calls under way, 2 names, 3 packages, 3 outputs | What does the page read out of an answer, and what does it tell the user? |

**Bounds of the file store.** Three blocks are the headers and a payload of two:
the shortest file in which a write can be interrupted in the middle, one reader
can meet the end of a short version and another go on into a long one, and a hole
can lie before written blocks. The packages are a long one, a short one and one
that is all headers, so that an upload stores two, one or no blocks; two of them
belong to one folder and one to the other. Two requests make every pair of
operations meet; `store_races` has three because a burst can then be joined while
its first upload is over and its second is not. Requests are interchangeable and
symmetric in the safety runs, not in `store_answers`.

**Bounds of the view.** Two folders and two files make every listing, upload and
selection one of the same or of another folder. Of the four store requests the
first is always the load of the folders; three more let a listing, an upload and a
second listing, or a second load of the folders, overlap. Two panel requests can
be answered in either order. Deadlock is checked: `GoLogin` leaves the request that
the way back needs.

**Bounds of the sign-ins.** Two sign-ins make every pair of accesses to the shared
record meet. Three groups give the sort a swap and the compaction a duplicate; two
groups of its own and one of the default's give `append` a new array, and a list
that was compacted leaves room for the next append to write in place. That is enough for
every cause of half a name: a swap of the sort or of the compaction that is read by
another's, by `append` and by `Search`, and two swaps that store into one place. The run
has 2,314,112 distinct states.

**Bounds of the lifecycle.** Requests are independent of each other, so three
slots, each reused, show one cut, one answered and one not sent.

**Bounds of the session.** The lifetimes are chosen so that a cookie can die before
its token (1 before 2), after it but before `securecookie` refuses it, and after
that (2, 3 and 4); five ticks let one of each pass with a second sign-in on the way.
Two keys are one change of key. Two slots let a sign-in meet another, a guarded
request or a late answer of either.

**Bounds of the readers.** Two readers are two reindexings, or one and a listing;
two files are one that is there and one that comes, or one read and one not read
yet. Uploads that overlap each other are the subject of `store_races`.

**Bounds of the router and the answers.** The words of a path are those of the routes
and the name of a folder, so that files with the name of any route are among the
paths; no route has more than five words. The names of files are, besides these, one with
a `?`, a `#`, an escaped slash, a backslash, an escape of a letter, steps up of one, two
and three words, and a `%` that is refused; whatever path they make is among the paths
of the run, which has 416,903 distinct states. `CHECK_DEADLOCK FALSE` in this run
only: a request that was answered is over. The packages of `answers_shown` have
between them a text, a number, lists with and without duplicates, missing fields and
one that is not UTF-8. Two calls under way let the answers come in either order, and
a toast come while the login form is shown, to be drawn later. The number of calls is bounded, not what the user does between.

**Fairness.** `FileStore!FairSpec` has weak fairness for the steps of each request
(`Proceeds`): the Go scheduler runs every goroutine, and system calls on local
files return. It promises nothing of arrivals, failures or crashes. That suffices
for `EveryRequestAnswered` because the handlers wait for nobody: a download that is
overtaken by uploads reads at most as many blocks as files have, and an upload
writes what it has in memory. Files of bounded length are part of that statement;
an upload is what the client gets through within the server's `ReadTimeout`.

`Lifecycle!FairSpec` has weak fairness for each of the two goroutines and for the
answer to each request, because Go runs its goroutines and the handlers return: the
one above ends every upload and download; that a sign-in and a reindexing end is an
assumption on the directory server and the index tool. Nothing is assumed of signals, failures or clients. Fairness per
goroutine, not per action: a goroutine that has a next step takes one.

**What the properties show.** `FolderArch`, `SettledWhole`, `SoleUploadStored` and
`UntouchedDownload` hold under crashes and I/O errors too. `SpinnerHasCause` is
what remains of "the spinner shows that something is under way": the flag is not a
counter and the first answer puts it out. `GridShowsFolder`,
`MarkedIsSelected` and `PanelMatchesSelection` each name, as a history variable,
the one situation in which the code loses the agreement (a request of another
folder that crossed the last listing, a failed load of the folders with a folder
selected, a panel request that was overtaken), and show that it is the only one.
`BoxShowsFilter` does so for the search box, which comes back empty from the login
form while the store still filters: until a node is selected.

In `auth_merge` the record is filled without a lock, and yet `OneServer` holds: the
server is checked first and written last, so whoever sees the new server sees the
new domain. Its exception is a file that names a server of its own but is otherwise
incomplete: there a sign-in can take the repository's server with the default's
domain. `SeenMerged` and `SettledMerge` say that the groups are right as long as no
two sign-ins fill the record at once; when they do, groups can be lost until the next
start, and a sign-in that comes between the write of the server and that of
the groups asks for the repository's own groups only. `KnownGroups` and
`PanicsExplained` bound what such a clash can do, half names in the array among it.

In `life_stop`, `CutExplained` names the two ways in which a request in flight is cut
off by an orderly stop or a failure, `CleanExit` says that status 0 is never one of
them, and `StopEnds` that a signal is never lost, also when it comes before `main`
waits for one.

In `session`, `PassesSignedIn` relates who passes to who signed in, under any delay,
replay by another tab, and change of key; `LoggedOutStays` and `SoleCookieStays` say
which interleavings with late answers are harmless: all but a sign-in under way when
the user logs out, and requests that were sent without the cookie they remove.

`UploadedIsListed` and `IndexFresh` are what remains true of readers without locks.
`WritesGuarded` and `LogTellsStatus` hold for every path. `PageCallsArrive` says that a
file named like a word of a route is found all the same, and what the page's habit of not
escaping names comes to: nothing worse than a wrong read. `BlankExplained` leaves one cause for a page
that goes blank: an index tool that prints a JSON object. `ErrorsTold` leaves one
failure untold: that of a download, whose `Blob` the interceptor turns into `{}`.

**The findings.** `store_whole` checks what the user interface says of an upload
answered with success, "Success file uploading"
(`W/redux/actions/gridActions.ts:87`): one upload, alone, after which the file in
the repository is not the package that was sent but its payload.

`life_log` checks what the log line of `cmd/main.go:51` says, "error occured while
running http server": it is logged at an orderly stop, where `ListenAndServe` has
returned `ErrServerClosed`. The same step then ends the process, while `Shutdown`
is waiting for the requests in flight.

Each property has a mutant in `PROJECT.json`: a variant of one action, defined
just before the action it varies and commented as such, under which the property
fails.

## The proofs

All theorems hold for any values of the constants that satisfy the named
assumptions. None of the safety properties is inductive alone: each `...Proofs`
module proves an invariant that is, `IInv` in most of them, with `Init => IInv` and one
lemma per action, or per group of actions that disturb the same conjuncts, for
`IInv /\ [Next]_vars => IInv'`. `RepoAuthProofs` builds its invariant in four layers,
each of which may use the ones before. TLC has checked every one of these invariants on
the instance of the module's run before it was proved.

Together the theorems state every invariant that the runs check.

### FileStoreProofs

| Theorem | Statement |
|---|---|
| `TypeCorrect` | `Spec => []TypeOK` |
| `InductiveInvariant` | `Spec => []IInv` |
| `ArchitecturesKeptApart` | `Spec => []FolderArch` |
| `UploadsSettle` | `Spec => []SettledWhole` |
| `LoneUploadStored` | `Spec => []SoleUploadStored` |
| `LoneDownloadExact` | `Spec => []UntouchedDownload` |
| `StoreImplementsShelf` | `Spec => ImplementsShelf` |

*Assumptions.* `BlocksAssumption`: every package's payload is a number of blocks
below `MaxBlocks`, which only says that the model's files are long enough to hold
the packages. `NothingAssumption`: the mark of a missing block is no block. Nothing
is assumed of `Arch`.

*The argument.* `IInv` adds:

* `LocalsOK`: what a request's step says of its locals. An upload that has passed
  the check carries a package of its folder's architecture all the way to its
  writes, which is what `FolderArch` rests on.
* `BurstInv`: while a burst lasts, a position holds what a package of the burst has
  there, or it is empty with a writer that has still to come past it. When the last
  writer goes, the second case is gone and `SettledWhole` is left. It survives an
  `os.Create` in mid-burst, because the new writer starts at offset 0, before
  every position.
* `PiecesInv`: a file being written holds only blocks of its burst and holes,
  whatever died there. It gives the refinement its `Settle` and `Tear`.
* `SoleInv`, `ReadInv`: a lone upload has filled its file up to its offset and no
  further; a lone download has read the file up to its offset.

The proof that a step keeps `IInv` goes conjunct by conjunct, with one step per
action under each; lemmas say first which actions change the disk and how
(`OnlyWritersChangeDisk`, `CreateEmpties`, `WriteFillsOne`). The refinement maps
`CreateFile` to `Open`, the end of a burst's last upload to `Settle` or `Tear`, an
I/O error of a writer that leaves others behind and a crash to `Tear`, and the rest
to stutters.

### LifecycleProofs

| Theorem | Statement |
|---|---|
| `InductiveInvariant` | `Spec => []IInv` |
| `TypeCorrect` | `Spec => []TypeOK` |
| `SuccessIsClean` | `Spec => []CleanExit` |
| `CutsExplained` | `Spec => []CutExplained` |

No assumption. `PlacesOK` ties the two goroutines to the field they share: the field
is nil until the goroutine has assigned it, and then nothing has been accepted.
`CausesOK` says what must have happened for a goroutine to stand where it stands.
`UpWhole`: nothing is cut off in a process that runs.

### SessionProofs

| Theorem | Statement |
|---|---|
| `InductiveInvariant` | `Spec => []IInv` |
| `TypeCorrect` | `Spec => []TypeOK` |
| `PassersSignedIn` | `Spec => []PassesSignedIn` |
| `LogoutHolds` | `Spec => []LoggedOutStays` |
| `SoleCookieKept` | `Spec => []SoleCookieStays` |

*Assumption.* `ClockAssumption`: times are natural numbers, there is a key, and a
session life is not 0.

*The argument.* Every cookie there is, in the browser, with a request or on its way
back, was granted: there has been a sign-in under its key, and its token is no younger
than the last one (`CookiesGranted`). So a token that is good proves a
sign-in within `TTL`. After a logout that no sign-in crossed, no request can bring a
cookie (`OutOK`). While a cookie is the sole one, every request under way carries it,
so a 401 among their answers says that its token is over, and the browser keeps it
for `life` (`SoleOK`).

### RepoViewProofs

| Theorem | Statement |
|---|---|
| `InductiveInvariant` | `Spec => []IInv` |
| `TypeCorrect` | `Spec => []TypeOK` |
| `SpinnerHasItsCause` | `Spec => []SpinnerHasCause` |
| `FlagsMatch` | `Spec => []FlagMatchesRow` |
| `NodeMarked` | `Spec => []MarkedIsSelected` |
| `BoxAgrees` | `Spec => []BoxShowsFilter` |
| `GridIsOfFolder` | `Spec => []GridShowsFolder` |
| `PanelIsOfFile` | `Spec => []PanelMatchesSelection` |

*Assumptions.* `BoundsAssumption`, `MatchesAssumption`; `NamesAssumption`: the nodes,
the rows, the class `NormalModule` and null are different things.

*The argument.* `CalmOK` adds to `GridShowsFolder` the requests that could disturb it:
in a calm view all pending listings and uploads are of the selected folder. `PanelOK`
does it for the panel: all its requests ask for the selection. `DialogOK`: a file
dialog was opened for a leaf that an answer can only have deselected. The other
conjuncts are the properties themselves. One lemma per reducer says what it does to
row, rows and flags; each event is then a few cases.

### RepoAuthProofs

| Theorem | Statement |
|---|---|
| `InductiveInvariant` | `Spec => []IInv` |
| `MemoryInvariant` | `Spec => []Memory` |
| `SteadyInvariant` | `Spec => []Steady` |
| `MergingInvariant` | `Spec => []Merging` |
| `TypeCorrect` | `Spec => []TypeOK` |
| `ServerAndDomain` | `Spec => []OneServer` |
| `AsksForKnown` | `Spec => []KnownGroups` |
| `AsksForMeant` | `Spec => []SeenMerged` |
| `SettlesMerged` | `Spec => []SettledMerge` |
| `PanicsOnlySo` | `Spec => []PanicsExplained` |

*Assumptions.* `SignInsAssumption`: finitely many slots, so that they can be counted.
`GroupsAssumption`: groups are numbers in the order of the strings, 0 is the empty
string of a fresh array and `Torn` none of them. `ArraysAssumption`: the arrays that
`append` allocates are not those of the file. `FilesAssumption`: a section has a list of
groups, and gives some of the three fields or is missing.

*The argument.* Four invariants, each on top of the ones before.

* `IInv`, the fields. `Ordered`: each field of the record is still the repository's own
  or already the default's; if the server is the default's, the domain is; if any field
  is the default's, all are or somebody is still writing. `Knows(i)`: what sign-in `i`
  has established by the order of its checks and writes; it stays true because every
  write only turns a field into the default's. `Met`: who is active next to one that
  fills the record is in `crossed`. So a sign-in that copies server and domain of
  different sections copies the repository's own server with the default's domain
  while somebody writes, which is the exception in `OneServer`. Only the actions that
  touch `field`, `step` or `conf` need a proof of their own; the others are moves along
  `Moves` (`MovedActions`).
* `Memory`, for any overlap of sign-ins: a slice is never longer than its array, the
  copy that a sign-in works with stays within its array because arrays that are held
  are not reused, and the indices of a sort fit the length it started with. Of the values
  it says no more than `Words`: groups of the file, empty, or halves.
* `Steady`, who is alone. While nobody fills the record at the same time as another
  (`~clash`) there is one at most (`Sole`), and the slice it finds through the pointer is
  the one it began with (`Current`). `Untorn`: until then the arrays and the registers hold
  `Wholes` only. This is not for want of races, since `Search` may always meet a swap; it
  is because who sorts, compacts or copies is the only one to write. Nobody else's place is
  racing (`Calm`), so each reads what is there (`ReadsWhole`), and what a swap is about to
  overwrite is what it has read (`Untouched`), so its store is whole (`Exact`). With it,
  `KnownGroups` follows: `Search` asks for half a name either because a place is racing,
  and then it is crossed, or because the array holds one, and then two have clashed. A
  `Chokes` has the same two causes. A `Fault` needs registers that do not fit the slice,
  so it needs a clash or another that writes: with the case of the missing default
  section (`Bare`) this is `PanicsExplained`.
* `Merging`, what is in the list. `Sorting(i)` says, for every place of
  `unique.Strings`, what the list is: sorted up to one element that is sinking
  (`Comparing`), with one value held in a register while a swap is half done
  (`HalfSwapped`), sorted (`InPlace`), with a front part that has each value once
  (`Choosing`), and so on, and that no group of either section is lost. That each
  turn of the loops keeps this is a lemma that needs no bound on the length (`InsertDone`,
  `InsertNext`, `SwapBegun`, `SwapEnded`, `DuplicateSkipped`, `MoveChosen`, `MoveBegun`,
  `MoveEnded`, `ChooseNext`): the loop invariants take the place of an induction. When
  nobody fills the record, it is as loaded (`Fresh`) or filled (`Filled`), which is
  `SettledMerge`; a second sign-in may fill a filled record again, which the loop
  invariants allow, since they never ask that the list begins unsorted.

### StoreReadersProofs

| Theorem | Statement |
|---|---|
| `ReadersInvariant` | `ReadersSpec => []ReadersInv` |
| `ReadersTypeCorrect` | `ReadersSpec => []ReadersTypeOK` |
| `AnsweredIsListed` | `ReadersSpec => []UploadedIsListed` |
| `LoneIndexFresh` | `ReadersSpec => []IndexFresh` |
| `ReadersRefineStore` | `ReadersSpec => Spec` |

*Assumption.* `MarksAssumption`: the marks of a file that is not there and of one that is
not read yet are no contents.

*The argument.* Readers leave the variables of the file store alone, so every step of the
composition is one of `FileStore` or stutters on it: all that `FileStoreProofs` shows
holds under readers too. `OpenPresent` and the lemma `PresentGrows`: files
are never removed, so what a listing must find stays findable (`ListingInv`).
`FreshInv`: while there is a reindexing that nothing came across, *all* tools that run
have read files that are still as they were read. That is stronger than `IndexFresh`
asks, and needed: a tool that is started after it, from readings of its own, may write the
index over.

### RouterProofs

| Theorem | Statement |
|---|---|
| `Invariant` | `Spec => []IInv` |
| `TypeCorrect` | `Spec => []TypeOK` |
| `LogIsTrue` | `Spec => []LogTellsStatus` |
| `OnlyGuardedWrites` | `Spec => []WritesGuarded` |
| `CallsArrive` | `Spec => []PageCallsArrive` |

*Assumptions.* `EntriesAssumption`: hollow entries of the configuration are entries.
`WordsAssumption`: paths have a bound, which may be any, and no name is empty.
`FileNamesAssumption`: a name is not empty and becomes words, after at most three steps
up; if it is not the one word that it should be, it is none of the words at all, because a
name that is cut, split or decoded is not the same any more.

*The argument.* `RouteList` writes the table of routes out, and `Fitting` says by the
number and the words of a path which of them fit it. `Met`: a request has met the first
of these. `Guard`: it is behind the guards of that route, with a cookie that was good if
the route asks for one. `Progress` ties status and log line to the place where it
stands. For `CallsArrive`, each call of the page is followed through the table
(`FolderCallsFit`, and `GetFits` and `InfoFits` for names that travel whole); of the
others the words are computed (`FoundWords`), and the table has no guarded route for a
GET (`OddCallsRead`).

### AnswersProofs

| Theorem | Statement |
|---|---|
| `InductiveInvariant` | `Spec => []IInv` |
| `TypeCorrect` | `Spec => []TypeOK` |
| `BlankHasCause` | `Spec => []BlankExplained` |
| `FailuresTold` | `Spec => []ErrorsTold` |
| `DecodesWhatWasSent` | `Spec => []ReadIsDecoded` |
| `ReadsWhatWasSent` | `Spec => []ReadsAsSent` |
| `RoundTrips` | `Spec => []ReadRoundTrip` |

*Assumptions.* `CallsAssumption`: the two bounds are numbers. `NamesAssumption`: a
directory holds finitely many names. `PackagesAssumption`: what is read from a package is
a message of the class `RPM`, whose lists are sequences. Nothing is assumed of the
conversions.

*The argument, the page.* `KeysOK`: a key is a call's while that is under way and one
toast's after it, which is why toasts keep apart. `AnswerOK`: an answer with success
holds a message that the handler of this kind of call builds, of the class that the page
will read it as, in some encoding with at most one field more, in it or inside it. `TitleOK`: the only object
among the titles is the parsed output of a reindexing, and an error's title is the text
of its body. `ReadIsDecoded` is then what calls, answers and page contribute to
`ReadsAsSent`; the rest is about one message at a time.

*The argument, the conversions.* They are loops over sequences of any length. The
library's induction theorems take an operator as a parameter, so the module has one of
its own about sets of naturals (`Induction`): 0 is in the set, and with each member the
next, so it is all of them, because otherwise there would be a least one missing
(`WFMin`). With it,

* the function that the loop of `deserialize` computes exists, for any number of fields,
  and each of its values follows from the one before (`ReadingExists`,
  `ReadingSteps`), and so do the joins of `serialize` (`FlatExists`, `FlatSteps`);
* two sequences of fields that are joined are read one after the other (`ReadBoth`), so
  a list comes back element by element (`ListReads`) and a message field by field
  (`KeptNext`, `WriteReads`), as `Kept`: without the fields that are not written;
* a field that no class knows changes nothing, wherever it was put in (`WiderReads`), nor
  does one in a message inside: the message around it holds a wire that is read the same
  (`Seals`, `WiderSeals`, `SealsRead`);
* what is left out has the value that its getter gives anyway (`KeptOK`), and the
  messages in a message do not disturb this (`SealedSeals`, `DeserializeOK`, `CopyOK`), so
  the message that is read says what the sent one said, also after another round
  through the bytes or through the plain object (`Faithful`).

`SendableOK` shows that every message a handler builds is one that `Faithful` speaks of:
lists of any number of names in any order, and any package.

### Only model-checked

Liveness, as fairness is out of the prover's reach: `EveryRequestAnswered`, `StopEnds`.

## Not modelled

* `internal/config`: reading the file apart from what it rejects, the defaults, and
  the functions that join paths (`GetRepoVarPath` and its like), which are pure
  string functions; the flag `-version` of `cmd/main.go`.
* `_braceIndices` and the regular expression of `StripPrefix`: text.
* `repo_windows.go`: as `repo_unix.go`, with another shell.
* The texts and validity marks of the login form, wording and layout of the page, the
  text of the index page's template; sticky toasts and `TOASTS_CLEAR`, which the
  page never uses; React's strict mode.
* A list of more than twelve groups, which `sort.Sort` does not sort by insertion, and the
  page's behaviour for a file whose name does not travel whole beyond where its calls go.
* A number beyond 2^53 in a message, which JavaScript would round: sizes of packages
  are far below.
* What is generated by `protoc-gen-go`, and the libraries gorilla/mux, rs/cors,
  gorilla/sessions, go-ldap, axios and redux, beyond what the code needs of them; the
  map in `PROJECT.json` marks definitions that stand for these as external.
* The build: `www/scripts`, `www/config`, `Dockerfile`, the sample configuration.
* `tmp/*.go_`, which no build compiles.

## Plan

1. The `Session` of a browser with two repositories, whose cookies differ in name, and
   its proofs for any number of repositories.
2. `RepoAuth`: that two sign-ins alone never ask for an empty name, which TLC finds so on
   the instance; `KnownGroups` allows it to any that clash.
3. `RepoView` and `Answers` share the list of toasts: the composition of the two.
