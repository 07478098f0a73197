------------------------------- MODULE Router -------------------------------
(***************************************************************************)
(* The way of one request through the service: the CORS layer, the routes  *)
(* of gorilla/mux, the middlewares, the handler and the log.  Requests     *)
(* share nothing here, so one is enough.  What it asks for, what its       *)
(* cookie is worth and what fails on the way is open.                      *)
(*                                                                         *)
(* A path is the sequence of what stands between its slashes: /kes is      *)
(* <<"kes">> and /kes/ is <<"kes", Empty>>.                                *)
(***************************************************************************)
EXTENDS Naturals, Sequences, SequencesExt, FiniteSetsExt

CONSTANTS
    Entries,   \* names under repositories.entries
    Hollow,    \* those with nothing after the colon: their *Repo is nil
    Methods,
    Repos,     \* names of repositories that a client may ask for
    Words,     \* what may stand between later slashes, not empty
    MaxDepth,  \* bound on the length of a path
    FileNames  \* names that the grid shows, each with what becomes of it in
               \* the paths of the page's calls: [name, up, get, info]

Empty == ""        \* what stands between two slashes that touch

\* The page puts a name into its URLs as it is.  A name of which that makes one
\* word travels whole; in others the browser ends the path at a ? or a #, takes
\* a \ for a slash and dots for steps up, and net/url decodes escapes.  x.up is
\* the number of words that steps up take from /repo/files/folder; x.get and
\* x.info are the words that follow then, of which there are none if net/http
\* refuses the request for a % that begins no escape.
GetWhole(x) == x.up = 0 /\ x.get = <<x.name>>
InfoWhole(x) == x.up = 0 /\ x.info = <<x.name, "info">>

ASSUME EntriesAssumption == Hollow \subseteq Entries
ASSUME WordsAssumption == MaxDepth \in Nat \ {0} /\ Empty \notin Repos \cup Words
ASSUME FileNamesAssumption ==
    \A x \in FileNames :
        /\ x.name # Empty /\ x.up \in 0..3
        /\ {x.get, x.info} \subseteq Seq(Repos \cup Words \cup {Empty})
        /\ GetWhole(x) \/ x.name \notin ToSet(x.get)
        /\ InfoWhole(x) \/ x.name \notin ToSet(x.info)

VARIABLES
    method, path,  \* the request
    preflight,     \* it is an OPTIONS with Access-Control-Request-Method
    cookie,        \* what authenticate finds its cookie worth
    at,            \* where the request stands
    meets,         \* the route it was given
    did,           \* what it changed in the repository
    wire,          \* the status that was sent; 0 is none
    code,          \* responseWriter.code
    log,           \* "none", "started", or the level of "completed with"
    broke          \* the answer broke off

request == <<method, path, preflight>>
vars == <<request, cookie, at, meets, did, wire, code, log, broke>>

Cookies == {"broken", "absent", "expired", "good"}

\* What http.FileServer may answer with.
Served == {200, 206, 301, 304, 403, 404, 412, 416, 500}

----------------------------------------------------------------------------
(* configureRouter.                                                        *)

AnyWord == "*"     \* of a template: {repoName}, {folderId}, {fileId}

Route(handler, methods, template, guarded) ==
    [handler |-> handler, methods |-> methods, template |-> template,
     guarded |-> guarded]

\* The subrouters in the order in which mux tries them.
AuthRoutes ==
    << Route("reindex", {"POST"}, <<AnyWord, "files", "reindex">>, TRUE),
       Route("upload", {"POST"}, <<AnyWord, "files", AnyWord>>, TRUE) >>
FilesRoutes ==
    << Route("list", Methods, <<AnyWord, "files", AnyWord>>, FALSE),
       Route("download", Methods, <<AnyWord, "files", AnyWord, AnyWord>>, FALSE),
       Route("info", Methods, <<AnyWord, "files", AnyWord, AnyWord, "info">>, FALSE) >>
FirstRoutes ==
    << Route("signIn", {"POST"}, <<AnyWord, "sign-in">>, FALSE),
       Route("folders", Methods, <<AnyWord, "folders">>, FALSE) >>
LastRoutes ==
    << Route("index", Methods, <<AnyWord, Empty>>, FALSE),
       Route("static", Methods, <<AnyWord>>, FALSE) >>

\* Variant: the routes without a guard are tried before the guarded ones.
RoutesOpenFirst == FirstRoutes \o FilesRoutes \o AuthRoutes \o LastRoutes

Routes == FirstRoutes \o AuthRoutes \o FilesRoutes \o LastRoutes

\* [^/]+ in the place of a variable.
FitsWord(word, piece) == IF piece = AnyWord THEN word # Empty ELSE word = piece

\* The last route is a PathPrefix: anything behind "/{repoName}/".
Fits(route, m, p) ==
    /\ m \in route.methods
    /\ IF route.handler = "static" THEN Len(p) > 1 /\ p[1] # Empty
       ELSE /\ Len(p) = Len(route.template)
            /\ \A i \in 1..Len(p) : FitsWord(p[i], route.template[i])

\* mux passes over a route whose method does not fit, and forgets that it did
\* so when a later one fits.
Candidates(m, p) == {i \in 1..Len(Routes) : Fits(Routes[i], m, p)}

\* mux sends a client that asks for a path with an empty word or with steps of
\* dots in it to the clean one.
Clean(p) ==
    /\ \A i \in 1..(Len(p) - 1) : p[i] # Empty
    /\ \A i \in 1..Len(p) : p[i] \notin {".", ".."}

None == Route("none", {}, <<>>, FALSE)

----------------------------------------------------------------------------
Init ==
    /\ method \in Methods
    /\ \E n \in 1..MaxDepth :
          \E r \in Repos \cup {Empty}, rest \in [1..(n - 1) -> Words \cup {Empty}] :
              path = <<r>> \o rest
    /\ preflight \in IF method = "OPTIONS" THEN BOOLEAN ELSE {FALSE}
    /\ cookie = "unread"
    /\ at = "cors" /\ meets = None /\ did = "nothing"
    /\ wire = 0 /\ code = 200 /\ log = "none" /\ broke = FALSE

TypeOK ==
    /\ method \in Methods /\ cookie \in Cookies \cup {"unread"}
    /\ preflight \in BOOLEAN /\ broke \in BOOLEAN
    /\ path \in Seq(Repos \cup Words \cup {Empty}) /\ Len(path) \in 1..MaxDepth
    /\ at \in {"cors", "route", "repo", "auth", "handler", "write", "end",
               "done", "dropped"}
    /\ meets \in ToSet(Routes) \cup {None}
    /\ at \in {"repo", "auth", "handler", "write", "end"} =>
          meets \in ToSet(Routes) /\ log = "started"
    /\ did \in {"nothing", "upload", "reindex"}
    /\ wire \in {0, 204, 301, 400, 401, 404} \cup Served
    /\ code \in {400, 401} \cup Served
    /\ log \in {"none", "started", "info", "warning", "error"}
    /\ at = "handler" => wire = 0
    /\ at \in {"end", "done"} => wire # 0

\* The answer is sent by one who does not see responseWriter.
Answer(status) ==
    /\ at' = "done" /\ wire' = status
    /\ UNCHANGED <<request, cookie, meets, did, code, log, broke>>

\* Variant: responseWriter does not keep the status.
ReplyUnrecorded(status) ==
    /\ at' = "end" /\ wire' = status
    /\ UNCHANGED <<request, meets, code, log, broke>>

\* WriteHeader of responseWriter.
Reply(status) ==
    /\ at' = "end" /\ wire' = status /\ code' = status
    /\ UNCHANGED <<request, meets, log, broke>>

Goto(place) ==
    /\ at' = place
    /\ UNCHANGED <<request, cookie, meets, did, wire, code, log, broke>>

\* cors.Handler answers a preflight by itself.
Preflight == at = "cors" /\ preflight /\ Answer(204)
ActualRequest == at = "cors" /\ ~preflight /\ Goto("route")

Redirect == at = "route" /\ ~Clean(path) /\ Answer(301)

\* No route: the middlewares, the log among them, do not run.
NotFound ==
    at = "route" /\ Clean(path) /\ Candidates(method, path) = {} /\ Answer(404)

\* setRequestID and logRequest, which wraps the writer.
Enter ==
    /\ at = "route" /\ Clean(path) /\ Candidates(method, path) # {}
    /\ meets' = Routes[Min(Candidates(method, path))]
    /\ at' = "repo" /\ log' = "started" /\ code' = 200
    /\ UNCHANGED <<request, cookie, did, wire, broke>>

\* setRequestChekRepo.
UnknownRepo == at = "repo" /\ path[1] \notin Entries /\ Reply(400) /\ UNCHANGED <<cookie, did>>
KnownRepo ==
    /\ at = "repo" /\ path[1] \in Entries
    /\ Goto(IF meets.guarded THEN "auth" ELSE "handler")

\* authenticate looks at the cookie: securecookie cannot read it, there is no
\* token in it, or one that is not valid.
Finds(what) == at = "auth" /\ cookie = "unread" /\ cookie' = what

\* Variant: no return after the answer.
NotAuthenticatedGoesOn(what) ==
    /\ Finds(what)
    /\ at' = "handler" /\ code' = IF what = "broken" THEN 500 ELSE 401
    /\ UNCHANGED <<request, meets, did, wire, log, broke>>

NotAuthenticated(what) ==
    /\ Finds(what)
    /\ Reply(IF what = "broken" THEN 500 ELSE 401)
    /\ UNCHANGED did

Authenticated ==
    /\ Finds("good")
    /\ at' = "handler"
    /\ UNCHANGED <<request, meets, did, wire, code, log, broke>>

----------------------------------------------------------------------------
(* Handlers.                                                               *)

\* What a handler may have done by the time it fails or writes.
Effects(handler) ==
    IF handler \in {"upload", "reindex"} THEN {"nothing", handler} ELSE {"nothing"}

\* A nil *Repo, an auth section without a default to complete it, or the nil
\* template of an index.html that is not there: net/http recovers the panic and
\* closes the connection.
Panics ==
    /\ at = "handler"
    /\ \/ meets.handler \in {"index", "signIn"}
       \/ path[1] \in Hollow /\ meets.handler # "static"
    /\ broke' = TRUE /\ at' = "dropped"
    /\ UNCHANGED <<request, cookie, meets, did, wire, code, log>>

\* What a handler may answer with before it comes to the *Repo, and after.
Errors(handler, hollow) ==
    CASE handler = "signIn" -> IF hollow THEN {400, 500} ELSE {400, 401, 500}
      [] handler = "index" -> {500}
      [] handler = "static" -> {}
      [] OTHER -> IF hollow THEN {} ELSE {500}

\* Handler.error, before anything was written.
HandlerFails ==
    /\ at = "handler"
    /\ \E status \in Errors(meets.handler, path[1] \in Hollow) : Reply(status)
    /\ did' \in Effects(meets.handler)
    /\ UNCHANGED cookie

\* Variant: the header of the answer is written before the work is done.
HandlerWritesFirst ==
    /\ at = "handler" /\ meets.handler # "static"
    /\ at' = "handler" /\ wire' = 200
    /\ UNCHANGED <<request, cookie, meets, did, code, log, broke>>

\* The work is done and the first byte is on its way: the status is 200 now.
HandlerWrites ==
    /\ at = "handler" /\ meets.handler # "static"
    /\ path[1] \in Hollow => meets.handler = "index"
    /\ at' = "write" /\ wire' = 200
    /\ did' = IF meets.handler \in {"upload", "reindex"} THEN meets.handler ELSE did
    /\ UNCHANGED <<request, cookie, meets, code, log, broke>>

Written == at = "write" /\ Goto("end")

\* Handler.error, after the first byte (a broken connection, a template that
\* fails half-way): it can only change what is logged.
WriteFails ==
    /\ at = "write" /\ meets.handler # "signIn"
    /\ code' = 500 /\ broke' = TRUE /\ at' = "end"
    /\ UNCHANGED <<request, cookie, meets, did, wire, log>>

\* http.FileServer, asked for what is left when StripPrefix has taken the first
\* word away; the route lets nothing through that has none.
StaticServed ==
    /\ at = "handler" /\ meets.handler = "static"
    /\ \E status \in Served : Reply(status)
    /\ UNCHANGED <<cookie, did>>

\* Of the directories of a repository, the folders that the page is told of.
NoSkip == {"noarch", "x86_64", "x86_64-i586"}
Children(directories) == directories \cap NoSkip

Level(c) == IF c >= 500 THEN "error" ELSE IF c >= 400 THEN "warning" ELSE "info"

\* logRequest, when the handlers below it have returned.
Completed ==
    /\ at = "end"
    /\ at' = "done" /\ log' = Level(code)
    /\ UNCHANGED <<request, cookie, meets, did, wire, code, broke>>

Next ==
    \/ Preflight \/ ActualRequest \/ Redirect \/ NotFound \/ Enter
    \/ UnknownRepo \/ KnownRepo \/ Authenticated
    \/ \E what \in Cookies \ {"good"} : NotAuthenticated(what)
    \/ Panics \/ HandlerFails \/ HandlerWrites \/ Written \/ WriteFails
    \/ StaticServed \/ Completed

Spec == Init /\ [][Next]_vars

----------------------------------------------------------------------------
(* Properties.                                                             *)

\* Nothing in a repository changes but by a POST with a good token for it, of a
\* repository that is configured; and what runs the index tool is one path only,
\* which therefore never stores a file.
WritesGuarded ==
    did # "nothing" =>
        /\ method = "POST" /\ cookie = "good" /\ path[1] \in Entries
        /\ Len(path) = 3 /\ path[2] = "files"
        /\ did = "reindex" <=> path[3] = "reindex"

\* What the log says of a completed request is what the client was sent, except
\* for an answer that broke off half-way; a request whose handler panicked
\* is not logged as completed.
LogTellsStatus ==
    /\ at = "done" /\ log # "none" =>
          IF broke THEN log = "error" /\ wire = 200
          ELSE log = Level(wire) /\ code = wire
    /\ at = "dropped" => log = "started" /\ wire = 0

\* The calls the page makes of a repository r for a folder f that the tree
\* shows, and the handler each one is meant for.
FolderCalls(r, f) ==
    { [method |-> "GET", path |-> <<r, Empty>>, meant |-> "index"],
      [method |-> "POST", path |-> <<r, "sign-in">>, meant |-> "signIn"],
      [method |-> "GET", path |-> <<r, "folders">>, meant |-> "folders"],
      [method |-> "GET", path |-> <<r, "files", f>>, meant |-> "list"],
      [method |-> "POST", path |-> <<r, "files", f>>, meant |-> "upload"],
      [method |-> "POST", path |-> <<r, "files", "reindex">>, meant |-> "reindex"] }

\* Those for a file x that the grid shows, by a GET.
Found(r, f, x, words) == SubSeq(<<r, "files", f>>, 1, 3 - x.up) \o words
FileCalls(r, f, x) ==
    { [path |-> Found(r, f, x, x.get), meant |-> "download", whole |-> GetWhole(x)],
      [path |-> Found(r, f, x, x.info), meant |-> "info", whole |-> InfoWhole(x)] }

OnlyReads == {"folders", "list", "download", "info", "index", "static"}

\* Every call of the page comes to the handler it is meant for, also if a file
\* is called like a word of a route, as long as the file's name travels whole:
\* no name of a folder that the page can show is a word of a route.  Under a
\* name that does not, the page asks for something else: another file or none,
\* of a handler that may be another, but one that changes nothing.
PageCallsArrive ==
    meets # None =>
        \A r \in Repos, f \in Children(Words) :
            /\ \A call \in FolderCalls(r, f) :
                  method = call.method /\ path = call.path => meets.handler = call.meant
            /\ \A x \in {y \in FileNames : y.get # <<>>} : \A call \in FileCalls(r, f, x) :
                  method = "GET" /\ path = call.path =>
                      IF call.whole
                      THEN meets.handler = call.meant /\ path[4] = x.name
                      ELSE /\ meets.handler \in OnlyReads
                           /\ meets.handler \in {"download", "info"} => path[4] # x.name
=============================================================================
