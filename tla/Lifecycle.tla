----------------------------- MODULE Lifecycle -----------------------------
(***************************************************************************)
(* The service's process from start to end: main, the goroutine that runs  *)
(* the http.Server, the signals that stop it and the requests in flight.   *)
(*                                                                         *)
(* main and the goroutine share the field Server.httpServer without a      *)
(* lock, and either of them ends the process: main by returning when       *)
(* Shutdown has returned, the goroutine by logrus.Fatalf when              *)
(* ListenAndServe has.                                                     *)
(***************************************************************************)
EXTENDS Naturals

CONSTANT Requests   \* slots for requests of clients; a slot is reused

VARIABLES
    process,    \* "up", or how it ended
    main,       \* where the main goroutine stands
    serve,      \* where the goroutine that serves stands
    http,       \* Server.httpServer: nil, open, or closing after Shutdown
    quit,       \* signals in the channel quit, which has room for one
    request,    \* request[r]: what became of it
    signalled,  \* history: a signal has been sent to this process
    failed,     \* history: it could not listen, or could not go on accepting
    logged      \* history: it logged "error occured while running http server"

vars == <<process, main, serve, http, quit, request, signalled, failed, logged>>
history == <<signalled, failed, logged>>

TypeOK ==
    /\ process \in {"up", "exit 0", "exit 1", "panic", "killed"}
    /\ main \in {"load", "notify", "wait", "shutdown", "drain"}
    /\ serve \in {"none", "assign", "listen", "accept", "returned", "fatal"}
    /\ http \in {"nil", "open", "closing"}
    /\ quit \in {0, 1}
    /\ request \in [Requests -> {"none", "active", "answered", "cut"}]
    /\ signalled \in BOOLEAN /\ failed \in BOOLEAN /\ logged \in BOOLEAN

Init ==
    /\ process = "up" /\ main = "load" /\ serve = "none" /\ http = "nil"
    /\ quit = 0
    /\ request = [r \in Requests |-> "none"]
    /\ signalled = FALSE /\ failed = FALSE /\ logged = FALSE

\* The process ends, and with it every goroutine and connection.
End(how) ==
    /\ process' = how
    /\ request' = [r \in Requests |-> IF request[r] = "active" THEN "cut" ELSE request[r]]

----------------------------------------------------------------------------
(* The main goroutine.                                                     *)

\* NewConfig fails and main panics, before there is anything to stop.
ConfigRejected ==
    /\ process = "up" /\ main = "load"
    /\ End("panic")
    /\ UNCHANGED <<main, serve, http, quit, history>>

\* The handlers are built and the goroutine is started.
ConfigLoaded ==
    /\ process = "up" /\ main = "load"
    /\ main' = "notify" /\ serve' = "assign"
    /\ UNCHANGED <<process, http, quit, request, history>>

\* signal.Notify: from here on signals go into quit.
Notify ==
    /\ process = "up" /\ main = "notify"
    /\ main' = "wait"
    /\ UNCHANGED <<process, serve, http, quit, request, history>>

ReceiveQuit ==
    /\ process = "up" /\ main = "wait" /\ quit = 1
    /\ quit' = 0
    /\ main' = "shutdown"
    /\ UNCHANGED <<process, serve, http, request, history>>

\* The goroutine has not assigned the field yet.
ShutdownNil ==
    /\ process = "up" /\ main = "shutdown" /\ http = "nil"
    /\ End("panic")
    /\ UNCHANGED <<main, serve, http, quit, history>>

\* http.Server.Shutdown closes the listener and waits for the requests.
Shutdown ==
    /\ process = "up" /\ main = "shutdown" /\ http # "nil"
    /\ http' = "closing"
    /\ main' = "drain"
    /\ UNCHANGED <<process, serve, quit, request, history>>

\* Variant: main returns without waiting for Shutdown to return.
ShutdownForgotten ==
    /\ process = "up" /\ main = "drain"
    /\ End("exit 0")
    /\ UNCHANGED <<main, serve, http, quit, history>>

\* No connection is active any more: Shutdown returns, and so does main.
ShutdownReturns ==
    /\ process = "up" /\ main = "drain"
    /\ \A r \in Requests : request[r] # "active"
    /\ End("exit 0")
    /\ UNCHANGED <<main, serve, http, quit, history>>

----------------------------------------------------------------------------
(* The goroutine that serves: Server.Run.                                  *)

\* Variant: the field is assigned when ListenAndServe has returned.
AssignLate ==
    /\ process = "up" /\ serve = "assign"
    /\ serve' = "listen"
    /\ UNCHANGED <<process, main, http, quit, request, history>>

Assign ==
    /\ process = "up" /\ serve = "assign"
    /\ http' = "open"
    /\ serve' = "listen"
    /\ UNCHANGED <<process, main, quit, request, history>>

Listen ==
    /\ process = "up" /\ serve = "listen" /\ http # "closing"
    /\ serve' = "accept"
    /\ UNCHANGED <<process, main, http, quit, request, history>>

\* The address is in use, or the listener breaks.
ServeFails ==
    /\ process = "up" /\ serve \in {"listen", "accept"} /\ http # "closing"
    /\ serve' = "returned"
    /\ failed' = TRUE
    /\ UNCHANGED <<process, main, http, quit, request, signalled, logged>>

\* ListenAndServe returns ErrServerClosed as soon as Shutdown has been called,
\* not when it is done.
ServerClosed ==
    /\ process = "up" /\ serve \in {"listen", "accept"} /\ http = "closing"
    /\ serve' = "returned"
    /\ UNCHANGED <<process, main, http, quit, request, history>>

\* err != nil: logrus.Fatalf logs the line, and then
LogFatal ==
    /\ process = "up" /\ serve = "returned"
    /\ serve' = "fatal"
    /\ logged' = TRUE
    /\ UNCHANGED <<process, main, http, quit, request, signalled, failed>>

\* it ends the process.
FatalExit ==
    /\ process = "up" /\ serve = "fatal"
    /\ End("exit 1")
    /\ UNCHANGED <<main, serve, http, quit, history>>

----------------------------------------------------------------------------
(* The world.                                                              *)

Accept(r) ==
    /\ process = "up" /\ serve = "accept" /\ http # "closing"
    /\ request[r] # "active"
    /\ request' = [request EXCEPT ![r] = "active"]
    /\ UNCHANGED <<process, main, serve, http, quit, history>>

Respond(r) ==
    /\ process = "up" /\ request[r] = "active"
    /\ request' = [request EXCEPT ![r] = "answered"]
    /\ UNCHANGED <<process, main, serve, http, quit, history>>

\* Variant: the channel has no room: a signal is lost unless main is at <-quit.
SignalUnbuffered ==
    /\ process = "up" /\ main \notin {"load", "notify"}
    /\ signalled' = TRUE
    /\ quit' \in {quit, 1}
    /\ UNCHANGED <<process, main, serve, http, request, failed, logged>>

\* Variant: the channel has no bound.
SignalQueued ==
    /\ process = "up" /\ main \notin {"load", "notify"}
    /\ signalled' = TRUE
    /\ quit' = quit + 1
    /\ UNCHANGED <<process, main, serve, http, request, failed, logged>>

\* SIGTERM or SIGINT for a process that takes them: the channel keeps one, and
\* Notify drops the others.
Signal ==
    /\ process = "up" /\ main \notin {"load", "notify"}
    /\ signalled' = TRUE
    /\ quit' = 1
    /\ UNCHANGED <<process, main, serve, http, request, failed, logged>>

\* For one that does not take them yet, the signal has its default effect.
SignalEarly ==
    /\ process = "up" /\ main \in {"load", "notify"}
    /\ signalled' = TRUE
    /\ End("killed")
    /\ UNCHANGED <<main, serve, http, quit, failed, logged>>

\* The unit is started again.
Restart ==
    /\ process # "up"
    /\ process' = "up" /\ main' = "load" /\ serve' = "none" /\ http' = "nil"
    /\ quit' = 0
    /\ request' = [r \in Requests |-> "none"]
    /\ signalled' = FALSE /\ failed' = FALSE /\ logged' = FALSE

----------------------------------------------------------------------------
MainStep == Notify \/ ReceiveQuit \/ ShutdownNil \/ Shutdown \/ ShutdownReturns
ServeStep == Assign \/ Listen \/ ServerClosed \/ LogFatal \/ FatalExit

Next ==
    \/ ConfigRejected \/ ConfigLoaded \/ MainStep
    \/ ServeStep \/ ServeFails
    \/ \E r \in Requests : Accept(r) \/ Respond(r)
    \/ Signal \/ SignalEarly \/ Restart

Spec == Init /\ [][Next]_vars

\* Go runs its goroutines, and the handlers return.
FairSpec ==
    /\ Spec
    /\ WF_vars(MainStep) /\ WF_vars(ServeStep)
    /\ \A r \in Requests : WF_vars(Respond(r))

----------------------------------------------------------------------------
(* Properties.                                                             *)

\* If the process reports success, it was told to stop and has answered every
\* request it had accepted: main's return never overtakes a request.
CleanExit ==
    process = "exit 0" =>
        signalled /\ \A r \in Requests : request[r] # "cut"

\* A request is cut off only by the goroutine's Fatalf, whose status is 1, or
\* by a signal between the start of the goroutine and Notify.  The nil server
\* that a very early signal meets has not accepted anything yet.
CutExplained ==
    \A r \in Requests : request[r] = "cut" =>
        \/ process = "exit 1" /\ logged /\ (failed \/ http = "closing")
        \/ process = "killed" /\ main = "notify"

\* A process that was told to stop stops, wherever its two goroutines were.
StopEnds == (process = "up" /\ signalled) ~> (process # "up")

\* The text of the log line of main.go: the server failed while it ran.
LogTellsFailure == logged => failed
=============================================================================
