-------------------------- MODULE LifecycleProofs --------------------------
(***************************************************************************)
(* Theorems about Lifecycle, for any number of requests: how a process that *)
(* ends leaves its requests.                                               *)
(***************************************************************************)
EXTENDS Lifecycle, TLAPS

\* Where the two goroutines stand, against the field they share.
PlacesOK ==
    /\ main = "load" <=> serve = "none"
    /\ http = "nil" <=> serve \in {"none", "assign"}
    /\ main = "drain" => http = "closing"
    /\ http = "nil" => \A r \in Requests : request[r] = "none"

\* A signal comes before main's end, a failure or Shutdown before Fatalf.
CausesOK ==
    /\ (quit = 1 \/ main \in {"shutdown", "drain"}) => signalled = TRUE
    /\ serve \in {"returned", "fatal"} => failed = TRUE \/ http = "closing"
    /\ serve = "fatal" => logged = TRUE

\* Nothing is cut off in a process that runs.
UpWhole == process = "up" => \A r \in Requests : request[r] # "cut"

IInv == TypeOK /\ PlacesOK /\ CausesOK /\ UpWhole /\ CleanExit /\ CutExplained

LEMMA InitIInv == Init => IInv
<1> SUFFICES ASSUME Init PROVE IInv
    OBVIOUS
<1>1. TypeOK
    BY DEF Init, TypeOK
<1>2. PlacesOK
    BY DEF Init, PlacesOK
<1>3. CausesOK
    BY DEF Init, CausesOK
<1>4. UpWhole /\ CleanExit /\ CutExplained
    BY DEF Init, UpWhole, CleanExit, CutExplained
<1> QED
    BY <1>1, <1>2, <1>3, <1>4 DEF IInv

\* What the end of the process does to the requests.
LEMMA EndCuts ==
    ASSUME NEW how, TypeOK, UpWhole, process = "up", End(how)
    PROVE  /\ process' = how
           /\ request' \in [Requests -> {"none", "active", "answered", "cut"}]
           /\ \A r \in Requests : request'[r] = "cut" <=> request[r] = "active"
           /\ \A r \in Requests : request'[r] = "none" <=> request[r] = "none"
BY DEF End, TypeOK, UpWhole

----------------------------------------------------------------------------
(* Every step keeps the invariant, part by part.                           *)

\* The types.
LEMMA TypeStep ==
    ASSUME IInv, [Next]_vars
    PROVE  TypeOK'
<1> USE DEF IInv
<1>1. CASE ConfigRejected
  BY <1>1, EndCuts DEF ConfigRejected, history, TypeOK
<1>2. CASE ConfigLoaded
  BY <1>2 DEF ConfigLoaded, history, TypeOK
<1>3. CASE Notify \/ ReceiveQuit \/ Shutdown
  BY <1>3 DEF Notify, ReceiveQuit, Shutdown, history, TypeOK
<1>4. CASE ShutdownNil
  BY <1>4, EndCuts DEF ShutdownNil, history, TypeOK
<1>5. CASE ShutdownReturns
  BY <1>5, EndCuts DEF ShutdownReturns, history, TypeOK
<1>6. CASE Assign \/ Listen \/ ServerClosed \/ LogFatal
  BY <1>6 DEF Assign, Listen, ServerClosed, LogFatal, history, TypeOK
<1>7. CASE FatalExit
  BY <1>7, EndCuts DEF FatalExit, history, TypeOK
<1>8. CASE ServeFails
  BY <1>8 DEF ServeFails, TypeOK
<1>9. ASSUME NEW r \in Requests, Accept(r) \/ Respond(r)
      PROVE  TypeOK'
  BY <1>9 DEF Accept, Respond, history, TypeOK
<1>10. CASE Signal
  BY <1>10 DEF Signal, TypeOK
<1>11. CASE SignalEarly
  BY <1>11, EndCuts DEF SignalEarly, TypeOK
<1>12. CASE Restart
  BY <1>12 DEF Restart, TypeOK
<1>13. CASE UNCHANGED vars
  <2>1. TypeOK
    OBVIOUS
  <2>2. process' = process /\ main' = main /\ serve' = serve /\ http' = http /\ quit' = quit
      /\ request' = request /\ signalled' = signalled /\ failed' = failed /\ logged' = logged
    BY <1>13 DEF vars
  <2>3. signalled' \in BOOLEAN /\ failed' \in BOOLEAN /\ logged' \in BOOLEAN
    BY <2>1, <2>2, Zenon DEF TypeOK
  <2>4. request' \in [Requests -> {"none", "active", "answered", "cut"}]
    BY <2>1, <2>2, Zenon DEF TypeOK
  <2> QED
    BY <2>1, <2>2, <2>3, <2>4, Zenon DEF TypeOK
<1> QED
  BY <1>1, <1>2, <1>3, <1>4, <1>5, <1>6, <1>7, <1>8, <1>9, <1>10, <1>11, <1>12, <1>13
     DEF Next, MainStep, ServeStep

\* The places: what ends the process leaves them alone.
LEMMA PlacesStep ==
    ASSUME IInv, [Next]_vars
    PROVE  PlacesOK'
<1> USE DEF IInv
<1>1. CASE ConfigRejected
  BY <1>1, EndCuts DEF ConfigRejected, history, TypeOK, PlacesOK, UpWhole
<1>2. CASE ConfigLoaded
  BY <1>2 DEF ConfigLoaded, history, TypeOK, PlacesOK, UpWhole
<1>3. CASE Notify \/ ReceiveQuit \/ Shutdown
  BY <1>3 DEF Notify, ReceiveQuit, Shutdown, history, TypeOK, PlacesOK, UpWhole
<1>4. CASE ShutdownNil
  BY <1>4, EndCuts DEF ShutdownNil, history, TypeOK, PlacesOK, UpWhole
<1>5. CASE ShutdownReturns
  BY <1>5, EndCuts DEF ShutdownReturns, history, TypeOK, PlacesOK, UpWhole
<1>6. CASE Assign \/ Listen \/ ServerClosed \/ LogFatal
  BY <1>6 DEF Assign, Listen, ServerClosed, LogFatal, history, TypeOK, PlacesOK, UpWhole
<1>7. CASE FatalExit
  BY <1>7, EndCuts DEF FatalExit, history, TypeOK, PlacesOK, UpWhole
<1>8. CASE ServeFails
  BY <1>8 DEF ServeFails, TypeOK, PlacesOK, UpWhole
<1>9. ASSUME NEW r \in Requests, Accept(r) \/ Respond(r)
      PROVE  PlacesOK'
  BY <1>9 DEF Accept, Respond, history, TypeOK, PlacesOK, UpWhole
<1>10. CASE Signal
  BY <1>10 DEF Signal, TypeOK, PlacesOK, UpWhole
<1>11. CASE SignalEarly
  BY <1>11, EndCuts DEF SignalEarly, TypeOK, PlacesOK, UpWhole
<1>12. CASE Restart
  BY <1>12 DEF Restart, TypeOK, PlacesOK, UpWhole
<1>13. CASE UNCHANGED vars
  BY <1>13 DEF vars, TypeOK, PlacesOK, UpWhole
<1> QED
  BY <1>1, <1>2, <1>3, <1>4, <1>5, <1>6, <1>7, <1>8, <1>9, <1>10, <1>11, <1>12, <1>13
     DEF Next, MainStep, ServeStep

\* The causes.
LEMMA CausesStep ==
    ASSUME IInv, [Next]_vars
    PROVE  CausesOK'
<1> USE DEF IInv
<1>1. CASE ConfigRejected
  BY <1>1, EndCuts DEF ConfigRejected, history, TypeOK, PlacesOK, CausesOK
<1>2. CASE ConfigLoaded
  BY <1>2 DEF ConfigLoaded, history, TypeOK, PlacesOK, CausesOK
<1>3. CASE Notify \/ ReceiveQuit \/ Shutdown
  BY <1>3 DEF Notify, ReceiveQuit, Shutdown, history, TypeOK, PlacesOK, CausesOK
<1>4. CASE ShutdownNil
  BY <1>4, EndCuts DEF ShutdownNil, history, TypeOK, PlacesOK, CausesOK
<1>5. CASE ShutdownReturns
  BY <1>5, EndCuts DEF ShutdownReturns, history, TypeOK, PlacesOK, CausesOK
<1>6. CASE Assign \/ Listen \/ ServerClosed \/ LogFatal
  BY <1>6 DEF Assign, Listen, ServerClosed, LogFatal, history, TypeOK, PlacesOK, CausesOK
<1>7. CASE FatalExit
  BY <1>7, EndCuts DEF FatalExit, history, TypeOK, PlacesOK, CausesOK
<1>8. CASE ServeFails
  BY <1>8 DEF ServeFails, TypeOK, PlacesOK, CausesOK
<1>9. ASSUME NEW r \in Requests, Accept(r) \/ Respond(r)
      PROVE  CausesOK'
  BY <1>9 DEF Accept, Respond, history, TypeOK, PlacesOK, CausesOK
<1>10. CASE Signal
  BY <1>10 DEF Signal, TypeOK, PlacesOK, CausesOK
<1>11. CASE SignalEarly
  BY <1>11, EndCuts DEF SignalEarly, TypeOK, PlacesOK, CausesOK
<1>12. CASE Restart
  BY <1>12 DEF Restart, CausesOK
<1>13. CASE UNCHANGED vars
  BY <1>13 DEF vars, TypeOK, PlacesOK, CausesOK
<1> QED
  BY <1>1, <1>2, <1>3, <1>4, <1>5, <1>6, <1>7, <1>8, <1>9, <1>10, <1>11, <1>12, <1>13
     DEF Next, MainStep, ServeStep

\* How requests end: nothing is active when main returns, and nothing has been
\* accepted where main or the configuration panics.
LEMMA EndsStep ==
    ASSUME IInv, [Next]_vars
    PROVE  UpWhole' /\ CleanExit' /\ CutExplained'
<1> USE DEF IInv
<1>1. CASE ConfigRejected
  <2>1. process' = "panic" /\ \A r \in Requests : request'[r] = "cut" => request[r] = "active"
    BY <1>1, EndCuts DEF ConfigRejected
  <2>2. UpWhole'
    BY <2>1 DEF UpWhole
  <2>3. CleanExit'
    BY <2>1 DEF CleanExit
  <2>4. CutExplained'
    <3>1. \A r \in Requests : request[r] = "none"
      BY <1>1 DEF ConfigRejected, PlacesOK
    <3> QED
      BY <2>1, <3>1 DEF CutExplained
  <2> QED
    BY <2>2, <2>3, <2>4
<1>2. CASE ConfigLoaded
  BY <1>2 DEF ConfigLoaded, history, TypeOK, PlacesOK, CausesOK, UpWhole,
        CleanExit, CutExplained
<1>3. CASE Notify \/ ReceiveQuit \/ Shutdown
  BY <1>3 DEF Notify, ReceiveQuit, Shutdown, history, TypeOK, PlacesOK, CausesOK, UpWhole,
        CleanExit, CutExplained
<1>4. CASE ShutdownNil
  BY <1>4, EndCuts DEF ShutdownNil, history, TypeOK, PlacesOK, CausesOK, UpWhole,
        CleanExit, CutExplained
<1>5. CASE ShutdownReturns
  BY <1>5, EndCuts DEF ShutdownReturns, history, TypeOK, PlacesOK, CausesOK, UpWhole,
        CleanExit, CutExplained
<1>6. CASE Assign \/ Listen \/ ServerClosed \/ LogFatal
  BY <1>6 DEF Assign, Listen, ServerClosed, LogFatal, history, TypeOK, PlacesOK, CausesOK, UpWhole,
        CleanExit, CutExplained
<1>7. CASE FatalExit
  <2>1. process' = "exit 1" /\ \A r \in Requests : request'[r] = "cut" => request[r] = "active"
    BY <1>7, EndCuts DEF FatalExit
  <2>2. UpWhole'
    BY <2>1 DEF UpWhole
  <2>3. CleanExit'
    BY <2>1 DEF CleanExit
  <2>4. CutExplained'
    <3>1. logged = TRUE /\ (failed = TRUE \/ http = "closing")
      BY <1>7 DEF FatalExit, CausesOK
    <3>2. logged' = logged /\ failed' = failed /\ http' = http
      BY <1>7 DEF FatalExit, history
    <3>3. logged' = TRUE /\ (failed' = TRUE \/ http' = "closing")
      BY <3>1, <3>2
    <3> QED
      BY <2>1, <3>3 DEF CutExplained
  <2> QED
    BY <2>2, <2>3, <2>4
<1>8. CASE ServeFails
  BY <1>8 DEF ServeFails, TypeOK, PlacesOK, CausesOK, UpWhole,
        CleanExit, CutExplained
<1>9. ASSUME NEW r \in Requests, Accept(r) \/ Respond(r)
      PROVE  UpWhole' /\ CleanExit' /\ CutExplained'
  BY <1>9 DEF Accept, Respond, history, TypeOK, PlacesOK, CausesOK, UpWhole,
        CleanExit, CutExplained
<1>10. CASE Signal
  BY <1>10 DEF Signal, TypeOK, PlacesOK, CausesOK, UpWhole,
        CleanExit, CutExplained
<1>11. CASE SignalEarly
  <2>1. process' = "killed" /\ \A r \in Requests : request'[r] = "cut" => request[r] = "active"
    BY <1>11, EndCuts DEF SignalEarly
  <2>2. UpWhole'
    BY <2>1 DEF UpWhole
  <2>3. CleanExit'
    BY <2>1 DEF CleanExit
  <2>4. CutExplained'
    <3>1. CASE main = "load"
      <4>1. \A r \in Requests : request[r] = "none"
        BY <3>1 DEF PlacesOK
      <4> QED
        BY <2>1, <4>1 DEF CutExplained
    <3>2. CASE main = "notify"
      <4>1. main' = "notify"
        BY <1>11, <3>2 DEF SignalEarly
      <4> QED
        BY <2>1, <4>1 DEF CutExplained
    <3> QED
      BY <1>11, <3>1, <3>2 DEF SignalEarly
  <2> QED
    BY <2>2, <2>3, <2>4
<1>12. CASE Restart
  BY <1>12 DEF Restart, TypeOK, PlacesOK, CausesOK, UpWhole,
        CleanExit, CutExplained
<1>13. CASE UNCHANGED vars
  BY <1>13 DEF vars, TypeOK, PlacesOK, CausesOK, UpWhole,
        CleanExit, CutExplained
<1> QED
  BY <1>1, <1>2, <1>3, <1>4, <1>5, <1>6, <1>7, <1>8, <1>9, <1>10, <1>11, <1>12, <1>13
     DEF Next, MainStep, ServeStep

LEMMA IInvStep == IInv /\ [Next]_vars => IInv'
BY TypeStep, PlacesStep, CausesStep, EndsStep DEF IInv

\* The invariant holds in every state.
THEOREM InductiveInvariant == Spec => []IInv
BY InitIInv, IInvStep, PTL DEF Spec

\* Every variable has its type, the channel no more than one signal.
THEOREM TypeCorrect == Spec => []TypeOK
BY InductiveInvariant, PTL DEF IInv

\* A process that reports success was told to stop, and main's return has not
\* overtaken a request.
THEOREM SuccessIsClean == Spec => []CleanExit
BY InductiveInvariant, PTL DEF IInv

\* Only the goroutine's Fatalf cuts a request off, or a signal that comes
\* between the start of the goroutine and Notify.
THEOREM CutsExplained == Spec => []CutExplained
BY InductiveInvariant, PTL DEF IInv
=============================================================================
