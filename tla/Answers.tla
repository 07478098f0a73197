------------------------------ MODULE Answers ------------------------------
(***************************************************************************)
(* What becomes of an answer on its way from a handler to the user's eyes: *)
(* the service marshals a message or writes an error, axios decodes the    *)
(* body as the call asked for, the interceptor turns the body of an error  *)
(* into text, and the action or component that made the call shows it, as  *)
(* rows, details, a toast or the login form's helper text.                 *)
(*                                                                         *)
(* Who may call what, and when, is RepoView, Session and Router; here any  *)
(* call may be made and meet any of its outcomes, several under way at a   *)
(* time.  Names and texts are values without letters; a body keeps whether *)
(* it is a message, a JSON object or another text.                         *)
(***************************************************************************)
EXTENDS Conversions, SequencesExt, FiniteSets

CONSTANTS
    Names,         \* names of packages
    Leaves,        \* names of folders
    Packages,      \* what rpm.Open reads from a package: messages RPM
    Outputs,       \* what the index tool prints: bodies
    MaxCalls,      \* bound on the calls of a page's life
    MaxPending     \* bound on the calls under way at a time

ASSUME CallsAssumption == MaxCalls \in Nat /\ MaxPending \in Nat
\* A directory holds finitely many names.
ASSUME NamesAssumption == IsFiniteSet(Names) /\ IsFiniteSet(Leaves)
\* A message of the class RPM, as protoc-gen-go types it.
ASSUME PackagesAssumption ==
    \A p \in Packages :
        /\ p = Construct("RPM", p.slots) /\ DOMAIN p.slots \subseteq DOMAIN RPMFields
        /\ \A n \in DOMAIN p.slots :
              RPMFields[n].kind = "list" => p.slots[n] \in Seq(ToSet(p.slots[n]))

VARIABLES
    folder,  \* the names in the folder that is listed
    calls,   \* the calls under way, with their answers once there are any
    made,    \* how many there have been
    page,    \* the route, or blank: React has unmounted everything
    toasts,  \* toastsReducer: the messages by their keys
    helper,  \* the helper text of the login form: none or one
    read     \* history: the last message read with the one sent: none or one

vars == <<folder, calls, made, page, toasts, helper, read>>

----------------------------------------------------------------------------
(* Bodies and what JavaScript holds of them.                               *)

Bytes(wire) == [form |-> "wire", text |-> "", wire |-> wire]
Json(text) == [form |-> "json", text |-> text, wire |-> <<>>]
Text(text) == [form |-> "text", text |-> text, wire |-> <<>>]

ServiceCalls == {"folders", "list", "info", "upload", "download", "reindex", "signin"}

\* The option responseType of a call; axios parses a default body if it can.
ResponseType(kind) == CASE kind \in {"folders", "list", "info", "upload"} -> "ArrayBuffer"
                        [] kind = "download" -> "Blob"
                        [] OTHER -> "default"

Value(js, body) == [js |-> js, body |-> body]

Received(kind, body) ==
    Value(CASE ResponseType(kind) # "default" -> ResponseType(kind)
            [] body.form = "json" -> "object"
            [] OTHER -> "string",
          body)

String(body) == Value("string", body)

\* Variants: the body of an error is left as axios gives it; an ArrayBuffer is
\* taken for an object like any other.
InterceptNothing(value) == value
InterceptObjects(value) == IF value.js \in {"ArrayBuffer", "Blob"} THEN String(Json("{}"))
                           ELSE String(value.body)

\* The interceptor.  JSON.stringify of a Blob does not read it.
Intercept(value) == IF value.js = "Blob" THEN String(Json("{}")) ELSE String(value.body)

----------------------------------------------------------------------------
(* The service.                                                            *)

Answer(status, body, sent) == [status |-> status, body |-> body, sent |-> sent]
NoAnswer == Answer(-1, Text(""), Null)
NoResponse == Answer(0, Text("Network Error"), Null)
Error(status, text) == Answer(status, Json(text), Null)

FileOf(name) == Construct("File", <<name>>)
FoldersOf(leaves) ==
    Construct("Folders",
              <<"repository", TRUE, [i \in DOMAIN leaves |-> Construct("Folders", <<leaves[i]>>)]>>)
FilesOf(names) == Construct("Files", <<[i \in DOMAIN names |-> FileOf(names[i])]>>)

Built(q) ==
    CASE q.kind = "folders" -> {FoldersOf(l) : l \in UNION {SetToSeqs(L) : L \in SUBSET Leaves}}
      [] q.kind = "list" -> {FilesOf(l) : l \in SetToSeqs(folder)}
      [] q.kind = "info" -> Packages
      [] q.kind = "upload" -> {FileOf(q.name)}

\* A service newer than the page may send a field the page does not know, in the
\* message or in one that it holds.
Unknown == [number |-> 99, value |-> Null]
Wider(wire) == {wire} \cup {InsertAt(wire, i, Unknown) : i \in 1..Len(wire) + 1}
WiderOne(wires) ==
    UNION {{[wires EXCEPT ![i] = wire] : wire \in Wider(wires[i])} : i \in DOMAIN wires}
Newer(m) ==
    LET sealed == Sealed(m.type, m)
    IN  Wider(Serialize(m)) \cup
        UNION {{Write(m.type, Put(sealed, n, wires)) : wires \in WiderOne(sealed.slots[n])} :
               n \in {k \in DOMAIN m.slots : Nested(m.type, k)}}

\* proto.Marshal, and the handler's answer when it fails.
Marshalled(m) ==
    IF Valid(m) THEN {Answer(200, Bytes(wire), m) : wire \in Newer(m)}
    ELSE {Error(500, "invalid UTF-8")}

Reply(q, answer) ==
    /\ q.answer = NoAnswer
    /\ calls' = (calls \ {q}) \cup {[q EXCEPT !.answer = answer]}
    /\ UNCHANGED <<made, page, toasts, helper, read>>

Stored(q) == folder \cup (IF q.kind = "upload" THEN {q.name} ELSE {})

\* An upload has stored the file before it marshals its answer.
ServeMessage(q) ==
    /\ q.kind \in {"folders", "list", "info", "upload"}
    /\ \E m \in Built(q) : \E a \in Marshalled(m) : Reply(q, a)
    /\ folder' = Stored(q)

ServeOther(q) ==
    /\ \/ q.kind = "download" /\ Reply(q, Answer(200, Text("package"), Null))
       \/ q.kind = "reindex" /\ \E out \in Outputs : Reply(q, Answer(200, out, Null))
       \/ q.kind = "signin" /\ Reply(q, Answer(200, Text(""), Null))
    /\ UNCHANGED folder

\* The repository is not configured any more, authenticate or signIn refuses,
\* or something fails.
Refuse(q) ==
    /\ \/ Reply(q, Answer(400, Text("repository does not exist"), Null))
       \/ q.kind \in {"upload", "reindex", "signin"} /\ Reply(q, Error(401, "not authenticated"))
       \/ Reply(q, Error(500, "failed"))
    /\ UNCHANGED folder

\* The connection breaks or the write deadline passes, before or after the
\* handler has done its work.
Lose(q) == Reply(q, NoResponse) /\ folder' \in {folder, Stored(q)}

\* Files also come and go without the service, whatever they are called.
Replaced(name) ==
    /\ folder' = IF name \in folder THEN folder \ {name} ELSE folder \cup {name}
    /\ UNCHANGED <<calls, made, page, toasts, helper, read>>

----------------------------------------------------------------------------
(* The page.                                                               *)

\* An Alert whose title is an object makes React throw, when it is rendered.
Rendered(route, ts) ==
    IF route = "view" /\ \E t \in ts : t.title.js = "object" THEN "blank" ELSE route

\* Variant: the key is the call's name, not a fresh one.
ToastByKind(q, type, title) == [key |-> q.kind, type |-> type, title |-> title, of |-> q]

\* A toast has a fresh key; of is history: the call it is about.
Toast(q, type, title) == [key |-> q.id, type |-> type, title |-> title, of |-> q]

AddToast(q, type, title) ==
    /\ toasts' = toasts \cup {Toast(q, type, title)}
    /\ page' = Rendered(page, toasts')


\* addToastError: what the service said, or what axios says.
AddToastError(q) ==
    AddToast(q, "danger", IF q.answer.status = 0 THEN String(q.answer.body)
                          ELSE Intercept(Received(q.kind, q.answer.body)))

\* The user or the timer closes a toast; there is no timer while it is unmounted.
DeleteToast(t) ==
    /\ page = "view"
    /\ toasts' = toasts \ {t}
    /\ UNCHANGED <<folder, calls, made, page, helper, read>>

Init ==
    /\ folder \in SUBSET (Names \cup {Garbled})
    /\ calls = {} /\ made = 0
    /\ page = "view"
    /\ toasts = {} /\ helper = {} /\ read = {}

Ask(kind, name) ==
    /\ made < MaxCalls /\ Cardinality(calls) < MaxPending
    /\ page = IF kind = "signin" THEN "login" ELSE "view"
    /\ made' = made + 1
    /\ calls' = calls \cup {[id |-> made', kind |-> kind, name |-> name, answer |-> NoAnswer]}
    /\ UNCHANGED <<folder, page, toasts, read>>

\* With a field left empty the form complains, and calls all the same.
Call(kind) ==
    \/ /\ kind \in {"info", "upload", "download"}
       /\ \E name \in Names : Ask(kind, name)
       /\ UNCHANGED helper
    \/ /\ kind \in {"folders", "list", "reindex"}
       /\ Ask(kind, "")
       /\ UNCHANGED helper
    \/ /\ kind = "signin"
       /\ Ask(kind, "")
       /\ helper' \in {{}, {[text |-> String(Text("Invalid login credentials.")), of |-> {}]}}

\* The store outlives the routes; the text of the form does not.
Navigate ==
    /\ \/ page = "view" /\ page' = "login"
       \/ page = "login" /\ page' = Rendered("view", toasts)
    /\ helper' = {}
    /\ UNCHANGED <<folder, calls, made, toasts, read>>

\* The browser loads the page anew, and drops its calls.
Reload ==
    /\ calls' = {} /\ page' = "view" /\ toasts' = {} /\ helper' = {} /\ read' = {}
    /\ UNCHANGED <<folder, made>>

\* The message of an answer, as deserializeBinary gives it.
ReadAs(type, q) ==
    read' = {[sent |-> q.answer.sent, got |-> Deserialize(type, q.answer.body.wire)]}

Answered(q) ==
    /\ q.answer # NoAnswer
    /\ calls' = calls \ {q}
    /\ UNCHANGED <<folder, made>>

Shown(q) ==
    /\ q.answer.status = 200 /\ Answered(q)
    /\ \/ q.kind = "folders" /\ ReadAs("Folders", q) /\ UNCHANGED <<page, toasts, helper>>
       \/ q.kind = "list" /\ ReadAs("Files", q) /\ UNCHANGED <<page, toasts, helper>>
       \/ q.kind = "info" /\ ReadAs("RPM", q) /\ UNCHANGED <<page, toasts, helper>>
       \/ /\ q.kind = "upload" /\ ReadAs("File", q)
          /\ AddToast(q, "success", String(Text("Success file uploading")))
          /\ UNCHANGED helper
       \/ /\ q.kind = "download"
          /\ AddToast(q, "success", String(Text("Success file downloading")))
          /\ UNCHANGED <<helper, read>>
       \/ /\ q.kind = "reindex"
          /\ AddToast(q, "success", Received(q.kind, q.answer.body))
          /\ UNCHANGED <<helper, read>>
       \/ q.kind = "signin" /\ UNCHANGED <<page, toasts, helper, read>>

\* The panel shows nothing instead, and says nothing; a login form that is gone
\* cannot say anything.
Failed(q) ==
    /\ q.answer.status # 200 /\ Answered(q)
    /\ \/ /\ q.kind \notin {"info", "signin"}
          /\ AddToastError(q)
          /\ UNCHANGED <<helper, read>>
       \/ /\ q.kind = "info"
          /\ read' = {}
          /\ UNCHANGED <<page, toasts, helper>>
       \/ /\ q.kind = "signin"
          /\ LET text == IF q.answer.status = 0 THEN String(q.answer.body)
                         ELSE Intercept(Received(q.kind, q.answer.body))
             IN  helper' = IF page = "login" THEN {[text |-> text, of |-> {q}]} ELSE helper
          /\ UNCHANGED <<page, toasts, read>>

Next ==
    \/ \E kind \in ServiceCalls : Call(kind)
    \/ \E q \in calls :
          \/ ServeMessage(q)
          \/ ServeOther(q)
          \/ Refuse(q)
          \/ Lose(q)
          \/ Shown(q)
          \/ Failed(q)
    \/ \E name \in Names \cup {Garbled} : Replaced(name)
    \/ \E t \in toasts : DeleteToast(t)
    \/ Navigate
    \/ Reload

Spec == Init /\ [][Next]_vars

----------------------------------------------------------------------------
(* Properties.                                                             *)

TypeOK ==
    /\ folder \subseteq Names \cup {Garbled}
    /\ made \in 0..MaxCalls
    /\ page \in {"view", "login", "blank"}
    /\ \A q \in calls : /\ q.id \in 1..MaxCalls /\ q.kind \in ServiceCalls
                        /\ q.answer.status \in {-1, 0, 200, 400, 401, 500}
                        /\ q.answer.sent = Null \/ Valid(q.answer.sent)
    /\ \A t, u \in toasts : t.key = u.key => t = u
    /\ Cardinality(helper) <= 1 /\ Cardinality(read) <= 1

\* The page reads out of an answer what the service put into it: every field of
\* every element, with the defaults for those that are not sent, and in spite
\* of fields it does not know.
ReadsAsSent == \A r \in read : Says(r.got) = Says(r.sent)

\* What the page has read says the same when it is written and read again, and
\* when it is made from the plain object the details panel shows (serialize,
\* toObject and fromObject of the classes).
ReadRoundTrip ==
    \A r \in read :
        LET type == r.got.type IN
        /\ Says(Deserialize(type, Serialize(r.got))) = Says(r.got)
        /\ Says(FromObject(type, ToObject(r.got))) = Says(r.got)

\* The whole page goes blank only over a reindexing whose tool printed a JSON
\* object, which is never so for the answer of a failed call, although an
\* error's body is such an object: not even when the toast comes while the
\* login form is shown and the view is rendered later.
BlankExplained ==
    page = "blank" =>
        \E t \in toasts : /\ t.of.kind = "reindex" /\ t.of.answer.status = 200
                          /\ t.of.answer.body.form = "json"

\* Whatever the call asked for, a failure is told in the words of the service's
\* own answer, in the toast and in the login form; but for a download, whose
\* Blob nobody reads.
ErrorsTold ==
    LET Told(q, value) == q.answer.status # 0 /\ q.kind # "download" => value = String(q.answer.body)
    IN  /\ \A t \in toasts : t.type = "danger" => Told(t.of, t.title)
        /\ \A h \in helper : \A q \in h.of : Told(q, h.text)
=============================================================================
