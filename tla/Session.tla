------------------------------ MODULE Session ------------------------------
(***************************************************************************)
(* The session of one user with one repository: the cookie in the browser, *)
(* the token inside it, and the requests that carry it.                    *)
(*                                                                         *)
(* The service keeps no session.  A sign-in seals a token, good for TTL,   *)
(* in a cookie under the configured key; the browser keeps the cookie for  *)
(* session_life from when it gets it and sends it with every request; the  *)
(* page removes it when the user logs out and whenever an answer is a 401, *)
(* whatever the cookie is by then.  Tabs share it, so requests overlap.    *)
(***************************************************************************)
EXTENDS Naturals

CONSTANTS
    Slots,      \* requests under way at once
    TTL,        \* how long a token is good for: 12 hours
    CodecLife,  \* how long securecookie opens a cookie: 30 days
    Lives,      \* values of session_life
    MaxTime,    \* bound on the clock
    MaxKey      \* bound on the number of session keys

ASSUME ClockAssumption ==
    /\ TTL \in Nat /\ CodecLife \in Nat /\ MaxTime \in Nat /\ MaxKey \in Nat \ {0}
    /\ Lives \subseteq Nat \ {0}

VARIABLES
    now,      \* the time
    life,     \* session_life of the configuration
    key,      \* the session key the service runs with
    jar,      \* the browser's cookie: [seal |-> ..., until |-> ...]
    req,      \* req[r]: the request in slot r and its answer
    lastIn,   \* history: the time of the last successful sign-in under each key
    out,      \* history: the user has logged out, with no sign-in under way
    sole      \* history: the cookie last set, while no request was under way
              \* that did not carry it, and since; or NoCookie

vars == <<now, life, key, jar, req, lastIn, out, sole>>

Time == 0..MaxTime
Keys == 1..MaxKey

\* A cookie: the key it is sealed with and when its token was made.
Seals == [key : Keys, at : Time]
NoCookie == [key |-> 0, at |-> 0]
Cookies == Seals \cup {NoCookie}
NoJar == [seal |-> NoCookie, until |-> 0]

Unanswered(kind, seal) == [kind |-> kind, with |-> seal, code |-> 0, gives |-> NoCookie,
                           under |-> 0, at |-> 0]
Free == Unanswered("none", NoCookie)
Kinds == {"none", "sign-in", "guarded"}
Requests == [kind : Kinds, with : Cookies, code : {0, 200, 401, 500}, gives : Cookies,
             under : 0..MaxKey, at : Time]

TypeOK ==
    /\ now \in Time /\ life \in Lives /\ key \in Keys
    /\ jar \in [seal : Cookies, until : Nat]
    /\ req \in [Slots -> Requests]
    /\ lastIn \in [Keys -> Time \cup {MaxTime + 1}]
    /\ out \in BOOLEAN /\ sole \in Cookies

Never == MaxTime + 1

Init ==
    /\ now = 0 /\ key = 1 /\ life \in Lives
    /\ jar = NoJar
    /\ req = [r \in Slots |-> Free]
    /\ lastIn = [k \in Keys |-> Never]
    /\ out = FALSE /\ sole = NoCookie

----------------------------------------------------------------------------
(* The browser.                                                            *)

\* Time passes; the browser drops a cookie whose time has come.
Tick ==
    /\ now < MaxTime
    /\ now' = now + 1
    /\ jar' = IF jar.until <= now + 1 THEN NoJar ELSE jar
    /\ UNCHANGED <<life, key, req, lastIn, out, sole>>

Sent(r, kind) ==
    /\ req[r] = Free
    /\ req' = [req EXCEPT ![r] = Unanswered(kind, jar.seal)]

\* The login form's button: it does not look at the cookie, which another tab
\* or an earlier click may have brought.
SignIn(r) ==
    /\ Sent(r, "sign-in")
    /\ out' = FALSE
    /\ sole' = NoCookie
    /\ UNCHANGED <<now, life, key, jar, lastIn>>

\* An upload or a reindexing, from a page that showed its button enabled.
Guarded(r) ==
    /\ Sent(r, "guarded")
    /\ sole' = IF jar.seal = sole THEN sole ELSE NoCookie
    /\ UNCHANGED <<now, life, key, jar, lastIn, out>>

\* The button is "LogOut" as long as there is a cookie.
Logout ==
    /\ jar.seal # NoCookie
    /\ jar' = NoJar
    /\ out' = \A r \in Slots : req[r].kind # "sign-in"
    /\ sole' = NoCookie
    /\ UNCHANGED <<now, life, key, req, lastIn>>

\* The browser stores the cookie of a successful sign-in.
SignedIn(r) ==
    /\ req[r].gives # NoCookie
    /\ jar' = [seal |-> req[r].gives, until |-> now + life]
    /\ req' = [req EXCEPT ![r] = Free]
    /\ sole' = IF \A q \in Slots \ {r} : req[q] = Free THEN req[r].gives ELSE NoCookie
    /\ UNCHANGED <<now, life, key, lastIn, out>>

\* The interceptor of webclient.ts removes the cookie.
Rejected(r) ==
    /\ req[r].code = 401
    /\ jar' = NoJar
    /\ req' = [req EXCEPT ![r] = Free]
    /\ UNCHANGED <<now, life, key, lastIn, out, sole>>

\* Any other answer leaves it alone.
OtherAnswer(r) ==
    /\ req[r].code \in {200, 500} /\ req[r].gives = NoCookie
    /\ req' = [req EXCEPT ![r] = Free]
    /\ UNCHANGED <<now, life, key, jar, lastIn, out, sole>>

\* The request or its answer is lost: without a response the interceptor does
\* nothing.
Lost(r) ==
    /\ req[r] # Free
    /\ req' = [req EXCEPT ![r] = Free]
    /\ UNCHANGED <<now, life, key, jar, lastIn, out, sole>>

----------------------------------------------------------------------------
(* The service.  It looks at the cookie that the request was sent with.    *)

Readable(c) == c = NoCookie \/ (c.key = key /\ now - c.at <= CodecLife)

\* Variant: a token counts as long as its cookie can be opened.
TokenUnlimited(c) == c # NoCookie

\* Variant: a token is not good any more in the second its time is over.
TokenShort(c) == c # NoCookie /\ now - c.at < TTL

\* ParseToken: the token's time and repository.
TokenGood(c) == c # NoCookie /\ now - c.at <= TTL

Handled(r, code, gives) ==
    /\ req' = [req EXCEPT ![r] = [kind |-> req[r].kind, with |-> req[r].with, code |-> code,
                                  gives |-> gives, under |-> key, at |-> now]]
    /\ UNCHANGED <<now, life, key, jar, out, sole>>

\* sessionStore.Get fails on a cookie of another key, in signIn as well as in
\* authenticate, and the answer is a 500.
BadCookie(r) ==
    /\ req[r].kind # "none" /\ req[r].code = 0
    /\ ~Readable(req[r].with)
    /\ Handled(r, 500, NoCookie)
    /\ UNCHANGED lastIn

SignInRefused(r) ==
    /\ req[r].kind = "sign-in" /\ req[r].code = 0
    /\ Readable(req[r].with)
    /\ Handled(r, 401, NoCookie)
    /\ UNCHANGED lastIn

\* Variant: the cookie is dated with the time its token ends.
SignInPostdated(r) ==
    /\ req[r].kind = "sign-in" /\ req[r].code = 0
    /\ Readable(req[r].with)
    /\ Handled(r, 200, [key |-> key, at |-> now + TTL])
    /\ lastIn' = [lastIn EXCEPT ![key] = now]

SignInGranted(r) ==
    /\ req[r].kind = "sign-in" /\ req[r].code = 0
    /\ Readable(req[r].with)
    /\ Handled(r, 200, [key |-> key, at |-> now])
    /\ lastIn' = [lastIn EXCEPT ![key] = now]

NotAuthenticated(r) ==
    /\ req[r].kind = "guarded" /\ req[r].code = 0
    /\ Readable(req[r].with) /\ ~TokenGood(req[r].with)
    /\ Handled(r, 401, NoCookie)
    /\ UNCHANGED lastIn

\* Variant: every request that passes renews the session.
AuthenticatedRenewing(r) ==
    /\ req[r].kind = "guarded" /\ req[r].code = 0
    /\ Readable(req[r].with) /\ TokenGood(req[r].with)
    /\ Handled(r, 200, [key |-> key, at |-> now])
    /\ UNCHANGED lastIn

\* Whatever the handler behind authenticate answers is neither 401 nor sets a
\* cookie.
Authenticated(r) ==
    /\ req[r].kind = "guarded" /\ req[r].code = 0
    /\ Readable(req[r].with) /\ TokenGood(req[r].with)
    /\ Handled(r, 200, NoCookie)
    /\ UNCHANGED lastIn

\* The service is started again, with the session key of its configuration
\* changed or not.  What it had not answered is lost.
Restart ==
    /\ \E k \in {key, key + 1} \cap Keys : key' = k
    /\ req' = [r \in Slots |-> IF req[r].code = 0 THEN Free ELSE req[r]]
    /\ UNCHANGED <<now, life, jar, lastIn, out, sole>>

----------------------------------------------------------------------------
Handles(r) ==
    \/ BadCookie(r) \/ SignInRefused(r) \/ SignInGranted(r)
    \/ NotAuthenticated(r) \/ Authenticated(r)

Next ==
    \/ Tick \/ Logout \/ Restart
    \/ \E r \in Slots :
          \/ SignIn(r) \/ Guarded(r) \/ Handles(r)
          \/ SignedIn(r) \/ Rejected(r) \/ OtherAnswer(r) \/ Lost(r)

Spec == Init /\ [][Next]_vars

----------------------------------------------------------------------------
(* Properties.                                                             *)

\* A guarded request passes only if somebody signed in to the repository at
\* most TTL before, and since the session key was last changed: however late
\* the request comes, from whichever tab, with whichever cookie.
PassesSignedIn ==
    \A r \in Slots :
        req[r].kind = "guarded" /\ req[r].code = 200 =>
            LET t == lastIn[req[r].under] IN t # Never /\ req[r].at <= t + TTL

\* Who has logged out with no sign-in under way stays logged out until the next
\* sign-in: no late answer brings the cookie back.
LoggedOutStays == out => jar = NoJar

\* A cookie that came alone, and since which every request carried it and
\* nobody logged out or signed in, stays for its time: the answers that remove
\* a good cookie are those of requests that were sent without it.
SoleCookieStays ==
    sole # NoCookie =>
        jar.seal = sole \/ now - sole.at > TTL \/ now - sole.at >= life
=============================================================================
