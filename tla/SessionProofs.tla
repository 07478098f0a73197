--------------------------- MODULE SessionProofs ---------------------------
(***************************************************************************)
(* Theorems about Session, for any number of requests under way, any clock *)
(* bound, any token and cookie lifetimes and any number of session keys.   *)
(***************************************************************************)
EXTENDS Session, TLAPS

\* A cookie that exists was made at a sign-in under its key.
Granted(c) ==
    c # NoCookie =>
        /\ c \in Seals
        /\ lastIn[c.key] # Never
        /\ c.at <= lastIn[c.key]

CookiesGranted ==
    /\ Granted(jar.seal)
    /\ \A r \in Slots : Granted(req[r].with) /\ Granted(req[r].gives)

\* No sign-in lies in the future.
SignInsPast == \A k \in Keys : lastIn[k] # Never => lastIn[k] <= now

\* PassesSignedIn, for a request whose key is known to be one.
PassedUnderKey ==
    \A r \in Slots :
        req[r].kind = "guarded" /\ req[r].code = 200 =>
            /\ req[r].under \in Keys
            /\ lastIn[req[r].under] # Never
            /\ req[r].at <= lastIn[req[r].under] + TTL

\* Only a sign-in brings a cookie, and none is under way after a logout.
OutOK ==
    /\ \A r \in Slots : req[r].gives # NoCookie => req[r].kind = "sign-in"
    /\ out = TRUE => jar = NoJar /\ \A r \in Slots : req[r].kind # "sign-in"

\* The requests since the cookie came are guarded ones that carry it, a 401
\* among their answers says its token is over, and the browser keeps it for
\* session_life.
SoleOK ==
    sole # NoCookie =>
        /\ \A r \in Slots : req[r] # Free =>
              /\ req[r].kind = "guarded" /\ req[r].with = sole
              /\ req[r].gives = NoCookie
              /\ req[r].code = 401 => now - sole.at > TTL
        /\ jar.seal = sole => jar.until >= sole.at + life
        /\ jar.seal = sole \/ now - sole.at > TTL \/ now - sole.at >= life

IInv == TypeOK /\ CookiesGranted /\ SignInsPast /\ PassedUnderKey /\ OutOK /\ SoleOK

----------------------------------------------------------------------------
(* The values.                                                             *)

LEMMA Values ==
    /\ NoCookie \in Cookies /\ NoCookie \notin Seals
    /\ NoJar \in [seal : Cookies, until : Nat] /\ NoJar.seal = NoCookie
    /\ Free \in Requests
    /\ Free.kind = "none" /\ Free.with = NoCookie /\ Free.code = 0 /\ Free.gives = NoCookie
    /\ 0 \in Time /\ Time \subseteq Nat /\ Keys \subseteq Nat /\ Never \in Nat
    /\ Never \notin Time
    /\ \A c \in Cookies : c # NoCookie => c \in Seals /\ c.key \in Keys /\ c.at \in Time
<1>1. 0 \in Time /\ Time \subseteq Nat /\ Keys \subseteq Nat /\ Never \in Nat /\ Never \notin Time
  BY ClockAssumption DEF Time, Keys, Never
<1>2. NoCookie \in Cookies /\ NoCookie \notin Seals
  BY DEF NoCookie, Cookies, Seals, Keys
<1>3. NoJar \in [seal : Cookies, until : Nat] /\ NoJar.seal = NoCookie
  BY <1>2 DEF NoJar
<1>4. Free \in Requests
  BY <1>1, <1>2, ClockAssumption DEF Free, Unanswered, Kinds, Requests
<1>5. Free.kind = "none" /\ Free.with = NoCookie /\ Free.code = 0 /\ Free.gives = NoCookie
  BY DEF Free, Unanswered
<1>6. \A c \in Cookies : c # NoCookie => c \in Seals /\ c.key \in Keys /\ c.at \in Time
  BY DEF Cookies, Seals
<1> QED
  BY <1>1, <1>2, <1>3, <1>4, <1>5, <1>6

LEMMA Numbers ==
    ASSUME TypeOK
    PROVE  /\ now \in Nat /\ life \in Nat /\ TTL \in Nat
           /\ jar.seal \in Cookies /\ jar.until \in Nat
           /\ \A r \in Slots : req[r].with \in Cookies /\ req[r].gives \in Cookies
           /\ \A r \in Slots : req[r].at \in Nat
           /\ \A k \in Keys : lastIn[k] # Never => lastIn[k] \in Nat
           /\ \A c \in Cookies : c # NoCookie => c.at \in Nat
<1>1. now \in Nat /\ jar.seal \in Cookies /\ jar.until \in Nat
  BY Values DEF TypeOK
<1>2. life \in Nat /\ TTL \in Nat
  BY ClockAssumption DEF TypeOK
<1>3. \A r \in Slots : req[r].with \in Cookies /\ req[r].gives \in Cookies
  BY DEF TypeOK, Requests
<1>4. \A r \in Slots : req[r].at \in Time
  BY DEF TypeOK, Requests
<1>5. \A r \in Slots : req[r].at \in Nat
  BY <1>4, Values
<1>6. \A k \in Keys : lastIn[k] # Never => lastIn[k] \in Nat
  BY Values DEF TypeOK, Never
<1>7. \A c \in Cookies : c # NoCookie => c.at \in Nat
  BY Values
<1> QED
  BY <1>1, <1>2, <1>3, <1>5, <1>6, <1>7

\* What an answer of the service does to its request, and to no other.
LEMMA HandledEffect ==
    ASSUME TypeOK, NEW r \in Slots, NEW code \in {0, 200, 401, 500},
           NEW gives \in Cookies, Handled(r, code, gives)
    PROVE  /\ req' \in [Slots -> Requests]
           /\ req'[r].kind = req[r].kind /\ req'[r].with = req[r].with
           /\ req'[r].code = code /\ req'[r].gives = gives
           /\ req'[r].under = key /\ req'[r].at = now
           /\ \A q \in Slots : q # r => req'[q] = req[q]
           /\ UNCHANGED <<now, life, key, jar, out, sole>>
<1>1. key \in 0..MaxKey
  BY ClockAssumption DEF TypeOK, Keys
<1>2. DEFINE answered == [kind |-> req[r].kind, with |-> req[r].with, code |-> code,
                          gives |-> gives, under |-> key, at |-> now]
<1>3. req[r] \in Requests /\ now \in Time
  BY DEF TypeOK
<1>4. /\ answered \in Requests
      /\ answered.kind = req[r].kind /\ answered.with = req[r].with
      /\ answered.code = code /\ answered.gives = gives
      /\ answered.under = key /\ answered.at = now
  BY <1>1, <1>3 DEF Requests
<1>5. req' = [req EXCEPT ![r] = answered] /\ UNCHANGED <<now, life, key, jar, out, sole>>
  BY DEF Handled
<1> HIDE DEF answered
<1>6. req \in [Slots -> Requests]
  BY DEF TypeOK
<1> QED
  BY <1>4, <1>5, <1>6

\* What sending one does.
LEMMA SentEffect ==
    ASSUME TypeOK, NEW r \in Slots, NEW kind \in Kinds, Sent(r, kind)
    PROVE  /\ req' \in [Slots -> Requests]
           /\ req'[r].kind = kind /\ req'[r].with = jar.seal
           /\ req'[r].code = 0 /\ req'[r].gives = NoCookie
           /\ \A q \in Slots : q # r => req'[q] = req[q]
<1>1. Free.with \in Cookies /\ jar.seal \in Cookies
  BY Values DEF TypeOK
<1>2. DEFINE sent == Unanswered(kind, jar.seal)
<1>4. /\ sent \in Requests
      /\ sent.kind = kind /\ sent.with = jar.seal /\ sent.code = 0 /\ sent.gives = NoCookie
  BY <1>1, Values, ClockAssumption DEF Requests, Unanswered
<1>5. req' = [req EXCEPT ![r] = sent]
  BY DEF Sent
<1> HIDE DEF sent
<1> QED
  BY <1>4, <1>5 DEF TypeOK

LEMMA InitIInv == Init => IInv
<1> SUFFICES ASSUME Init PROVE IInv
  OBVIOUS
<1>1. TypeOK
  <2>1. key \in Keys /\ now \in Time /\ life \in Lives
    BY Values, ClockAssumption DEF Init, Keys
  <2>2. jar \in [seal : Cookies, until : Nat] /\ req \in [Slots -> Requests]
    BY Values DEF Init
  <2>3. lastIn \in [Keys -> Time \cup {MaxTime + 1}]
    BY DEF Init, Never
  <2>4. out \in BOOLEAN /\ sole \in Cookies
    BY Values DEF Init
  <2> QED
    BY <2>1, <2>2, <2>3, <2>4 DEF TypeOK
<1>2. CookiesGranted
  BY Values DEF Init, CookiesGranted, Granted
<1>3. SignInsPast /\ PassedUnderKey /\ OutOK /\ SoleOK
  BY Values DEF Init, SignInsPast, PassedUnderKey, OutOK, SoleOK
<1> QED
  BY <1>1, <1>2, <1>3 DEF IInv

\* What the end of a request does.
LEMMA FreedEffect ==
    ASSUME TypeOK, NEW r \in Slots, req' = [req EXCEPT ![r] = Free]
    PROVE  /\ req' \in [Slots -> Requests]
           /\ req'[r] = Free
           /\ \A q \in Slots : q # r => req'[q] = req[q]
BY Values DEF TypeOK

\* What a restart does to the requests.
LEMMA RestartEffect ==
    ASSUME TypeOK, Restart
    PROVE  /\ req' \in [Slots -> Requests] /\ key' \in Keys
           /\ \A q \in Slots : req'[q] = req[q] \/ req'[q] = Free
           /\ UNCHANGED <<now, life, jar, lastIn, out, sole>>
BY Values DEF TypeOK, Restart

\* An answer that brings no cookie.
Plain(r) == BadCookie(r) \/ SignInRefused(r) \/ NotAuthenticated(r) \/ Authenticated(r)

LEMMA PlainEffect ==
    ASSUME TypeOK, NEW r \in Slots, Plain(r)
    PROVE  \E code \in {200, 401, 500} :
              /\ Handled(r, code, NoCookie)
              /\ lastIn' = lastIn
              /\ code = 200 => Authenticated(r)
              /\ code = 401 => SignInRefused(r) \/ NotAuthenticated(r)
<1>1. CASE BadCookie(r)
  BY <1>1 DEF BadCookie
<1>2. CASE SignInRefused(r)
  BY <1>2 DEF SignInRefused
<1>3. CASE NotAuthenticated(r)
  BY <1>3 DEF NotAuthenticated
<1>4. CASE Authenticated(r)
  BY <1>4 DEF Authenticated
<1> QED
  BY <1>1, <1>2, <1>3, <1>4 DEF Plain

\* What a granted sign-in does to the request and the history.
LEMMA GrantEffect ==
    ASSUME TypeOK, SignInsPast, NEW r \in Slots, SignInGranted(r)
    PROVE  /\ [key |-> key, at |-> now] \in Seals
           /\ [key |-> key, at |-> now] # NoCookie
           /\ Handled(r, 200, [key |-> key, at |-> now])
           /\ lastIn' \in [Keys -> Time \cup {MaxTime + 1}]
           /\ lastIn'[key] = now /\ now # Never /\ now \in Nat
           /\ \A k \in Keys : k # key => lastIn'[k] = lastIn[k]
           /\ \A k \in Keys : lastIn[k] # Never =>
                 lastIn'[k] # Never /\ lastIn[k] <= lastIn'[k]
<1>1. key \in Keys /\ now \in Time /\ lastIn \in [Keys -> Time \cup {MaxTime + 1}]
  BY DEF TypeOK
<1>2. [key |-> key, at |-> now] \in Seals
  BY <1>1 DEF Seals
<1>3. [key |-> key, at |-> now] # NoCookie
  BY <1>2, Values
<1>4. lastIn' = [lastIn EXCEPT ![key] = now] /\ Handled(r, 200, [key |-> key, at |-> now])
  BY DEF SignInGranted
<1>5. now # Never /\ now \in Nat
  BY <1>1, Values
<1>6. lastIn' \in [Keys -> Time \cup {MaxTime + 1}]
  BY <1>1, <1>4
<1>7. lastIn'[key] = now /\ \A k \in Keys : k # key => lastIn'[k] = lastIn[k]
  BY <1>1, <1>4
<1>8. \A k \in Keys : lastIn[k] # Never => lastIn[k] <= now /\ lastIn[k] \in Nat
  BY <1>1, Values DEF SignInsPast, Never
<1>9. ASSUME NEW k \in Keys, lastIn[k] # Never
      PROVE  lastIn'[k] # Never /\ lastIn[k] <= lastIn'[k]
  <2>1. lastIn[k] <= now /\ lastIn[k] \in Nat
    BY <1>8, <1>9
  <2>2. CASE k = key
    BY <1>5, <1>7, <2>1, <2>2
  <2>3. CASE k # key
    BY <1>7, <1>9, <2>1, <2>3
  <2> QED
    BY <2>2, <2>3
<1> QED
  BY <1>2, <1>3, <1>4, <1>5, <1>6, <1>7, <1>9

----------------------------------------------------------------------------
(* Every step keeps the types.                                             *)

LEMMA TypeStep ==
    ASSUME IInv, [Next]_vars
    PROVE  TypeOK'
<1>0. TypeOK /\ SignInsPast
  BY DEF IInv
<1>1. CASE Tick
  <2>1. now' \in Time
    BY <1>0, <1>1, ClockAssumption DEF Tick, TypeOK, Time
  <2>2. jar' \in [seal : Cookies, until : Nat]
    BY <1>0, <1>1, Values DEF Tick, TypeOK
  <2> QED
    BY <1>0, <1>1, <2>1, <2>2 DEF Tick, TypeOK
<1>2. CASE Logout
  <2>1. jar' \in [seal : Cookies, until : Nat] /\ sole' \in Cookies /\ out' \in BOOLEAN
    BY <1>2, Values DEF Logout
  <2> QED
    BY <1>0, <1>2, <2>1 DEF Logout, TypeOK
<1>3. CASE Restart
  BY <1>0, <1>3, RestartEffect DEF TypeOK
<1>4. ASSUME NEW r \in Slots, SignIn(r)
      PROVE  TypeOK'
  <2>1. req' \in [Slots -> Requests] /\ sole' \in Cookies
    BY <1>0, <1>4, SentEffect, Values DEF SignIn, Kinds
  <2> QED
    BY <1>0, <1>4, <2>1 DEF SignIn, TypeOK
<1>5. ASSUME NEW r \in Slots, Guarded(r)
      PROVE  TypeOK'
  <2>1. req' \in [Slots -> Requests] /\ sole' \in Cookies
    BY <1>0, <1>5, SentEffect, Values DEF Guarded, Kinds, TypeOK
  <2> QED
    BY <1>0, <1>5, <2>1 DEF Guarded, TypeOK
<1>6. ASSUME NEW r \in Slots, Plain(r)
      PROVE  TypeOK'
  <2>1. PICK code \in {200, 401, 500} : Handled(r, code, NoCookie) /\ lastIn' = lastIn
    BY <1>0, <1>6, PlainEffect
  <2> QED
    BY <1>0, <2>1, HandledEffect, Values DEF TypeOK
<1>7. ASSUME NEW r \in Slots, SignInGranted(r)
      PROVE  TypeOK'
  <2>1. [key |-> key, at |-> now] \in Cookies
    BY <1>0, <1>7, GrantEffect DEF Cookies
  <2>2. Handled(r, 200, [key |-> key, at |-> now])
    BY <1>0, <1>7, GrantEffect
  <2>3. req' \in [Slots -> Requests] /\ UNCHANGED <<now, life, key, jar, out, sole>>
    BY <1>0, <2>1, <2>2, HandledEffect
  <2>4. lastIn' \in [Keys -> Time \cup {MaxTime + 1}]
    BY <1>0, <1>7, GrantEffect
  <2> QED
    BY <1>0, <2>3, <2>4 DEF TypeOK
<1>8. ASSUME NEW r \in Slots, SignedIn(r)
      PROVE  TypeOK'
  <2>1. req' \in [Slots -> Requests]
    BY <1>0, <1>8, FreedEffect DEF SignedIn
  <2>2. req[r].gives \in Cookies /\ now \in Nat /\ life \in Nat
    BY <1>0, Values, ClockAssumption DEF TypeOK, Requests
  <2>3. jar' \in [seal : Cookies, until : Nat] /\ sole' \in Cookies
    BY <1>8, <2>2, Values DEF SignedIn
  <2> QED
    BY <1>0, <1>8, <2>1, <2>3 DEF SignedIn, TypeOK
<1>9. ASSUME NEW r \in Slots, Rejected(r) \/ OtherAnswer(r) \/ Lost(r)
      PROVE  TypeOK'
  <2>1. /\ req' = [req EXCEPT ![r] = Free] /\ jar' \in {jar, NoJar}
        /\ UNCHANGED <<now, life, key, lastIn, out, sole>>
    BY <1>9 DEF Rejected, OtherAnswer, Lost
  <2>2. req' \in [Slots -> Requests] /\ jar' \in [seal : Cookies, until : Nat]
    BY <1>0, <2>1, FreedEffect, Values DEF TypeOK
  <2> QED
    BY <1>0, <2>1, <2>2 DEF TypeOK
<1>10. CASE UNCHANGED vars
  BY <1>0, <1>10 DEF vars, TypeOK
<1> QED
  BY <1>1, <1>2, <1>3, <1>4, <1>5, <1>6, <1>7, <1>8, <1>9, <1>10
     DEF Next, Handles, Plain

----------------------------------------------------------------------------
(* Every cookie was made at a sign-in, and no sign-in is forgotten.         *)

\* What is granted stays granted when the history grows.
LEMMA GrantedStays ==
    ASSUME TypeOK, TypeOK', NEW c \in Cookies, Granted(c),
           \A k \in Keys : lastIn[k] # Never =>
              lastIn'[k] # Never /\ lastIn[k] <= lastIn'[k]
    PROVE  c # NoCookie =>
              c \in Seals /\ lastIn'[c.key] # Never /\ c.at <= lastIn'[c.key]
<1> SUFFICES ASSUME c # NoCookie
             PROVE  c \in Seals /\ lastIn'[c.key] # Never /\ c.at <= lastIn'[c.key]
  OBVIOUS
<1>1. c \in Seals /\ c.key \in Keys /\ c.at \in Nat
  BY Values
<1>2. lastIn[c.key] # Never /\ c.at <= lastIn[c.key]
  BY DEF Granted
<1>3. lastIn'[c.key] # Never /\ lastIn[c.key] <= lastIn'[c.key]
  BY <1>1, <1>2
<1>4. lastIn[c.key] \in Nat /\ lastIn'[c.key] \in Nat
  BY <1>1, <1>2, <1>3, Values DEF TypeOK, Never
<1> QED
  BY <1>1, <1>2, <1>3, <1>4

LEMMA GrantedStep ==
    ASSUME IInv, [Next]_vars, TypeOK'
    PROVE  CookiesGranted' /\ SignInsPast'
<1>0. TypeOK /\ SignInsPast /\ CookiesGranted
  BY DEF IInv
<1>1. /\ jar.seal \in Cookies /\ now \in Nat
      /\ \A r \in Slots : req[r].with \in Cookies /\ req[r].gives \in Cookies
      /\ \A k \in Keys : lastIn[k] # Never => lastIn[k] \in Nat
  BY <1>0, Numbers
<1>2. Granted(NoCookie)' /\ Granted(jar.seal)
  BY <1>0 DEF Granted, CookiesGranted
<1>3. CASE Tick
  <2>1. now' = now + 1 /\ lastIn' = lastIn /\ req' = req /\ jar' \in {jar, NoJar}
    BY <1>3 DEF Tick
  <2>2. Granted(jar.seal)'
    BY <1>0, <2>1, Values DEF CookiesGranted, Granted
  <2>3. CookiesGranted'
    BY <1>0, <2>1, <2>2 DEF CookiesGranted, Granted
  <2>4. SignInsPast'
    BY <1>0, <1>1, <2>1 DEF SignInsPast
  <2> QED
    BY <2>3, <2>4
<1>4. CASE Logout
  <2>1. now' = now /\ lastIn' = lastIn /\ req' = req /\ jar' = NoJar
    BY <1>4 DEF Logout
  <2> QED
    BY <1>0, <2>1, Values DEF CookiesGranted, Granted, SignInsPast
<1>5. CASE Restart
  <2>1. /\ \A q \in Slots : req'[q] = req[q] \/ req'[q] = Free
        /\ UNCHANGED <<now, jar, lastIn>>
    BY <1>0, <1>5, RestartEffect
  <2> QED
    BY <1>0, <2>1, Values DEF CookiesGranted, Granted, SignInsPast
<1>6. ASSUME NEW r \in Slots, SignIn(r) \/ Guarded(r)
      PROVE  CookiesGranted' /\ SignInsPast'
  <2>1. (\E kind \in Kinds : Sent(r, kind)) /\ UNCHANGED <<now, jar, lastIn>>
    BY <1>6 DEF SignIn, Guarded, Kinds
  <2>2. /\ req'[r].with = jar.seal /\ req'[r].gives = NoCookie
        /\ \A q \in Slots : q # r => req'[q] = req[q]
    BY <1>0, <2>1, SentEffect
  <2> QED
    BY <1>0, <2>1, <2>2 DEF CookiesGranted, Granted, SignInsPast
<1>7. ASSUME NEW r \in Slots, Plain(r)
      PROVE  CookiesGranted' /\ SignInsPast'
  <2>1. PICK code \in {200, 401, 500} : Handled(r, code, NoCookie) /\ lastIn' = lastIn
    BY <1>0, <1>7, PlainEffect
  <2>2. /\ req'[r].with = req[r].with /\ req'[r].gives = NoCookie
        /\ \A q \in Slots : q # r => req'[q] = req[q]
        /\ UNCHANGED <<now, jar>>
    BY <1>0, <2>1, HandledEffect, Values
  <2> QED
    BY <1>0, <2>1, <2>2 DEF CookiesGranted, Granted, SignInsPast
<1>8. ASSUME NEW r \in Slots, SignInGranted(r)
      PROVE  CookiesGranted' /\ SignInsPast'
  <2> DEFINE made == [key |-> key, at |-> now]
  <2>1. /\ made \in Seals /\ made # NoCookie /\ Handled(r, 200, made)
        /\ lastIn'[key] = now /\ now # Never
        /\ \A k \in Keys : k # key => lastIn'[k] = lastIn[k]
        /\ \A k \in Keys : lastIn[k] # Never => lastIn'[k] # Never /\ lastIn[k] <= lastIn'[k]
    BY <1>0, <1>8, GrantEffect
  <2>2. made \in Cookies /\ made.key = key /\ made.at = now
    BY <2>1 DEF Cookies
  <2> HIDE DEF made
  <2>3. /\ req'[r].with = req[r].with /\ req'[r].gives = made
        /\ \A q \in Slots : q # r => req'[q] = req[q]
        /\ UNCHANGED <<now, jar>>
    BY <1>0, <2>1, <2>2, HandledEffect
  <2>4. made.key = key /\ made.at = now /\ lastIn'[made.key] # Never
        /\ made.at <= lastIn'[made.key]
    BY <1>1, <2>1, <2>2
  <2>5. \A q \in Slots : Granted(req[q].with) /\ Granted(req[q].gives)
    BY <1>0 DEF CookiesGranted
  <2>6. ASSUME NEW c \in Cookies, Granted(c)
        PROVE  c # NoCookie => c \in Seals /\ lastIn'[c.key] # Never /\ c.at <= lastIn'[c.key]
    BY <1>0, TypeOK', <2>1, <2>6, GrantedStays
  <2>7. ASSUME NEW q \in Slots
        PROVE  Granted(req[q].with)' /\ Granted(req[q].gives)'
    <3>1. req'[q].with = req[q].with /\ req'[q].gives \in {req[q].gives, made}
      BY <2>3
    <3>2. req[q].with \in Cookies /\ req[q].gives \in Cookies
      BY <1>1
    <3>3. Granted(req[q].with)'
      BY <2>5, <2>6, <3>1, <3>2 DEF Granted
    <3>4. CASE req'[q].gives = made
      BY <2>1, <2>4, <3>3, <3>4 DEF Granted
    <3>5. CASE req'[q].gives = req[q].gives
      BY <2>5, <2>6, <3>2, <3>3, <3>5 DEF Granted
    <3> QED
      BY <3>1, <3>3, <3>4, <3>5
  <2>8. Granted(jar.seal)'
    BY <1>1, <1>2, <2>3, <2>6 DEF Granted
  <2>9. SignInsPast'
    BY <1>0, <1>1, <2>1, <2>3 DEF SignInsPast
  <2> QED
    BY <2>7, <2>8, <2>9 DEF CookiesGranted
<1>9. ASSUME NEW r \in Slots, SignedIn(r)
      PROVE  CookiesGranted' /\ SignInsPast'
  <2>1. /\ req'[r] = Free /\ \A q \in Slots : q # r => req'[q] = req[q]
        /\ jar' = [seal |-> req[r].gives, until |-> now + life]
        /\ UNCHANGED <<now, lastIn>>
    BY <1>0, <1>9, FreedEffect DEF SignedIn
  <2> QED
    BY <1>0, <2>1, Values DEF CookiesGranted, Granted, SignInsPast
<1>10. ASSUME NEW r \in Slots, Rejected(r) \/ OtherAnswer(r) \/ Lost(r)
      PROVE  CookiesGranted' /\ SignInsPast'
  <2>1. /\ req' = [req EXCEPT ![r] = Free] /\ jar' \in {jar, NoJar}
        /\ UNCHANGED <<now, lastIn>>
    BY <1>10 DEF Rejected, OtherAnswer, Lost
  <2>2. req'[r] = Free /\ \A q \in Slots : q # r => req'[q] = req[q]
    BY <1>0, <2>1, FreedEffect
  <2> QED
    BY <1>0, <2>1, <2>2, Values DEF CookiesGranted, Granted, SignInsPast
<1>11. CASE UNCHANGED vars
  BY <1>0, <1>11 DEF vars, CookiesGranted, Granted, SignInsPast
<1> QED
  BY <1>3, <1>4, <1>5, <1>6, <1>7, <1>8, <1>9, <1>10, <1>11
     DEF Next, Handles, Plain

----------------------------------------------------------------------------
(* A guarded request that passed had a sign-in behind it.                   *)

LEMMA PassedStep ==
    ASSUME IInv, [Next]_vars
    PROVE  PassedUnderKey'
<1>0. TypeOK /\ SignInsPast /\ CookiesGranted /\ PassedUnderKey
  BY DEF IInv
<1>1. TTL \in Nat /\ \A k \in Keys : lastIn[k] # Never => lastIn[k] \in Nat
  BY <1>0, Numbers
<1>2. CASE Tick \/ Logout
  <2>1. req' = req /\ lastIn' = lastIn
    BY <1>2 DEF Tick, Logout
  <2> QED
    BY <1>0, <2>1 DEF PassedUnderKey
<1>3. CASE Restart
  <2>1. (\A q \in Slots : req'[q] = req[q] \/ req'[q] = Free) /\ lastIn' = lastIn
    BY <1>0, <1>3, RestartEffect
  <2> QED
    BY <1>0, <2>1, Values DEF PassedUnderKey
<1>4. ASSUME NEW r \in Slots, SignIn(r) \/ Guarded(r)
      PROVE  PassedUnderKey'
  <2>1. (\E kind \in Kinds : Sent(r, kind)) /\ lastIn' = lastIn
    BY <1>4 DEF SignIn, Guarded, Kinds
  <2>2. req'[r].code = 0 /\ \A q \in Slots : q # r => req'[q] = req[q]
    BY <1>0, <2>1, SentEffect
  <2> QED
    BY <1>0, <2>1, <2>2 DEF PassedUnderKey
<1>5. ASSUME NEW r \in Slots, Plain(r)
      PROVE  PassedUnderKey'
  <2>1. PICK code \in {200, 401, 500} :
           Handled(r, code, NoCookie) /\ lastIn' = lastIn /\ (code = 200 => Authenticated(r))
    BY <1>0, <1>5, PlainEffect
  <2>2. /\ req'[r].code = code /\ req'[r].under = key /\ req'[r].at = now
        /\ \A q \in Slots : q # r => req'[q] = req[q]
    BY <1>0, <2>1, HandledEffect, Values
  <2>3. CASE code = 200
    <3>1. req[r].with # NoCookie /\ req[r].with.key = key /\ now - req[r].with.at <= TTL
      BY <2>1, <2>3 DEF Authenticated, Readable, TokenGood
    <3>2. /\ req[r].with \in Cookies /\ now \in Nat /\ key \in Keys
          /\ req[r].with.at \in Nat
      BY <1>0, <3>1, Numbers DEF TypeOK
    <3>3. lastIn[key] # Never /\ req[r].with.at <= lastIn[key]
      BY <1>0, <3>1 DEF CookiesGranted, Granted
    <3>4. now <= lastIn[key] + TTL
      BY <1>1, <3>1, <3>2, <3>3
    <3> QED
      BY <1>0, <2>1, <2>2, <3>2, <3>3, <3>4 DEF PassedUnderKey
  <2>4. CASE code # 200
    BY <1>0, <2>1, <2>2, <2>4 DEF PassedUnderKey
  <2> QED
    BY <2>3, <2>4
<1>6. ASSUME NEW r \in Slots, SignInGranted(r)
      PROVE  PassedUnderKey'
  <2>1. /\ [key |-> key, at |-> now] \in Cookies
        /\ Handled(r, 200, [key |-> key, at |-> now])
        /\ lastIn' \in [Keys -> Time \cup {MaxTime + 1}]
        /\ \A k \in Keys : lastIn[k] # Never => lastIn'[k] # Never /\ lastIn[k] <= lastIn'[k]
    BY <1>0, <1>6, GrantEffect DEF Cookies
  <2>2. req'[r].kind = req[r].kind /\ \A q \in Slots : q # r => req'[q] = req[q]
    BY <1>0, <2>1, HandledEffect
  <2>3. req[r].kind = "sign-in"
    BY <1>6 DEF SignInGranted
  <2>4. ASSUME NEW q \in Slots, req'[q].kind = "guarded", req'[q].code = 200
        PROVE  /\ req'[q].under \in Keys
               /\ lastIn'[req'[q].under] # Never
               /\ req'[q].at <= lastIn'[req'[q].under] + TTL
    <3>1. req'[q] = req[q]
      BY <2>2, <2>3, <2>4
    <3>2. /\ req[q].under \in Keys /\ lastIn[req[q].under] # Never
          /\ req[q].at <= lastIn[req[q].under] + TTL
      BY <1>0, <2>4, <3>1 DEF PassedUnderKey
    <3>3. lastIn'[req[q].under] # Never /\ lastIn[req[q].under] <= lastIn'[req[q].under]
      BY <2>1, <3>2
    <3>4. /\ req[q].at \in Nat /\ lastIn[req[q].under] \in Nat
          /\ lastIn'[req[q].under] \in Nat
      <4>1. req[q].at \in Nat /\ lastIn[req[q].under] \in Nat
        BY <1>0, <3>2, Numbers
      <4>2. lastIn'[req[q].under] \in Nat
        BY <2>1, <3>2, <3>3, Values DEF Never
      <4> QED
        BY <4>1, <4>2
    <3>5. req[q].at <= lastIn'[req[q].under] + TTL
      BY <1>1, <3>2, <3>3, <3>4
    <3> QED
      BY <3>1, <3>2, <3>3, <3>5
  <2> QED
    BY <2>4 DEF PassedUnderKey
<1>7. ASSUME NEW r \in Slots, SignedIn(r) \/ Rejected(r) \/ OtherAnswer(r) \/ Lost(r)
      PROVE  PassedUnderKey'
  <2>1. req' = [req EXCEPT ![r] = Free] /\ lastIn' = lastIn
    BY <1>7 DEF SignedIn, Rejected, OtherAnswer, Lost
  <2>2. req'[r] = Free /\ \A q \in Slots : q # r => req'[q] = req[q]
    BY <1>0, <2>1, FreedEffect
  <2> QED
    BY <1>0, <2>1, <2>2, Values DEF PassedUnderKey
<1>8. CASE UNCHANGED vars
  BY <1>0, <1>8 DEF vars, PassedUnderKey
<1> QED
  BY <1>2, <1>3, <1>4, <1>5, <1>6, <1>7, <1>8 DEF Next, Handles, Plain

----------------------------------------------------------------------------
(* Logged out, and no sign-in under way.                                    *)

LEMMA OutStep ==
    ASSUME IInv, [Next]_vars
    PROVE  OutOK'
<1>0. TypeOK /\ SignInsPast /\ OutOK
  BY DEF IInv
<1>1. CASE Tick
  <2>1. req' = req /\ out' = out /\ jar' \in {jar, NoJar}
    BY <1>1 DEF Tick
  <2> QED
    BY <1>0, <2>1 DEF OutOK
<1>2. CASE Logout
  BY <1>0, <1>2 DEF Logout, OutOK
<1>3. CASE Restart
  <2>1. (\A q \in Slots : req'[q] = req[q] \/ req'[q] = Free) /\ UNCHANGED <<jar, out>>
    BY <1>0, <1>3, RestartEffect
  <2> QED
    BY <1>0, <2>1, Values DEF OutOK
<1>4. ASSUME NEW r \in Slots, SignIn(r)
      PROVE  OutOK'
  <2>1. Sent(r, "sign-in") /\ out' = FALSE
    BY <1>4 DEF SignIn
  <2>2. req'[r].gives = NoCookie /\ \A q \in Slots : q # r => req'[q] = req[q]
    BY <1>0, <2>1, SentEffect DEF Kinds
  <2> QED
    BY <1>0, <2>1, <2>2 DEF OutOK
<1>5. ASSUME NEW r \in Slots, Guarded(r)
      PROVE  OutOK'
  <2>1. Sent(r, "guarded") /\ out' = out /\ jar' = jar
    BY <1>5 DEF Guarded
  <2>2. /\ req'[r].kind = "guarded" /\ req'[r].gives = NoCookie
        /\ \A q \in Slots : q # r => req'[q] = req[q]
    BY <1>0, <2>1, SentEffect DEF Kinds
  <2> QED
    BY <1>0, <2>1, <2>2 DEF OutOK
<1>6. ASSUME NEW r \in Slots, Plain(r)
      PROVE  OutOK'
  <2>1. PICK code \in {200, 401, 500} : Handled(r, code, NoCookie)
    BY <1>0, <1>6, PlainEffect
  <2>2. /\ req'[r].kind = req[r].kind /\ req'[r].gives = NoCookie
        /\ \A q \in Slots : q # r => req'[q] = req[q]
        /\ UNCHANGED <<jar, out>>
    BY <1>0, <2>1, HandledEffect, Values
  <2> QED
    BY <1>0, <2>2 DEF OutOK
<1>7. ASSUME NEW r \in Slots, SignInGranted(r)
      PROVE  OutOK'
  <2>1. /\ [key |-> key, at |-> now] \in Cookies
        /\ Handled(r, 200, [key |-> key, at |-> now])
    BY <1>0, <1>7, GrantEffect DEF Cookies
  <2>2. /\ req'[r].kind = "sign-in"
        /\ \A q \in Slots : q # r => req'[q] = req[q]
        /\ UNCHANGED <<jar, out>>
    BY <1>0, <1>7, <2>1, HandledEffect DEF SignInGranted
  <2>3. out # TRUE
    BY <1>0, <1>7 DEF OutOK, SignInGranted
  <2> QED
    BY <1>0, <2>2, <2>3 DEF OutOK
<1>8. ASSUME NEW r \in Slots, SignedIn(r)
      PROVE  OutOK'
  <2>1. req'[r] = Free /\ (\A q \in Slots : q # r => req'[q] = req[q]) /\ out' = out
    BY <1>0, <1>8, FreedEffect DEF SignedIn
  <2>2. out # TRUE
    BY <1>0, <1>8 DEF OutOK, SignedIn
  <2> QED
    BY <1>0, <2>1, <2>2, Values DEF OutOK
<1>9. ASSUME NEW r \in Slots, Rejected(r) \/ OtherAnswer(r) \/ Lost(r)
      PROVE  OutOK'
  <2>1. req' = [req EXCEPT ![r] = Free] /\ jar' \in {jar, NoJar} /\ out' = out
    BY <1>9 DEF Rejected, OtherAnswer, Lost
  <2>2. req'[r] = Free /\ \A q \in Slots : q # r => req'[q] = req[q]
    BY <1>0, <2>1, FreedEffect
  <2> QED
    BY <1>0, <2>1, <2>2, Values DEF OutOK
<1>10. CASE UNCHANGED vars
  BY <1>0, <1>10 DEF vars, OutOK
<1> QED
  BY <1>1, <1>2, <1>3, <1>4, <1>5, <1>6, <1>7, <1>8, <1>9, <1>10
     DEF Next, Handles, Plain

----------------------------------------------------------------------------
(* The cookie that came alone.                                              *)

LEMMA SoleStep ==
    ASSUME IInv, [Next]_vars
    PROVE  SoleOK'
<1>0. TypeOK /\ SignInsPast /\ CookiesGranted /\ SoleOK
  BY DEF IInv
<1>1. /\ now \in Nat /\ life \in Nat /\ TTL \in Nat /\ jar.until \in Nat
      /\ \A c \in Cookies : c # NoCookie => c.at \in Nat
  BY <1>0, Numbers
<1>2. sole # NoCookie => sole.at \in Nat
  BY <1>0, <1>1 DEF TypeOK
<1>3. CASE Tick
  <2>1. jar' = IF jar.until <= now + 1 THEN NoJar ELSE jar
    BY <1>3 DEF Tick
  <2>0. now' = now + 1 /\ life' = life /\ req' = req /\ sole' = sole
    BY <1>3 DEF Tick
  <2> SUFFICES ASSUME sole # NoCookie
               PROVE  /\ \A q \in Slots : req[q] # Free =>
                            /\ req[q].kind = "guarded" /\ req[q].with = sole
                            /\ req[q].gives = NoCookie
                            /\ req[q].code = 401 => now' - sole.at > TTL
                      /\ jar'.seal = sole => jar'.until >= sole.at + life
                      /\ \/ jar'.seal = sole \/ now' - sole.at > TTL
                         \/ now' - sole.at >= life
    BY <2>0 DEF SoleOK
  <2>2. sole.at \in Nat
    BY <1>2
  <2>3. /\ \A q \in Slots : req[q] # Free =>
              /\ req[q].kind = "guarded" /\ req[q].with = sole /\ req[q].gives = NoCookie
              /\ req[q].code = 401 => now - sole.at > TTL
        /\ jar.seal = sole => jar.until >= sole.at + life
        /\ jar.seal = sole \/ now - sole.at > TTL \/ now - sole.at >= life
    BY <1>0 DEF SoleOK
  <2>4. now - sole.at > TTL => now' - sole.at > TTL
    BY <1>1, <2>0, <2>2
  <2>5. now - sole.at >= life => now' - sole.at >= life
    BY <1>1, <2>0, <2>2
  <2>6. CASE jar.until <= now + 1
    <3>1. jar' = NoJar /\ jar'.seal # sole
      BY <2>1, <2>6, Values
    <3>2. jar.seal = sole => now' - sole.at >= life
      BY <1>1, <2>0, <2>2, <2>3, <2>6
    <3> QED
      BY <2>3, <2>4, <2>5, <3>1, <3>2
  <2>7. CASE ~(jar.until <= now + 1)
    BY <2>1, <2>3, <2>4, <2>5, <2>7
  <2> QED
    BY <2>6, <2>7
<1>4. CASE Logout
  BY <1>4 DEF Logout, SoleOK
<1>5. CASE Restart
  <2>1. /\ \A q \in Slots : req'[q] = req[q] \/ req'[q] = Free
        /\ UNCHANGED <<now, life, jar, sole>>
    BY <1>0, <1>5, RestartEffect
  <2> QED
    BY <1>0, <2>1 DEF SoleOK
<1>6. ASSUME NEW r \in Slots, SignIn(r)
      PROVE  SoleOK'
  BY <1>6 DEF SignIn, SoleOK
<1>7. ASSUME NEW r \in Slots, Guarded(r)
      PROVE  SoleOK'
  <2>1. /\ Sent(r, "guarded") /\ sole' = (IF jar.seal = sole THEN sole ELSE NoCookie)
        /\ UNCHANGED <<now, life, jar>>
    BY <1>7 DEF Guarded
  <2>2. /\ req'[r].kind = "guarded" /\ req'[r].with = jar.seal /\ req'[r].gives = NoCookie
        /\ req'[r].code = 0
        /\ \A q \in Slots : q # r => req'[q] = req[q]
    BY <1>0, <2>1, SentEffect DEF Kinds
  <2>3. CASE jar.seal = sole
    BY <1>0, <2>1, <2>2, <2>3 DEF SoleOK
  <2>4. CASE jar.seal # sole
    BY <2>1, <2>4 DEF SoleOK
  <2> QED
    BY <2>3, <2>4
<1>8. ASSUME NEW r \in Slots, Plain(r)
      PROVE  SoleOK'
  <2>1. PICK code \in {200, 401, 500} :
           /\ Handled(r, code, NoCookie)
           /\ code = 401 => SignInRefused(r) \/ NotAuthenticated(r)
    BY <1>0, <1>8, PlainEffect
  <2>2. /\ req'[r].kind = req[r].kind /\ req'[r].with = req[r].with
        /\ req'[r].gives = NoCookie /\ req'[r].code = code
        /\ \A q \in Slots : q # r => req'[q] = req[q]
        /\ UNCHANGED <<now, life, jar, sole>>
    BY <1>0, <2>1, HandledEffect, Values
  <2>3. req[r] # Free
    BY <1>8, Values DEF Plain, BadCookie, SignInRefused, NotAuthenticated, Authenticated
  <2>4. ASSUME sole # NoCookie, code = 401
        PROVE  now - sole.at > TTL
    <3>1. req[r].kind = "guarded" /\ req[r].with = sole
      BY <1>0, <2>3, <2>4 DEF SoleOK
    <3>2. ~TokenGood(sole)
      BY <2>1, <2>4, <3>1 DEF SignInRefused, NotAuthenticated
    <3> QED
      BY <1>1, <1>2, <2>4, <3>2 DEF TokenGood
  <2>5. ASSUME sole # NoCookie, NEW q \in Slots, req'[q] # Free
        PROVE  /\ req'[q].kind = "guarded" /\ req'[q].with = sole
               /\ req'[q].gives = NoCookie
               /\ req'[q].code = 401 => now - sole.at > TTL
    <3>1. CASE q = r
      BY <1>0, <2>2, <2>3, <2>4, <2>5, <3>1 DEF SoleOK
    <3>2. CASE q # r
      BY <1>0, <2>2, <2>5, <3>2 DEF SoleOK
    <3> QED
      BY <3>1, <3>2
  <2> QED
    BY <1>0, <2>2, <2>5 DEF SoleOK
<1>9. ASSUME NEW r \in Slots, SignInGranted(r)
      PROVE  SoleOK'
  <2>1. req[r].kind = "sign-in" /\ req[r] # Free
    BY <1>9, Values DEF SignInGranted
  <2>2. sole = NoCookie
    BY <1>0, <2>1 DEF SoleOK
  <2>3. sole' = sole
    BY <1>0, <1>9, GrantEffect DEF Handled
  <2> QED
    BY <2>2, <2>3 DEF SoleOK
<1>10. ASSUME NEW r \in Slots, SignedIn(r)
       PROVE  SoleOK'
  <2>1. /\ jar' = [seal |-> req[r].gives, until |-> now + life]
        /\ req[r].gives # NoCookie
        /\ sole' = (IF \A q \in Slots \ {r} : req[q] = Free THEN req[r].gives ELSE NoCookie)
        /\ UNCHANGED <<now, life>>
    BY <1>10 DEF SignedIn
  <2>2. req'[r] = Free /\ \A q \in Slots : q # r => req'[q] = req[q]
    BY <1>0, <1>10, FreedEffect DEF SignedIn
  <2>3. req[r].gives.at \in Nat /\ req[r].gives.at <= now
    <3>1. req[r].gives \in Cookies /\ Granted(req[r].gives)
      BY <1>0, Numbers DEF CookiesGranted
    <3>2. /\ req[r].gives.key \in Keys /\ req[r].gives.at \in Nat
          /\ lastIn[req[r].gives.key] # Never
          /\ req[r].gives.at <= lastIn[req[r].gives.key]
      BY <1>1, <2>1, <3>1, Values DEF Granted
    <3>3. lastIn[req[r].gives.key] <= now /\ lastIn[req[r].gives.key] \in Nat
      BY <1>0, <3>2, Numbers DEF SignInsPast
    <3> QED
      BY <1>1, <3>2, <3>3
  <2>4. CASE \A q \in Slots \ {r} : req[q] = Free
    <3>1. sole' = req[r].gives /\ jar'.seal = sole' /\ jar'.until = now + life
      BY <2>1, <2>4
    <3>2. jar'.until >= sole'.at + life
      BY <1>1, <2>3, <3>1
    <3>3. \A q \in Slots : req'[q] = Free
      BY <2>2, <2>4
    <3> QED
      BY <2>1, <3>1, <3>2, <3>3 DEF SoleOK
  <2>5. CASE ~(\A q \in Slots \ {r} : req[q] = Free)
    <3>1. sole' = NoCookie
      BY <2>1, <2>5
    <3> QED
      BY <3>1 DEF SoleOK
  <2> QED
    BY <2>4, <2>5
<1>11. ASSUME NEW r \in Slots, Rejected(r)
       PROVE  SoleOK'
  <2>1. /\ jar' = NoJar /\ req' = [req EXCEPT ![r] = Free] /\ req[r].code = 401
        /\ UNCHANGED <<now, life, sole>>
    BY <1>11 DEF Rejected
  <2>2. req'[r] = Free /\ (\A q \in Slots : q # r => req'[q] = req[q]) /\ req[r] # Free
    <3>1. req'[r] = Free /\ \A q \in Slots : q # r => req'[q] = req[q]
      BY <1>0, <2>1, FreedEffect
    <3>2. req[r] # Free
      BY <2>1, Values
    <3> QED
      BY <3>1, <3>2
  <2>3. sole # NoCookie => now - sole.at > TTL /\ jar'.seal # sole
    BY <1>0, <2>1, <2>2, Values DEF SoleOK
  <2>4. sole # NoCookie => \A q \in Slots : req'[q] # Free =>
           /\ req'[q].kind = "guarded" /\ req'[q].with = sole
           /\ req'[q].gives = NoCookie
           /\ req'[q].code = 401 => now - sole.at > TTL
    BY <1>0, <2>2 DEF SoleOK
  <2> QED
    BY <2>1, <2>3, <2>4 DEF SoleOK
<1>12. ASSUME NEW r \in Slots, OtherAnswer(r) \/ Lost(r)
       PROVE  SoleOK'
  <2>1. req' = [req EXCEPT ![r] = Free] /\ UNCHANGED <<now, life, jar, sole>>
    BY <1>12 DEF OtherAnswer, Lost
  <2>2. req'[r] = Free /\ \A q \in Slots : q # r => req'[q] = req[q]
    BY <1>0, <2>1, FreedEffect
  <2> QED
    BY <1>0, <2>1, <2>2 DEF SoleOK
<1>13. CASE UNCHANGED vars
  BY <1>0, <1>13 DEF vars, SoleOK
<1> QED
  BY <1>3, <1>4, <1>5, <1>6, <1>7, <1>8, <1>9, <1>10, <1>11, <1>12, <1>13
     DEF Next, Handles, Plain

----------------------------------------------------------------------------
LEMMA IInvStep == IInv /\ [Next]_vars => IInv'
BY TypeStep, GrantedStep, PassedStep, OutStep, SoleStep DEF IInv

\* The invariant holds in every state.
THEOREM InductiveInvariant == Spec => []IInv
BY InitIInv, IInvStep, PTL DEF Spec

\* Cookies, requests and the clock keep their types.
THEOREM TypeCorrect == Spec => []TypeOK
BY InductiveInvariant, PTL DEF IInv

\* A guarded request passes only within TTL of a sign-in under its key.
THEOREM PassersSignedIn == Spec => []PassesSignedIn
<1>1. IInv => PassesSignedIn
  BY DEF IInv, PassedUnderKey, PassesSignedIn
<1> QED
  BY <1>1, InductiveInvariant, PTL

\* After a logout without a sign-in under way, no late answer brings a cookie.
THEOREM LogoutHolds == Spec => []LoggedOutStays
<1>1. IInv => LoggedOutStays
  BY DEF IInv, TypeOK, OutOK, LoggedOutStays
<1> QED
  BY <1>1, InductiveInvariant, PTL

\* A cookie that came alone stays for its time.
THEOREM SoleCookieKept == Spec => []SoleCookieStays
<1>1. IInv => SoleCookieStays
  BY DEF IInv, SoleOK, SoleCookieStays
<1> QED
  BY <1>1, InductiveInvariant, PTL
=============================================================================
