---------------------------- MODULE RouterProofs ----------------------------
(***************************************************************************)
(* Theorems about Router, for any names of repositories, any methods and   *)
(* paths of any length, and for any names of files of which is known what  *)
(* becomes of them in a URL.                                               *)
(***************************************************************************)
EXTENDS Router, SequenceTheorems, TLAPS

----------------------------------------------------------------------------
(* The table of routes.                                                    *)

LEMMA RouteList ==
    /\ Len(Routes) = 9 /\ DOMAIN Routes = 1..9
    /\ Routes[1] = Route("signIn", {"POST"}, <<AnyWord, "sign-in">>, FALSE)
    /\ Routes[2] = Route("folders", Methods, <<AnyWord, "folders">>, FALSE)
    /\ Routes[3] = Route("reindex", {"POST"}, <<AnyWord, "files", "reindex">>, TRUE)
    /\ Routes[4] = Route("upload", {"POST"}, <<AnyWord, "files", AnyWord>>, TRUE)
    /\ Routes[5] = Route("list", Methods, <<AnyWord, "files", AnyWord>>, FALSE)
    /\ Routes[6] = Route("download", Methods, <<AnyWord, "files", AnyWord, AnyWord>>, FALSE)
    /\ Routes[7] = Route("info", Methods, <<AnyWord, "files", AnyWord, AnyWord, "info">>, FALSE)
    /\ Routes[8] = Route("index", Methods, <<AnyWord, Empty>>, FALSE)
    /\ Routes[9] = Route("static", Methods, <<AnyWord>>, FALSE)
<1> DEFINE a == Route("signIn", {"POST"}, <<AnyWord, "sign-in">>, FALSE)
           b == Route("folders", Methods, <<AnyWord, "folders">>, FALSE)
           c == Route("reindex", {"POST"}, <<AnyWord, "files", "reindex">>, TRUE)
           d == Route("upload", {"POST"}, <<AnyWord, "files", AnyWord>>, TRUE)
           e == Route("list", Methods, <<AnyWord, "files", AnyWord>>, FALSE)
           f == Route("download", Methods, <<AnyWord, "files", AnyWord, AnyWord>>, FALSE)
           g == Route("info", Methods, <<AnyWord, "files", AnyWord, AnyWord, "info">>, FALSE)
           h == Route("index", Methods, <<AnyWord, Empty>>, FALSE)
           k == Route("static", Methods, <<AnyWord>>, FALSE)
           S == {a, b, c, d, e, f, g, h, k}
<1>1. Routes = <<a, b>> \o <<c, d>> \o <<e, f, g>> \o <<h, k>>
  BY Zenon DEF Routes, FirstRoutes, AuthRoutes, FilesRoutes, LastRoutes
<1>2. a \in S /\ b \in S /\ c \in S /\ d \in S /\ e \in S /\ f \in S /\ g \in S /\ h \in S /\ k \in S
  OBVIOUS
<1> HIDE DEF a, b, c, d, e, f, g, h, k, S
<1>3. <<a, b>> \o <<c, d>> = <<a, b, c, d>>
  <2>1. <<a, b>> \in Seq(S) /\ <<c, d>> \in Seq(S) /\ <<a, b, c, d>> \in Seq(S)
    BY <1>2
  <2>2. <<a, b>> \o <<c, d>> \in Seq(S)
    BY <2>1, ConcatProperties
  <2>3. Len(<<a, b>> \o <<c, d>>) = 4 /\ Len(<<a, b, c, d>>) = 4
    BY <2>1, ConcatProperties
  <2>4. ASSUME NEW i \in 1..4
        PROVE  (<<a, b>> \o <<c, d>>)[i] = <<a, b, c, d>>[i]
    OBVIOUS
  <2> QED
    BY <2>1, <2>2, <2>3, <2>4, SeqEqual
<1>4. <<a, b, c, d>> \o <<e, f, g>> = <<a, b, c, d, e, f, g>>
  <2>1. <<a, b, c, d>> \in Seq(S) /\ <<e, f, g>> \in Seq(S) /\ <<a, b, c, d, e, f, g>> \in Seq(S)
    BY <1>2
  <2>2. <<a, b, c, d>> \o <<e, f, g>> \in Seq(S)
    BY <2>1, ConcatProperties
  <2>3. Len(<<a, b, c, d>> \o <<e, f, g>>) = 7 /\ Len(<<a, b, c, d, e, f, g>>) = 7
    BY <2>1, ConcatProperties
  <2>4. ASSUME NEW i \in 1..7
        PROVE  (<<a, b, c, d>> \o <<e, f, g>>)[i] = <<a, b, c, d, e, f, g>>[i]
    OBVIOUS
  <2> QED
    BY <2>1, <2>2, <2>3, <2>4, SeqEqual
<1>5. <<a, b, c, d, e, f, g>> \o <<h, k>> = <<a, b, c, d, e, f, g, h, k>>
  <2>1. <<a, b, c, d, e, f, g>> \in Seq(S) /\ <<h, k>> \in Seq(S) /\ <<a, b, c, d, e, f, g, h, k>> \in Seq(S)
    BY <1>2
  <2>2. <<a, b, c, d, e, f, g>> \o <<h, k>> \in Seq(S)
    BY <2>1, ConcatProperties
  <2>3. Len(<<a, b, c, d, e, f, g>> \o <<h, k>>) = 9 /\ Len(<<a, b, c, d, e, f, g, h, k>>) = 9
    BY <2>1, ConcatProperties
  <2>4. ASSUME NEW i \in 1..9
        PROVE  (<<a, b, c, d, e, f, g>> \o <<h, k>>)[i] = <<a, b, c, d, e, f, g, h, k>>[i]
    OBVIOUS
  <2> QED
    BY <2>1, <2>2, <2>3, <2>4, SeqEqual
<1>6. Routes = <<a, b, c, d, e, f, g, h, k>>
  BY <1>1, <1>3, <1>4, <1>5, Zenon
<1>7. /\ Len(Routes) = 9 /\ DOMAIN Routes = 1..9
      /\ Routes[1] = a /\ Routes[2] = b /\ Routes[3] = c /\ Routes[4] = d /\ Routes[5] = e
      /\ Routes[6] = f /\ Routes[7] = g /\ Routes[8] = h /\ Routes[9] = k
  BY <1>6
<1> QED
  BY <1>7, Zenon DEF a, b, c, d, e, f, g, h, k

\* The least of the numbers of some routes.
LEMMA First ==
    ASSUME NEW C \in SUBSET (1..9), C # {}
    PROVE  Min(C) \in C /\ \A n \in C : Min(C) <= n
<1>1. \E m \in C : \A n \in C : m <= n
  <2> SUFFICES ASSUME \A m \in C : \E n \in C : n < m
               PROVE  FALSE
    OBVIOUS
  <2>1. 1 \notin C /\ 2 \notin C /\ 3 \notin C
    OBVIOUS
  <2>2. 4 \notin C /\ 5 \notin C /\ 6 \notin C
    BY <2>1
  <2>3. 7 \notin C /\ 8 \notin C /\ 9 \notin C
    BY <2>1, <2>2
  <2>4. PICK n \in C : n \in 1..9
    OBVIOUS
  <2>5. n \in {1, 2, 3, 4, 5, 6, 7, 8, 9}
    BY <2>4
  <2> QED
    BY <2>1, <2>2, <2>3, <2>4, <2>5
<1> QED
  BY <1>1 DEF Min

----------------------------------------------------------------------------
(* What fits a route.                                                      *)

\* Of a route with a template, a word for each piece.
LEMMA TwoWords ==
    ASSUME NEW route, NEW m, NEW S, NEW p \in Seq(S),
           route.handler # "static", Len(route.template) = 2
    PROVE  Fits(route, m, p) <=>
               /\ m \in route.methods /\ Len(p) = 2
               /\ FitsWord(p[1], route.template[1])
               /\ FitsWord(p[2], route.template[2])
<1>1. \A i \in 1..2 : i = 1 \/ i = 2
  OBVIOUS
<1>2. 1 \in 1..2 /\ 2 \in 1..2
  OBVIOUS
<1> QED
  BY <1>1, <1>2 DEF Fits

LEMMA ThreeWords ==
    ASSUME NEW route, NEW m, NEW S, NEW p \in Seq(S),
           route.handler # "static", Len(route.template) = 3
    PROVE  Fits(route, m, p) <=>
               /\ m \in route.methods /\ Len(p) = 3
               /\ FitsWord(p[1], route.template[1])
               /\ FitsWord(p[2], route.template[2])
               /\ FitsWord(p[3], route.template[3])
<1>1. \A i \in 1..3 : i = 1 \/ i = 2 \/ i = 3
  OBVIOUS
<1>2. 1 \in 1..3 /\ 2 \in 1..3 /\ 3 \in 1..3
  OBVIOUS
<1> QED
  BY <1>1, <1>2 DEF Fits

LEMMA FourWords ==
    ASSUME NEW route, NEW m, NEW S, NEW p \in Seq(S),
           route.handler # "static", Len(route.template) = 4
    PROVE  Fits(route, m, p) <=>
               /\ m \in route.methods /\ Len(p) = 4
               /\ FitsWord(p[1], route.template[1])
               /\ FitsWord(p[2], route.template[2])
               /\ FitsWord(p[3], route.template[3])
               /\ FitsWord(p[4], route.template[4])
<1>1. \A i \in 1..4 : i = 1 \/ i = 2 \/ i = 3 \/ i = 4
  OBVIOUS
<1>2. 1 \in 1..4 /\ 2 \in 1..4 /\ 3 \in 1..4 /\ 4 \in 1..4
  OBVIOUS
<1> QED
  BY <1>1, <1>2 DEF Fits

LEMMA FiveWords ==
    ASSUME NEW route, NEW m, NEW S, NEW p \in Seq(S),
           route.handler # "static", Len(route.template) = 5
    PROVE  Fits(route, m, p) <=>
               /\ m \in route.methods /\ Len(p) = 5
               /\ FitsWord(p[1], route.template[1])
               /\ FitsWord(p[2], route.template[2])
               /\ FitsWord(p[3], route.template[3])
               /\ FitsWord(p[4], route.template[4])
               /\ FitsWord(p[5], route.template[5])
<1>1. \A i \in 1..5 : i = 1 \/ i = 2 \/ i = 3 \/ i = 4 \/ i = 5
  OBVIOUS
<1>2. 1 \in 1..5 /\ 2 \in 1..5 /\ 3 \in 1..5 /\ 4 \in 1..5 /\ 5 \in 1..5
  OBVIOUS
<1> QED
  BY <1>1, <1>2 DEF Fits

LEMMA EmptyWord ==
    Empty \notin {AnyWord, "sign-in", "folders", "files", "reindex", "info"}
  BY Zenon DEF Empty, AnyWord

LEMMA OneWord ==
    /\ \A w : FitsWord(w, AnyWord) <=> w # Empty
    /\ \A w : \A v \in {"sign-in", "folders", "files", "reindex", "info", Empty} :
          FitsWord(w, v) <=> w = v
  BY EmptyWord DEF FitsWord, AnyWord

\* What each route lets through.
LEMMA Fitting ==
    ASSUME NEW m, NEW S, NEW p \in Seq(S)
    PROVE  /\ Fits(Routes[1], m, p) <=>
                  m = "POST" /\ Len(p) = 2 /\ p[1] # Empty /\ p[2] = "sign-in"
           /\ Fits(Routes[2], m, p) <=>
                  m \in Methods /\ Len(p) = 2 /\ p[1] # Empty /\ p[2] = "folders"
           /\ Fits(Routes[3], m, p) <=>
                  m = "POST" /\ Len(p) = 3 /\ p[1] # Empty /\ p[2] = "files" /\ p[3] = "reindex"
           /\ Fits(Routes[4], m, p) <=>
                  m = "POST" /\ Len(p) = 3 /\ p[1] # Empty /\ p[2] = "files" /\ p[3] # Empty
           /\ Fits(Routes[5], m, p) <=>
                  m \in Methods /\ Len(p) = 3 /\ p[1] # Empty /\ p[2] = "files" /\ p[3] # Empty
           /\ Fits(Routes[6], m, p) <=>
                  /\ m \in Methods /\ Len(p) = 4
                  /\ p[1] # Empty /\ p[2] = "files" /\ p[3] # Empty /\ p[4] # Empty
           /\ Fits(Routes[7], m, p) <=>
                  /\ m \in Methods /\ Len(p) = 5
                  /\ p[1] # Empty /\ p[2] = "files" /\ p[3] # Empty /\ p[4] # Empty /\ p[5] = "info"
           /\ Fits(Routes[8], m, p) <=>
                  m \in Methods /\ Len(p) = 2 /\ p[1] # Empty /\ p[2] = Empty
           /\ Fits(Routes[9], m, p) <=> m \in Methods /\ Len(p) > 1 /\ p[1] # Empty
<1>1. Fits(Routes[1], m, p) <=>
          /\ m = "POST" /\ Len(p) = 2
          /\ p[1] # Empty /\ p[2] = "sign-in"
  <2>1. Routes[1] = Route("signIn", {"POST"}, <<AnyWord, "sign-in">>, FALSE)
    BY RouteList, Zenon
  <2>2. /\ Routes[1].handler # "static" /\ Routes[1].methods = {"POST"}
        /\ Len(Routes[1].template) = 2
        /\ Routes[1].template[1] = AnyWord
        /\ Routes[1].template[2] = "sign-in"
    BY <2>1 DEF Route
  <2>3. Fits(Routes[1], m, p) <=>
            /\ m = "POST" /\ Len(p) = 2
            /\ FitsWord(p[1], AnyWord)
            /\ FitsWord(p[2], "sign-in")
    BY <2>2, TwoWords
  <2> QED
    BY <2>3, OneWord, Zenon
<1>2. Fits(Routes[2], m, p) <=>
          /\ m \in Methods /\ Len(p) = 2
          /\ p[1] # Empty /\ p[2] = "folders"
  <2>1. Routes[2] = Route("folders", Methods, <<AnyWord, "folders">>, FALSE)
    BY RouteList, Zenon
  <2>2. /\ Routes[2].handler # "static" /\ Routes[2].methods = Methods
        /\ Len(Routes[2].template) = 2
        /\ Routes[2].template[1] = AnyWord
        /\ Routes[2].template[2] = "folders"
    BY <2>1 DEF Route
  <2>3. Fits(Routes[2], m, p) <=>
            /\ m \in Methods /\ Len(p) = 2
            /\ FitsWord(p[1], AnyWord)
            /\ FitsWord(p[2], "folders")
    BY <2>2, TwoWords
  <2> QED
    BY <2>3, OneWord, Zenon
<1>3. Fits(Routes[3], m, p) <=>
          /\ m = "POST" /\ Len(p) = 3
          /\ p[1] # Empty /\ p[2] = "files" /\ p[3] = "reindex"
  <2>1. Routes[3] = Route("reindex", {"POST"}, <<AnyWord, "files", "reindex">>, TRUE)
    BY RouteList, Zenon
  <2>2. /\ Routes[3].handler # "static" /\ Routes[3].methods = {"POST"}
        /\ Len(Routes[3].template) = 3
        /\ Routes[3].template[1] = AnyWord
        /\ Routes[3].template[2] = "files"
        /\ Routes[3].template[3] = "reindex"
    BY <2>1 DEF Route
  <2>3. Fits(Routes[3], m, p) <=>
            /\ m = "POST" /\ Len(p) = 3
            /\ FitsWord(p[1], AnyWord)
            /\ FitsWord(p[2], "files")
            /\ FitsWord(p[3], "reindex")
    BY <2>2, ThreeWords
  <2> QED
    BY <2>3, OneWord, Zenon
<1>4. Fits(Routes[4], m, p) <=>
          /\ m = "POST" /\ Len(p) = 3
          /\ p[1] # Empty /\ p[2] = "files" /\ p[3] # Empty
  <2>1. Routes[4] = Route("upload", {"POST"}, <<AnyWord, "files", AnyWord>>, TRUE)
    BY RouteList, Zenon
  <2>2. /\ Routes[4].handler # "static" /\ Routes[4].methods = {"POST"}
        /\ Len(Routes[4].template) = 3
        /\ Routes[4].template[1] = AnyWord
        /\ Routes[4].template[2] = "files"
        /\ Routes[4].template[3] = AnyWord
    BY <2>1 DEF Route
  <2>3. Fits(Routes[4], m, p) <=>
            /\ m = "POST" /\ Len(p) = 3
            /\ FitsWord(p[1], AnyWord)
            /\ FitsWord(p[2], "files")
            /\ FitsWord(p[3], AnyWord)
    BY <2>2, ThreeWords
  <2> QED
    BY <2>3, OneWord, Zenon
<1>5. Fits(Routes[5], m, p) <=>
          /\ m \in Methods /\ Len(p) = 3
          /\ p[1] # Empty /\ p[2] = "files" /\ p[3] # Empty
  <2>1. Routes[5] = Route("list", Methods, <<AnyWord, "files", AnyWord>>, FALSE)
    BY RouteList, Zenon
  <2>2. /\ Routes[5].handler # "static" /\ Routes[5].methods = Methods
        /\ Len(Routes[5].template) = 3
        /\ Routes[5].template[1] = AnyWord
        /\ Routes[5].template[2] = "files"
        /\ Routes[5].template[3] = AnyWord
    BY <2>1 DEF Route
  <2>3. Fits(Routes[5], m, p) <=>
            /\ m \in Methods /\ Len(p) = 3
            /\ FitsWord(p[1], AnyWord)
            /\ FitsWord(p[2], "files")
            /\ FitsWord(p[3], AnyWord)
    BY <2>2, ThreeWords
  <2> QED
    BY <2>3, OneWord, Zenon
<1>6. Fits(Routes[6], m, p) <=>
          /\ m \in Methods /\ Len(p) = 4
          /\ p[1] # Empty /\ p[2] = "files" /\ p[3] # Empty /\ p[4] # Empty
  <2>1. Routes[6] = Route("download", Methods, <<AnyWord, "files", AnyWord, AnyWord>>, FALSE)
    BY RouteList, Zenon
  <2>2. /\ Routes[6].handler # "static" /\ Routes[6].methods = Methods
        /\ Len(Routes[6].template) = 4
        /\ Routes[6].template[1] = AnyWord
        /\ Routes[6].template[2] = "files"
        /\ Routes[6].template[3] = AnyWord
        /\ Routes[6].template[4] = AnyWord
    BY <2>1 DEF Route
  <2>3. Fits(Routes[6], m, p) <=>
            /\ m \in Methods /\ Len(p) = 4
            /\ FitsWord(p[1], AnyWord)
            /\ FitsWord(p[2], "files")
            /\ FitsWord(p[3], AnyWord)
            /\ FitsWord(p[4], AnyWord)
    BY <2>2, FourWords
  <2> QED
    BY <2>3, OneWord, Zenon
<1>7. Fits(Routes[7], m, p) <=>
          /\ m \in Methods /\ Len(p) = 5
          /\ p[1] # Empty /\ p[2] = "files" /\ p[3] # Empty /\ p[4] # Empty /\ p[5] = "info"
  <2>1. Routes[7] = Route("info", Methods, <<AnyWord, "files", AnyWord, AnyWord, "info">>, FALSE)
    BY RouteList, Zenon
  <2>2. /\ Routes[7].handler # "static" /\ Routes[7].methods = Methods
        /\ Len(Routes[7].template) = 5
        /\ Routes[7].template[1] = AnyWord
        /\ Routes[7].template[2] = "files"
        /\ Routes[7].template[3] = AnyWord
        /\ Routes[7].template[4] = AnyWord
        /\ Routes[7].template[5] = "info"
    BY <2>1 DEF Route
  <2>3. Fits(Routes[7], m, p) <=>
            /\ m \in Methods /\ Len(p) = 5
            /\ FitsWord(p[1], AnyWord)
            /\ FitsWord(p[2], "files")
            /\ FitsWord(p[3], AnyWord)
            /\ FitsWord(p[4], AnyWord)
            /\ FitsWord(p[5], "info")
    BY <2>2, FiveWords
  <2> QED
    BY <2>3, OneWord, Zenon
<1>8. Fits(Routes[8], m, p) <=>
          /\ m \in Methods /\ Len(p) = 2
          /\ p[1] # Empty /\ p[2] = Empty
  <2>1. Routes[8] = Route("index", Methods, <<AnyWord, Empty>>, FALSE)
    BY RouteList, Zenon
  <2>2. /\ Routes[8].handler # "static" /\ Routes[8].methods = Methods
        /\ Len(Routes[8].template) = 2
        /\ Routes[8].template[1] = AnyWord
        /\ Routes[8].template[2] = Empty
    BY <2>1 DEF Route
  <2>3. Fits(Routes[8], m, p) <=>
            /\ m \in Methods /\ Len(p) = 2
            /\ FitsWord(p[1], AnyWord)
            /\ FitsWord(p[2], Empty)
    BY <2>2, TwoWords
  <2> QED
    BY <2>3, OneWord, Zenon
<1>9. Fits(Routes[9], m, p) <=> m \in Methods /\ Len(p) > 1 /\ p[1] # Empty
  <2>1. Routes[9] = Route("static", Methods, <<AnyWord>>, FALSE)
    BY RouteList, Zenon
  <2>2. Routes[9].handler = "static" /\ Routes[9].methods = Methods
    BY <2>1 DEF Route
  <2> QED
    BY <2>2 DEF Fits
<1> QED
  BY <1>1, <1>2, <1>3, <1>4, <1>5, <1>6, <1>7, <1>8, <1>9

LEMMA RouteFields ==
    /\ Routes[1].handler = "signIn" /\ Routes[2].handler = "folders"
    /\ Routes[3].handler = "reindex" /\ Routes[3].guarded = TRUE
    /\ Routes[4].handler = "upload" /\ Routes[4].guarded = TRUE
    /\ Routes[5].handler = "list" /\ Routes[6].handler = "download"
    /\ Routes[7].handler = "info" /\ Routes[8].handler = "index"
    /\ Routes[9].handler = "static"
<1>1. Routes[1].handler = "signIn"
  <2>1. Routes[1] = Route("signIn", {"POST"}, <<AnyWord, "sign-in">>, FALSE)
    BY RouteList, Zenon
  <2> QED
    BY <2>1 DEF Route
<1>2. Routes[2].handler = "folders"
  <2>1. Routes[2] = Route("folders", Methods, <<AnyWord, "folders">>, FALSE)
    BY RouteList, Zenon
  <2> QED
    BY <2>1 DEF Route
<1>3. Routes[3].handler = "reindex" /\ Routes[3].guarded = TRUE
  <2>1. Routes[3] = Route("reindex", {"POST"}, <<AnyWord, "files", "reindex">>, TRUE)
    BY RouteList, Zenon
  <2> QED
    BY <2>1 DEF Route
<1>4. Routes[4].handler = "upload" /\ Routes[4].guarded = TRUE
  <2>1. Routes[4] = Route("upload", {"POST"}, <<AnyWord, "files", AnyWord>>, TRUE)
    BY RouteList, Zenon
  <2> QED
    BY <2>1 DEF Route
<1>5. Routes[5].handler = "list"
  <2>1. Routes[5] = Route("list", Methods, <<AnyWord, "files", AnyWord>>, FALSE)
    BY RouteList, Zenon
  <2> QED
    BY <2>1 DEF Route
<1>6. Routes[6].handler = "download"
  <2>1. Routes[6] = Route("download", Methods, <<AnyWord, "files", AnyWord, AnyWord>>, FALSE)
    BY RouteList, Zenon
  <2> QED
    BY <2>1 DEF Route
<1>7. Routes[7].handler = "info"
  <2>1. Routes[7] = Route("info", Methods, <<AnyWord, "files", AnyWord, AnyWord, "info">>, FALSE)
    BY RouteList, Zenon
  <2> QED
    BY <2>1 DEF Route
<1>8. Routes[8].handler = "index"
  <2>1. Routes[8] = Route("index", Methods, <<AnyWord, Empty>>, FALSE)
    BY RouteList, Zenon
  <2> QED
    BY <2>1 DEF Route
<1>9. Routes[9].handler = "static"
  <2>1. Routes[9] = Route("static", Methods, <<AnyWord>>, FALSE)
    BY RouteList, Zenon
  <2> QED
    BY <2>1 DEF Route
<1> QED
  BY <1>1, <1>2, <1>3, <1>4, <1>5, <1>6, <1>7, <1>8, <1>9

LEMMA RouteSet ==
    /\ ToSet(Routes) = {Routes[n] : n \in 1..9}
    /\ None \notin ToSet(Routes)
    /\ \A m, p : Candidates(m, p) = {n \in 1..9 : Fits(Routes[n], m, p)}
<1>1. ToSet(Routes) = {Routes[n] : n \in 1..9}
  BY RouteList DEF ToSet
<1>2. None.handler = "none"
  BY DEF None, Route
<1>3. ASSUME NEW n \in 1..9 PROVE Routes[n].handler # "none"
  <2>1. n \in {1, 2, 3, 4, 5, 6, 7, 8, 9}
    OBVIOUS
  <2> QED
    BY <2>1, RouteFields
<1>4. None \notin ToSet(Routes)
  BY <1>1, <1>2, <1>3
<1> QED
  BY <1>1, <1>4, RouteList DEF Candidates

----------------------------------------------------------------------------
(* The inductive invariant.                                                *)

\* The route a request was given is the first one that fits.
Met ==
    meets # None =>
        /\ Clean(path)
        /\ \E n \in 1..9 : /\ meets = Routes[n] /\ Fits(Routes[n], method, path)
                           /\ \A k \in 1..9 : Fits(Routes[k], method, path) => n <= k

\* A handler runs for a repository that is configured and, on a guarded route,
\* for a good cookie; it does what its route is called.
Guard ==
    /\ at \in {"cors", "route", "repo", "auth", "handler"} => did = "nothing"
    /\ at \in {"auth", "handler", "write"} \/ did # "nothing" => path[1] \in Entries
    /\ at \in {"handler", "write"} \/ did # "nothing" =>
          (meets.guarded = TRUE => cookie = "good")
    /\ did # "nothing" => meets # None /\ meets.handler = did

\* How far the answer and the log are at each place.
Progress ==
    /\ at \in {"cors", "route"} => log = "none" /\ wire = 0 /\ broke = FALSE
    /\ at \in {"repo", "auth", "handler"} =>
          log = "started" /\ wire = 0 /\ broke = FALSE /\ code = 200
    /\ at = "write" => log = "started" /\ wire = 200 /\ broke = FALSE /\ code = 200
    /\ at = "end" =>
          log = "started" /\ IF broke = TRUE THEN wire = 200 /\ code = 500 ELSE code = wire

IInv == TypeOK /\ Met /\ Guard /\ Progress /\ LogTellsStatus

LEMMA InitOK == Init => IInv
<1> SUFFICES ASSUME Init PROVE IInv
  OBVIOUS
<1> DEFINE S == Repos \cup Words \cup {Empty}
<1>1. path \in Seq(S) /\ Len(path) \in 1..MaxDepth
  <2>1. PICK n \in 1..MaxDepth :
            \E r \in Repos \cup {Empty}, rest \in [1..(n - 1) -> Words \cup {Empty}] :
                path = <<r>> \o rest
    BY DEF Init
  <2>2. PICK r \in Repos \cup {Empty}, rest \in [1..(n - 1) -> Words \cup {Empty}] :
            path = <<r>> \o rest
    BY <2>1
  <2>3. n \in Nat /\ n - 1 \in Nat
    BY WordsAssumption
  <2>4. rest \in Seq(S) /\ Len(rest) = n - 1
    BY <2>3
  <2>5. <<r>> \in Seq(S) /\ Len(<<r>>) = 1
    OBVIOUS
  <2>6. <<r>> \o rest \in Seq(S) /\ Len(<<r>> \o rest) = 1 + (n - 1)
    BY <2>4, <2>5, ConcatProperties
  <2> QED
    BY <2>2, <2>3, <2>6
<1>a. preflight \in BOOLEAN
  <2>1. CASE method = "OPTIONS"
    BY <2>1 DEF Init
  <2>2. CASE method # "OPTIONS"
    BY <2>2 DEF Init
  <2> QED
    BY <2>1, <2>2
<1>2. /\ method \in Methods
      /\ cookie = "unread" /\ at = "cors" /\ meets = None /\ did = "nothing"
      /\ wire = 0 /\ code = 200 /\ log = "none" /\ broke = FALSE
  BY DEF Init
<1>3. TypeOK
  BY <1>1, <1>2, <1>a DEF TypeOK, Served
<1>4. Met /\ Guard /\ Progress /\ LogTellsStatus
  BY <1>2 DEF Met, Guard, Progress, LogTellsStatus
<1> QED
  BY <1>3, <1>4 DEF IInv

\* What Enter picks.
LEMMA EnterMeets ==
    ASSUME Enter
    PROVE  \E n \in 1..9 : /\ meets' = Routes[n] /\ Fits(Routes[n], method, path)
                           /\ \A k \in 1..9 : Fits(Routes[k], method, path) => n <= k
<1> DEFINE C == Candidates(method, path)
<1>1. C = {n \in 1..9 : Fits(Routes[n], method, path)}
  BY RouteSet
<1>2. C # {} /\ meets' = Routes[Min(C)]
  BY DEF Enter
<1> HIDE DEF C
<1>3. Min(C) \in C /\ \A n \in C : Min(C) <= n
  BY <1>1, <1>2, First
<1> QED
  BY <1>1, <1>2, <1>3

LEMMA TypeStep == TypeOK /\ Progress /\ [Next]_vars => TypeOK'
<1> SUFFICES ASSUME TypeOK, Progress, [Next]_vars PROVE TypeOK'
  OBVIOUS
<1> USE DEF TypeOK, request, Served
<1>1. CASE Preflight
  BY <1>1 DEF Preflight, Answer
<1>2. CASE ActualRequest
  BY <1>2 DEF ActualRequest, Goto
<1>3. CASE Redirect
  BY <1>3 DEF Redirect, Answer
<1>4. CASE NotFound
  BY <1>4 DEF NotFound, Answer
<1>5. CASE Enter
  <2>1. meets' \in ToSet(Routes)
    BY <1>5, EnterMeets, RouteSet
  <2> QED
    BY <1>5, <2>1 DEF Enter
<1>6. CASE UnknownRepo
  <2>1. at = "repo" /\ Reply(400) /\ cookie' = cookie /\ did' = did
    BY <1>6 DEF UnknownRepo
  <2> QED
    BY <2>1 DEF Reply
<1>7. CASE KnownRepo
  <2>1. at = "repo" /\ (Goto("auth") \/ Goto("handler"))
    BY <1>7 DEF KnownRepo
  <2>2. wire = 0
    BY <2>1 DEF Progress
  <2> QED
    BY <2>1, <2>2 DEF Goto
<1>8. CASE Authenticated
  <2>1. wire = 0
    BY <1>8 DEF Authenticated, Finds, Progress
  <2> QED
    BY <1>8, <2>1 DEF Authenticated, Finds, Cookies
<1>9. ASSUME NEW what \in Cookies \ {"good"}, NotAuthenticated(what) PROVE TypeOK'
  BY <1>9 DEF NotAuthenticated, Finds, Reply, Cookies
<1>10. CASE Panics
  BY <1>10 DEF Panics
<1>11. CASE HandlerFails
  <2>1. PICK status \in {400, 401, 500} : Reply(status)
    BY <1>11 DEF HandlerFails, Errors
  <2>2. did' \in {"nothing", "upload", "reindex"}
    BY <1>11 DEF HandlerFails, Effects
  <2> QED
    BY <1>11, <2>1, <2>2 DEF HandlerFails, Reply
<1>12. CASE HandlerWrites
  <2>1. /\ at = "handler" /\ at' = "write" /\ wire' = 200
        /\ UNCHANGED <<method, path, preflight, cookie, meets, code, log, broke>>
    BY <1>12 DEF HandlerWrites
  <2>2. did' \in {"nothing", "upload", "reindex"}
    BY <1>12 DEF HandlerWrites
  <2> QED
    BY <2>1, <2>2
<1>13. CASE Written
  <2>1. wire = 200
    BY <1>13 DEF Written, Progress
  <2> QED
    BY <1>13, <2>1 DEF Written, Goto
<1>14. CASE WriteFails
  <2>1. wire = 200
    BY <1>14 DEF WriteFails, Progress
  <2> QED
    BY <1>14, <2>1 DEF WriteFails
<1>15. CASE StaticServed
  BY <1>15 DEF StaticServed, Reply
<1>16. CASE Completed
  BY <1>16 DEF Completed, Level
<1>17. CASE UNCHANGED vars
  BY <1>17 DEF vars
<1> QED
  BY <1>1, <1>2, <1>3, <1>4, <1>5, <1>6, <1>7, <1>8, <1>9, <1>10, <1>11, <1>12, <1>13,
     <1>14, <1>15, <1>16, <1>17 DEF Next

\* The request and the route stay what they are, but for Enter.
LEMMA Fixed ==
    [Next]_vars =>
        /\ UNCHANGED request
        /\ UNCHANGED meets \/ Enter
<1> SUFFICES ASSUME [Next]_vars PROVE UNCHANGED request /\ (UNCHANGED meets \/ Enter)
  OBVIOUS
<1>1. Preflight \/ ActualRequest \/ Redirect \/ NotFound => UNCHANGED <<request, meets>>
  BY DEF Preflight, ActualRequest, Redirect, NotFound, Answer, Goto
<1>2. Enter => UNCHANGED request
  BY DEF Enter
<1>3. UnknownRepo \/ KnownRepo \/ Authenticated => UNCHANGED <<request, meets>>
  BY DEF UnknownRepo, KnownRepo, Authenticated, Reply, Goto
<1>4. (\E what \in Cookies \ {"good"} : NotAuthenticated(what)) => UNCHANGED <<request, meets>>
  BY DEF NotAuthenticated, Reply
<1>5. Panics \/ HandlerFails \/ HandlerWrites => UNCHANGED <<request, meets>>
  BY DEF Panics, HandlerFails, HandlerWrites, Reply
<1>6. Written \/ WriteFails \/ StaticServed \/ Completed => UNCHANGED <<request, meets>>
  BY DEF Written, WriteFails, StaticServed, Completed, Reply, Goto
<1> QED
  BY <1>1, <1>2, <1>3, <1>4, <1>5, <1>6 DEF Next, vars

LEMMA MetStep == Met /\ [Next]_vars => Met'
<1> SUFFICES ASSUME Met, [Next]_vars PROVE Met'
  OBVIOUS
<1>1. method' = method /\ path' = path
  BY Fixed DEF request
<1>2. CASE UNCHANGED meets
  BY <1>1, <1>2 DEF Met
<1>3. CASE Enter
  <2>1. Clean(path)
    BY <1>3 DEF Enter
  <2> QED
    BY <1>1, <1>3, <2>1, EnterMeets DEF Met
<1> QED
  BY <1>2, <1>3, Fixed

LEMMA GuardStep == TypeOK /\ Guard /\ [Next]_vars => Guard'
<1> SUFFICES ASSUME TypeOK, Guard, [Next]_vars PROVE Guard'
  OBVIOUS
<1> USE DEF Guard, request
<1>1. CASE Preflight
  BY <1>1 DEF Preflight, Answer
<1>2. CASE ActualRequest
  BY <1>2 DEF ActualRequest, Goto
<1>3. CASE Redirect
  BY <1>3 DEF Redirect, Answer
<1>4. CASE NotFound
  BY <1>4 DEF NotFound, Answer
<1>5. CASE Enter
  BY <1>5 DEF Enter
<1>6. CASE UnknownRepo
  BY <1>6 DEF UnknownRepo, Reply
<1>7. CASE KnownRepo
  BY <1>7 DEF KnownRepo, Goto
<1>8. CASE Authenticated
  BY <1>8 DEF Authenticated, Finds
<1>9. ASSUME NEW what \in Cookies \ {"good"}, NotAuthenticated(what) PROVE Guard'
  BY <1>9 DEF NotAuthenticated, Finds, Reply
<1>10. CASE Panics
  BY <1>10 DEF Panics
<1>11. CASE HandlerFails
  <2>1. at = "handler" /\ cookie' = cookie /\ \E status : Reply(status)
    BY <1>11 DEF HandlerFails
  <2>2. did' = "nothing" \/ did' = meets.handler
    BY <1>11 DEF HandlerFails, Effects
  <2>3. meets # None
    BY <2>1, RouteSet DEF TypeOK
  <2> QED
    BY <2>1, <2>2, <2>3 DEF Reply
<1>12. CASE HandlerWrites
  <2>1. did' = did \/ did' = meets.handler
    BY <1>12 DEF HandlerWrites
  <2>2. meets # None
    BY <1>12, RouteSet DEF TypeOK, HandlerWrites
  <2> QED
    BY <1>12, <2>1, <2>2 DEF HandlerWrites
<1>13. CASE Written
  BY <1>13 DEF Written, Goto
<1>14. CASE WriteFails
  BY <1>14 DEF WriteFails
<1>15. CASE StaticServed
  BY <1>15 DEF StaticServed, Reply
<1>16. CASE Completed
  BY <1>16 DEF Completed
<1>17. CASE UNCHANGED vars
  BY <1>17 DEF vars
<1> QED
  BY <1>1, <1>2, <1>3, <1>4, <1>5, <1>6, <1>7, <1>8, <1>9, <1>10, <1>11, <1>12, <1>13,
     <1>14, <1>15, <1>16, <1>17 DEF Next

LEMMA ProgressStep == TypeOK /\ Progress /\ [Next]_vars => Progress'
<1> SUFFICES ASSUME TypeOK, Progress, [Next]_vars PROVE Progress'
  OBVIOUS
<1> USE DEF Progress, request
<1>1. CASE Preflight
  BY <1>1 DEF Preflight, Answer
<1>2. CASE ActualRequest
  BY <1>2 DEF ActualRequest, Goto
<1>3. CASE Redirect
  BY <1>3 DEF Redirect, Answer
<1>4. CASE NotFound
  BY <1>4 DEF NotFound, Answer
<1>5. CASE Enter
  BY <1>5 DEF Enter
<1>6. CASE UnknownRepo
  BY <1>6 DEF UnknownRepo, Reply
<1>7. CASE KnownRepo
  BY <1>7 DEF KnownRepo, Goto
<1>8. CASE Authenticated
  BY <1>8 DEF Authenticated, Finds
<1>9. ASSUME NEW what \in Cookies \ {"good"}, NotAuthenticated(what) PROVE Progress'
  BY <1>9 DEF NotAuthenticated, Finds, Reply
<1>10. CASE Panics
  BY <1>10 DEF Panics
<1>11. CASE HandlerFails
  BY <1>11 DEF HandlerFails, Reply
<1>12. CASE HandlerWrites
  <2>1. /\ at = "handler" /\ at' = "write" /\ wire' = 200
        /\ UNCHANGED <<log, broke, code>>
    BY <1>12 DEF HandlerWrites
  <2> QED
    BY <2>1
<1>13. CASE Written
  BY <1>13 DEF Written, Goto
<1>14. CASE WriteFails
  BY <1>14 DEF WriteFails
<1>15. CASE StaticServed
  BY <1>15 DEF StaticServed, Reply
<1>16. CASE Completed
  BY <1>16 DEF Completed
<1>17. CASE UNCHANGED vars
  BY <1>17 DEF vars
<1> QED
  BY <1>1, <1>2, <1>3, <1>4, <1>5, <1>6, <1>7, <1>8, <1>9, <1>10, <1>11, <1>12, <1>13,
     <1>14, <1>15, <1>16, <1>17 DEF Next

LEMMA LogStep == TypeOK /\ Progress /\ LogTellsStatus /\ [Next]_vars => LogTellsStatus'
<1> SUFFICES ASSUME TypeOK, Progress, LogTellsStatus, [Next]_vars PROVE LogTellsStatus'
  OBVIOUS
<1> USE DEF LogTellsStatus, Progress, request
<1>1. CASE Preflight
  BY <1>1 DEF Preflight, Answer
<1>2. CASE ActualRequest
  BY <1>2 DEF ActualRequest, Goto
<1>3. CASE Redirect
  BY <1>3 DEF Redirect, Answer
<1>4. CASE NotFound
  BY <1>4 DEF NotFound, Answer
<1>5. CASE Enter
  BY <1>5 DEF Enter
<1>6. CASE UnknownRepo
  BY <1>6 DEF UnknownRepo, Reply
<1>7. CASE KnownRepo
  BY <1>7 DEF KnownRepo, Goto
<1>8. CASE Authenticated
  BY <1>8 DEF Authenticated, Finds
<1>9. ASSUME NEW what \in Cookies \ {"good"}, NotAuthenticated(what) PROVE LogTellsStatus'
  BY <1>9 DEF NotAuthenticated, Finds, Reply
<1>10. CASE Panics
  BY <1>10 DEF Panics
<1>11. CASE HandlerFails
  BY <1>11 DEF HandlerFails, Reply
<1>12. CASE HandlerWrites
  BY <1>12 DEF HandlerWrites
<1>13. CASE Written
  BY <1>13 DEF Written, Goto
<1>14. CASE WriteFails
  BY <1>14 DEF WriteFails
<1>15. CASE StaticServed
  BY <1>15 DEF StaticServed, Reply
<1>16. CASE Completed
  <2>1. IF broke = TRUE THEN wire = 200 /\ code = 500 ELSE code = wire
    BY <1>16 DEF Completed
  <2>2. CASE broke = TRUE
    BY <1>16, <2>1, <2>2 DEF Completed, Level
  <2>3. CASE broke = FALSE
    BY <1>16, <2>1, <2>3 DEF Completed
  <2> QED
    BY <2>2, <2>3 DEF TypeOK
<1>17. CASE UNCHANGED vars
  BY <1>17 DEF vars
<1> QED
  BY <1>1, <1>2, <1>3, <1>4, <1>5, <1>6, <1>7, <1>8, <1>9, <1>10, <1>11, <1>12, <1>13,
     <1>14, <1>15, <1>16, <1>17 DEF Next

LEMMA IInvStep == IInv /\ [Next]_vars => IInv'
  BY TypeStep, MetStep, GuardStep, ProgressStep, LogStep DEF IInv

\* Every request meets the first route that fits, passes the guards in their
\* order and has its answer and its log line in step, at every place.
THEOREM Invariant == Spec => []IInv
  BY InitOK, IInvStep, PTL DEF Spec

----------------------------------------------------------------------------
(* Theorems.                                                               *)

\* The variables keep their types, and a route and a log line are there as soon
\* as the middlewares run.
THEOREM TypeCorrect == Spec => []TypeOK
<1>1. IInv => TypeOK
  BY DEF IInv
<1> QED
  BY <1>1, Invariant, PTL

\* The log line of a completed request tells the status that was sent, and there
\* is none when the handler panicked.
THEOREM LogIsTrue == Spec => []LogTellsStatus
<1>1. IInv => LogTellsStatus
  BY DEF IInv
<1> QED
  BY <1>1, Invariant, PTL

\* A repository is changed only by a POST with a good token for a configured
\* repository, and a reindexing and an upload are told apart by the path: of the
\* two routes that fit .../files/reindex the first is the reindexing.
THEOREM OnlyGuardedWrites == Spec => []WritesGuarded
<1>1. IInv => WritesGuarded
  <2> SUFFICES ASSUME IInv, did # "nothing"
               PROVE  /\ method = "POST" /\ cookie = "good" /\ path[1] \in Entries
                      /\ Len(path) = 3 /\ path[2] = "files"
                      /\ did = "reindex" <=> path[3] = "reindex"
    BY DEF WritesGuarded
  <2>1. did \in {"upload", "reindex"} /\ path \in Seq(Repos \cup Words \cup {Empty})
    BY DEF IInv, TypeOK
  <2>2. meets # None /\ meets.handler = did /\ path[1] \in Entries
    BY DEF IInv, Guard
  <2>3. PICK n \in 1..9 : /\ meets = Routes[n] /\ Fits(Routes[n], method, path)
                          /\ \A k \in 1..9 : Fits(Routes[k], method, path) => n <= k
    BY <2>2 DEF IInv, Met
  <2>4. n \in {1, 2, 3, 4, 5, 6, 7, 8, 9}
    BY <2>3
  <2>5. (n = 3 /\ did = "reindex") \/ (n = 4 /\ did = "upload")
    <3>1. Routes[n].handler \in {"upload", "reindex"}
      BY <2>1, <2>2, <2>3
    <3>2. n \in {3, 4}
      BY <2>4, <3>1, RouteFields
    <3>3. did = Routes[n].handler
      BY <2>2, <2>3
    <3>4. n = 3 => did = "reindex"
      BY <3>3, RouteFields
    <3>5. n = 4 => did = "upload"
      BY <3>3, RouteFields
    <3> QED
      BY <3>2, <3>4, <3>5
  <2>6. cookie = "good"
    BY <2>3, <2>5, RouteFields DEF IInv, Guard
  <2>7. /\ method = "POST" /\ Len(path) = 3 /\ path[1] # Empty /\ path[2] = "files"
        /\ did = "reindex" => path[3] = "reindex"
    BY <2>1, <2>3, <2>5, Fitting
  <2>8. did = "upload" => path[3] # "reindex"
    <3>1. path[3] = "reindex" => Fits(Routes[3], method, path)
      BY <2>1, <2>7, Fitting, ZenonT(30)
    <3>2. path[3] = "reindex" => n <= 3
      BY <2>3, <3>1
    <3> QED
      BY <2>5, <3>2
  <2> QED
    BY <2>1, <2>2, <2>6, <2>7, <2>8
<1> QED
  BY <1>1, Invariant, PTL

\* Each call about no file fits the route it is meant for, and none above it.
LEMMA FolderCallsFit ==
    ASSUME NEW S, NEW p \in Seq(S), NEW m \in Methods,
           NEW r \in Repos, NEW f \in Children(Words),
           NEW call \in FolderCalls(r, f), m = call.method, p = call.path,
           NEW n \in 1..9, Fits(Routes[n], m, p),
           \A k \in 1..9 : Fits(Routes[k], m, p) => n <= k
    PROVE  Routes[n].handler = call.meant
<1>1. n \in {1, 2, 3, 4, 5, 6, 7, 8, 9}
  OBVIOUS
<1>2. r # Empty /\ f # Empty /\ f # "reindex"
  BY WordsAssumption DEF Children, NoSkip
<1>a. m \in Methods /\ call \in FolderCalls(r, f)
  OBVIOUS
<1>3. CASE call = [method |-> "GET", path |-> <<r, Empty>>, meant |-> "index"]
  <2>1. m = "GET" /\ p = <<r, Empty>> /\ call.meant = "index"
    BY <1>3
  <2>2. Len(p) = 2 /\ p[2] = Empty
    BY <2>1
  <2>3. p[1] # Empty
    BY <1>2, <2>1
  <2>4. Fits(Routes[8], m, p)
    BY <1>2, <2>1, <2>2, <2>3, Fitting
  <2>5. n <= 8
    BY <2>4
  <2>6. n # 1 /\ n # 2 /\ n # 3 /\ n # 4 /\ n # 5 /\ n # 6 /\ n # 7
    BY <1>2, <2>1, <2>2, EmptyWord, Fitting
  <2>7. n = 8
    BY <1>1, <2>5, <2>6
  <2> QED
    BY <2>1, <2>7, RouteFields
<1>4. CASE call = [method |-> "POST", path |-> <<r, "sign-in">>, meant |-> "signIn"]
  <2>1. m = "POST" /\ p = <<r, "sign-in">> /\ call.meant = "signIn"
    BY <1>4
  <2>2. Len(p) = 2 /\ p[2] = "sign-in"
    BY <2>1
  <2>3. p[1] # Empty
    BY <1>2, <2>1
  <2>4. Fits(Routes[1], m, p)
    BY <1>2, <2>1, <2>2, <2>3, Fitting
  <2>5. n <= 1
    BY <2>4
  <2>6. n = 1
    BY <1>1, <2>5
  <2> QED
    BY <2>1, <2>6, RouteFields
<1>5. CASE call = [method |-> "GET", path |-> <<r, "folders">>, meant |-> "folders"]
  <2>1. m = "GET" /\ p = <<r, "folders">> /\ call.meant = "folders"
    BY <1>5
  <2>2. Len(p) = 2 /\ p[2] = "folders"
    BY <2>1
  <2>3. p[1] # Empty
    BY <1>2, <2>1
  <2>4. Fits(Routes[2], m, p)
    BY <1>2, <2>1, <2>2, <2>3, Fitting
  <2>5. n <= 2
    BY <2>4
  <2>6. n # 1
    BY <1>2, <2>1, <2>2, EmptyWord, Fitting
  <2>7. n = 2
    BY <1>1, <2>5, <2>6
  <2> QED
    BY <2>1, <2>7, RouteFields
<1>6. CASE call = [method |-> "GET", path |-> <<r, "files", f>>, meant |-> "list"]
  <2>1. m = "GET" /\ p = <<r, "files", f>> /\ call.meant = "list"
    BY <1>6
  <2>2. Len(p) = 3 /\ p[2] = "files" /\ p[3] = f
    BY <2>1
  <2>3. p[1] # Empty
    BY <1>2, <2>1
  <2>4. Fits(Routes[5], m, p)
    BY <1>2, <2>1, <2>2, <2>3, Fitting
  <2>5. n <= 5
    BY <2>4
  <2>6. n # 1 /\ n # 2 /\ n # 3 /\ n # 4
    BY <1>2, <2>1, <2>2, EmptyWord, Fitting
  <2>7. n = 5
    BY <1>1, <2>5, <2>6
  <2> QED
    BY <2>1, <2>7, RouteFields
<1>7. CASE call = [method |-> "POST", path |-> <<r, "files", f>>, meant |-> "upload"]
  <2>1. m = "POST" /\ p = <<r, "files", f>> /\ call.meant = "upload"
    BY <1>7
  <2>2. Len(p) = 3 /\ p[2] = "files" /\ p[3] = f
    BY <2>1
  <2>3. p[1] # Empty
    BY <1>2, <2>1
  <2>4. Fits(Routes[4], m, p)
    BY <1>2, <2>1, <2>2, <2>3, Fitting
  <2>5. n <= 4
    BY <2>4
  <2>6. n # 1 /\ n # 2 /\ n # 3
    BY <1>2, <2>1, <2>2, EmptyWord, Fitting
  <2>7. n = 4
    BY <1>1, <2>5, <2>6
  <2> QED
    BY <2>1, <2>7, RouteFields
<1>8. CASE call = [method |-> "POST", path |-> <<r, "files", "reindex">>, meant |-> "reindex"]
  <2>1. m = "POST" /\ p = <<r, "files", "reindex">> /\ call.meant = "reindex"
    BY <1>8
  <2>2. Len(p) = 3 /\ p[2] = "files" /\ p[3] = "reindex"
    BY <2>1
  <2>3. p[1] # Empty
    BY <1>2, <2>1
  <2>4. Fits(Routes[3], m, p)
    BY <1>2, <2>1, <2>2, <2>3, Fitting
  <2>5. n <= 3
    BY <2>4
  <2>6. n # 1 /\ n # 2
    BY <1>2, <2>1, <2>2, EmptyWord, Fitting
  <2>7. n = 3
    BY <1>1, <2>5, <2>6
  <2> QED
    BY <2>1, <2>7, RouteFields
<1> QED
  BY <1>a, <1>3, <1>4, <1>5, <1>6, <1>7, <1>8 DEF FolderCalls

\* The words of the path on which a file's call is found.
LEMMA FoundWords ==
    ASSUME NEW r, NEW f, NEW x \in FileNames, NEW words \in {x.get, x.info}
    PROVE  /\ x.up = 0 => Found(r, f, x, words) = <<r, "files", f>> \o words
           /\ Len(Found(r, f, x, words)) \in {4, 5} =>
                 Found(r, f, x, words)[4] \in ToSet(words)
<1> DEFINE T == {r, "files", f}
           base == <<r, "files", f>>
           n == 3 - x.up
           start == SubSeq(base, 1, n)
           W == Repos \cup Words \cup {Empty}
<1>1. x.up \in 0..3 /\ words \in Seq(W)
  BY FileNamesAssumption
<1>2. base \in Seq(T) /\ Len(base) = 3 /\ n \in 0..3
  BY <1>1
<1> HIDE DEF base, T
<1>3. start \in Seq(T) /\ Len(start) = n
  BY <1>2, SubSeqProperties
<1>4. n = 3 => start = base
  BY <1>2, SubSeqProperties
<1> HIDE DEF start, n
<1>5. start \in Seq(T \cup W) /\ words \in Seq(T \cup W)
  BY <1>1, <1>3
<1>6. /\ Len(start \o words) = n + Len(words) /\ Len(words) \in Nat
      /\ \A k \in 1..Len(words) : (start \o words)[n + k] = words[k]
  <2>1. Len(start) = n /\ Len(words) \in Nat /\ n \in Nat
    BY <1>1, <1>2, <1>3, LenProperties
  <2>2. /\ Len(start \o words) = Len(start) + Len(words)
        /\ \A k \in 1..Len(start) + Len(words) :
              (start \o words)[k] = IF k <= Len(start) THEN start[k] ELSE words[k - Len(start)]
    BY <1>5, ConcatProperties
  <2>3. ASSUME NEW k \in 1..Len(words)
        PROVE  (start \o words)[n + k] = words[k]
    <3>1. n + k \in 1..Len(start) + Len(words) /\ ~(n + k <= Len(start)) /\ (n + k) - Len(start) = k
      BY <2>1
    <3> QED
      BY <2>2, <3>1
  <2> QED
    BY <2>1, <2>2, <2>3
<1>7. Found(r, f, x, words) = start \o words
  BY DEF Found, start, n, base
<1>8. ASSUME Len(Found(r, f, x, words)) \in {4, 5}
      PROVE  Found(r, f, x, words)[4] \in ToSet(words)
  <2>1. 4 - n \in 1..Len(words) /\ n + (4 - n) = 4
    BY <1>2, <1>6, <1>7, <1>8 DEF n
  <2>2. (start \o words)[4] = words[4 - n]
    BY <1>6, <2>1
  <2>3. DOMAIN words = 1..Len(words)
    BY <1>1, LenProperties
  <2> QED
    BY <1>7, <2>1, <2>2, <2>3 DEF ToSet
<1>9. x.up = 0 => n = 3
  BY DEF n
<1> QED
  BY <1>4, <1>7, <1>8, <1>9 DEF base

\* A call about a file whose name travels whole, likewise.
LEMMA GetFits ==
    ASSUME "GET" \in Methods, NEW p \in Seq(Repos \cup Words \cup {Empty}),
           NEW r \in Repos, NEW f \in Children(Words), NEW x \in FileNames,
           GetWhole(x), p = Found(r, f, x, x.get),
           NEW n \in 1..9, Fits(Routes[n], "GET", p),
           \A k \in 1..9 : Fits(Routes[k], "GET", p) => n <= k
    PROVE  Routes[n].handler = "download" /\ p[4] = x.name
<1>1. n \in {1, 2, 3, 4, 5, 6, 7, 8, 9}
  OBVIOUS
<1>2. r # Empty /\ f # Empty /\ x.name # Empty
  BY WordsAssumption, FileNamesAssumption DEF Children, NoSkip
<1>3. p = <<r, "files", f>> \o <<x.name>>
  BY FoundWords DEF GetWhole
<1>4. /\ Len(p) = 4 /\ p[1] = r /\ p[2] = "files" /\ p[3] = f
      /\ p[4] = x.name
  BY <1>3
<1>5. Fits(Routes[6], "GET", p)
  BY <1>2, <1>4, Fitting
<1>6. n <= 6
  BY <1>5
<1>7. n # 1 /\ n # 2 /\ n # 3 /\ n # 4 /\ n # 5
  <2>1. /\ ~Fits(Routes[1], "GET", p) /\ ~Fits(Routes[2], "GET", p)
        /\ ~Fits(Routes[3], "GET", p) /\ ~Fits(Routes[4], "GET", p)
        /\ ~Fits(Routes[5], "GET", p)
    BY <1>4, Fitting
  <2> QED
    BY <2>1
<1>8. n = 6
  BY <1>1, <1>6, <1>7
<1> QED
  BY <1>4, <1>8, RouteFields

LEMMA InfoFits ==
    ASSUME "GET" \in Methods, NEW p \in Seq(Repos \cup Words \cup {Empty}),
           NEW r \in Repos, NEW f \in Children(Words), NEW x \in FileNames,
           InfoWhole(x), p = Found(r, f, x, x.info),
           NEW n \in 1..9, Fits(Routes[n], "GET", p),
           \A k \in 1..9 : Fits(Routes[k], "GET", p) => n <= k
    PROVE  Routes[n].handler = "info" /\ p[4] = x.name
<1>1. n \in {1, 2, 3, 4, 5, 6, 7, 8, 9}
  OBVIOUS
<1>2. r # Empty /\ f # Empty /\ x.name # Empty
  BY WordsAssumption, FileNamesAssumption DEF Children, NoSkip
<1>3. p = <<r, "files", f>> \o <<x.name, "info">>
  BY FoundWords DEF InfoWhole
<1>4. /\ Len(p) = 5 /\ p[1] = r /\ p[2] = "files" /\ p[3] = f
      /\ p[4] = x.name /\ p[5] = "info"
  BY <1>3
<1>5. Fits(Routes[7], "GET", p)
  BY <1>2, <1>4, Fitting
<1>6. n <= 7
  BY <1>5
<1>7. n # 1 /\ n # 2 /\ n # 3 /\ n # 4 /\ n # 5 /\ n # 6
  <2>1. /\ ~Fits(Routes[1], "GET", p) /\ ~Fits(Routes[2], "GET", p)
        /\ ~Fits(Routes[3], "GET", p) /\ ~Fits(Routes[4], "GET", p)
        /\ ~Fits(Routes[5], "GET", p) /\ ~Fits(Routes[6], "GET", p)
    BY <1>4, Fitting, SMTT(30)
  <2> QED
    BY <2>1
<1>8. n = 7
  BY <1>1, <1>6, <1>7
<1> QED
  BY <1>4, <1>8, RouteFields

\* Under another name a GET changes nothing, and what it names is not the file.
LEMMA OddCallsRead ==
    ASSUME NEW S, NEW p \in Seq(S),
           NEW r \in Repos, NEW f \in Children(Words), NEW x \in FileNames,
           NEW call \in FileCalls(r, f, x), p = call.path, call.whole = FALSE,
           NEW n \in 1..9, Fits(Routes[n], "GET", p)
    PROVE  /\ Routes[n].handler \in OnlyReads
           /\ Routes[n].handler \in {"download", "info"} => p[4] # x.name
<1>1. n \in {1, 2, 3, 4, 5, 6, 7, 8, 9}
  OBVIOUS
<1>2. n # 1 /\ n # 3 /\ n # 4
  <2>1. /\ ~Fits(Routes[1], "GET", p) /\ ~Fits(Routes[3], "GET", p)
        /\ ~Fits(Routes[4], "GET", p)
    BY Fitting
  <2> QED
    BY <2>1
<1>3. Routes[n].handler \in OnlyReads
  BY <1>1, <1>2, RouteFields DEF OnlyReads
<1>4. ASSUME Routes[n].handler \in {"download", "info"}
      PROVE  p[4] # x.name
  <2>1. n \in {6, 7}
    BY <1>1, <1>4, RouteFields
  <2>2. Len(p) \in {4, 5}
    BY <2>1, Fitting
  <2>3. PICK words \in {x.get, x.info} :
           p = Found(r, f, x, words) /\ x.name \notin ToSet(words)
    BY FileNamesAssumption DEF FileCalls
  <2> QED
    <3>1. Found(r, f, x, words)[4] \in ToSet(words)
      BY <2>2, <2>3, FoundWords
    <3> QED
      BY <2>3, <3>1
<1> QED
  BY <1>3, <1>4

\* Every call of the page that names a folder, and every one about a file whose
\* name travels whole, comes to the handler it is meant for and with that name:
\* no name that the page can send so is a word of a route above the one it
\* belongs to.  A call about any other file changes nothing and asks for another
\* name.  What the browser and net/url make of a name is assumed as far as
\* FileNamesAssumption says: in what is left of a name that does not travel
\* whole the name itself is not a word.
THEOREM CallsArrive == Spec => []PageCallsArrive
<1>1. IInv => PageCallsArrive
  <2> SUFFICES ASSUME IInv, meets # None, NEW r \in Repos, NEW f \in Children(Words)
               PROVE  /\ \A call \in FolderCalls(r, f) :
                            method = call.method /\ path = call.path => meets.handler = call.meant
                      /\ \A x \in {y \in FileNames : y.get # <<>>} : \A call \in FileCalls(r, f, x) :
                            method = "GET" /\ path = call.path =>
                                IF call.whole
                                THEN meets.handler = call.meant /\ path[4] = x.name
                                ELSE /\ meets.handler \in OnlyReads
                                     /\ meets.handler \in {"download", "info"} => path[4] # x.name
    BY DEF PageCallsArrive
  <2>1. method \in Methods /\ path \in Seq(Repos \cup Words \cup {Empty})
    BY DEF IInv, TypeOK
  <2>2. PICK n \in 1..9 : /\ meets = Routes[n] /\ Fits(Routes[n], method, path)
                          /\ \A k \in 1..9 : Fits(Routes[k], method, path) => n <= k
    BY DEF IInv, Met
  <2>3. ASSUME NEW call \in FolderCalls(r, f), method = call.method, path = call.path
        PROVE  meets.handler = call.meant
    BY <2>1, <2>2, <2>3, FolderCallsFit
  <2>4. ASSUME NEW x \in FileNames, NEW call \in FileCalls(r, f, x),
               method = "GET", path = call.path
        PROVE  IF call.whole
               THEN meets.handler = call.meant /\ path[4] = x.name
               ELSE /\ meets.handler \in OnlyReads
                    /\ meets.handler \in {"download", "info"} => path[4] # x.name
    <3>1. call.whole = TRUE \/ call.whole = FALSE
      <4>1. call.whole = GetWhole(x) \/ call.whole = InfoWhole(x)
        BY <2>4 DEF FileCalls
      <4>2. GetWhole(x) \in BOOLEAN /\ InfoWhole(x) \in BOOLEAN
        BY DEF GetWhole, InfoWhole
      <4> QED
        BY <4>1, <4>2
    <3>2. CASE call.whole = TRUE
      <4>1. /\ "GET" \in Methods /\ Fits(Routes[n], "GET", path)
            /\ \A k \in 1..9 : Fits(Routes[k], "GET", path) => n <= k
        <5>1. method = "GET"
          BY <2>4
        <5> QED
          BY <2>1, <2>2, <5>1, Zenon
      <4>2. \/ /\ call.meant = "download" /\ call.whole = GetWhole(x)
               /\ call.path = Found(r, f, x, x.get)
            \/ /\ call.meant = "info" /\ call.whole = InfoWhole(x)
               /\ call.path = Found(r, f, x, x.info)
        BY <2>4 DEF FileCalls
      <4>3. \/ /\ call.meant = "download" /\ GetWhole(x)
               /\ path = Found(r, f, x, x.get)
            \/ /\ call.meant = "info" /\ InfoWhole(x)
               /\ path = Found(r, f, x, x.info)
        BY <2>4, <3>2, <4>2
      <4>4. Routes[n].handler = call.meant /\ path[4] = x.name
        BY <2>1, <4>1, <4>3, GetFits, InfoFits, SMTT(30)
      <4> QED
        BY <2>2, <3>2, <4>4
    <3>3. CASE call.whole = FALSE
      <4>1. /\ meets.handler \in OnlyReads
            /\ meets.handler \in {"download", "info"} => path[4] # x.name
        BY <2>1, <2>2, <2>4, <3>3, OddCallsRead
      <4> QED
        BY <3>3, <4>1
    <3> QED
      BY <3>1, <3>2, <3>3
  <2> QED
    BY <2>3, <2>4
<1> QED
  BY <1>1, Invariant, PTL
=============================================================================
