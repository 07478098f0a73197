---------------------------- MODULE PackageShelf ----------------------------
(***************************************************************************)
(* What the file store promises, as seen from outside: a shelf with one    *)
(* place per path.  While uploads hold a place it is busy and promises      *)
(* nothing; otherwise it shows a content, which stays until the next       *)
(* upload.  Uploads that overlap form a burst; when the burst is over, the *)
(* place shows at each position what one upload of the burst has there.    *)
(* If one of them died half-way, positions may also be missing, but        *)
(* nothing else appears.  FileStore implements this specification.         *)
(***************************************************************************)
EXTENDS Naturals

CONSTANTS
    Places,      \* the paths of the files
    Packages,    \* what is uploaded
    Positions,   \* the positions of a file
    Stored(_),   \* Stored(p): what an upload of p leaves, by position
    OnShelf(_),  \* OnShelf(x): the contents x may show at the beginning
    Nothing      \* what stands at a position that was never written

VARIABLES
    busy,    \* the places that uploads hold
    shelf,   \* shelf[x]: what the place shows; a busy place shows Blank
    burst,   \* burst[x]: packages of the current or last burst at x
    torn     \* places whose burst lost an upload half-way

vars == <<busy, shelf, burst, torn>>

Blank == [i \in Positions |-> Nothing]

Init ==
    /\ busy = {}
    /\ shelf \in [Places -> UNION {OnShelf(x) : x \in Places}]
    /\ \A x \in Places : shelf[x] \in OnShelf(x)
    /\ burst = [x \in Places |-> {}]
    /\ torn = {}

\* What a burst of the packages P may leave: at each position what one of them
\* stores there, or one of the gaps.
Mixtures(P, gaps) ==
    LET Blocks(i) == {Stored(p)[i] : p \in P} \cup gaps
    IN  {c \in [Positions -> UNION {Blocks(i) : i \in Positions}] :
            \A i \in Positions : c[i] \in Blocks(i)}

Whole == {}
Damaged == {Nothing}

\* An upload of p opens the place: it begins a burst or joins the one there.
Open(x, p) ==
    /\ busy' = busy \cup {x}
    /\ shelf' = [shelf EXCEPT ![x] = Blank]
    /\ burst' = [burst EXCEPT ![x] = {p} \cup (IF x \in busy THEN burst[x] ELSE {})]
    /\ torn' = IF x \in busy THEN torn ELSE torn \ {x}

\* The last upload of the burst is over.
Settle(x) ==
    /\ x \in busy
    /\ busy' = busy \ {x}
    /\ \E c \in Mixtures(burst[x], IF x \in torn THEN Damaged ELSE Whole) :
          shelf' = [shelf EXCEPT ![x] = c]
    /\ UNCHANGED <<burst, torn>>

\* Uploads die half-way at the places X; at those of Y they were the last.
Tear(X, Y) ==
    /\ X \subseteq busy /\ Y \subseteq X
    /\ busy' = busy \ Y
    /\ torn' = torn \cup X
    /\ shelf' \in [Places -> {shelf[x] : x \in Places}
                               \cup UNION {Mixtures(burst[x], Damaged) : x \in Y}]
    /\ \A x \in Places : IF x \in Y THEN shelf'[x] \in Mixtures(burst[x], Damaged)
                                    ELSE shelf'[x] = shelf[x]
    /\ UNCHANGED burst

Next ==
    \/ \E x \in Places, p \in Packages : Open(x, p)
    \/ \E x \in Places : Settle(x)
    \/ \E X \in SUBSET Places : \E Y \in SUBSET X : Tear(X, Y)

Spec == Init /\ [][Next]_vars
=============================================================================
