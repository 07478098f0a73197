------------------------------ MODULE RepoAuth ------------------------------
(***************************************************************************)
(* The auth section of a repository, completed from the default section    *)
(* when somebody signs in (config.GetRepoAuth), and the sign-ins that use  *)
(* it.                                                                     *)
(*                                                                         *)
(* The section is one record in memory that all requests share.  Whoever   *)
(* finds it incomplete fills it in place, without a lock, field by field,  *)
(* and then appends the default groups to its groups and sorts them where  *)
(* they are; others read and fill it meanwhile.  One action is one read or *)
(* write of the shared record or of an array of groups.                    *)
(***************************************************************************)
EXTENDS Naturals, Sequences, FiniteSets, SequencesExt

CONSTANTS
    SignIns,    \* slots for concurrent sign-ins; a slot is reused
    Arrays,     \* arrays that append may allocate; an unused one is reused
    Groups,     \* group names: numbers, in the order of the strings
    Torn,       \* a string of which one word is an old one, the other a new one
    Files       \* configuration files: [own |-> ..., def |-> ...], each a
                \* section or NoSection

NoSection == [given |-> {"no section"}, groups |-> <<>>]   \* a nil pointer
Fields == {"server", "base", "domain"}
Origins == {"blank", "own", "def"}
ArrayIds == Arrays \cup {"own", "def"}
MaxSorted == 12   \* bound: as far as this, sort.Sort is an insertion sort

ASSUME SignInsAssumption == IsFiniteSet(SignIns)
ASSUME GroupsAssumption == Groups \subseteq Nat \ {0} /\ Torn \notin Groups \cup {0}
ASSUME ArraysAssumption == Arrays \cap {"own", "def"} = {}
ASSUME FilesAssumption ==
    \A f \in Files : \A section \in {f.own, f.def} :
        /\ section.groups \in Seq(Groups)
        /\ section.given \subseteq Fields \/ section = NoSection

VARIABLES
    file,     \* the configuration file the process was started with
    field,    \* field[f]: which section the shared record has its f from
    groups,   \* its slice of groups: [arr |-> ..., len |-> ...]
    heap,     \* the arrays behind such slices, to their capacity
    pc,       \* pc[i]: where sign-in i stands
    step,     \* step[i]: the field it checks or writes next
    sort,     \* sort[i]: its call of unique.Strings: [n, i, j, arr, a, b]
    conf,     \* conf[i]: the copy of the record it works with
    asked,    \* asked[i]: the groups it asked the directory for
    clash,    \* history: two sign-ins were filling the record at once
    crossed   \* history: sign-ins during which another one was filling it

vars == <<file, field, groups, heap, pc, step, sort, conf, asked, clash, crossed>>
memory == <<field, groups, heap>>

Slice(a, n) == [arr |-> a, len |-> n]
NoSort == [n |-> 0, i |-> 0, j |-> 0, arr |-> "own", a |-> 0, b |-> 0]
NoConf == [server |-> "blank", domain |-> "blank", groups |-> Slice("def", 0)]

\* What the slice s shows of its array.
Shows(s) == [k \in 1..s.len |-> heap[s.arr][k]]

Given(section, who) ==
    [f \in Fields |-> IF f \in section.given THEN who ELSE "blank"]

\* Of a swap: it has read both elements, it has stored the first.
Swaps == {"swap", "keep"}
Swapped == {"swap2", "keep2"}
Filling == {"write", "append", "store", "len", "less", "front", "distinct", "truncate"}
           \cup Swaps \cup Swapped
Active == Filling \cup {"check", "copy", "connect", "search"}
Ended == {"idle", "ok", "refused", "noauth", "panic", "choked", "lost"}

TypeOK ==
    /\ file \in Files
    /\ field \in [Fields -> Origins]
    /\ groups.arr \in ArrayIds /\ groups.len \in 0..Len(heap[groups.arr])
    /\ \A a \in ArrayIds : heap[a] \in Seq(Groups \cup {0, Torn})
    /\ pc \in [SignIns -> Active \cup Ended]
    /\ step \in [SignIns -> 1..3]
    /\ \A i \in SignIns : pc[i] \in Swaps \cup Swapped =>
          {sort[i].a, sort[i].b} \subseteq Groups \cup {0, Torn}
    /\ \A i \in SignIns : pc[i] \in {"connect", "search"} =>
          conf[i].groups.len \in 0..Len(heap[conf[i].groups.arr])
    /\ \A i \in SignIns : asked[i] \subseteq Groups \cup {Torn, 0}
    /\ clash \in BOOLEAN /\ crossed \subseteq SignIns

\* NewConfig has decoded the file.  The record of a repository without a
\* section is never read.
LoadedGroups(f) == Slice("own", Len(f.own.groups))
LoadedHeap(f) == [a \in ArrayIds |-> CASE a = "own" -> f.own.groups
                                       [] a = "def" -> f.def.groups
                                       [] OTHER -> <<>>]

Init ==
    /\ file \in Files
    /\ field = Given(file.own, "own")
    /\ groups = LoadedGroups(file)
    /\ heap = LoadedHeap(file)
    /\ pc = [i \in SignIns |-> "idle"]
    /\ step = [i \in SignIns |-> 1]
    /\ sort = [i \in SignIns |-> NoSort]
    /\ conf = [i \in SignIns |-> NoConf]
    /\ asked = [i \in SignIns |-> {}]
    /\ clash = FALSE /\ crossed = {}

(***************************************************************************)
(* Sign-in i goes on to a state, and the history notes who met whom.       *)
(***************************************************************************)
Goto(i, state) ==
    /\ pc' = [pc EXCEPT ![i] = state]
    /\ LET filling == {j \in SignIns : pc'[j] \in Filling} IN
       /\ clash' = (clash \/ Cardinality(filling) > 1)
       /\ crossed' = (IF pc[i] \in Ended THEN crossed \ {i} ELSE crossed) \cup
                      {j \in SignIns : pc'[j] \in Active /\ filling \ {j} # {}}
    /\ UNCHANGED file

----------------------------------------------------------------------------
(* Strings of two words that are read and written without a lock.          *)

\* append goes behind the groups if their array has room.
Need == groups.len + Len(file.def.groups)
Fits == Need <= Len(heap[groups.arr])

\* The position that sign-in i is about to write: a swap stores what was at
\* the second one in the first, then the other way round.
Spot(i) ==
    CASE pc[i] = "swap" -> sort[i].j
      [] pc[i] = "swap2" -> sort[i].j - 1
      [] pc[i] = "keep" -> sort[i].i
      [] pc[i] = "keep2" -> sort[i].j

\* The positions of array a that somebody is about to write.
Racing(a) ==
    {Spot(j) : j \in {m \in SignIns : pc[m] \in Swaps \cup Swapped /\ sort[m].arr = a}}
    \cup {k \in groups.len + 1..Need : /\ a = groups.arr /\ Fits /\ groups.len > 0
                                      /\ \E m \in SignIns : pc[m] = "append"}

\* What a read may find, and how it may compare.
Readings(a, k) == {heap[a][k]} \cup (IF k \in Racing(a) THEN {Torn} ELSE {})
Before(x, y) == Torn \notin {x, y} => x < y
NotBefore(x, y) == Torn \notin {x, y} => x >= y

\* What a write may leave of the value x where the writer has read seen: if
\* another one has written there since, each may have written one word last.
Writings(i, x, seen) ==
    {x} \cup (IF heap[sort[i].arr][Spot(i)] # seen THEN {Torn} ELSE {})

----------------------------------------------------------------------------
(* GetRepoAuth.                                                            *)

Checks == <<"server", "base", "domain">>   \* the order of the condition
Writes == <<"base", "domain", "server">>   \* the order of the assignments

\* auth == nil: the default section, or no auth at all.
Begin(i) ==
    /\ pc[i] \in Ended
    /\ Goto(i, IF file.own # NoSection THEN "check"
               ELSE IF file.def # NoSection THEN "copy" ELSE "noauth")
    /\ conf' = [conf EXCEPT ![i] = NoConf]
    /\ asked' = [asked EXCEPT ![i] = {}]
    /\ step' = [step EXCEPT ![i] = 1]
    /\ sort' = [sort EXCEPT ![i] = NoSort]
    /\ UNCHANGED memory

FieldGiven(i) ==
    /\ pc[i] = "check"
    /\ field[Checks[step[i]]] # "blank"
    /\ Goto(i, IF step[i] = 3 THEN "copy" ELSE "check")
    /\ step' = [step EXCEPT ![i] = IF step[i] = 3 THEN 1 ELSE step[i] + 1]
    /\ UNCHANGED <<memory, sort, conf, asked>>

\* Variant: a missing default section is treated as an empty one.
FieldBlankSkipped(i) ==
    /\ pc[i] = "check"
    /\ field[Checks[step[i]]] = "blank"
    /\ Goto(i, IF file.def = NoSection THEN "copy" ELSE "write")
    /\ step' = [step EXCEPT ![i] = 1]
    /\ UNCHANGED <<memory, sort, conf, asked>>

\* auth_def may be nil here: the request panics.
FieldBlank(i) ==
    /\ pc[i] = "check"
    /\ field[Checks[step[i]]] = "blank"
    /\ Goto(i, IF file.def = NoSection THEN "panic" ELSE "write")
    /\ step' = [step EXCEPT ![i] = 1]
    /\ UNCHANGED <<memory, sort, conf, asked>>

\* Variant: the fields are written in the order of the condition.
WriteFieldServerFirst(i) ==
    LET f == Checks[step[i]] IN
    /\ pc[i] = "write"
    /\ field' = [field EXCEPT ![f] = Given(file.def, "def")[f]]
    /\ step' = [step EXCEPT ![i] = IF step[i] = 3 THEN 1 ELSE step[i] + 1]
    /\ Goto(i, IF step[i] = 3 THEN "append" ELSE "write")
    /\ UNCHANGED <<groups, heap, sort, conf, asked>>

WriteField(i) ==
    LET f == Writes[step[i]] IN
    /\ pc[i] = "write"
    /\ field' = [field EXCEPT ![f] = Given(file.def, "def")[f]]
    /\ step' = [step EXCEPT ![i] = IF step[i] = 3 THEN 1 ELSE step[i] + 1]
    /\ Goto(i, IF step[i] = 3 THEN "append" ELSE "write")
    /\ UNCHANGED <<groups, heap, sort, conf, asked>>

\* Variant: a repository without groups of its own gets the default ones.
NoGroupsTakesDefault(i) ==
    /\ pc[i] = "append"
    /\ groups.len = 0
    /\ groups' = Slice("def", Len(file.def.groups))
    /\ Goto(i, "copy")
    /\ UNCHANGED <<field, heap, step, sort, conf, asked>>

\* No groups of its own: the default ones are not taken over.
NoGroups(i) ==
    /\ pc[i] = "append"
    /\ groups.len = 0
    /\ Goto(i, "copy")
    /\ UNCHANGED <<memory, step, sort, conf, asked>>

\* The arrays that a sign-in's registers or its copy of the record point to.
Held(i) == {sort[i].arr} \cup {conf[i].groups.arr}

\* append: behind the groups, or in a new array with a copy of them, of twice
\* the capacity or of what is needed.  The result is still in a register.
AppendGroups(i) ==
    LET n == groups.len
        more == file.def.groups
        old == heap[groups.arr]
        size == IF Fits THEN Len(old) ELSE IF Need > 2 * Len(old) THEN Need ELSE 2 * Len(old)
        new(half) == [k \in 1..size |-> IF n < k /\ k <= Need THEN more[k - n]
                                        ELSE IF k \in half THEN Torn
                                        ELSE IF k <= Len(old) THEN old[k] ELSE 0]
        unused == Arrays \ ({groups.arr} \cup UNION {Held(j) : j \in SignIns})
    IN
    /\ pc[i] = "append"
    /\ n > 0
    /\ Fits \/ unused # {}   \* bound: Arrays, which has enough in every run
    /\ \E arr \in {IF Fits THEN groups.arr ELSE CHOOSE a \in unused : TRUE},
          half \in SUBSET (IF Fits THEN {} ELSE Racing(groups.arr) \cap 1..n) :
          /\ heap' = [heap EXCEPT ![arr] = new(half)]
          /\ sort' = [sort EXCEPT ![i] = [@ EXCEPT !.arr = arr, !.n = Need]]
    /\ Goto(i, "store")
    /\ UNCHANGED <<field, groups, step, conf, asked>>

\* Variant: the slice is stored with its capacity for its length.
StoreToCapacity(i) ==
    /\ pc[i] = "store"
    /\ groups' = Slice(sort[i].arr, Len(heap[sort[i].arr]))
    /\ Goto(i, "len")
    /\ UNCHANGED <<field, heap, step, sort, conf, asked>>

StoreGroups(i) ==
    /\ pc[i] = "store"
    /\ groups' = Slice(sort[i].arr, sort[i].n)
    /\ Goto(i, "len")
    /\ UNCHANGED <<field, heap, step, sort, conf, asked>>

----------------------------------------------------------------------------
(* unique.Strings(&auth.Groups): an insertion sort that goes through the   *)
(* pointer to the shared slice at every comparison and every swap, a pass  *)
(* that moves the distinct elements to the front in the same way, and the  *)
(* truncation behind them.  Every element is read anew at each use, and a  *)
(* comparison or a swap may read it while another sign-in writes it.       *)

\* The comparison after (k, j): the next element, when k is in place.
Compare(i, k, j) ==
    LET next == IF j > 1 THEN [k |-> k, j |-> j] ELSE [k |-> k + 1, j |-> k + 1] IN
    /\ sort' = [sort EXCEPT ![i] = [@ EXCEPT !.i = next.k, !.j = next.j, !.a = 0, !.b = 0]]
    /\ Goto(i, IF next.k > sort[i].n THEN "front" ELSE "less")

\* The comparison of the next element with the last one kept, at k.
CompareKept(i, k) ==
    /\ sort' = [sort EXCEPT ![i] = [@ EXCEPT !.i = k, !.j = sort[i].j + 1, !.a = 0, !.b = 0]]
    /\ Goto(i, IF sort[i].j + 1 > sort[i].n THEN "truncate" ELSE "distinct")

\* sort.Sort asks for the length.
SortBegins(i) ==
    /\ pc[i] = "len"
    /\ groups.len <= MaxSorted
    /\ sort' = [sort EXCEPT ![i] = [@ EXCEPT !.n = groups.len, !.i = 2, !.j = 2]]
    /\ Goto(i, IF groups.len < 2 THEN "front" ELSE "less")
    /\ UNCHANGED <<memory, step, conf, asked>>

InOrder(i) ==
    LET j == sort[i].j IN
    /\ pc[i] = "less"
    /\ j <= groups.len
    /\ \E x \in Readings(groups.arr, j), y \in Readings(groups.arr, j - 1) : NotBefore(x, y)
    /\ Compare(i, sort[i].i, 1)
    /\ UNCHANGED <<memory, step, conf, asked>>

\* The swap reads both elements once more.
OutOfOrder(i) ==
    LET j == sort[i].j
        At(k) == Readings(groups.arr, k)
    IN
    /\ pc[i] = "less"
    /\ j <= groups.len
    /\ \E x \in At(j), y \in At(j - 1) : Before(x, y)
    /\ \E a \in At(j - 1), b \in At(j) :
          sort' = [sort EXCEPT ![i] = [@ EXCEPT !.arr = groups.arr, !.a = a, !.b = b]]
    /\ Goto(i, "swap")
    /\ UNCHANGED <<memory, step, conf, asked>>

\* unique.ToFront asks for the length again; the slice is not empty.
FrontBegins(i) ==
    /\ pc[i] = "front"
    /\ sort' = [sort EXCEPT ![i] = [@ EXCEPT !.n = groups.len, !.i = 1, !.j = 2]]
    /\ Goto(i, IF groups.len < 2 THEN "truncate" ELSE "distinct")
    /\ UNCHANGED <<memory, step, conf, asked>>

Duplicate(i) ==
    LET j == sort[i].j
        k == sort[i].i
    IN
    /\ pc[i] = "distinct"
    /\ j <= groups.len
    /\ \E x \in Readings(groups.arr, k), y \in Readings(groups.arr, j) : NotBefore(x, y)
    /\ CompareKept(i, k)
    /\ UNCHANGED <<memory, step, conf, asked>>

\* It is swapped to the place behind the last one kept.
Distinct(i) ==
    LET j == sort[i].j
        k == sort[i].i
        At(m) == Readings(groups.arr, m)
    IN
    /\ pc[i] = "distinct"
    /\ j <= groups.len
    /\ \E x \in At(k), y \in At(j) : Before(x, y)
    /\ \E a \in At(j), b \in At(k + 1) :
          sort' = [sort EXCEPT ![i] = [@ EXCEPT !.i = k + 1, !.arr = groups.arr, !.a = a, !.b = b]]
    /\ Goto(i, "keep")
    /\ UNCHANGED <<memory, step, conf, asked>>

\* The slice has become shorter since it was asked for its length, or its
\* array is by now another one, too short for what was kept.
OutOfRange(i) ==
    /\ \/ pc[i] \in {"less", "distinct"} /\ sort[i].j > groups.len
       \/ pc[i] = "truncate" /\ sort[i].i > Len(heap[groups.arr])
    /\ Goto(i, "panic")
    /\ sort' = [sort EXCEPT ![i] = NoSort]
    /\ UNCHANGED <<memory, step, conf, asked>>

StoreFirst(i) ==
    /\ pc[i] \in Swaps
    /\ \E x \in Writings(i, sort[i].a, sort[i].b) :
          heap' = [heap EXCEPT ![sort[i].arr][Spot(i)] = x]
    /\ Goto(i, IF pc[i] = "swap" THEN "swap2" ELSE "keep2")
    /\ UNCHANGED <<field, groups, step, sort, conf, asked>>

StoreSecond(i) ==
    /\ pc[i] \in Swapped
    /\ \E x \in Writings(i, sort[i].b, sort[i].a) :
          heap' = [heap EXCEPT ![sort[i].arr][Spot(i)] = x]
    /\ IF pc[i] = "swap2" THEN Compare(i, sort[i].i, sort[i].j - 1)
       ELSE CompareKept(i, sort[i].i)
    /\ UNCHANGED <<field, groups, step, conf, asked>>

\* Variant: the index of the last one kept is taken for their number, and one
\* is added once too often.
TruncateOneMore(i) ==
    /\ pc[i] = "truncate"
    /\ sort[i].i <= Len(heap[groups.arr])
    /\ groups' = [groups EXCEPT !.len = sort[i].i + 1]
    /\ Goto(i, "copy")
    /\ UNCHANGED <<field, heap, step, sort, conf, asked>>

\* Variant: the duplicates stay.
KeepAll(i) ==
    /\ pc[i] = "truncate"
    /\ Goto(i, "copy")
    /\ UNCHANGED <<memory, step, sort, conf, asked>>

Truncate(i) ==
    /\ pc[i] = "truncate"
    /\ sort[i].i <= Len(heap[groups.arr])
    /\ groups' = [groups EXCEPT !.len = sort[i].i]
    /\ Goto(i, "copy")
    /\ UNCHANGED <<field, heap, step, sort, conf, asked>>

----------------------------------------------------------------------------
(* signIn and AuthLdap.GetUser with what GetRepoAuth returned.             *)

\* The record is copied into the call of GenerateToken, its slice of groups
\* with it, but not the array behind the slice.
CopyConf(i) ==
    /\ pc[i] = "copy"
    /\ conf' = [conf EXCEPT ![i] =
         IF file.own = NoSection
         THEN [server |-> Given(file.def, "def")["server"],
               domain |-> Given(file.def, "def")["domain"],
               groups |-> Slice("def", Len(file.def.groups))]
         ELSE [server |-> field["server"], domain |-> field["domain"], groups |-> groups]]
    /\ sort' = [sort EXCEPT ![i] = NoSort]
    /\ Goto(i, "connect")
    /\ UNCHANGED <<memory, step, asked>>

\* ldapConnect: the connection to conf.Server, the bind as user@conf.Domain.
Connect(i) ==
    /\ pc[i] = "connect"
    /\ Goto(i, "search")
    /\ UNCHANGED <<memory, step, sort, conf, asked>>

Unreachable(i) ==
    /\ pc[i] = "connect"
    /\ Goto(i, "refused")
    /\ conf' = [conf EXCEPT ![i] = NoConf]
    /\ UNCHANGED <<memory, step, sort, asked>>

\* ldapSearchUser: the filter asks for the groups that the array holds by now;
\* a filter of no group matches nobody.
Search(i) ==
    LET s == conf[i].groups
        torn == Racing(s.arr) \cap 1..s.len
    IN
    /\ pc[i] = "search"
    /\ \E half \in SUBSET torn :
          asked' = [asked EXCEPT ![i] =
                      {IF k \in half THEN Torn ELSE heap[s.arr][k] : k \in 1..s.len}]
    /\ \E how \in {"ok", "refused"} : (how = "ok" => s.len > 0) /\ Goto(i, how)
    /\ conf' = [conf EXCEPT ![i] = NoConf]
    /\ UNCHANGED <<memory, step, sort>>

\* The words of the shared slice, or of a name that is copied, are read while
\* another request writes them: a pointer to a short array, or to none, with
\* the length of a longer one.
Fault(i) ==
    /\ \E j \in SignIns \ {i} :
          \/ /\ pc[i] \in {"append", "len", "less", "front", "distinct", "truncate", "copy"}
             /\ pc[j] = "store"
          \/ pc[i] = "copy" /\ pc[j] = "write"
    /\ Goto(i, "panic")
    /\ sort' = [sort EXCEPT ![i] = NoSort]
    /\ UNCHANGED <<memory, step, conf, asked>>

\* Half a group's name may be no name at all, no address with a length: who
\* compares it or writes it into a filter panics.
Chokes(i) ==
    /\ \/ /\ pc[i] = "less" /\ sort[i].j <= groups.len
          /\ \E k \in {sort[i].j - 1, sort[i].j} : Torn \in Readings(groups.arr, k)
       \/ /\ pc[i] = "distinct" /\ sort[i].j <= groups.len
          /\ \E k \in {sort[i].i, sort[i].j} : Torn \in Readings(groups.arr, k)
       \/ /\ pc[i] = "search"
          /\ \E k \in 1..conf[i].groups.len : Torn \in Readings(conf[i].groups.arr, k)
    /\ Goto(i, "choked")
    /\ sort' = [sort EXCEPT ![i] = NoSort]
    /\ conf' = [conf EXCEPT ![i] = NoConf]
    /\ UNCHANGED <<memory, step, asked>>

\* The process ends and is started again with the same file.
Restart ==
    /\ \E i \in SignIns : pc[i] \in Active
    /\ UNCHANGED file
    /\ field' = Given(file.own, "own")
    /\ groups' = LoadedGroups(file)
    /\ heap' = LoadedHeap(file)
    /\ pc' = [i \in SignIns |-> IF pc[i] \in Active THEN "lost" ELSE "idle"]
    /\ step' = [i \in SignIns |-> 1]
    /\ sort' = [i \in SignIns |-> NoSort]
    /\ conf' = [i \in SignIns |-> NoConf]
    /\ asked' = [i \in SignIns |-> {}]
    /\ clash' = FALSE /\ crossed' = {}

----------------------------------------------------------------------------
GetRepoAuth(i) ==
    \/ Begin(i) \/ FieldGiven(i) \/ FieldBlank(i) \/ WriteField(i)
    \/ NoGroups(i) \/ AppendGroups(i) \/ StoreGroups(i)
    \/ SortBegins(i) \/ InOrder(i) \/ OutOfOrder(i)
    \/ FrontBegins(i) \/ Duplicate(i) \/ Distinct(i) \/ OutOfRange(i)
    \/ StoreFirst(i) \/ StoreSecond(i) \/ Truncate(i)

GetUser(i) == CopyConf(i) \/ Connect(i) \/ Unreachable(i) \/ Search(i)

Next ==
    \/ \E i \in SignIns : GetRepoAuth(i) \/ GetUser(i) \/ Fault(i) \/ Chokes(i)
    \/ Restart

Spec == Init /\ [][Next]_vars

----------------------------------------------------------------------------
(* Properties.                                                             *)

Incomplete == file.own # NoSection /\ file.own.given # Fields
Named == ToSet(file.own.groups) \cup ToSet(file.def.groups)

\* The groups that the file stands for.
MeantGroups ==
    IF file.own = NoSection THEN ToSet(file.def.groups)
    ELSE IF Incomplete /\ file.own.groups # <<>> THEN Named ELSE ToSet(file.own.groups)

Ascending(s) == \A k \in DOMAIN s \ {1} : s[k - 1] < s[k]

\* A sign-in never takes a login and its password to the server of one section
\* under the domain of the other, because the server is checked first and
\* written last; unless the file has a server of its own, to be replaced, and
\* another sign-in was replacing it at the time.
OneServer ==
    file.def.given = Fields =>
        \A i \in SignIns : pc[i] \in {"connect", "search"} =>
            \/ conf[i].server = conf[i].domain /\ conf[i].server # "blank"
            \/ i \in crossed /\ "server" \in file.own.given

\* Whatever was sorted, swapped, copied and cut under it, a sign-in asks for
\* groups that one of the sections names and for some group when the repository
\* names one.  Half a name it can only have read while another was sorting or,
\* as what two that filled the record at once have left in the array, at any
\* time until the process is started again.  The same goes for an empty name:
\* one of the two cut the slice behind what the array of the other holds.
KnownGroups ==
    \A i \in SignIns :
        /\ asked[i] \subseteq {Torn, 0} \cup Named
        /\ Torn \in asked[i] => i \in crossed \/ clash
        /\ 0 \in asked[i] => clash
        /\ pc[i] = "search" /\ file.own.groups # <<>> => conf[i].groups.len > 0

\* As long as no two sign-ins filled the record at once, a sign-in that met
\* nobody filling it asked for the groups that the file stands for, whoever had
\* filled the record before.
SeenMerged ==
    \A i \in SignIns : asked[i] # {} /\ i \notin crossed /\ ~clash => asked[i] = MeantGroups

\* Between the sign-ins the record is what the file has, or the default's
\* fields with the groups of both, sorted and without duplicates, as long as no
\* two filled it at once.
SettledMerge ==
    ~clash /\ (\A i \in SignIns : pc[i] \notin Filling) =>
        \/ field = Given(file.own, "own") /\ Shows(groups) = file.own.groups
        \/ /\ Incomplete /\ field = Given(file.def, "def")
           /\ ToSet(Shows(groups)) = MeantGroups /\ Ascending(Shows(groups))

\* A sign-in panics if there is no default section to complete the repository's
\* from, and then every sign-in does; or it met another that was filling it; or
\* it came upon half a name that two who filled it at once have left.
PanicsExplained ==
    LET hopeless == Incomplete /\ file.def = NoSection IN
    \A i \in SignIns :
        /\ pc[i] = "panic" => hopeless \/ i \in crossed
        /\ pc[i] = "choked" => i \in crossed \/ clash
        /\ hopeless => pc[i] \in Ended \cup {"check"} /\ pc[i] \notin {"ok", "refused"}
=============================================================================
