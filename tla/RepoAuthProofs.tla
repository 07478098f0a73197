--------------------------- MODULE RepoAuthProofs ---------------------------
(***************************************************************************)
(* Theorems about RepoAuth, for any number of sign-ins and any files.      *)
(* The order in which the shared record is checked and filled keeps server *)
(* and domain together, without a lock (IInv).  Slices and arrays fit each *)
(* other however the sign-ins overlap (Memory).  Who fills the record      *)
(* alone finds it as it left it (Steady), and turns its groups into those  *)
(* that the file stands for (Merging).                                     *)
(***************************************************************************)
EXTENDS RepoAuth, FiniteSetTheorems, SequenceTheorems, TLAPS

AllDef == \A f \in Fields : field[f] = "def"
Own(f) == Given(file.own, "own")[f]

\* Where the sign-ins stand and what they hold.
Typed ==
    /\ field \in [Fields -> Origins]
    /\ pc \in [SignIns -> Active \cup Ended]
    /\ step \in [SignIns -> 1..3]
    /\ DOMAIN conf = SignIns
    /\ crossed \subseteq SignIns

\* Who is active next to one who fills the record is noted.
Met == \A i, j \in SignIns : i # j /\ pc[i] \in Active /\ pc[j] \in Filling => i \in crossed

\* The record, filled from a complete default section in the order of Writes.
Ordered ==
    /\ \A f \in Fields : field[f] \in {Own(f), "def"}
    /\ field["server"] = "def" => field["domain"] = "def"
    /\ (\E f \in Fields : field[f] = "def") => AllDef \/ \E j \in SignIns : pc[j] = "write"

\* What each sign-in knows of the record, in the order of Checks and Writes.
Knows(i) ==
    /\ pc[i] = "check" /\ step[i] # 1 => field["server"] # "blank"
    /\ pc[i] = "check" /\ step[i] = 3 => field["base"] # "blank"
    /\ pc[i] = "write" /\ step[i] # 1 => field["base"] = "def"
    /\ pc[i] = "write" /\ step[i] = 3 => field["domain"] = "def"
    /\ pc[i] \in Filling \ {"write"} => AllDef
    /\ pc[i] = "copy" /\ file.own # NoSection => \A f \in Fields : field[f] # "blank"

\* OneServer, for sign-in i.
Together(i) ==
    pc[i] \in {"connect", "search"} =>
        \/ conf[i].server = conf[i].domain /\ conf[i].server # "blank"
        \/ i \in crossed /\ "server" \in file.own.given

IInv ==
    /\ Typed /\ Met
    /\ file.def.given = Fields => Ordered /\ \A i \in SignIns : Knows(i) /\ Together(i)

----------------------------------------------------------------------------
LEMMA Sections ==
    /\ NoSection.given # Fields
    /\ \A section : section.given = Fields =>
          \A f \in Fields : Given(section, "def")[f] = "def"
    /\ \A f \in Fields : Own(f) \in {"own", "blank"} /\ (Own(f) = "own" => f \in file.own.given)
    /\ Fields = {"server", "base", "domain"} /\ AllDef = \A f \in Fields : field[f] = "def"
BY DEF NoSection, Fields, Given, Own, AllDef

\* What the places are to each other.
LEMMA Places ==
    /\ Filling \subseteq Active
    /\ {"check", "copy", "connect", "search", "write"} \subseteq Active
    /\ {"idle", "ok", "refused", "noauth", "panic", "choked", "lost"} = Ended
    /\ Active \cap Ended = {}
    /\ {"check", "copy", "connect", "search"} \cap Filling = {} /\ "write" \in Filling
    /\ {"append", "store", "len", "less", "front", "distinct", "truncate",
        "swap", "keep", "swap2", "keep2"} = Filling \ {"write"}
BY DEF Filling, Active, Ended, Swaps, Swapped

\* A sign-in goes on.
LEMMA GotoEffect ==
    ASSUME Typed, Met, NEW i \in SignIns, NEW state \in Active \cup Ended, Goto(i, state)
    PROVE  /\ pc' \in [SignIns -> Active \cup Ended] /\ pc'[i] = state
           /\ \A j \in SignIns : j # i => pc'[j] = pc[j]
           /\ crossed' \subseteq SignIns /\ Met' /\ file' = file
           /\ \A j \in crossed : (j = i => pc[i] \notin Ended) => j \in crossed'
<1>1. pc' = [pc EXCEPT ![i] = state] /\ file' = file
  BY DEF Goto
<1>2. crossed' = (IF pc[i] \in Ended THEN crossed \ {i} ELSE crossed) \cup
                  {j \in SignIns : pc'[j] \in Active /\
                                   {k \in SignIns : pc'[k] \in Filling} \ {j} # {}}
  BY DEF Goto
<1>3. crossed' \subseteq SignIns
  BY <1>2 DEF Typed
<1>4. Met'
  BY <1>2 DEF Met
<1>5. \A j \in crossed : (j = i => pc[i] \notin Ended) => j \in crossed'
  BY <1>2
<1>6. pc' \in [SignIns -> Active \cup Ended] /\ pc'[i] = state
      /\ \A j \in SignIns : j # i => pc'[j] = pc[j]
  BY <1>1 DEF Typed
<1> QED
  BY <1>1, <1>3, <1>4, <1>5, <1>6

LEMMA InitIInv == Init => IInv
<1> SUFFICES ASSUME Init PROVE IInv
  OBVIOUS
<1>1. \A i \in SignIns : pc[i] = "idle" /\ step[i] = 1
  BY DEF Init
<1>2. \A f \in Fields : field[f] = Own(f) /\ field[f] \in Origins /\ field[f] # "def"
  BY Sections DEF Init, Own, Origins
<1>3. Typed
  <2>1. field \in [Fields -> Origins]
    BY <1>2 DEF Init, Given
  <2>2. pc \in [SignIns -> Active \cup Ended] /\ step \in [SignIns -> 1..3]
    BY Places DEF Init
  <2> QED
    BY <2>1, <2>2 DEF Init, Typed
<1>4. Met
  BY <1>1, Places DEF Met
<1>5. Ordered
  BY <1>2, Sections DEF Ordered
<1>6. \A i \in SignIns : Knows(i) /\ Together(i)
  BY <1>1, Places DEF Knows, Together
<1> QED
  BY <1>3, <1>4, <1>5, <1>6 DEF IInv

----------------------------------------------------------------------------
(* Steps that leave the fields and the counters alone, and at most drop the *)
(* copy.                                                                    *)

\* From where to where such a step may go.
Moves ==
    {<<from, to>> : from \in Filling \ {"write"}, to \in (Filling \ {"write"}) \cup {"copy", "panic", "choked"}}
    \cup {<<"copy", "panic">>, <<"connect", "search">>, <<"connect", "refused">>,
          <<"search", "ok">>, <<"search", "refused">>, <<"search", "choked">>}

LEMMA Moved ==
    ASSUME IInv, NEW i \in SignIns, NEW state \in Active \cup Ended,
           <<pc[i], state>> \in Moves, Goto(i, state), UNCHANGED <<field, step>>,
           conf' = conf \/ (state \in Ended /\ conf' = [conf EXCEPT ![i] = NoConf])
    PROVE  IInv'
<1>0. Typed /\ Met
  BY DEF IInv
<1>1. /\ pc' \in [SignIns -> Active \cup Ended] /\ pc'[i] = state
      /\ \A j \in SignIns : j # i => pc'[j] = pc[j]
      /\ crossed' \subseteq SignIns /\ Met' /\ file' = file
      /\ \A j \in crossed : (j = i => pc[i] \notin Ended) => j \in crossed'
  BY <1>0, GotoEffect
<1>2. Typed' /\ \A j \in SignIns : j # i \/ state \notin Ended => conf'[j] = conf[j]
  <2>1. CASE conf' = conf
    BY <1>0, <1>1, <2>1 DEF Typed
  <2>2. CASE state \in Ended /\ conf' = [conf EXCEPT ![i] = NoConf]
    BY <1>0, <1>1, <2>2 DEF Typed
  <2> QED
    BY <2>1, <2>2
<1>3. pc[i] # "write" /\ state # "write" /\ pc[i] \notin Ended
  BY Places DEF Moves, Filling
<1>4. ASSUME file.def.given = Fields
      PROVE  Ordered' /\ \A j \in SignIns : Knows(j)' /\ Together(j)'
  <2>0. Ordered /\ \A j \in SignIns : Knows(j) /\ Together(j)
    BY <1>4 DEF IInv
  <2>1. Ordered'
    <3>1. \A j \in SignIns : pc[j] = "write" => pc'[j] = "write"
      BY <1>1, <1>3
    <3>2. AllDef' = AllDef /\ \A f \in Fields : Own(f)' = Own(f)
      BY <1>1 DEF AllDef, Own
    <3> QED
      BY <1>1, <2>0, <3>1, <3>2 DEF Ordered
  <2>2. ASSUME NEW j \in SignIns, j # i
        PROVE  Knows(j)' /\ Together(j)'
    BY <1>1, <1>2, <2>0, <2>2 DEF Knows, Together, AllDef
  <2>3. CASE pc[i] \in Filling \ {"write"}
    <3>1. AllDef /\ state \in (Filling \ {"write"}) \cup {"copy", "panic", "choked"}
      BY <2>0, <2>3, Places DEF Knows, Moves, Filling
    <3>2. \A f \in Fields : field[f] # "blank"
      BY <3>1, Sections
    <3>3. Knows(i)' /\ Together(i)'
      BY <1>1, <3>1, <3>2, Places DEF Knows, Together, AllDef, Filling
    <3> QED
      BY <2>1, <2>2, <3>3
  <2>4. CASE pc[i] \notin Filling \ {"write"}
    <3>1. /\ pc[i] \in {"copy", "connect", "search"}
          /\ state \in {"panic", "choked", "search", "refused", "ok"}
          /\ state = "search" => pc[i] = "connect"
      BY <2>4 DEF Moves
    <3>2. Knows(i)'
      BY <1>1, <3>1, Places DEF Knows, Filling
    <3>3. Together(i)'
      BY <1>1, <1>2, <1>3, <2>0, <3>1, Places DEF Together
    <3> QED
      BY <2>1, <2>2, <3>2, <3>3
  <2> QED
    BY <2>3, <2>4
<1> QED
  BY <1>1, <1>2, <1>4 DEF IInv

\* The actions that are such steps.
LEMMA MovedActions ==
    ASSUME IInv, NEW i \in SignIns,
           \/ NoGroups(i) \/ AppendGroups(i) \/ StoreGroups(i)
           \/ SortBegins(i) \/ InOrder(i) \/ OutOfOrder(i)
           \/ FrontBegins(i) \/ Duplicate(i) \/ Distinct(i) \/ OutOfRange(i)
           \/ StoreFirst(i) \/ StoreSecond(i) \/ Truncate(i)
           \/ Connect(i) \/ Unreachable(i) \/ Search(i) \/ Fault(i) \/ Chokes(i)
    PROVE  IInv'
<1> SUFFICES \E state \in Active \cup Ended :
                /\ <<pc[i], state>> \in Moves /\ Goto(i, state)
                /\ UNCHANGED <<field, step>>
                /\ conf' = conf \/ (state \in Ended /\ conf' = [conf EXCEPT ![i] = NoConf])
  BY Moved
<1>1. CASE NoGroups(i)
  BY <1>1, Places DEF NoGroups, memory, Moves
<1>2. CASE AppendGroups(i)
  <2>1. pc[i] = "append" /\ Goto(i, "store") /\ UNCHANGED <<field, step, conf>>
    BY <1>2 DEF AppendGroups
  <2> QED
    BY <2>1, Places DEF Moves
<1>3. CASE StoreGroups(i)
  BY <1>3, Places DEF StoreGroups, Moves
<1>4. CASE SortBegins(i)
  BY <1>4, Places DEF SortBegins, memory, Moves
<1>5. CASE InOrder(i)
  BY <1>5, Places DEF InOrder, Compare, memory, Moves
<1>6. CASE OutOfOrder(i)
  <2>1. pc[i] = "less" /\ Goto(i, "swap") /\ UNCHANGED <<field, step, conf>>
    BY <1>6 DEF OutOfOrder, memory
  <2> QED
    BY <2>1, Places DEF Moves
<1>7. CASE OutOfRange(i)
  BY <1>7, Places DEF OutOfRange, memory, Moves
<1>8. CASE StoreFirst(i)
  BY <1>8, Places DEF StoreFirst, Moves, Swaps
<1>9. CASE StoreSecond(i)
  BY <1>9, Places DEF StoreSecond, Compare, CompareKept, Moves, Swapped
<1>10. CASE Truncate(i)
  BY <1>10, Places DEF Truncate, Moves
<1>15. CASE FrontBegins(i)
  BY <1>15, Places DEF FrontBegins, memory, Moves
<1>16. CASE Duplicate(i)
  BY <1>16, Places DEF Duplicate, CompareKept, memory, Moves
<1>17. CASE Distinct(i)
  <2>1. pc[i] = "distinct" /\ Goto(i, "keep") /\ UNCHANGED <<field, step, conf>>
    BY <1>17 DEF Distinct, memory
  <2> QED
    BY <2>1, Places DEF Moves
<1>11. CASE Connect(i)
  BY <1>11, Places DEF Connect, memory, Moves
<1>12. CASE Unreachable(i)
  BY <1>12, Places DEF Unreachable, memory, Moves
<1>13. CASE Search(i)
  BY <1>13, Places, SMTT(30) DEF Search, memory, Moves
<1>14. CASE Fault(i)
  BY <1>14, Places DEF Fault, memory, Moves
<1>18. CASE Chokes(i)
  BY <1>18, Places DEF Chokes, memory, Moves
<1> QED
  BY <1>1, <1>2, <1>3, <1>4, <1>5, <1>6, <1>7, <1>8, <1>9, <1>10, <1>11, <1>12, <1>13, <1>14,
     <1>15, <1>16, <1>17, <1>18

----------------------------------------------------------------------------
(* Steps that leave the fields alone, and of sign-in i change the counter or *)
(* the copy.                                                               *)

LEMMA Others ==
    ASSUME IInv, NEW i \in SignIns, NEW state \in Active \cup Ended, Goto(i, state),
           field' = field, pc[i] # "write",
           \A j \in SignIns : j # i => step'[j] = step[j] /\ conf'[j] = conf[j]
    PROVE  file.def.given = Fields =>
              Ordered' /\ \A j \in SignIns : j # i => Knows(j)' /\ Together(j)'
<1> SUFFICES ASSUME file.def.given = Fields
             PROVE  Ordered' /\ \A j \in SignIns : j # i => Knows(j)' /\ Together(j)'
  OBVIOUS
<1>0. Typed /\ Met /\ Ordered /\ \A j \in SignIns : Knows(j) /\ Together(j)
  BY DEF IInv
<1>1. /\ \A j \in SignIns : j # i => pc'[j] = pc[j]
      /\ file' = file
      /\ \A j \in crossed : j # i => j \in crossed'
  BY <1>0, GotoEffect
<1>2. AllDef' = AllDef /\ \A f \in Fields : Own(f)' = Own(f)
  BY <1>1 DEF AllDef, Own
<1>3. Ordered'
  <2>1. \A j \in SignIns : pc[j] = "write" => pc'[j] = "write"
    BY <1>1
  <2> QED
    BY <1>0, <1>1, <1>2, <2>1 DEF Ordered
<1>4. ASSUME NEW j \in SignIns, j # i
      PROVE  Knows(j)' /\ Together(j)'
  BY <1>0, <1>1, <1>2, <1>4 DEF Knows, Together
<1> QED
  BY <1>3, <1>4

\* What such a step does to its counter and its copy.
LEMMA Counted ==
    ASSUME Typed, NEW i \in SignIns, NEW n \in 1..3, NEW c,
           step' = [step EXCEPT ![i] = n], conf' = conf \/ conf' = [conf EXCEPT ![i] = c],
           field' \in [Fields -> Origins], pc' \in [SignIns -> Active \cup Ended],
           crossed' \subseteq SignIns
    PROVE  /\ Typed' /\ step'[i] = n
           /\ \A j \in SignIns : j # i => step'[j] = step[j] /\ conf'[j] = conf[j]
<1>1. step' \in [SignIns -> 1..3] /\ step'[i] = n
      /\ \A j \in SignIns : j # i => step'[j] = step[j]
  BY DEF Typed
<1>2. DOMAIN conf' = SignIns /\ \A j \in SignIns : j # i => conf'[j] = conf[j]
  <2>1. DOMAIN conf = SignIns
    BY DEF Typed
  <2>2. CASE conf' = conf
    BY <2>1, <2>2
  <2>3. CASE conf' = [conf EXCEPT ![i] = c]
    BY <2>1, <2>3
  <2> QED
    BY <2>2, <2>3
<1> QED
  BY <1>1, <1>2 DEF Typed

LEMMA Starts ==
    ASSUME IInv, NEW i \in SignIns, Begin(i)
    PROVE  IInv'
<1>0. Typed /\ Met
  BY DEF IInv
<1>1. PICK state \in {"check", "copy", "noauth"} :
         Goto(i, state) /\ (state = "copy" => file.own = NoSection)
  BY DEF Begin
<1>2. /\ pc[i] \in Ended /\ field' = field
      /\ step' = [step EXCEPT ![i] = 1] /\ conf' = [conf EXCEPT ![i] = NoConf]
  BY DEF Begin, memory
<1>3. state \in Active \cup Ended /\ pc[i] # "write"
  BY <1>1, <1>2, Places
<1>4. /\ pc' \in [SignIns -> Active \cup Ended] /\ pc'[i] = state
      /\ crossed' \subseteq SignIns /\ Met' /\ file' = file
  BY <1>0, <1>1, <1>3, GotoEffect
<1>5. Typed' /\ step'[i] = 1
      /\ \A j \in SignIns : j # i => step'[j] = step[j] /\ conf'[j] = conf[j]
  <2>1. field' \in [Fields -> Origins] /\ 1 \in 1..3
    BY <1>0, <1>2 DEF Typed
  <2> QED
    BY <1>0, <1>2, <1>4, <2>1, Counted
<1>6. Knows(i)' /\ Together(i)'
  BY <1>1, <1>4, <1>5, Places DEF Knows, Together
<1>7. file.def.given = Fields =>
         Ordered' /\ \A j \in SignIns : j # i => Knows(j)' /\ Together(j)'
  BY <1>1, <1>2, <1>3, <1>5, Others
<1> QED
  BY <1>4, <1>5, <1>6, <1>7 DEF IInv

LEMMA ChecksOn ==
    ASSUME IInv, NEW i \in SignIns, FieldGiven(i)
    PROVE  IInv'
<1>0. Typed /\ Met /\ step[i] \in 1..3
  BY DEF IInv, Typed
<1> DEFINE state == IF step[i] = 3 THEN "copy" ELSE "check"
<1>1. /\ pc[i] = "check" /\ field[Checks[step[i]]] # "blank" /\ Goto(i, state)
      /\ step' = [step EXCEPT ![i] = IF step[i] = 3 THEN 1 ELSE step[i] + 1]
      /\ UNCHANGED <<field, conf>>
  BY DEF FieldGiven, memory
<1>2. state \in Active \cup Ended /\ pc[i] # "write"
  BY <1>1, Places
<1>3. /\ pc' \in [SignIns -> Active \cup Ended] /\ pc'[i] = state
      /\ crossed' \subseteq SignIns /\ Met' /\ file' = file
  BY <1>0, <1>1, <1>2, GotoEffect
<1>4. /\ Typed' /\ step'[i] = IF step[i] = 3 THEN 1 ELSE step[i] + 1
      /\ \A j \in SignIns : j # i => step'[j] = step[j] /\ conf'[j] = conf[j]
  <2>1. field' \in [Fields -> Origins]
    BY <1>0, <1>1 DEF Typed
  <2>2. (IF step[i] = 3 THEN 1 ELSE step[i] + 1) \in 1..3
    BY <1>0
  <2>3. /\ Typed /\ conf' = conf
        /\ step' = [step EXCEPT ![i] = IF step[i] = 3 THEN 1 ELSE step[i] + 1]
        /\ pc' \in [SignIns -> Active \cup Ended] /\ crossed' \subseteq SignIns
    BY <1>0, <1>1, <1>3
  <2> QED
    BY <2>1, <2>2, <2>3, Counted
<1>5. Checks[1] = "server" /\ Checks[2] = "base" /\ Checks[3] = "domain"
  BY DEF Checks
<1>6. ASSUME file.def.given = Fields
      PROVE  Knows(i)' /\ Together(i)'
  <2>0. Knows(i)
    BY <1>6 DEF IInv
  <2>1. CASE step[i] = 1
    BY <1>1, <1>3, <1>4, <1>5, <2>1, Places DEF Knows, Together
  <2>2. CASE step[i] = 2
    BY <1>1, <1>3, <1>4, <1>5, <2>0, <2>2, Places DEF Knows, Together
  <2>3. CASE step[i] = 3
    <3>1. \A f \in Fields : field[f] # "blank"
      BY <1>1, <1>5, <2>0, <2>3, Sections DEF Knows
    <3> QED
      BY <1>1, <1>3, <1>4, <2>3, <3>1, Places DEF Knows, Together
  <2> QED
    BY <1>0, <2>1, <2>2, <2>3
<1>7. file.def.given = Fields =>
         Ordered' /\ \A j \in SignIns : j # i => Knows(j)' /\ Together(j)'
  BY <1>1, <1>2, <1>4, Others
<1> QED
  BY <1>3, <1>4, <1>6, <1>7 DEF IInv

LEMMA ChecksEnd ==
    ASSUME IInv, NEW i \in SignIns, FieldBlank(i)
    PROVE  IInv'
<1>0. Typed /\ Met
  BY DEF IInv
<1>1. PICK state \in {"panic", "write"} : Goto(i, state)
  BY DEF FieldBlank
<1>2. /\ pc[i] = "check" /\ UNCHANGED <<field, conf>>
      /\ step' = [step EXCEPT ![i] = 1]
  BY DEF FieldBlank, memory
<1>3. state \in Active \cup Ended /\ pc[i] # "write"
  BY <1>1, <1>2, Places
<1>4. /\ pc' \in [SignIns -> Active \cup Ended] /\ pc'[i] = state
      /\ crossed' \subseteq SignIns /\ Met' /\ file' = file
  BY <1>0, <1>1, <1>3, GotoEffect
<1>5. Typed' /\ step'[i] = 1
      /\ \A j \in SignIns : j # i => step'[j] = step[j] /\ conf'[j] = conf[j]
  <2>1. field' \in [Fields -> Origins] /\ 1 \in 1..3
    BY <1>0, <1>2 DEF Typed
  <2> QED
    BY <1>0, <1>2, <1>4, <2>1, Counted
<1>6. Knows(i)' /\ Together(i)'
  BY <1>1, <1>4, <1>5, Places DEF Knows, Together
<1>7. file.def.given = Fields =>
         Ordered' /\ \A j \in SignIns : j # i => Knows(j)' /\ Together(j)'
  BY <1>1, <1>2, <1>3, <1>5, Others
<1> QED
  BY <1>4, <1>5, <1>6, <1>7 DEF IInv

----------------------------------------------------------------------------
(* The copy.                                                               *)

LEMMA Copies ==
    ASSUME IInv, NEW i \in SignIns, CopyConf(i)
    PROVE  IInv'
<1>0. Typed /\ Met
  BY DEF IInv
<1>1. /\ pc[i] = "copy" /\ Goto(i, "connect") /\ UNCHANGED <<field, step>>
      /\ conf' = [conf EXCEPT ![i] = conf'[i]]
  BY <1>0 DEF CopyConf, memory, Typed
<1>2. "connect" \in Active \cup Ended /\ pc[i] \in Active /\ pc[i] \notin Ended
      /\ pc[i] # "write"
  BY <1>1, Places
<1>3. /\ pc' \in [SignIns -> Active \cup Ended] /\ pc'[i] = "connect"
      /\ crossed' \subseteq SignIns /\ Met' /\ file' = file
      /\ i \in crossed => i \in crossed'
  BY <1>0, <1>1, <1>2, GotoEffect
<1>4. Typed' /\ \A j \in SignIns : j # i => step'[j] = step[j] /\ conf'[j] = conf[j]
  BY <1>0, <1>1, <1>3 DEF Typed
<1>5. ASSUME file.def.given = Fields
      PROVE  Knows(i)' /\ Together(i)'
  <2>0. Ordered /\ Knows(i)
    BY <1>5 DEF IInv
  <2>1. Knows(i)'
    BY <1>3, Places DEF Knows
  <2>2. CASE file.own = NoSection
    <3>1. conf'[i].server = "def" /\ conf'[i].domain = "def"
      BY <1>0, <1>5, <2>2, Sections DEF CopyConf, Typed
    <3> QED
      BY <2>1, <3>1 DEF Together
  <2>3. CASE file.own # NoSection
    <3>1. conf'[i].server = field["server"] /\ conf'[i].domain = field["domain"]
      BY <1>0, <2>3 DEF CopyConf, Typed
    <3>2. \A f \in Fields : field[f] # "blank" /\ field[f] \in {Own(f), "def"}
      BY <1>1, <2>0, <2>3 DEF Knows, Ordered
    <3>3. CASE field["server"] = "def"
      BY <2>0, <2>1, <3>1, <3>3 DEF Ordered, Together
    <3>4. CASE field["server"] # "def"
      <4>1. field["server"] = "own" /\ "server" \in file.own.given
        BY <3>2, <3>4, Sections
      <4>2. CASE field["domain"] = "own"
        BY <2>1, <3>1, <4>1, <4>2 DEF Together
      <4>3. CASE field["domain"] # "own"
        <5>1. field["domain"] = "def"
          BY <3>2, <4>3, Sections
        <5>2. ~AllDef
          BY <3>4, Sections
        <5>3. PICK j \in SignIns : pc[j] = "write"
          BY <2>0, <5>1, <5>2, Sections DEF Ordered
        <5>4. i \in crossed
          BY <1>0, <1>1, <1>2, <5>3, Places DEF Met
        <5> QED
          BY <1>3, <2>1, <4>1, <5>4 DEF Together
      <4> QED
        BY <4>2, <4>3
    <3> QED
      BY <3>3, <3>4
  <2> QED
    BY <2>2, <2>3
<1>6. file.def.given = Fields =>
         Ordered' /\ \A j \in SignIns : j # i => Knows(j)' /\ Together(j)'
  BY <1>1, <1>2, <1>4, Others
<1> QED
  BY <1>3, <1>4, <1>5, <1>6 DEF IInv

----------------------------------------------------------------------------
(* The one step that writes a field.                                       *)

LEMMA Fills ==
    ASSUME IInv, NEW i \in SignIns, WriteField(i)
    PROVE  IInv'
<1>0. Typed /\ Met /\ step[i] \in 1..3
  BY DEF IInv, Typed
<1> DEFINE state == IF step[i] = 3 THEN "append" ELSE "write"
           f == Writes[step[i]]
<1>1. /\ pc[i] = "write" /\ Goto(i, state)
      /\ field' = [field EXCEPT ![f] = Given(file.def, "def")[f]]
      /\ step' = [step EXCEPT ![i] = IF step[i] = 3 THEN 1 ELSE step[i] + 1]
      /\ conf' = conf
  BY DEF WriteField
<1>2. state \in Active \cup Ended /\ pc[i] \notin Ended /\ state \in Filling
  BY <1>1, Places
<1>3. /\ pc' \in [SignIns -> Active \cup Ended] /\ pc'[i] = state
      /\ \A j \in SignIns : j # i => pc'[j] = pc[j]
      /\ crossed' \subseteq SignIns /\ Met' /\ file' = file
      /\ \A j \in crossed : j \in crossed'
  BY <1>0, <1>1, <1>2, GotoEffect
<1>4. /\ f \in Fields /\ Writes[1] = "base" /\ Writes[2] = "domain" /\ Writes[3] = "server"
  BY <1>0, Sections DEF Writes
<1>5. Given(file.def, "def")[f] \in Origins
  BY <1>4 DEF Given, Origins
<1>6. field' \in [Fields -> Origins]
  BY <1>0, <1>1, <1>5 DEF Typed
<1>7. /\ Typed' /\ step'[i] = IF step[i] = 3 THEN 1 ELSE step[i] + 1
      /\ \A j \in SignIns : j # i => step'[j] = step[j]
  <2>1. (IF step[i] = 3 THEN 1 ELSE step[i] + 1) \in 1..3
    BY <1>0
  <2>2. /\ Typed /\ conf' = conf
        /\ step' = [step EXCEPT ![i] = IF step[i] = 3 THEN 1 ELSE step[i] + 1]
        /\ pc' \in [SignIns -> Active \cup Ended] /\ crossed' \subseteq SignIns
    BY <1>0, <1>1, <1>3
  <2> QED
    BY <1>6, <2>1, <2>2, Counted
<1>8. ASSUME file.def.given = Fields
      PROVE  Ordered' /\ \A j \in SignIns : Knows(j)' /\ Together(j)'
  <2>0. Ordered /\ \A j \in SignIns : Knows(j) /\ Together(j)
    BY <1>8 DEF IInv
  <2>1. field'[f] = "def" /\ \A g \in Fields : g # f => field'[g] = field[g]
    BY <1>0, <1>1, <1>4, <1>8, Sections DEF Typed
  <2>2. \A g \in Fields : Own(g)' = Own(g)
    BY <1>3 DEF Own
  <2>3. /\ "base" \in Fields /\ "domain" \in Fields /\ "server" \in Fields
        /\ \A g \in Fields : field[g] = "def" => field'[g] = "def"
        /\ \A g \in Fields : field[g] # "blank" => field'[g] # "blank"
        /\ AllDef => AllDef'
    <3>1. /\ "base" \in Fields /\ "domain" \in Fields /\ "server" \in Fields
          /\ \A g \in Fields : field[g] = "def" => field'[g] = "def"
          /\ \A g \in Fields : field[g] # "blank" => field'[g] # "blank"
      BY <2>1, Sections
    <3>2. AllDef => AllDef'
      BY <3>1 DEF AllDef
    <3> QED
      BY <3>1, <3>2
  <2> HIDE DEF f
  <2>4. CASE step[i] = 3
    <3>1. field["base"] = "def" /\ field["domain"] = "def" /\ f = "server"
      BY <1>1, <1>4, <2>0, <2>4 DEF Knows, f
    <3>2. AllDef'
      BY <2>1, <2>3, <3>1, Sections DEF AllDef
    <3>3. field'["server"] = "def" /\ field'["domain"] = "def"
      BY <3>2, Sections DEF AllDef
    <3>4. Ordered'
      BY <3>2, <3>3 DEF Ordered, AllDef
    <3>5. Knows(i)' /\ Together(i)'
      BY <1>3, <2>4, <3>2, Places DEF Knows, Together
    <3>6. ASSUME NEW j \in SignIns, j # i
          PROVE  Knows(j)' /\ Together(j)'
      BY <1>1, <1>3, <1>7, <2>0, <2>3, <3>2, <3>6 DEF Knows, Together
    <3> QED
      BY <3>4, <3>5, <3>6
  <2>5. CASE step[i] # 3
    <3>1. /\ f \in {"base", "domain"} /\ state = "write"
          /\ step[i] = 1 => f = "base"
          /\ step[i] = 2 => f = "domain" /\ field["base"] = "def"
      BY <1>0, <1>1, <1>4, <2>0, <2>5 DEF Knows, f
    <3>2. Ordered'
      BY <1>3, <2>0, <2>1, <2>2, <2>3, <3>1 DEF Ordered
    <3>3. step'[i] \in {2, 3} /\ (step'[i] = 3 => step[i] = 2)
      BY <1>0, <1>7, <2>5
    <3>4. field'["base"] = "def" /\ (step'[i] = 3 => field'["domain"] = "def")
      BY <1>0, <2>1, <2>3, <2>5, <3>1, <3>3
    <3>5. Knows(i)' /\ Together(i)'
      BY <1>3, <3>1, <3>3, <3>4, Places DEF Knows, Together
    <3>6. ASSUME NEW j \in SignIns, j # i
          PROVE  Knows(j)' /\ Together(j)'
      BY <1>1, <1>3, <1>7, <2>0, <2>3, <3>6 DEF Knows, Together
    <3> QED
      BY <3>2, <3>5, <3>6
  <2> QED
    BY <2>4, <2>5
<1> QED
  BY <1>3, <1>7, <1>8 DEF IInv

----------------------------------------------------------------------------
LEMMA Restarts ==
    ASSUME IInv, Restart
    PROVE  IInv'
<1>1. /\ file' = file /\ field' = Given(file.own, "own")
      /\ \A i \in SignIns : pc'[i] \in {"lost", "idle"} /\ step'[i] = 1
      /\ crossed' = {}
  BY DEF Restart
<1>2. \A f \in Fields : field'[f] = Own(f) /\ Own(f)' = Own(f)
      /\ field'[f] \in Origins /\ field'[f] # "def"
  BY <1>1, Sections DEF Own, Origins
<1>3. Typed'
  <2>1. field' \in [Fields -> Origins]
    BY <1>1, <1>2 DEF Given
  <2>2. pc' \in [SignIns -> Active \cup Ended] /\ step' \in [SignIns -> 1..3]
        /\ DOMAIN conf' = SignIns
    BY Places DEF Restart
  <2> QED
    BY <1>1, <2>1, <2>2 DEF Typed
<1>4. Met'
  BY <1>1, Places DEF Met
<1>5. Ordered'
  BY <1>2, Sections DEF Ordered
<1>6. \A i \in SignIns : Knows(i)' /\ Together(i)'
  BY <1>1, Places DEF Knows, Together
<1> QED
  BY <1>3, <1>4, <1>5, <1>6 DEF IInv

LEMMA IInvStep == IInv /\ [Next]_vars => IInv'
<1> SUFFICES ASSUME IInv, [Next]_vars PROVE IInv'
  OBVIOUS
<1>1. ASSUME NEW i \in SignIns, GetRepoAuth(i) \/ GetUser(i) \/ Fault(i) \/ Chokes(i)
      PROVE  IInv'
  BY <1>1, Starts, ChecksOn, ChecksEnd, Fills, Copies, MovedActions DEF GetRepoAuth, GetUser
<1>2. CASE UNCHANGED vars
  BY <1>2 DEF vars, IInv, Typed, Met, Ordered, Knows, Together, AllDef, Own
<1> QED
  BY <1>1, <1>2, Restarts DEF Next

\* The invariant holds in every state.
THEOREM InductiveInvariant == Spec => []IInv
BY InitIInv, IInvStep, PTL DEF Spec

\* A password never goes to the server of one section under the domain of the
\* other, but for a server that the file names itself and another sign-in is
\* replacing.
THEOREM ServerAndDomain == Spec => []OneServer
<1>1. IInv => OneServer
  BY DEF IInv, Together, OneServer
<1> QED
  BY <1>1, InductiveInvariant, PTL

----------------------------------------------------------------------------
(***************************************************************************)
(* The memory: what the arrays hold and where the slices and the registers *)
(* point, whatever the sign-ins do at once.                                *)
(***************************************************************************)
Shared == {"own"} \cup Arrays
Slices(arrays) == [arr : arrays, len : Nat]
Registers(values) == [n : Nat, i : Nat, j : Nat, arr : Shared, a : values, b : values]
Wholes == Named \cup {0}
Words == Wholes \cup {Torn}

Cells ==
    /\ file \in Files
    /\ heap \in [ArrayIds -> Seq(Words)] /\ heap["def"] = file.def.groups
    /\ groups \in Slices(Shared) /\ groups.len <= Len(heap[groups.arr])
    /\ (groups.len = 0) = (file.own.groups = <<>>)
    /\ sort \in [SignIns -> Registers(Words)]
    /\ DOMAIN asked = SignIns

\* The indices at each place of unique.Strings.
Placed(place, r) ==
    /\ place \in {"less", "swap", "swap2"} => 2 <= r.j /\ r.j <= r.i /\ r.i <= r.n
    /\ place = "distinct" => 1 <= r.i /\ r.i < r.j /\ r.j <= r.n
    /\ place \in {"keep", "keep2"} => 2 <= r.i /\ r.i <= r.j /\ r.j <= r.n
    /\ place = "truncate" => 1 <= r.i

\* What a sign-in has in its registers and its copy.
Holds(i) ==
    /\ pc[i] \in Filling \ {"write", "append"} => file.own.groups # <<>>
    /\ pc[i] = "store" => sort[i].n \in 1..Len(heap[sort[i].arr])
    /\ Placed(pc[i], sort[i])
    /\ conf[i].groups \in Slices(ArrayIds)
    /\ conf[i].groups.len <= Len(heap[conf[i].groups.arr])
    /\ pc[i] \in {"connect", "search"} /\ file.own.groups # <<>> => conf[i].groups.len > 0

\* With what is asked of the directory.
Memory == Cells /\ \A i \in SignIns : Holds(i) /\ asked[i] \subseteq Words

----------------------------------------------------------------------------
LEMMA ListFacts ==
    ASSUME NEW S, NEW s \in Seq(S)
    PROVE  /\ Len(s) \in Nat /\ DOMAIN s = 1..Len(s)
           /\ ToSet(s) \subseteq S /\ s \in Seq(ToSet(s))
           /\ \A k \in 1..Len(s) : s[k] \in ToSet(s)
           /\ \A v \in ToSet(s) : \E k \in 1..Len(s) : s[k] = v
           /\ s = <<>> <=> Len(s) = 0
<1>1. Len(s) \in Nat /\ DOMAIN s = 1..Len(s) /\ s \in [1..Len(s) -> S]
  BY LenProperties
<1>2. ToSet(s) \subseteq S /\ \A k \in 1..Len(s) : s[k] \in ToSet(s)
  BY <1>1 DEF ToSet
<1>3. s \in [1..Len(s) -> ToSet(s)]
  BY <1>1, <1>2
<1>4. s \in Seq(ToSet(s))
  BY <1>1, <1>3
<1>5. \A v \in ToSet(s) : \E k \in 1..Len(s) : s[k] = v
  BY <1>1 DEF ToSet
<1>6. s = <<>> <=> Len(s) = 0
  BY EmptySeq
<1> QED
  BY <1>1, <1>2, <1>4, <1>5, <1>6

\* What the file names.
LEMMA Names ==
    ASSUME file \in Files
    PROVE  /\ Named \subseteq Groups /\ Named \subseteq Nat /\ 0 \notin Named /\ Torn \notin Wholes
           /\ file.own.groups \in Seq(Words) /\ file.def.groups \in Seq(Words)
           /\ file.own.groups \in Seq(Named) /\ file.def.groups \in Seq(Named)
           /\ ToSet(file.own.groups) \subseteq Named /\ ToSet(file.def.groups) \subseteq Named
           /\ Len(file.own.groups) \in Nat /\ Len(file.def.groups) \in Nat
           /\ file.own = NoSection => file.own.groups = <<>>
           /\ file.def = NoSection => file.def.groups = <<>>
           /\ Wholes \subseteq Nat /\ Wholes \subseteq Words /\ 0 \in Words /\ 0 \in Wholes
           /\ file.own.groups \in Seq(Wholes) /\ file.def.groups \in Seq(Wholes)
<1>1. file.own.groups \in Seq(Groups) /\ file.def.groups \in Seq(Groups)
  BY FilesAssumption
<1>2. ToSet(file.own.groups) \subseteq Named /\ ToSet(file.def.groups) \subseteq Named
  BY DEF Named
<1>3. Named \subseteq Groups
  BY <1>1, ListFacts DEF Named
<1>4. Named \subseteq Nat /\ 0 \notin Named /\ Torn \notin Wholes
  BY <1>3, GroupsAssumption DEF Wholes
<1>5. /\ file.own.groups \in Seq(ToSet(file.own.groups))
      /\ file.def.groups \in Seq(ToSet(file.def.groups))
      /\ Len(file.own.groups) \in Nat /\ Len(file.def.groups) \in Nat
  BY <1>1, ListFacts
<1>6. Named \subseteq Words /\ Named \subseteq Wholes
  BY DEF Words, Wholes
<1>7. file.own.groups \in Seq(Named) /\ file.def.groups \in Seq(Named)
  BY <1>2, <1>5, SeqMonotonic
<1>8. /\ file.own.groups \in Seq(Words) /\ file.def.groups \in Seq(Words)
      /\ file.own.groups \in Seq(Wholes) /\ file.def.groups \in Seq(Wholes)
  BY <1>6, <1>7, SeqMonotonic
<1>9. /\ file.own = NoSection => file.own.groups = <<>>
      /\ file.def = NoSection => file.def.groups = <<>>
  <2>1. NoSection.groups = <<>>
    BY DEF NoSection
  <2> QED
    BY <2>1
<1>10. Wholes \subseteq Nat /\ Wholes \subseteq Words /\ 0 \in Words /\ 0 \in Wholes
  BY <1>4 DEF Words, Wholes
<1> QED
  BY <1>2, <1>3, <1>4, <1>5, <1>7, <1>8, <1>9, <1>10

LEMMA Arrayed ==
    /\ Shared \subseteq ArrayIds /\ "own" \in Shared /\ "def" \in ArrayIds /\ "def" \notin Shared
    /\ Arrays \subseteq Shared
BY ArraysAssumption DEF Shared, ArrayIds

\* The memory of a process that has just read its file.
LEMMA Loaded ==
    ASSUME file \in Files
    PROVE  /\ LoadedHeap(file) \in [ArrayIds -> Seq(Words)]
           /\ LoadedHeap(file) \in [ArrayIds -> Seq(Wholes)] /\ NoSort \in Registers(Wholes)
           /\ LoadedHeap(file)["def"] = file.def.groups
           /\ LoadedHeap(file)["own"] = file.own.groups
           /\ LoadedGroups(file) = Slice("own", Len(file.own.groups))
           /\ LoadedGroups(file) \in Slices(Shared)
           /\ (LoadedGroups(file).len = 0) = (file.own.groups = <<>>)
           /\ NoSort \in Registers(Words) /\ NoConf.groups \in Slices(ArrayIds)
           /\ NoConf.groups.len = 0 /\ NoConf.groups.arr = "def"
<1>1. /\ file.own.groups \in Seq(Words) /\ file.def.groups \in Seq(Words) /\ 0 \in Words
      /\ file.own.groups \in Seq(Wholes) /\ file.def.groups \in Seq(Wholes) /\ 0 \in Wholes
      /\ Len(file.own.groups) \in Nat
  BY Names
<1>2. "own" \in Shared /\ "own" \in ArrayIds /\ "def" \in ArrayIds
  BY Arrayed
<1>3. <<>> \in Seq(Words) /\ <<>> \in Seq(Wholes)
  BY EmptySeq
<1>4. LoadedHeap(file) \in [ArrayIds -> Seq(Words)] /\ LoadedHeap(file) \in [ArrayIds -> Seq(Wholes)]
      /\ LoadedHeap(file)["def"] = file.def.groups /\ LoadedHeap(file)["own"] = file.own.groups
  BY <1>1, <1>2, <1>3 DEF LoadedHeap
<1>5. /\ LoadedGroups(file) = Slice("own", Len(file.own.groups))
      /\ LoadedGroups(file) \in Slices(Shared)
      /\ LoadedGroups(file).len = Len(file.own.groups)
  BY <1>1, <1>2 DEF LoadedGroups, Slice, Slices
<1>6. (LoadedGroups(file).len = 0) = (file.own.groups = <<>>)
  BY <1>1, <1>5, ListFacts
<1>7. NoSort \in Registers(Words) /\ NoSort \in Registers(Wholes)
  BY <1>1, <1>2 DEF NoSort, Registers
<1>8. NoConf.groups \in Slices(ArrayIds) /\ NoConf.groups.len = 0 /\ NoConf.groups.arr = "def"
  BY <1>2 DEF NoConf, Slice, Slices
<1> QED
  BY <1>4, <1>5, <1>6, <1>7, <1>8

LEMMA InitMemory == Init => Memory
<1> SUFFICES ASSUME Init PROVE Memory
  OBVIOUS
<1>1. /\ file \in Files /\ groups = LoadedGroups(file) /\ heap = LoadedHeap(file)
      /\ sort = [i \in SignIns |-> NoSort] /\ asked = [i \in SignIns |-> {}]
      /\ \A i \in SignIns : pc[i] = "idle" /\ conf[i] = NoConf
  BY DEF Init
<1>2. Cells
  <2>1. groups.len = Len(file.own.groups) /\ groups.arr = "own"
    BY <1>1, Loaded DEF Slice
  <2>2. groups.len <= Len(heap[groups.arr])
    BY <1>1, <2>1, Loaded, Names
  <2> QED
    BY <1>1, <2>2, Loaded DEF Cells
<1>3. ASSUME NEW i \in SignIns
      PROVE  Holds(i) /\ asked[i] \subseteq Words
  <2>1. conf[i].groups \in Slices(ArrayIds) /\ conf[i].groups.len <= Len(heap[conf[i].groups.arr])
    BY <1>1, Loaded, Names
  <2>2. pc[i] \notin Active
    BY <1>1, Places
  <2> QED
    BY <1>1, <2>1, <2>2, Places DEF Holds, Placed
<1> QED
  BY <1>2, <1>3 DEF Memory

----------------------------------------------------------------------------
(* A step of sign-in i, and what it owes to the memory invariant.          *)

LEMMA Kept ==
    ASSUME IInv, Memory, NEW i \in SignIns, NEW state \in Active \cup Ended, Goto(i, state),
           heap' \in [ArrayIds -> Seq(Words)], heap'["def"] = heap["def"],
           \A j \in SignIns : j # i => \A a \in Held(j) : Len(heap'[a]) = Len(heap[a]),
           groups' \in Slices(Shared), groups'.len <= Len(heap'[groups'.arr]),
           (groups'.len = 0) = (groups.len = 0),
           sort' \in [SignIns -> Registers(Words)], DOMAIN asked' = SignIns,
           \A j \in SignIns : j # i =>
               sort'[j] = sort[j] /\ conf'[j] = conf[j] /\ asked'[j] = asked[j],
           Holds(i)', asked'[i] \subseteq Words
    PROVE  Memory'
<1>1. /\ \A j \in SignIns : j # i => pc'[j] = pc[j]
      /\ file' = file
      /\ \A j \in crossed : j # i => j \in crossed'
  BY GotoEffect DEF IInv
<1>2. Named' = Named /\ Words' = Words
  BY <1>1 DEF Named, Words, Wholes
<1>3. Cells'
  BY <1>1, <1>2 DEF Memory, Cells
<1>4. ASSUME NEW j \in SignIns, j # i
      PROVE  Holds(j)' /\ asked'[j] \subseteq Words
  <2>1. Holds(j) /\ asked[j] \subseteq Words /\ sort[j].arr \in Held(j) /\ conf[j].groups.arr \in Held(j)
    BY DEF Memory, Held
  <2>2. /\ Len(heap'[sort[j].arr]) = Len(heap[sort[j].arr])
        /\ Len(heap'[conf[j].groups.arr]) = Len(heap[conf[j].groups.arr])
    BY <1>4, <2>1
  <2>3. pc'[j] = pc[j] /\ sort'[j] = sort[j] /\ conf'[j] = conf[j] /\ asked'[j] = asked[j]
    BY <1>1, <1>4
  <2>4. Holds(j)'
    BY <1>1, <2>1, <2>2, <2>3 DEF Holds
  <2> QED
    BY <2>1, <2>3, <2>4
<1> QED
  BY <1>2, <1>3, <1>4, Zenon DEF Memory

\* A step that leaves the shared memory alone.
LEMMA Quiet ==
    ASSUME IInv, Memory, NEW i \in SignIns, NEW state \in Active \cup Ended, Goto(i, state),
           UNCHANGED <<groups, heap>>,
           sort' \in [SignIns -> Registers(Words)], DOMAIN asked' = SignIns,
           \A j \in SignIns : j # i =>
               sort'[j] = sort[j] /\ conf'[j] = conf[j] /\ asked'[j] = asked[j],
           Holds(i)', asked'[i] \subseteq Words
    PROVE  Memory'
<1>1. /\ heap' \in [ArrayIds -> Seq(Words)] /\ heap'["def"] = heap["def"]
      /\ groups' \in Slices(Shared) /\ groups'.len <= Len(heap'[groups'.arr])
      /\ (groups'.len = 0) = (groups.len = 0)
      /\ \A j \in SignIns : j # i => \A a \in Held(j) : Len(heap'[a]) = Len(heap[a])
  BY DEF Memory, Cells
<1> QED
  BY <1>1, Kept

\* The copy that i has after its step: the one it had, or none.
LEMMA SameCopy ==
    ASSUME IInv, Memory, NEW i \in SignIns, NEW state \in Active \cup Ended, Goto(i, state),
           conf' = conf \/ conf' = [conf EXCEPT ![i] = NoConf],
           state = "search" => pc[i] = "connect" /\ conf' = conf,
           Len(heap'[conf[i].groups.arr]) = Len(heap[conf[i].groups.arr]),
           heap'["def"] = heap["def"], state # "connect"
    PROVE  /\ conf'[i].groups \in Slices(ArrayIds)
           /\ conf'[i].groups.len <= Len(heap'[conf'[i].groups.arr])
           /\ pc'[i] \in {"connect", "search"} /\ file'.own.groups # <<>> => conf'[i].groups.len > 0
           /\ \A j \in SignIns : j # i => conf'[j] = conf[j]
<1>1. file' = file /\ pc'[i] = state
  BY GotoEffect DEF IInv
<1>2. Holds(i) /\ file \in Files /\ DOMAIN conf = SignIns /\ heap["def"] = file.def.groups
  BY DEF Memory, Cells, IInv, Typed
<1>3. CASE conf' = conf
  BY <1>1, <1>2, <1>3 DEF Holds
<1>4. CASE conf' # conf
  <2>1. conf'[i] = NoConf /\ \A j \in SignIns : j # i => conf'[j] = conf[j]
    BY <1>2, <1>4
  <2>2. conf'[i].groups \in Slices(ArrayIds) /\ conf'[i].groups.len <= Len(heap'[conf'[i].groups.arr])
    BY <1>2, <2>1, Loaded, Names
  <2> QED
    BY <1>1, <1>4, <2>1, <2>2
<1> QED
  BY <1>3, <1>4

\* The actions before the groups are read, and those that end in failure.
LEMMA MemoryWaits ==
    ASSUME IInv, Memory, NEW i \in SignIns,
           \/ FieldGiven(i) \/ FieldBlank(i) \/ WriteField(i) \/ NoGroups(i)
           \/ OutOfRange(i) \/ Connect(i) \/ Unreachable(i) \/ Fault(i) \/ Chokes(i)
    PROVE  Memory'
<1> DEFINE Waits(state) ==
      /\ Goto(i, state) /\ UNCHANGED <<groups, heap, asked>>
      /\ sort' = sort \/ sort' = [sort EXCEPT ![i] = NoSort]
      /\ conf' = conf \/ conf' = [conf EXCEPT ![i] = NoConf]
      /\ state \in {"write", "append"} \/ state \notin Filling
      /\ state = "search" => pc[i] = "connect" /\ conf' = conf
      /\ state # "connect"
<1>1. ASSUME NEW state \in Active \cup Ended, Waits(state)
      PROVE  Memory'
  <2>1. DOMAIN asked' = SignIns /\ \A j \in SignIns : asked'[j] \subseteq Words /\ asked'[j] = asked[j]
    BY <1>1 DEF Memory, Cells
  <2>2. /\ conf'[i].groups \in Slices(ArrayIds)
        /\ conf'[i].groups.len <= Len(heap'[conf'[i].groups.arr])
        /\ pc'[i] \in {"connect", "search"} /\ file'.own.groups # <<>> => conf'[i].groups.len > 0
        /\ \A j \in SignIns : j # i => conf'[j] = conf[j]
    BY <1>1, SameCopy
  <2>3. pc'[i] = state
    BY <1>1, GotoEffect DEF IInv
  <2>4. Holds(i)'
    BY <1>1, <2>2, <2>3, Places DEF Holds, Placed
  <2>5. /\ sort' \in [SignIns -> Registers(Words)]
        /\ \A j \in SignIns : j # i => sort'[j] = sort[j]
    <3>1. sort \in [SignIns -> Registers(Words)] /\ NoSort \in Registers(Words)
      BY Loaded DEF Memory, Cells
    <3>2. CASE sort' = sort
      BY <3>1, <3>2
    <3>3. CASE sort' = [sort EXCEPT ![i] = NoSort]
      BY <3>1, <3>3
    <3> QED
      BY <1>1, <3>2, <3>3
  <2> QED
    BY <1>1, <2>1, <2>2, <2>4, <2>5, Quiet
<1> SUFFICES \E state \in Active \cup Ended : Waits(state)
  BY <1>1
<1>2. CASE FieldGiven(i)
  BY <1>2, Places DEF FieldGiven, memory
<1>3. CASE FieldBlank(i)
  BY <1>3, Places DEF FieldBlank, memory
<1>4. CASE WriteField(i)
  BY <1>4, Places DEF WriteField
<1>5. CASE NoGroups(i)
  BY <1>5, Places DEF NoGroups, memory
<1>6. CASE OutOfRange(i)
  BY <1>6, Places DEF OutOfRange, memory
<1>7. CASE Connect(i)
  BY <1>7, Places DEF Connect, memory
<1>8. CASE Unreachable(i)
  BY <1>8, Places DEF Unreachable, memory
<1>9. CASE Fault(i)
  BY <1>9, Places DEF Fault, memory
<1>10. CASE Chokes(i)
  <2>1. Waits("choked")
    BY <1>10, Places DEF Chokes, memory
  <2> QED
    BY <2>1, Places
<1> QED
  BY <1>2, <1>3, <1>4, <1>5, <1>6, <1>7, <1>8, <1>9, <1>10

\* A step of unique.Strings that changes nothing but the registers.
LEMMA MemoryTurns ==
    ASSUME IInv, Memory, NEW i \in SignIns, NEW state \in Filling \ {"write", "append", "store"},
           Goto(i, state), UNCHANGED <<groups, heap, conf, asked>>,
           pc[i] \in Filling \ {"write", "append"},
           NEW r \in Registers(Words), sort' = [sort EXCEPT ![i] = r], Placed(state, r)
    PROVE  Memory'
<1>1. state \in Active \cup Ended /\ pc[i] \notin Ended /\ state \notin {"connect", "search", "store"}
  BY Places
<1>2. /\ sort' \in [SignIns -> Registers(Words)] /\ sort'[i] = r
      /\ \A j \in SignIns : j # i => sort'[j] = sort[j]
  BY DEF Memory, Cells
<1>3. asked'[i] \subseteq Words /\ DOMAIN asked' = SignIns
  BY DEF Memory, Cells
<1>4. Holds(i)'
  <2>1. /\ conf'[i].groups \in Slices(ArrayIds)
        /\ conf'[i].groups.len <= Len(heap'[conf'[i].groups.arr])
    BY <1>1, SameCopy
  <2>2. pc'[i] = state /\ file' = file
    BY <1>1, GotoEffect DEF IInv
  <2>3. file.own.groups # <<>>
    BY DEF Memory, Holds
  <2> QED
    BY <1>1, <1>2, <2>1, <2>2, <2>3 DEF Holds
<1> QED
  BY <1>1, <1>2, <1>3, <1>4, Quiet

LEMMA MemorySorts ==
    ASSUME IInv, Memory, NEW i \in SignIns,
           \/ SortBegins(i) \/ InOrder(i) \/ OutOfOrder(i)
           \/ FrontBegins(i) \/ Duplicate(i) \/ Distinct(i)
    PROVE  Memory'
<1> DEFINE Turns(state, r) ==
      /\ Goto(i, state) /\ UNCHANGED <<groups, heap, conf, asked>>
      /\ pc[i] \in Filling \ {"write", "append"}
      /\ sort' = [sort EXCEPT ![i] = r] /\ Placed(state, r)
<1> SUFFICES \E state \in Filling \ {"write", "append", "store"} :
             \E r \in Registers(Words) : Turns(state, r)
  BY MemoryTurns
<1> DEFINE s == sort[i]
<1>0. /\ sort \in [SignIns -> Registers(Words)] /\ s \in Registers(Words) /\ groups.len \in Nat
      /\ Placed(pc[i], s) /\ groups.len <= Len(heap[groups.arr])
      /\ heap[groups.arr] \in Seq(Words)
  BY Arrayed DEF Memory, Cells, Holds, Slices
<1>11. s.n \in Nat /\ s.i \in Nat /\ s.j \in Nat /\ s.i + 1 \in Nat /\ s.j + 1 \in Nat
  <2>1. s.n \in Nat /\ s.i \in Nat /\ s.j \in Nat
    BY <1>0 DEF Registers
  <2> QED
    BY <2>1
<1>10. 0 \in Words /\ \A k \in 1..groups.len : Readings(groups.arr, k) \subseteq Words
  <2>1. \A k \in 1..groups.len : heap[groups.arr][k] \in Words
    BY <1>0, ElementOfSeq
  <2> QED
    BY <2>1 DEF Readings, Words, Wholes
<1>1. CASE SortBegins(i)
  <2> DEFINE r == [s EXCEPT !.n = groups.len, !.i = 2, !.j = 2]
             state == IF groups.len < 2 THEN "front" ELSE "less"
  <2>1. r \in Registers(Words) /\ sort' = [sort EXCEPT ![i] = r]
    BY <1>0, <1>1 DEF SortBegins, Registers
  <2>2. Placed(state, r)
    BY <1>0 DEF Placed, Registers
  <2>3. state \in Filling \ {"write", "append", "store"} /\ Turns(state, r)
    BY <1>1, <2>1, <2>2, Places DEF SortBegins, memory
  <2> QED
    BY <2>1, <2>3
<1>2. CASE InOrder(i)
  <2> DEFINE r == [s EXCEPT !.i = s.i + 1, !.j = s.i + 1, !.a = 0, !.b = 0]
             state == IF s.i + 1 > s.n THEN "front" ELSE "less"
  <2>0. /\ sort' = [sort EXCEPT ![i] = r] /\ Goto(i, state)
        /\ pc[i] = "less" /\ UNCHANGED <<groups, heap, conf, asked>>
    BY <1>2 DEF InOrder, Compare, memory
  <2>1. r \in Registers(Words) /\ sort' = [sort EXCEPT ![i] = r]
    BY <1>0, <1>10, <1>11, <2>0 DEF Registers
  <2>2. Placed(state, r)
    BY <1>0, <2>0 DEF Placed, Registers
  <2>3. state \in Filling \ {"write", "append", "store"} /\ Turns(state, r)
    BY <2>0, <2>1, <2>2, Places
  <2> QED
    BY <2>1, <2>3
<1>3. CASE OutOfOrder(i)
  <2>5. pc[i] = "less" /\ s.j <= groups.len
    BY <1>3 DEF OutOfOrder
  <2>0. s.j \in 1..groups.len /\ s.j - 1 \in 1..groups.len
    BY <1>0, <1>11, <2>5 DEF Placed
  <2>4. PICK a \in Readings(groups.arr, s.j - 1), b \in Readings(groups.arr, s.j) :
           sort' = [sort EXCEPT ![i] = [@ EXCEPT !.arr = groups.arr, !.a = a, !.b = b]]
    BY <1>3 DEF OutOfOrder
  <2> DEFINE r == [s EXCEPT !.arr = groups.arr, !.a = a, !.b = b]
  <2>1. r \in Registers(Words) /\ sort' = [sort EXCEPT ![i] = r]
    <3>1. groups.arr \in Shared
      BY DEF Memory, Cells, Slices
    <3>2. a \in Words /\ b \in Words
      BY <1>10, <2>0
    <3> QED
      BY <1>0, <2>4, <3>1, <3>2 DEF Registers
  <2>2. Placed("swap", r)
    BY <1>0, <2>5 DEF Placed, Registers
  <2>3. "swap" \in Filling \ {"write", "append", "store"} /\ Turns("swap", r)
    BY <1>3, <2>1, <2>2, Places DEF OutOfOrder, memory
  <2> QED
    BY <2>1, <2>3
<1>4. CASE FrontBegins(i)
  <2> DEFINE r == [s EXCEPT !.n = groups.len, !.i = 1, !.j = 2]
             state == IF groups.len < 2 THEN "truncate" ELSE "distinct"
  <2>1. r \in Registers(Words) /\ sort' = [sort EXCEPT ![i] = r]
    BY <1>0, <1>4 DEF FrontBegins, Registers
  <2>2. Placed(state, r)
    BY <1>0 DEF Placed, Registers
  <2>3. state \in Filling \ {"write", "append", "store"} /\ Turns(state, r)
    BY <1>4, <2>1, <2>2, Places DEF FrontBegins, memory
  <2> QED
    BY <2>1, <2>3
<1>5. CASE Duplicate(i)
  <2> DEFINE r == [s EXCEPT !.j = s.j + 1, !.a = 0, !.b = 0]
             state == IF s.j + 1 > s.n THEN "truncate" ELSE "distinct"
  <2>1. r \in Registers(Words) /\ sort' = [sort EXCEPT ![i] = r]
    BY <1>0, <1>5, <1>10, <1>11 DEF Duplicate, CompareKept, Registers
  <2>2. Placed(state, r)
    BY <1>0, <1>5 DEF Placed, Registers, Duplicate
  <2>3. state \in Filling \ {"write", "append", "store"} /\ Turns(state, r)
    BY <1>5, <2>1, <2>2, Places DEF Duplicate, CompareKept, memory
  <2> QED
    BY <2>1, <2>3
<1>6. CASE Distinct(i)
  <2>5. pc[i] = "distinct" /\ s.j <= groups.len
    BY <1>6 DEF Distinct
  <2>0. s.j \in 1..groups.len /\ s.i + 1 \in 1..groups.len
    BY <1>0, <1>11, <2>5 DEF Placed
  <2>4. PICK a \in Readings(groups.arr, s.j), b \in Readings(groups.arr, s.i + 1) :
           sort' = [sort EXCEPT ![i] = [@ EXCEPT !.i = s.i + 1, !.arr = groups.arr, !.a = a, !.b = b]]
    BY <1>6 DEF Distinct
  <2> DEFINE r == [s EXCEPT !.i = s.i + 1, !.arr = groups.arr, !.a = a, !.b = b]
  <2>1. r \in Registers(Words) /\ sort' = [sort EXCEPT ![i] = r]
    <3>1. groups.arr \in Shared
      BY DEF Memory, Cells, Slices
    <3>2. a \in Words /\ b \in Words
      BY <1>10, <2>0
    <3> QED
      BY <1>0, <1>11, <2>4, <3>1, <3>2 DEF Registers
  <2>2. Placed("keep", r)
    <3>1. r.i = s.i + 1 /\ r.j = s.j /\ r.n = s.n
      BY <1>0 DEF Registers
    <3> QED
      BY <1>0, <1>11, <2>5, <3>1 DEF Placed
  <2>3. "keep" \in Filling \ {"write", "append", "store"} /\ Turns("keep", r)
    BY <1>6, <2>1, <2>2, Places DEF Distinct, memory
  <2> QED
    BY <2>1, <2>3
<1> QED
  BY <1>1, <1>2, <1>3, <1>4, <1>5, <1>6

LEMMA MemoryBegins ==
    ASSUME IInv, Memory, NEW i \in SignIns, Begin(i)
    PROVE  Memory'
<1>1. PICK state \in {"check", "copy", "noauth"} : Goto(i, state)
  BY DEF Begin
<1>2. /\ UNCHANGED <<groups, heap>> /\ sort' = [sort EXCEPT ![i] = NoSort]
      /\ asked' = [asked EXCEPT ![i] = {}] /\ conf' = [conf EXCEPT ![i] = NoConf]
  BY DEF Begin, memory
<1>3. state \in Active \cup Ended
  BY <1>1, Places
<1>4. pc'[i] = state /\ file' = file
  BY <1>1, <1>3, GotoEffect DEF IInv
<1>5. file \in Files /\ sort \in [SignIns -> Registers(Words)] /\ DOMAIN asked = SignIns
      /\ DOMAIN conf = SignIns /\ heap["def"] = file.def.groups
  BY DEF IInv, Typed, Memory, Cells
<1>6. /\ sort' \in [SignIns -> Registers(Words)] /\ DOMAIN asked' = SignIns
      /\ asked'[i] = {} /\ conf'[i] = NoConf
      /\ \A j \in SignIns : j # i =>
             sort'[j] = sort[j] /\ conf'[j] = conf[j] /\ asked'[j] = asked[j]
  BY <1>2, <1>5, Loaded
<1>7. Holds(i)'
  <2>1. conf'[i].groups \in Slices(ArrayIds) /\ conf'[i].groups.len <= Len(heap'[conf'[i].groups.arr])
    BY <1>2, <1>5, <1>6, Loaded, Names
  <2> QED
    BY <1>1, <1>4, <2>1, Places DEF Holds, Placed
<1>8. asked'[i] \subseteq Words
  BY <1>6
<1> QED
  BY <1>1, <1>2, <1>3, <1>6, <1>7, <1>8, Quiet

LEMMA MemoryCopies ==
    ASSUME IInv, Memory, NEW i \in SignIns, CopyConf(i)
    PROVE  Memory'
<1>1. /\ pc[i] = "copy" /\ Goto(i, "connect") /\ UNCHANGED <<groups, heap, asked>>
      /\ sort' = [sort EXCEPT ![i] = NoSort]
  BY DEF CopyConf, memory
<1>2. "connect" \in Active \cup Ended /\ pc[i] \notin Ended
  BY <1>1, Places
<1>3. pc'[i] = "connect" /\ file' = file
  BY <1>1, <1>2, GotoEffect DEF IInv
<1>4. /\ file \in Files /\ sort \in [SignIns -> Registers(Words)] /\ DOMAIN conf = SignIns
      /\ groups \in Slices(Shared) /\ groups.len <= Len(heap[groups.arr])
      /\ (groups.len = 0) = (file.own.groups = <<>>) /\ heap["def"] = file.def.groups
  BY DEF IInv, Typed, Memory, Cells
<1>5. sort' \in [SignIns -> Registers(Words)] /\ \A j \in SignIns : j # i => sort'[j] = sort[j]
  BY <1>1, <1>4, Loaded
<1>6. \A j \in SignIns : j # i => conf'[j] = conf[j]
  BY <1>4 DEF CopyConf
<1>7. /\ conf'[i].groups \in Slices(ArrayIds)
      /\ conf'[i].groups.len <= Len(heap[conf'[i].groups.arr])
      /\ file.own.groups # <<>> => conf'[i].groups.len > 0
  <2>1. CASE file.own = NoSection
    <3>1. conf'[i].groups = Slice("def", Len(file.def.groups))
      BY <1>4, <2>1 DEF CopyConf
    <3>2. file.own.groups = <<>> /\ Len(file.def.groups) \in Nat
      BY <1>4, <2>1, Names
    <3> QED
      BY <1>4, <3>1, <3>2, Arrayed DEF Slice, Slices
  <2>2. CASE file.own # NoSection
    <3>1. conf'[i].groups = groups
      BY <1>4, <2>2 DEF CopyConf
    <3>2. groups.len \in Nat /\ groups \in Slices(ArrayIds)
      BY <1>4, Arrayed DEF Slices
    <3> QED
      BY <1>4, <3>1, <3>2
  <2> QED
    BY <2>1, <2>2
<1>8. Holds(i)'
  BY <1>1, <1>3, <1>7, Places DEF Holds, Placed
<1>9. DOMAIN asked' = SignIns /\ \A j \in SignIns : asked'[j] \subseteq Words /\ asked'[j] = asked[j]
  BY <1>1 DEF Memory, Cells
<1> QED
  BY <1>1, <1>2, <1>5, <1>6, <1>8, <1>9, Quiet

\* What a search may ask for.
LEMMA Asked ==
    ASSUME Memory, NEW i \in SignIns, NEW half \in SUBSET (1..conf[i].groups.len), NEW values,
           heap \in [ArrayIds -> Seq(values)]
    PROVE  {IF k \in half THEN Torn ELSE heap[conf[i].groups.arr][k] : k \in 1..conf[i].groups.len}
               \subseteq values \cup {k \in {Torn} : half # {}}
<1>1. /\ conf[i].groups \in Slices(ArrayIds)
      /\ conf[i].groups.len <= Len(heap[conf[i].groups.arr])
  BY DEF Memory, Holds
<1>2. conf[i].groups.arr \in ArrayIds /\ conf[i].groups.len \in Nat
  BY <1>1 DEF Slices
<1>3. heap[conf[i].groups.arr] \in Seq(values)
  BY <1>1, <1>2
<1>4. \A k \in 1..conf[i].groups.len : k \in 1..Len(heap[conf[i].groups.arr])
  BY <1>1, <1>2, <1>3, LenProperties
<1>5. \A k \in 1..conf[i].groups.len : heap[conf[i].groups.arr][k] \in values
  BY <1>3, <1>4, ElementOfSeq
<1> QED
  BY <1>5

LEMMA MemorySearches ==
    ASSUME IInv, Memory, NEW i \in SignIns, Search(i)
    PROVE  Memory'
<1> DEFINE s == conf[i].groups
           torn == Racing(s.arr) \cap 1..s.len
<1>1. PICK state \in {"ok", "refused"} : Goto(i, state)
  BY DEF Search
<1>2. pc[i] = "search" /\ UNCHANGED <<groups, heap, sort>> /\ conf' = [conf EXCEPT ![i] = NoConf]
  BY DEF Search, memory
<1>3. PICK half \in SUBSET torn :
         asked' = [asked EXCEPT ![i] = {IF k \in half THEN Torn ELSE heap[s.arr][k] : k \in 1..s.len}]
  BY DEF Search
<1>4. state \in Active \cup Ended /\ state \notin {"connect", "search"}
  BY <1>1, Places
<1>5. pc'[i] = state
  BY <1>1, <1>4, GotoEffect DEF IInv
<1>6. DOMAIN asked' = SignIns
      /\ asked'[i] = {IF k \in half THEN Torn ELSE heap[s.arr][k] : k \in 1..s.len}
      /\ \A j \in SignIns : j # i => asked'[j] = asked[j]
  BY <1>3 DEF Memory, Cells
<1>7. asked'[i] \subseteq Words
  <2>1. half \in SUBSET (1..s.len)
    OBVIOUS
  <2>2. asked'[i] \subseteq Words \cup {k \in {Torn} : half # {}}
    BY <1>6, <2>1, Asked DEF Memory, Cells
  <2> QED
    BY <2>2 DEF Words
<1>8. /\ conf'[i].groups \in Slices(ArrayIds)
      /\ conf'[i].groups.len <= Len(heap'[conf'[i].groups.arr])
      /\ \A j \in SignIns : j # i => conf'[j] = conf[j]
  BY <1>1, <1>2, <1>4, SameCopy
<1>9. Holds(i)'
  BY <1>1, <1>2, <1>5, <1>8, Places DEF Holds, Placed
<1>10. sort' \in [SignIns -> Registers(Words)]
  BY <1>2 DEF Memory, Cells
<1> QED
  BY <1>1, <1>2, <1>4, <1>6, <1>7, <1>8, <1>9, <1>10, Quiet

----------------------------------------------------------------------------
(* The steps that change the arrays or the slice.                          *)

\* A sign-in that fills the record goes on to a place or ends; its copy is of
\* an earlier sign-in.
LEMMA MemoryMoves ==
    ASSUME IInv, Memory, NEW i \in SignIns, NEW state \in Active \cup Ended, Goto(i, state),
           pc[i] \in Filling, state \notin {"connect", "search"}, UNCHANGED <<conf, asked>>,
           heap' \in [ArrayIds -> Seq(Words)], heap'["def"] = heap["def"],
           \A j \in SignIns : j # i => \A a \in Held(j) : Len(heap'[a]) = Len(heap[a]),
           Len(heap'[conf[i].groups.arr]) = Len(heap[conf[i].groups.arr]),
           groups' \in Slices(Shared), groups'.len <= Len(heap'[groups'.arr]),
           (groups'.len = 0) = (groups.len = 0),
           sort' \in [SignIns -> Registers(Words)], \A j \in SignIns : j # i => sort'[j] = sort[j],
           state \in Filling \ {"write", "append"} => groups.len # 0,
           state = "store" => sort'[i].n \in 1..Len(heap'[sort'[i].arr]),
           Placed(state, sort'[i])
    PROVE  Memory'
<1>1. pc[i] \notin Ended
  BY Places
<1>2. pc'[i] = state /\ file' = file
  BY GotoEffect DEF IInv
<1>3. DOMAIN asked' = SignIns /\ \A j \in SignIns : asked'[j] \subseteq Words /\ asked'[j] = asked[j]
  BY DEF Memory, Cells
<1>4. /\ conf'[i].groups \in Slices(ArrayIds)
      /\ conf'[i].groups.len <= Len(heap'[conf'[i].groups.arr])
  BY SameCopy
<1>5. Holds(i)'
  <2>1. (groups.len = 0) = (file.own.groups = <<>>)
    BY DEF Memory, Cells
  <2> QED
    BY <1>2, <1>4, <2>1 DEF Holds
<1> QED
  BY <1>3, <1>5, Kept

LEMMA MemoryStored ==
    ASSUME IInv, Memory, NEW i \in SignIns, StoreGroups(i)
    PROVE  Memory'
<1>1. /\ pc[i] = "store" /\ Goto(i, "len") /\ UNCHANGED <<heap, sort, conf, asked>>
      /\ groups' = Slice(sort[i].arr, sort[i].n)
  BY DEF StoreGroups
<1>2. /\ pc[i] \in Filling \ {"write", "append"}
      /\ "len" \in Active \cup Ended /\ "len" \notin {"connect", "search"}
  BY <1>1, Places
<1>3. sort[i].n \in 1..Len(heap[sort[i].arr]) /\ file.own.groups # <<>>
  BY <1>1, <1>2 DEF Memory, Holds
<1>4. /\ sort[i].arr \in Shared /\ sort[i].n \in Nat
      /\ sort \in [SignIns -> Registers(Words)] /\ heap \in [ArrayIds -> Seq(Words)]
      /\ (groups.len = 0) = (file.own.groups = <<>>)
  BY DEF Memory, Cells, Registers
<1>5. Len(heap[sort[i].arr]) \in Nat
  BY <1>4, Arrayed, LenProperties
<1>6. /\ groups' \in Slices(Shared) /\ groups'.len <= Len(heap[groups'.arr]) /\ groups'.len # 0
  BY <1>1, <1>3, <1>4, <1>5 DEF Slice, Slices
<1>7. Placed("len", sort'[i])
  BY DEF Placed
<1> QED
  BY <1>1, <1>2, <1>3, <1>4, <1>6, <1>7, MemoryMoves

LEMMA MemoryTruncated ==
    ASSUME IInv, Memory, NEW i \in SignIns, Truncate(i)
    PROVE  Memory'
<1>1. /\ pc[i] = "truncate" /\ Goto(i, "copy") /\ UNCHANGED <<heap, sort, conf, asked>>
      /\ groups' = [groups EXCEPT !.len = sort[i].i] /\ sort[i].i <= Len(heap[groups.arr])
  BY DEF Truncate
<1>2. /\ pc[i] \in Filling \ {"write", "append"}
      /\ "copy" \in Active \cup Ended /\ "copy" \notin Filling
  BY <1>1, Places
<1>3. Placed(pc[i], sort[i]) /\ file.own.groups # <<>>
  BY <1>2 DEF Memory, Holds
<1>4. 1 <= sort[i].i
  BY <1>1, <1>3 DEF Placed
<1>5. /\ sort[i].i \in Nat /\ sort \in [SignIns -> Registers(Words)]
      /\ heap \in [ArrayIds -> Seq(Words)] /\ groups \in Slices(Shared)
      /\ (groups.len = 0) = (file.own.groups = <<>>)
  BY DEF Memory, Cells, Registers
<1>6. /\ groups' \in Slices(Shared) /\ groups'.len <= Len(heap[groups'.arr]) /\ groups'.len # 0
  BY <1>1, <1>4, <1>5 DEF Slices
<1>7. Placed("copy", sort'[i])
  BY DEF Placed
<1> QED
  BY <1>1, <1>2, <1>3, <1>5, <1>6, <1>7, MemoryMoves

\* One place of an array is written.
LEMMA Stored ==
    ASSUME NEW values, heap \in [ArrayIds -> Seq(values)],
           NEW arr \in Shared, NEW p, NEW v \in values, heap' = [heap EXCEPT ![arr][p] = v]
    PROVE  /\ heap' \in [ArrayIds -> Seq(values)] /\ heap'["def"] = heap["def"]
           /\ \A a \in ArrayIds : Len(heap'[a]) = Len(heap[a])
           /\ \A a \in ArrayIds : a # arr => heap'[a] = heap[a]
           /\ \A k \in 1..Len(heap[arr]) : heap'[arr][k] = IF k = p THEN v ELSE heap[arr][k]
<1>1. arr \in ArrayIds /\ arr # "def" /\ "def" \in ArrayIds
  BY Arrayed
<1> DEFINE new == [heap[arr] EXCEPT ![p] = v]
<1>2. heap' = [heap EXCEPT ![arr] = new]
  OBVIOUS
<1>3. heap[arr] \in Seq(values) /\ DOMAIN heap[arr] = 1..Len(heap[arr])
  BY <1>1, LenProperties
<1>4. /\ new \in Seq(values) /\ Len(new) = Len(heap[arr])
      /\ \A k \in 1..Len(heap[arr]) : new[k] = IF k = p THEN v ELSE heap[arr][k]
  <2>1. CASE p \in 1..Len(heap[arr])
    BY <1>3, <2>1, ExceptSeq
  <2>2. CASE p \notin 1..Len(heap[arr])
    <3>1. new = heap[arr]
      BY <1>3, <2>2
    <3> QED
      BY <1>3, <2>2, <3>1
  <2> QED
    BY <2>1, <2>2
<1> HIDE DEF new
<1> QED
  BY <1>1, <1>2, <1>4

LEMMA MemorySwaps ==
    ASSUME IInv, Memory, NEW i \in SignIns, StoreFirst(i) \/ StoreSecond(i)
    PROVE  Memory'
<1> DEFINE s == sort[i]
<1>1. /\ sort \in [SignIns -> Registers(Words)] /\ s \in Registers(Words) /\ s.arr \in Shared
      /\ s.a \in Words /\ s.b \in Words /\ Placed(pc[i], s)
      /\ groups \in Slices(Shared) /\ groups.len <= Len(heap[groups.arr])
      /\ (groups.len = 0) = (file.own.groups = <<>>)
      /\ conf[i].groups.arr \in ArrayIds /\ Cells /\ 0 \in Words
  BY Names DEF Memory, Cells, Holds, Registers, Slices
<1>2. s.n \in Nat /\ s.i \in Nat /\ s.j \in Nat /\ groups.arr \in ArrayIds
  BY <1>1, Arrayed DEF Registers, Slices
<1>3. \A j \in SignIns : \A a \in Held(j) : a \in ArrayIds
  BY Arrayed DEF Memory, Cells, Holds, Held, Slices, Registers
<1>4. PICK v \in Words : heap' = [heap EXCEPT ![s.arr][Spot(i)] = v]
  BY <1>1 DEF StoreFirst, StoreSecond, Writings, Words
<1>5. /\ heap' \in [ArrayIds -> Seq(Words)] /\ heap'["def"] = heap["def"]
      /\ \A a \in ArrayIds : Len(heap'[a]) = Len(heap[a])
  BY <1>1, <1>4, Stored DEF Cells
<1>6. /\ pc[i] \in Filling \ {"write", "append"} /\ UNCHANGED <<groups, conf, asked>>
  BY Places DEF StoreFirst, StoreSecond, Swaps, Swapped
<1>7. groups.len # 0
  BY <1>1, <1>6 DEF Memory, Holds
<1>8. \E state \in {"swap2", "keep2", "less", "front", "distinct", "truncate"} :
      \E r \in Registers(Words) :
         Goto(i, state) /\ sort' = [sort EXCEPT ![i] = r] /\ Placed(state, r)
  <2>1. CASE StoreFirst(i) /\ pc[i] = "swap"
    <3>1. Goto(i, "swap2") /\ sort' = [sort EXCEPT ![i] = s] /\ Placed("swap2", s)
      BY <1>1, <2>1 DEF StoreFirst, Placed
    <3> QED
      BY <1>1, <3>1
  <2>2. CASE StoreFirst(i) /\ pc[i] # "swap"
    <3>1. pc[i] = "keep"
      BY <2>2 DEF StoreFirst, Swaps
    <3>2. Goto(i, "keep2") /\ sort' = [sort EXCEPT ![i] = s] /\ Placed("keep2", s)
      BY <1>1, <2>2, <3>1 DEF StoreFirst, Placed
    <3> QED
      BY <1>1, <3>2
  <2>3. CASE StoreSecond(i) /\ pc[i] = "swap2" /\ s.j - 1 > 1
    <3> DEFINE r == [s EXCEPT !.i = s.i, !.j = s.j - 1, !.a = 0, !.b = 0]
    <3>1. 2 <= s.j /\ s.j <= s.i /\ s.i <= s.n
      BY <1>1, <2>3 DEF Placed
    <3>2. s.j - 1 \in Nat /\ ~(s.i > s.n)
      BY <1>2, <3>1
    <3>3. Goto(i, "less") /\ sort' = [sort EXCEPT ![i] = r]
      BY <2>3, <3>2 DEF StoreSecond, Compare
    <3>4. r \in Registers(Words) /\ r.n = s.n /\ r.i = s.i /\ r.j = s.j - 1
      BY <1>1, <1>2, <3>2 DEF Registers
    <3>5. Placed("less", r)
      BY <1>2, <2>3, <3>1, <3>4 DEF Placed
    <3> QED
      BY <3>3, <3>4, <3>5
  <2>4. CASE StoreSecond(i) /\ pc[i] = "swap2" /\ ~(s.j - 1 > 1)
    <3> DEFINE r == [s EXCEPT !.i = s.i + 1, !.j = s.i + 1, !.a = 0, !.b = 0]
               state == IF s.i + 1 > s.n THEN "front" ELSE "less"
    <3>1. 2 <= s.i
      BY <1>1, <1>2, <2>4 DEF Placed
    <3>2. s.i + 1 \in Nat
      BY <1>2
    <3>3. Goto(i, state) /\ sort' = [sort EXCEPT ![i] = r]
      BY <2>4 DEF StoreSecond, Compare
    <3>4. r \in Registers(Words) /\ r.n = s.n /\ r.i = s.i + 1 /\ r.j = s.i + 1
      BY <1>1, <1>2, <3>2 DEF Registers
    <3>5. Placed(state, r)
      BY <1>2, <3>1, <3>4 DEF Placed
    <3> QED
      BY <3>3, <3>4, <3>5
  <2>5. CASE StoreSecond(i) /\ pc[i] # "swap2"
    <3> DEFINE r == [s EXCEPT !.i = s.i, !.j = s.j + 1, !.a = 0, !.b = 0]
               state == IF s.j + 1 > s.n THEN "truncate" ELSE "distinct"
    <3>1. pc[i] = "keep2"
      BY <2>5 DEF StoreSecond, Swapped
    <3>2. 2 <= s.i /\ s.i <= s.j
      BY <1>1, <3>1 DEF Placed
    <3>0. CompareKept(i, s.i)
      BY <2>5 DEF StoreSecond
    <3>3. Goto(i, state)
      BY <3>0 DEF CompareKept
    <3>6. sort' = [sort EXCEPT ![i] = r]
      BY <3>0 DEF CompareKept
    <3>7. s.j + 1 \in Nat
      BY <1>2
    <3>4. r \in Registers(Words) /\ r.n = s.n /\ r.i = s.i /\ r.j = s.j + 1
      BY <1>1, <1>2, <3>7 DEF Registers
    <3>5. Placed(state, r)
      BY <1>2, <3>2, <3>4 DEF Placed
    <3> QED
      BY <3>3, <3>4, <3>5, <3>6
  <2> QED
    BY <2>1, <2>2, <2>3, <2>4, <2>5
<1>9. PICK state \in {"swap2", "keep2", "less", "front", "distinct", "truncate"},
          r \in Registers(Words) :
             Goto(i, state) /\ sort' = [sort EXCEPT ![i] = r] /\ Placed(state, r)
  BY <1>8
<1>10. sort' \in [SignIns -> Registers(Words)] /\ sort'[i] = r
       /\ \A j \in SignIns : j # i => sort'[j] = sort[j]
  BY <1>1, <1>9
<1>11. state \in Active \cup Ended /\ state \notin {"connect", "search", "store"}
  BY <1>9, Places
<1>12. /\ \A j \in SignIns : j # i => \A a \in Held(j) : Len(heap'[a]) = Len(heap[a])
       /\ Len(heap'[conf[i].groups.arr]) = Len(heap[conf[i].groups.arr])
       /\ groups' \in Slices(Shared) /\ groups'.len <= Len(heap'[groups'.arr])
       /\ (groups'.len = 0) = (groups.len = 0)
  BY <1>1, <1>2, <1>3, <1>5, <1>6
<1> QED
  BY <1>5, <1>6, <1>7, <1>9, <1>10, <1>11, <1>12, MemoryMoves

\* The list that append writes, where half the places were torn.
Extended(size, half) ==
    [k \in 1..size |-> IF groups.len < k /\ k <= Need THEN file.def.groups[k - groups.len]
                       ELSE IF k \in half THEN Torn
                       ELSE IF k <= Len(heap[groups.arr]) THEN heap[groups.arr][k] ELSE 0]

\* new starts with the groups, and the default ones follow.
Extends(new) ==
    /\ Need \in 1..Len(new)
    /\ \A k \in 1..groups.len : new[k] = heap[groups.arr][k]
    /\ \A k \in 1..Len(file.def.groups) : new[groups.len + k] = file.def.groups[k]
    /\ \A k \in 1..Need : groups.len < k => new[k] \in ToSet(file.def.groups)

LEMMA Appended ==
    ASSUME Cells, groups.len > 0, NEW size \in Nat, Need <= size, NEW half
    PROVE  /\ Extended(size, half) \in Seq(Words) /\ Len(Extended(size, half)) = size
           /\ Need \in 1..size
           /\ half = {} => Extends(Extended(size, half))
<1> DEFINE n == groups.len
           more == file.def.groups
           old == heap[groups.arr]
           element(k) == IF n < k /\ k <= Need THEN more[k - n]
                         ELSE IF k \in half THEN Torn
                         ELSE IF k <= Len(old) THEN old[k] ELSE 0
           new == [k \in 1..size |-> element(k)]
<1>1. /\ more \in Seq(Words) /\ old \in Seq(Words) /\ 0 \in Words /\ Len(old) \in Nat
      /\ Len(more) \in Nat /\ n \in Nat /\ n <= Len(old) /\ n > 0 /\ Torn \in Words
  BY Names, Arrayed, LenProperties DEF Cells, Slices, Words
<1>2. /\ \A k \in 1..Len(more) : more[k] \in Words /\ more[k] \in ToSet(more)
      /\ \A k \in 1..Len(old) : old[k] \in Words
  BY <1>1, ElementOfSeq, ListFacts
<1>3. new = Extended(size, half) /\ Need = n + Len(more)
  BY DEF Extended, Need
<1> HIDE DEF more, old, n
<1>4. Need \in 1..size
  BY <1>1, <1>3
<1>5. \A k \in 1..Need : n < k => k - n \in 1..Len(more)
  BY <1>1, <1>3
<1>6. \A k \in 1..size : element(k) \in Words
  BY <1>1, <1>2, <1>3, <1>5
<1>7. new \in Seq(Words) /\ Len(new) = size
  <2> HIDE DEF element
  <2> QED
    BY <1>6, IsASeq, LenProperties
<1>8. half = {} => \A k \in 1..n : new[k] = old[k]
  BY <1>1, <1>3, <1>4
<1>9. \A k \in 1..Len(more) : new[n + k] = more[k]
  <2>1. \A k \in 1..Len(more) : n + k \in 1..size /\ n < n + k /\ n + k <= Need /\ (n + k) - n = k
    BY <1>1, <1>3, <1>4
  <2> QED
    BY <2>1
<1>10. \A k \in 1..Need : n < k => new[k] \in ToSet(more)
  BY <1>2, <1>4, <1>5
<1> HIDE DEF new
<1> QED
  BY <1>3, <1>4, <1>7, <1>8, <1>9, <1>10 DEF Extends, n, old, more

\* The array that append writes: the one behind the groups, or one that nobody
\* holds.  It is torn only where it copies what somebody is writing.
LEMMA Allocated ==
    ASSUME IInv, Memory, NEW i \in SignIns, AppendGroups(i)
    PROVE  \E arr \in Shared, new \in Seq(Words) :
              /\ heap' = [heap EXCEPT ![arr] = new] /\ Need \in 1..Len(new)
              /\ Fits \/ Racing(groups.arr) = {} => Extends(new)
              /\ \A k \in DOMAIN new :
                    \/ new[k] \in Wholes
                    \/ new[k] = Torn /\ ~Fits /\ Racing(groups.arr) # {}
                    \/ k \in DOMAIN heap[groups.arr] /\ new[k] = heap[groups.arr][k]
              /\ sort' = [sort EXCEPT ![i] = [@ EXCEPT !.arr = arr, !.n = Need]]
              /\ \/ /\ arr = groups.arr /\ Len(new) = Len(heap[arr])
                    /\ \A k \in 1..Len(new) : k > Need => new[k] = heap[arr][k]
                 \/ arr # groups.arr /\ \A j \in SignIns : arr \notin Held(j)
<1> DEFINE n == groups.len
           old == heap[groups.arr]
           size == IF Fits THEN Len(old) ELSE IF Need > 2 * Len(old) THEN Need ELSE 2 * Len(old)
           unused == Arrays \ ({groups.arr} \cup UNION {Held(j) : j \in SignIns})
           arr == IF Fits THEN groups.arr ELSE CHOOSE a \in unused : TRUE
<1>1. n > 0 /\ (Fits \/ unused # {})
  BY DEF AppendGroups
<1>8. PICK half \in SUBSET (IF Fits THEN {} ELSE Racing(groups.arr) \cap 1..n) :
         /\ heap' = [heap EXCEPT ![arr] = Extended(size, half)]
         /\ sort' = [sort EXCEPT ![i] = [@ EXCEPT !.arr = arr, !.n = Need]]
  BY DEF AppendGroups, Extended
<1>2. /\ n \in Nat /\ Len(file.def.groups) \in Nat /\ Len(old) \in Nat /\ n <= Len(old)
      /\ groups.arr \in Shared /\ Cells /\ file.def.groups \in Seq(Wholes) /\ 0 \in Wholes
      /\ DOMAIN old = 1..Len(old)
  BY Names, Arrayed, LenProperties DEF Memory, Cells, Slices
<1>3. Need \in Nat /\ size \in Nat /\ Need <= size /\ Need = n + Len(file.def.groups)
  BY <1>2, SMTT(30) DEF Need, Fits
<1> DEFINE new == Extended(size, half)
<1>4. /\ new \in Seq(Words) /\ Len(new) = size /\ Need \in 1..size /\ DOMAIN new = 1..size
      /\ half = {} => Extends(new)
  <2>1. new \in Seq(Words) /\ Len(new) = size /\ Need \in 1..size /\ (half = {} => Extends(new))
    BY <1>1, <1>2, <1>3, Appended
  <2> QED
    BY <2>1, LenProperties
<1>5. /\ Fits \/ Racing(groups.arr) = {} => half = {}
      /\ half # {} => ~Fits /\ Racing(groups.arr) # {}
  OBVIOUS
<1>9. ASSUME NEW k \in DOMAIN new
      PROVE  \/ new[k] \in Wholes
             \/ new[k] = Torn /\ ~Fits /\ Racing(groups.arr) # {}
             \/ k \in DOMAIN old /\ new[k] = old[k]
  <2>1. k \in 1..size
    BY <1>4
  <2>2. new[k] = IF n < k /\ k <= Need THEN file.def.groups[k - n]
                 ELSE IF k \in half THEN Torn ELSE IF k <= Len(old) THEN old[k] ELSE 0
    BY <2>1 DEF Extended
  <2> HIDE DEF new, size
  <2>3. CASE n < k /\ k <= Need
    <3>1. k - n \in 1..Len(file.def.groups)
      BY <1>2, <1>3, <2>1, <2>3, SMTT(30)
    <3> QED
      BY <1>2, <2>2, <2>3, <3>1, ElementOfSeq
  <2>4. CASE ~(n < k /\ k <= Need)
    BY <1>2, <1>5, <2>1, <2>2, <2>4
  <2> QED
    BY <2>3, <2>4
<1>6. CASE Fits
  <2>1. arr = groups.arr /\ size = Len(old) /\ half = {}
    BY <1>6
  <2>2. \A k \in 1..size : k > Need => new[k] = old[k]
    BY <1>2, <1>3, <2>1 DEF Extended
  <2> HIDE DEF arr, size, new
  <2> QED
    BY <1>2, <1>4, <1>5, <1>8, <1>9, <2>1, <2>2, ZenonT(30) DEF new
<1>7. CASE ~Fits
  <2>1. arr \in unused
    BY <1>1, <1>7
  <2>2. arr \in Shared /\ arr # groups.arr /\ \A j \in SignIns : arr \notin Held(j)
    BY <2>1, Arrayed
  <2> HIDE DEF arr, size, new
  <2> QED
    BY <1>4, <1>5, <1>8, <1>9, <2>2 DEF new
<1> QED
  BY <1>6, <1>7

LEMMA MemoryAppended ==
    ASSUME IInv, Memory, NEW i \in SignIns, AppendGroups(i)
    PROVE  Memory'
<1>1. /\ pc[i] = "append" /\ Goto(i, "store") /\ groups.len # 0
      /\ UNCHANGED <<groups, conf, asked>>
  BY DEF AppendGroups
<1>2. /\ pc[i] \in Filling /\ "store" \in Active \cup Ended
      /\ "store" \notin {"connect", "search"}
  BY <1>1, Places
<1>3. PICK arr \in Shared, new \in Seq(Words) :
         /\ heap' = [heap EXCEPT ![arr] = new] /\ Need \in 1..Len(new)
         /\ sort' = [sort EXCEPT ![i] = [@ EXCEPT !.arr = arr, !.n = Need]]
         /\ \/ arr = groups.arr /\ Len(new) = Len(heap[arr])
            \/ arr # groups.arr /\ \A j \in SignIns : arr \notin Held(j)
  <2>1. ASSUME NEW arr \in Shared, NEW new \in Seq(Words),
               \/ /\ arr = groups.arr /\ Len(new) = Len(heap[arr])
                  /\ \A k \in 1..Len(new) : k > Need => new[k] = heap[arr][k]
               \/ arr # groups.arr /\ \A j \in SignIns : arr \notin Held(j)
        PROVE  \/ arr = groups.arr /\ Len(new) = Len(heap[arr])
               \/ arr # groups.arr /\ \A j \in SignIns : arr \notin Held(j)
    BY <2>1
  <2>2. PICK arr \in Shared, new \in Seq(Words) :
           /\ heap' = [heap EXCEPT ![arr] = new] /\ Need \in 1..Len(new)
           /\ sort' = [sort EXCEPT ![i] = [@ EXCEPT !.arr = arr, !.n = Need]]
           /\ \/ /\ arr = groups.arr /\ Len(new) = Len(heap[arr])
                 /\ \A k \in 1..Len(new) : k > Need => new[k] = heap[arr][k]
              \/ arr # groups.arr /\ \A j \in SignIns : arr \notin Held(j)
    BY Allocated, Zenon
  <2> QED
    BY <2>1, <2>2
<1>4. /\ heap \in [ArrayIds -> Seq(Words)] /\ arr \in ArrayIds /\ arr # "def"
      /\ groups \in Slices(Shared) /\ groups.arr \in ArrayIds
      /\ groups.len <= Len(heap[groups.arr]) /\ sort \in [SignIns -> Registers(Words)]
      /\ \A j \in SignIns : conf[j].groups.arr \in Held(j)
  BY Arrayed DEF Memory, Cells, Slices, Held
<1>5. /\ heap' \in [ArrayIds -> Seq(Words)] /\ heap'["def"] = heap["def"]
      /\ heap'[arr] = new /\ \A a \in ArrayIds : a # arr => heap'[a] = heap[a]
  BY <1>3, <1>4, Arrayed
<1>6. \A j \in SignIns : \A a \in Held(j) : a \in ArrayIds
  BY Arrayed DEF Memory, Cells, Holds, Held, Slices, Registers
<1>7. \A j \in SignIns : \A a \in Held(j) : Len(heap'[a]) = Len(heap[a])
  BY <1>3, <1>5, <1>6
<1>8. Len(heap'[groups.arr]) = Len(heap[groups.arr])
  BY <1>3, <1>4, <1>5
<1>9. Need \in Nat /\ Need \in 1..Len(new)
  BY <1>3
<1>10. /\ sort' \in [SignIns -> Registers(Words)] /\ sort'[i].n = Need /\ sort'[i].arr = arr
       /\ \A j \in SignIns : j # i => sort'[j] = sort[j]
  BY <1>3, <1>4, <1>9 DEF Registers
<1>11. sort'[i].n \in 1..Len(heap'[sort'[i].arr])
  BY <1>5, <1>9, <1>10
<1>12. Placed("store", sort'[i])
  BY DEF Placed
<1> QED
  BY <1>1, <1>2, <1>4, <1>5, <1>7, <1>8, <1>10, <1>11, <1>12, MemoryMoves

LEMMA MemoryRestarts ==
    ASSUME Memory, Restart
    PROVE  Memory'
<1>1. /\ file' = file /\ groups' = LoadedGroups(file) /\ heap' = LoadedHeap(file)
      /\ sort' = [i \in SignIns |-> NoSort] /\ asked' = [i \in SignIns |-> {}]
      /\ \A i \in SignIns : pc'[i] \in Ended /\ conf'[i] = NoConf
  BY Places DEF Restart
<1>2. file \in Files /\ Words' = Words
  BY <1>1 DEF Memory, Cells, Words, Wholes, Named
<1>3. Cells'
  <2>1. groups'.len = Len(file.own.groups) /\ groups'.arr = "own"
    BY <1>1, <1>2, Loaded DEF Slice
  <2>2. groups'.len <= Len(heap'[groups'.arr])
    BY <1>1, <1>2, <2>1, Loaded, Names
  <2> QED
    BY <1>1, <1>2, <2>2, Loaded DEF Cells
<1>4. ASSUME NEW i \in SignIns
      PROVE  Holds(i)' /\ asked'[i] \subseteq Words
  <2>1. conf'[i].groups \in Slices(ArrayIds)
        /\ conf'[i].groups.len <= Len(heap'[conf'[i].groups.arr])
    BY <1>1, <1>2, Loaded, Names
  <2>2. pc'[i] \notin Active
    BY <1>1, Places
  <2> QED
    BY <1>1, <2>1, <2>2, Places DEF Holds, Placed
<1> QED
  BY <1>2, <1>3, <1>4, Zenon DEF Memory

LEMMA MemoryStep == IInv /\ Memory /\ [Next]_vars => Memory'
<1> SUFFICES ASSUME IInv, Memory, [Next]_vars PROVE Memory'
  OBVIOUS
<1>1. ASSUME NEW i \in SignIns, GetRepoAuth(i) \/ GetUser(i) \/ Fault(i) \/ Chokes(i)
      PROVE  Memory'
  BY <1>1, MemoryBegins, MemoryWaits, MemoryAppended, MemoryStored, MemorySorts, MemorySwaps,
     MemoryTruncated, MemoryCopies, MemorySearches DEF GetRepoAuth, GetUser
<1>2. CASE UNCHANGED vars
  BY <1>2 DEF vars, Memory, Cells, Holds, Words, Wholes, Named
<1> QED
  BY <1>1, <1>2, MemoryRestarts DEF Next

\* Slices lie within their arrays and the indices of unique.Strings within its
\* list's length at any time, however the sign-ins overlap: whatever the places
\* hold, names or halves of names (Untorn says when halves).
THEOREM MemoryInvariant == Spec => []Memory
BY InitMemory, MemoryStep, InitIInv, IInvStep, PTL DEF Spec

----------------------------------------------------------------------------
(***************************************************************************)
(* A sign-in that fills the record with nobody next to it.                 *)
(***************************************************************************)

\* Who notes no clash is the only one to fill the record.
Sole == clash \in BOOLEAN /\ (~clash =>
            \A i, j \in SignIns : pc[i] \in Filling /\ pc[j] \in Filling => i = j)

\* What a swap of registers r has read is what the list g holds where it is
\* about to write.
Untouched(place, r, g) ==
    /\ place = "swap" => /\ r.j - 1 \in 1..Len(g) /\ g[r.j - 1] = r.a
                         /\ r.j \in 1..Len(g) /\ g[r.j] = r.b
    /\ place = "keep" => /\ r.j \in 1..Len(g) /\ g[r.j] = r.a
                         /\ r.i \in 1..Len(g) /\ g[r.i] = r.b
    /\ place = "swap2" => g[r.j - 1] = r.a
    /\ place = "keep2" => g[r.j] = r.a

\* As long as no two filled the record at once, the arrays and the registers
\* hold whole names, and what is asked for is whole but for a sign-in that met
\* somebody who filled it.
Untorn ==
    /\ ~clash => /\ heap \in [ArrayIds -> Seq(Wholes)]
                 /\ sort \in [SignIns -> Registers(Wholes)]
                 /\ \A i \in SignIns : Untouched(pc[i], sort[i], heap[sort[i].arr])
    /\ \A i \in SignIns : Torn \in asked[i] => i \in crossed \/ clash

Lone(i) == pc[i] \in Filling /\ (i \notin crossed \/ ~clash)

\* Its registers are about the slice that the record has.
Current(i) ==
    /\ pc[i] \in {"less", "distinct"} \cup Swaps \cup Swapped => sort[i].n = groups.len
    /\ pc[i] \in Swaps \cup Swapped => sort[i].arr = groups.arr
    /\ pc[i] = "truncate" => sort[i].i <= groups.len

\* The fields that sign-in i has checked.
Checked(i) == pc[i] = "check" => \A s \in 1..step[i] - 1 : field[Checks[s]] # "blank"

\* Without a default section nobody fills the record, and no one whose file
\* has an incomplete section comes to the copy.
Bare ==
    file.def = NoSection =>
        /\ field = Given(file.own, "own")
        /\ \A i \in SignIns : pc[i] \notin Filling /\ Checked(i)
        /\ Incomplete => \A i \in SignIns : pc[i] \in {"check", "idle", "panic", "lost"}

Panics(i) ==
    /\ pc[i] = "check" => file.own # NoSection
    /\ pc[i] = "panic" => (Incomplete /\ file.def = NoSection) \/ i \in crossed
    /\ pc[i] = "choked" => i \in crossed \/ clash

Steady == Sole /\ Untorn /\ Bare /\ \A i \in SignIns : (Lone(i) => Current(i)) /\ Panics(i)

----------------------------------------------------------------------------
\* Every step of a sign-in goes somewhere, changes nothing of the others, and
\* changes the record only from a place of its filling.
LEMMA Walks ==
    ASSUME IInv, Memory, NEW i \in SignIns, GetRepoAuth(i) \/ GetUser(i) \/ Fault(i) \/ Chokes(i)
    PROVE  \E state \in Active \cup Ended :
              /\ Goto(i, state)
              /\ pc[i] \notin Filling => UNCHANGED <<field, groups, heap>>
              /\ \A j \in SignIns : j # i =>
                    /\ sort'[j] = sort[j] /\ step'[j] = step[j]
                    /\ conf'[j] = conf[j] /\ asked'[j] = asked[j]
<1>0. /\ DOMAIN sort = SignIns /\ DOMAIN step = SignIns /\ DOMAIN conf = SignIns
      /\ DOMAIN asked = SignIns
  BY DEF IInv, Typed, Memory, Cells
<1>1. CASE Begin(i)
  BY <1>0, <1>1, Places DEF Begin, memory
<1>2. CASE FieldGiven(i)
  BY <1>0, <1>2, Places DEF FieldGiven, memory
<1>3. CASE FieldBlank(i)
  BY <1>0, <1>3, Places DEF FieldBlank, memory
<1>4. CASE WriteField(i)
  BY <1>0, <1>4, Places DEF WriteField
<1>5. CASE NoGroups(i)
  BY <1>0, <1>5, Places DEF NoGroups, memory
<1>6. CASE AppendGroups(i)
  BY <1>0, <1>6, Places DEF AppendGroups
<1>7. CASE StoreGroups(i)
  BY <1>0, <1>7, Places DEF StoreGroups
<1>8. CASE SortBegins(i)
  BY <1>0, <1>8, Places DEF SortBegins, memory
<1>9. CASE InOrder(i)
  BY <1>0, <1>9, Places DEF InOrder, Compare, memory
<1>10. CASE OutOfOrder(i)
  BY <1>0, <1>10, Places DEF OutOfOrder, memory
<1>11. CASE FrontBegins(i)
  BY <1>0, <1>11, Places DEF FrontBegins, memory
<1>12. CASE Duplicate(i)
  BY <1>0, <1>12, Places DEF Duplicate, CompareKept, memory
<1>13. CASE Distinct(i)
  BY <1>0, <1>13, Places DEF Distinct, memory
<1>14. CASE OutOfRange(i)
  BY <1>0, <1>14, Places DEF OutOfRange, memory
<1>15. CASE StoreFirst(i)
  BY <1>0, <1>15, Places DEF StoreFirst, Swaps
<1>16. CASE StoreSecond(i)
  <2>1. pc[i] \in Filling /\ UNCHANGED <<step, conf, asked>>
    BY <1>16, Places DEF StoreSecond, Swapped
  <2>2. CASE Compare(i, sort[i].i, sort[i].j - 1)
    BY <1>0, <2>1, <2>2, Places DEF Compare
  <2>3. CASE CompareKept(i, sort[i].i)
    BY <1>0, <2>1, <2>3, Places DEF CompareKept
  <2> QED
    BY <1>16, <2>2, <2>3 DEF StoreSecond
<1>17. CASE Truncate(i)
  BY <1>0, <1>17, Places DEF Truncate
<1>18. CASE CopyConf(i)
  BY <1>0, <1>18, Places DEF CopyConf, memory
<1>19. CASE Connect(i)
  BY <1>0, <1>19, Places DEF Connect, memory
<1>20. CASE Unreachable(i)
  BY <1>0, <1>20, Places DEF Unreachable, memory
<1>21. CASE Search(i)
  BY <1>0, <1>21, Places DEF Search, memory
<1>22. CASE Fault(i)
  BY <1>0, <1>22, Places DEF Fault, memory
<1>23. CASE Chokes(i)
  <2>1. /\ Goto(i, "choked") /\ UNCHANGED <<field, groups, heap, step, asked>>
        /\ sort' = [sort EXCEPT ![i] = NoSort] /\ conf' = [conf EXCEPT ![i] = NoConf]
    BY <1>23 DEF Chokes, memory
  <2> QED
    BY <1>0, <2>1, Places
<1> QED
  BY <1>1, <1>2, <1>3, <1>4, <1>5, <1>6, <1>7, <1>8, <1>9, <1>10, <1>11, <1>12, <1>13, <1>14,
     <1>15, <1>16, <1>17, <1>18, <1>19, <1>20, <1>21, <1>22, <1>23 DEF GetRepoAuth, GetUser

\* More than one element, in a finite set.
LEMMA AtMostOne ==
    ASSUME NEW S, IsFiniteSet(S), ~(Cardinality(S) > 1), NEW x \in S, NEW y \in S
    PROVE  x = y
<1> SUFFICES ASSUME x # y PROVE FALSE
  OBVIOUS
<1>1. IsFiniteSet({x}) /\ Cardinality({x}) = 1
  BY FS_Singleton
<1>2. Cardinality({x} \cup {y}) = 2
  BY <1>1, FS_AddElement
<1>3. Cardinality({x} \cup {y}) <= Cardinality(S) /\ Cardinality(S) \in Nat
  BY FS_Subset, FS_CardinalityType
<1> QED
  BY <1>2, <1>3

\* What the history says after a step of sign-in i.
LEMMA History ==
    ASSUME Sole, NEW i \in SignIns, NEW state, Goto(i, state)
    PROVE  /\ Sole' /\ (clash => clash')
<1> DEFINE filling == {j \in SignIns : pc'[j] \in Filling}
<1>1. clash' = (clash \/ Cardinality(filling) > 1)
  BY DEF Goto
<1>2. IsFiniteSet(filling)
  BY SignInsAssumption, FS_Subset
<1>3. clash' \in BOOLEAN /\ (clash => clash')
  BY <1>1
<1>4. ASSUME ~clash', NEW j \in SignIns, NEW k \in SignIns, pc'[j] \in Filling, pc'[k] \in Filling
      PROVE  j = k
  <2>1. ~(Cardinality(filling) > 1) /\ j \in filling /\ k \in filling
    BY <1>1, <1>4
  <2> QED
    BY <1>2, <2>1, AtMostOne
<1> QED
  BY <1>3, <1>4 DEF Sole

\* As long as no two fill the record, nobody reads what another one writes:
\* unless a search does.
LEMMA Calm ==
    ASSUME Sole, ~clash, NEW i \in SignIns, pc[i] \in Filling \ (Swaps \cup Swapped)
    PROVE  /\ pc[i] # "append" \/ ~Fits => Racing(groups.arr) = {}
           /\ pc[i] # "append" => \A k : Readings(groups.arr, k) = {heap[groups.arr][k]}
<1>1. \A m \in SignIns : pc[m] \in Swaps \cup Swapped \cup {"append"} => pc[m] \in Filling
  BY DEF Filling
<1>2. \A m \in SignIns : pc[m] \in Swaps \cup Swapped \cup {"append"} => m = i
  BY <1>1 DEF Sole
<1>3. pc[i] # "append" \/ ~Fits => Racing(groups.arr) = {}
  BY <1>2 DEF Racing
<1> QED
  BY <1>3 DEF Readings

LEMMA CalmSearch ==
    ASSUME Met, NEW i \in SignIns, pc[i] = "search", NEW a, Racing(a) # {}
    PROVE  i \in crossed
<1>1. PICK m \in SignIns : pc[m] \in Swaps \cup Swapped \cup {"append"}
  BY DEF Racing
<1>2. pc[m] \in Filling /\ pc[i] \in Active /\ pc[i] \notin Filling
  BY <1>1, Places DEF Filling
<1> QED
  BY <1>2 DEF Met

\* What the two halves of a swap write, as long as no two fill the record.
LEMMA Exact ==
    ASSUME Untorn, ~clash, NEW i \in SignIns
    PROVE  /\ pc[i] \in Swaps => Writings(i, sort[i].a, sort[i].b) = {sort[i].a}
           /\ pc[i] \in Swapped => Writings(i, sort[i].b, sort[i].a) = {sort[i].b}
<1>1. Untouched(pc[i], sort[i], heap[sort[i].arr])
  BY DEF Untorn
<1>2. /\ pc[i] \in Swaps => heap[sort[i].arr][Spot(i)] = sort[i].b
      /\ pc[i] \in Swapped => heap[sort[i].arr][Spot(i)] = sort[i].a
  BY <1>1 DEF Untouched, Spot, Swaps, Swapped
<1> QED
  BY <1>2 DEF Writings

LEMMA InitUntorn == Init => Untorn
<1> SUFFICES ASSUME Init PROVE Untorn
  OBVIOUS
<1>1. /\ file \in Files /\ heap = LoadedHeap(file) /\ sort = [i \in SignIns |-> NoSort]
      /\ \A i \in SignIns : pc[i] = "idle" /\ asked[i] = {}
  BY DEF Init
<1> QED
  BY <1>1, Loaded DEF Untorn, Untouched

\* The arrays stay whole.
LEMMA WholeArrays ==
    ASSUME IInv, Memory, Sole, Untorn, NEW i \in SignIns,
           GetRepoAuth(i) \/ GetUser(i) \/ Fault(i) \/ Chokes(i), ~clash
    PROVE  heap' \in [ArrayIds -> Seq(Wholes)]
<1>1. heap \in [ArrayIds -> Seq(Wholes)] /\ sort \in [SignIns -> Registers(Wholes)]
  BY DEF Untorn
<1>2. CASE UNCHANGED heap
  BY <1>1, <1>2
<1>3. CASE StoreFirst(i) \/ StoreSecond(i)
  <2>1. sort[i].a \in Wholes /\ sort[i].b \in Wholes /\ sort[i].arr \in Shared
    BY <1>1 DEF Registers
  <2>2. PICK v \in Wholes : heap' = [heap EXCEPT ![sort[i].arr][Spot(i)] = v]
    <3>1. CASE StoreFirst(i)
      <4>1. PICK v \in Writings(i, sort[i].a, sort[i].b) :
               heap' = [heap EXCEPT ![sort[i].arr][Spot(i)] = v]
        BY <3>1 DEF StoreFirst
      <4>2. pc[i] \in Swaps
        BY <3>1 DEF StoreFirst
      <4>3. v = sort[i].a
        BY <4>1, <4>2, Exact
      <4> QED
        BY <2>1, <4>1, <4>3
    <3>2. CASE StoreSecond(i)
      <4>1. PICK v \in Writings(i, sort[i].b, sort[i].a) :
               heap' = [heap EXCEPT ![sort[i].arr][Spot(i)] = v]
        BY <3>2 DEF StoreSecond
      <4>2. pc[i] \in Swapped
        BY <3>2 DEF StoreSecond
      <4>3. v = sort[i].b
        BY <4>1, <4>2, Exact
      <4> QED
        BY <2>1, <4>1, <4>3
    <3> QED
      BY <1>3, <3>1, <3>2
  <2>3. PICK arr \in Shared : arr = sort[i].arr
    BY <2>1
  <2>4. PICK p : p = Spot(i)
    OBVIOUS
  <2>5. heap' = [heap EXCEPT ![arr][p] = v] /\ heap \in [ArrayIds -> Seq(Wholes)]
    BY <1>1, <2>2, <2>3, <2>4
  <2> HIDE <1>1, <2>1, <2>2, <2>3, <2>4
  <2> QED
    BY <2>5, Stored
<1>4. CASE AppendGroups(i)
  <2>1. PICK arr \in Shared, new \in Seq(Words) :
              /\ heap' = [heap EXCEPT ![arr] = new] /\ Need \in 1..Len(new)
              /\ Fits \/ Racing(groups.arr) = {} => Extends(new)
              /\ \A k \in DOMAIN new :
                    \/ new[k] \in Wholes
                    \/ new[k] = Torn /\ ~Fits /\ Racing(groups.arr) # {}
                    \/ k \in DOMAIN heap[groups.arr] /\ new[k] = heap[groups.arr][k]
              /\ sort' = [sort EXCEPT ![i] = [@ EXCEPT !.arr = arr, !.n = Need]]
              /\ \/ /\ arr = groups.arr /\ Len(new) = Len(heap[arr])
                    /\ \A k \in 1..Len(new) : k > Need => new[k] = heap[arr][k]
                 \/ arr # groups.arr /\ \A j \in SignIns : arr \notin Held(j)
    BY <1>4, Allocated
  <2>2. ~Fits => Racing(groups.arr) = {}
    BY <1>4, Calm DEF AppendGroups, Filling, Swaps, Swapped
  <2>3. heap[groups.arr] \in Seq(Wholes)
    BY <1>1, Arrayed DEF Memory, Cells, Slices
  <2>4. \A k \in DOMAIN heap[groups.arr] : heap[groups.arr][k] \in Wholes
    BY <2>3, ElementOfSeq, LenProperties
  <2>5. \A k \in DOMAIN new : new[k] \in Wholes
    BY <2>1, <2>2, <2>4
  <2>6. Len(new) \in Nat /\ DOMAIN new = 1..Len(new) /\ new = [k \in 1..Len(new) |-> new[k]]
    BY LenProperties
  <2>7. new \in Seq(Wholes)
    BY <2>5, <2>6, IsASeq
  <2> QED
    BY <1>1, <2>1, <2>7
<1> QED
  BY <1>2, <1>3, <1>4 DEF GetRepoAuth, GetUser, Begin, FieldGiven, FieldBlank, WriteField, NoGroups,
     StoreGroups, SortBegins, InOrder, OutOfOrder, FrontBegins, Duplicate, Distinct, OutOfRange,
     Truncate, CopyConf, Connect, Unreachable, Search, Fault, Chokes, memory

\* So do the registers, and a swap has read what it is going to overwrite.
LEMMA WholeReads ==
    ASSUME IInv, Memory, Sole, Untorn, NEW i \in SignIns, ~clash, OutOfOrder(i) \/ Distinct(i)
    PROVE  /\ sort' \in [SignIns -> Registers(Wholes)]
           /\ Untouched(pc'[i], sort'[i], heap'[sort'[i].arr])
<1> DEFINE s == sort[i]
<1>1. /\ s \in Registers(Wholes) /\ sort \in [SignIns -> Registers(Wholes)]
      /\ groups.arr \in Shared /\ groups.len \in Nat /\ groups.len <= Len(heap[groups.arr])
      /\ Placed(pc[i], s) /\ heap[groups.arr] \in Seq(Wholes)
  BY Arrayed DEF Untorn, Memory, Cells, Holds, Slices
<1>2. s.n \in Nat /\ s.i \in Nat /\ s.j \in Nat /\ Len(heap[groups.arr]) \in Nat
  BY <1>1, LenProperties DEF Registers
<1>3. CASE OutOfOrder(i)
  <2>1. pc[i] = "less" /\ s.j <= groups.len /\ Goto(i, "swap") /\ heap' = heap
    BY <1>3 DEF OutOfOrder, memory
  <2>2. Readings(groups.arr, s.j - 1) = {heap[groups.arr][s.j - 1]}
        /\ Readings(groups.arr, s.j) = {heap[groups.arr][s.j]}
    BY <2>1, Calm DEF Filling, Swaps, Swapped
  <2> DEFINE r == [s EXCEPT !.arr = groups.arr, !.a = heap[groups.arr][s.j - 1],
                            !.b = heap[groups.arr][s.j]]
  <2>3. sort' = [sort EXCEPT ![i] = r]
    BY <1>3, <2>2 DEF OutOfOrder
  <2>4. s.j \in 1..Len(heap[groups.arr]) /\ s.j - 1 \in 1..Len(heap[groups.arr])
    BY <1>1, <1>2, <2>1 DEF Placed
  <2>5. heap[groups.arr][s.j - 1] \in Wholes /\ heap[groups.arr][s.j] \in Wholes
    BY <1>1, <2>4, ElementOfSeq
  <2>6. r \in Registers(Wholes) /\ sort'[i] = r /\ r.j = s.j /\ r.arr = groups.arr
        /\ r.a = heap[groups.arr][s.j - 1] /\ r.b = heap[groups.arr][s.j]
    BY <1>1, <2>3, <2>5 DEF Registers
  <2>7. pc'[i] = "swap"
    BY <2>1, GotoEffect, Places DEF IInv
  <2> HIDE DEF r
  <2> QED
    BY <1>1, <2>1, <2>3, <2>4, <2>6, <2>7 DEF Untouched
<1>4. CASE Distinct(i)
  <2>1. pc[i] = "distinct" /\ s.j <= groups.len /\ Goto(i, "keep") /\ heap' = heap
    BY <1>4 DEF Distinct, memory
  <2>2. Readings(groups.arr, s.j) = {heap[groups.arr][s.j]}
        /\ Readings(groups.arr, s.i + 1) = {heap[groups.arr][s.i + 1]}
    BY <2>1, Calm DEF Filling, Swaps, Swapped
  <2> DEFINE r == [s EXCEPT !.i = s.i + 1, !.arr = groups.arr, !.a = heap[groups.arr][s.j],
                            !.b = heap[groups.arr][s.i + 1]]
  <2>3. sort' = [sort EXCEPT ![i] = r]
    BY <1>4, <2>2 DEF Distinct
  <2>4. s.j \in 1..Len(heap[groups.arr]) /\ s.i + 1 \in 1..Len(heap[groups.arr]) /\ s.i + 1 \in Nat
    BY <1>1, <1>2, <2>1 DEF Placed
  <2>5. heap[groups.arr][s.j] \in Wholes /\ heap[groups.arr][s.i + 1] \in Wholes
    BY <1>1, <2>4, ElementOfSeq
  <2>6. r \in Registers(Wholes) /\ sort'[i] = r /\ r.j = s.j /\ r.i = s.i + 1 /\ r.arr = groups.arr
        /\ r.a = heap[groups.arr][s.j] /\ r.b = heap[groups.arr][s.i + 1]
    BY <1>1, <2>3, <2>4, <2>5 DEF Registers
  <2>7. pc'[i] = "keep"
    BY <2>1, GotoEffect, Places DEF IInv
  <2> HIDE DEF r
  <2> QED
    BY <1>1, <2>1, <2>3, <2>4, <2>6, <2>7 DEF Untouched
<1> QED
  BY <1>3, <1>4

\* After the first half of a swap, what the second overwrites is what was read.
LEMMA WholeHalf ==
    ASSUME IInv, Memory, Untorn, NEW i \in SignIns, ~clash, StoreFirst(i)
    PROVE  /\ sort' \in [SignIns -> Registers(Wholes)]
           /\ Untouched(pc'[i], sort'[i], heap'[sort'[i].arr])
<1> DEFINE s == sort[i]
<1>1. /\ s \in Registers(Wholes) /\ sort \in [SignIns -> Registers(Wholes)]
      /\ heap \in [ArrayIds -> Seq(Wholes)] /\ Untouched(pc[i], s, heap[s.arr])
  BY DEF Untorn
<1>2. s.j \in Nat /\ s.arr \in Shared /\ s.a \in Wholes
  BY <1>1 DEF Registers
<1>3. pc[i] \in Swaps /\ sort' = sort /\ heap' = [heap EXCEPT ![s.arr][Spot(i)] = s.a]
  <2>1. PICK v \in Writings(i, s.a, s.b) : heap' = [heap EXCEPT ![s.arr][Spot(i)] = v]
    BY DEF StoreFirst
  <2>2. pc[i] \in Swaps /\ sort' = sort
    BY DEF StoreFirst
  <2>3. v = s.a
    BY <2>1, <2>2, Exact
  <2> QED
    BY <2>1, <2>2, <2>3
<1>4. \A k \in 1..Len(heap[s.arr]) : heap'[s.arr][k] = IF k = Spot(i) THEN s.a ELSE heap[s.arr][k]
  <2>1. heap[s.arr] \in Seq(Wholes) /\ s.arr \in DOMAIN heap
    BY <1>1, <1>2, Arrayed
  <2>2. DOMAIN heap[s.arr] = 1..Len(heap[s.arr])
    BY <2>1, LenProperties
  <2>3. heap'[s.arr] = [heap[s.arr] EXCEPT ![Spot(i)] = s.a]
    BY <1>3, <2>1
  <2> QED
    BY <2>2, <2>3
<1>5. CASE pc[i] = "swap"
  <2>1. Goto(i, "swap2") /\ Spot(i) = s.j
    BY <1>5 DEF StoreFirst, Spot
  <2>2. pc'[i] = "swap2"
    BY <2>1, GotoEffect, Places DEF IInv
  <2>3. s.j - 1 \in 1..Len(heap[s.arr]) /\ heap[s.arr][s.j - 1] = s.a
    BY <1>1, <1>5 DEF Untouched
  <2>4. heap'[s.arr][s.j - 1] = s.a
    BY <1>4, <2>3
  <2> QED
    BY <1>1, <1>3, <2>2, <2>4 DEF Untouched
<1>6. CASE pc[i] = "keep"
  <2>1. Goto(i, "keep2") /\ Spot(i) = s.i
    BY <1>6 DEF StoreFirst, Spot
  <2>2. pc'[i] = "keep2"
    BY <2>1, GotoEffect, Places DEF IInv
  <2>3. s.j \in 1..Len(heap[s.arr]) /\ heap[s.arr][s.j] = s.a
    BY <1>1, <1>6 DEF Untouched
  <2>4. heap'[s.arr][s.j] = s.a
    BY <1>4, <2>3
  <2> QED
    BY <1>1, <1>3, <2>2, <2>4 DEF Untouched
<1> QED
  BY <1>3, <1>5, <1>6 DEF Swaps

\* The other steps keep what the registers read, or forget it.
LEMMA WholeRegisters ==
    ASSUME IInv, Memory, Sole, Untorn, NEW i \in SignIns,
           GetRepoAuth(i) \/ GetUser(i) \/ Fault(i) \/ Chokes(i), ~clash
    PROVE  /\ sort' \in [SignIns -> Registers(Wholes)]
           /\ Untouched(pc'[i], sort'[i], heap'[sort'[i].arr])
<1>1. CASE OutOfOrder(i) \/ Distinct(i) \/ StoreFirst(i)
  BY <1>1, WholeReads, WholeHalf
<1>2. CASE ~(OutOfOrder(i) \/ Distinct(i) \/ StoreFirst(i))
  <2>1. sort \in [SignIns -> Registers(Wholes)] /\ NoSort \in Registers(Wholes) /\ 0 \in Wholes
        /\ sort[i] \in Registers(Wholes)
    BY Loaded, Names DEF Untorn, Memory, Cells
  <2>2. sort' \in [SignIns -> Registers(Wholes)]
    <3>1. /\ groups.len \in Nat /\ Need \in Nat /\ sort[i].i + 1 \in Nat /\ sort[i].j + 1 \in Nat
      <4>1. groups.len \in Nat /\ Len(file.def.groups) \in Nat
        BY Names DEF Memory, Cells, Slices
      <4>2. sort[i].i \in Nat /\ sort[i].j \in Nat
        BY <2>1 DEF Registers
      <4> QED
        BY <4>1, <4>2 DEF Need
    <3>2. CASE sort' = sort \/ sort' = [sort EXCEPT ![i] = NoSort]
      BY <2>1, <3>2
    <3>3. CASE AppendGroups(i)
      <4>1. PICK arr \in Shared : sort' = [sort EXCEPT ![i] = [@ EXCEPT !.arr = arr, !.n = Need]]
        BY <3>3, Allocated, Zenon
      <4> QED
        BY <2>1, <3>1, <4>1 DEF Registers
    <3>4. CASE SortBegins(i) \/ FrontBegins(i)
      <4>1. PICK k \in Nat :
               sort' = [sort EXCEPT ![i] = [@ EXCEPT !.n = groups.len, !.i = k, !.j = 2]]
        BY <3>4 DEF SortBegins, FrontBegins
      <4> QED
        BY <2>1, <3>1, <4>1 DEF Registers
    <3>5. CASE InOrder(i)
      <4>1. sort' = [sort EXCEPT ![i] = [@ EXCEPT !.i = sort[i].i + 1, !.j = sort[i].i + 1,
                                                  !.a = 0, !.b = 0]]
        BY <3>5 DEF InOrder, Compare
      <4> QED
        BY <2>1, <3>1, <4>1 DEF Registers
    <3>6. CASE Duplicate(i) \/ (StoreSecond(i) /\ pc[i] # "swap2")
      <4>1. CompareKept(i, sort[i].i)
        BY <3>6 DEF Duplicate, StoreSecond
      <4>2. sort' = [sort EXCEPT ![i] = [@ EXCEPT !.i = sort[i].i, !.j = sort[i].j + 1,
                                                  !.a = 0, !.b = 0]]
        BY <4>1 DEF CompareKept
      <4>3. sort[i].i \in Nat
        BY <2>1 DEF Registers
      <4> QED
        BY <2>1, <3>1, <4>2, <4>3 DEF Registers
    <3>7. CASE StoreSecond(i) /\ pc[i] = "swap2"
      <4>1. Compare(i, sort[i].i, sort[i].j - 1) /\ Placed("swap2", sort[i])
        BY <3>7 DEF StoreSecond, Memory, Holds
      <4>2. sort[i].i \in Nat /\ sort[i].j \in Nat /\ sort[i].j - 1 \in Nat
        BY <2>1, <4>1 DEF Registers, Placed
      <4>3. PICK k \in Nat, j \in Nat :
               sort' = [sort EXCEPT ![i] = [@ EXCEPT !.i = k, !.j = j, !.a = 0, !.b = 0]]
        BY <3>1, <4>1, <4>2 DEF Compare
      <4> QED
        BY <2>1, <4>3 DEF Registers
    <3> QED
      BY <1>2, <3>2, <3>3, <3>4, <3>5, <3>6, <3>7 DEF GetRepoAuth, GetUser, Begin, FieldGiven,
         FieldBlank, WriteField, NoGroups, StoreGroups, OutOfRange, Truncate, CopyConf, Connect,
         Unreachable, Search, Fault, Chokes
  <2>3. \E to \in (Active \cup Ended) \ (Swaps \cup Swapped) : Goto(i, to)
    <3>1. /\ ({"write", "append", "store", "len", "less", "front", "distinct", "truncate"} \cup
                {"check", "copy", "connect", "search"} \cup Ended) \cap (Swaps \cup Swapped) = {}
      BY DEF Swaps, Swapped, Ended
    <3> QED
      BY <1>2, <3>1, Places DEF GetRepoAuth, GetUser, Begin, FieldGiven, FieldBlank, WriteField,
         NoGroups, AppendGroups, StoreGroups, SortBegins, InOrder, FrontBegins, Duplicate,
         OutOfRange, StoreSecond, Compare, CompareKept, Truncate, CopyConf, Connect, Unreachable,
         Search, Fault, Chokes
  <2>4. pc'[i] \notin Swaps \cup Swapped
    BY <2>3, GotoEffect DEF IInv
  <2> QED
    BY <2>2, <2>4 DEF Untouched, Swaps, Swapped
<1> QED
  BY <1>1, <1>2

\* What is asked for is whole, but next to somebody who fills the record.
LEMMA WholeAsks ==
    ASSUME IInv, Memory, Sole, Untorn, NEW i \in SignIns,
           GetRepoAuth(i) \/ GetUser(i) \/ Fault(i) \/ Chokes(i), Torn \in asked'[i]
    PROVE  i \in crossed' \/ clash'
<1>1. PICK state \in Active \cup Ended : Goto(i, state)
  BY Walks
<1>2. (pc[i] \notin Ended => (i \in crossed => i \in crossed')) /\ (clash => clash')
  BY <1>1, GotoEffect, History DEF IInv
<1>3. DOMAIN asked = SignIns /\ file \in Files
  BY DEF Memory, Cells
<1>4. CASE Begin(i)
  BY <1>3, <1>4 DEF Begin
<1>5. CASE Search(i)
  <2> DEFINE s == conf[i].groups
  <2>1. pc[i] = "search" /\ pc[i] \notin Ended
    BY <1>5, Places DEF Search
  <2>2. PICK half \in SUBSET (Racing(s.arr) \cap 1..s.len) :
           asked'[i] = {IF k \in half THEN Torn ELSE heap[s.arr][k] : k \in 1..s.len}
    BY <1>3, <1>5 DEF Search
  <2>3. CASE ~clash /\ half = {}
    <3>1. heap \in [ArrayIds -> Seq(Wholes)] /\ half \in SUBSET (1..s.len)
      BY <2>3 DEF Untorn
    <3>2. asked'[i] \subseteq Wholes \cup {k \in {Torn} : half # {}}
      BY <2>2, <3>1, Asked
    <3> QED
      BY <1>3, <2>3, <3>2, Names
  <2>4. half # {} => i \in crossed
    BY <2>1, CalmSearch DEF IInv
  <2> QED
    BY <1>2, <2>1, <2>3, <2>4
<1>6. CASE ~Begin(i) /\ ~Search(i)
  <2>1. asked' = asked /\ pc[i] \notin Ended
    BY <1>6, Places DEF GetRepoAuth, GetUser, FieldGiven, FieldBlank, WriteField, NoGroups,
       AppendGroups, StoreGroups, SortBegins, InOrder, OutOfOrder, FrontBegins, Duplicate, Distinct,
       OutOfRange, StoreFirst, StoreSecond, Truncate, CopyConf, Connect, Unreachable, Fault, Chokes,
       Swaps, Swapped
  <2> QED
    BY <1>2, <2>1 DEF Untorn
<1> QED
  BY <1>4, <1>5, <1>6

LEMMA UntornStep ==
    ASSUME IInv, Memory, Sole, Untorn, NEW i \in SignIns,
           GetRepoAuth(i) \/ GetUser(i) \/ Fault(i) \/ Chokes(i)
    PROVE  Untorn'
<1>1. PICK state \in Active \cup Ended :
         /\ Goto(i, state)
         /\ pc[i] \notin Filling => UNCHANGED heap
         /\ \A j \in SignIns : j # i => sort'[j] = sort[j] /\ asked'[j] = asked[j]
  BY Walks
<1>2. /\ file' = file /\ (clash => clash') /\ Sole'
      /\ \A j \in SignIns : j # i => pc'[j] = pc[j] /\ (j \in crossed => j \in crossed')
  BY <1>1, GotoEffect, History DEF IInv
<1>3. Wholes' = Wholes
  BY <1>2 DEF Wholes, Named
<1>4. ASSUME ~clash'
      PROVE  /\ heap' \in [ArrayIds -> Seq(Wholes)] /\ sort' \in [SignIns -> Registers(Wholes)]
             /\ \A j \in SignIns : Untouched(pc'[j], sort'[j], heap'[sort'[j].arr])
  <2>0. ~clash
    BY <1>2, <1>4
  <2>1. heap' \in [ArrayIds -> Seq(Wholes)]
    BY <2>0, WholeArrays
  <2>2. sort' \in [SignIns -> Registers(Wholes)] /\ Untouched(pc'[i], sort'[i], heap'[sort'[i].arr])
    BY <2>0, WholeRegisters
  <2>3. ASSUME NEW j \in SignIns, j # i
        PROVE  Untouched(pc'[j], sort'[j], heap'[sort'[j].arr])
    <3>1. pc'[j] = pc[j] /\ sort'[j] = sort[j] /\ Untouched(pc[j], sort[j], heap[sort[j].arr])
      BY <1>1, <1>2, <2>0, <2>3 DEF Untorn
    <3>2. CASE pc[j] \in Filling
      <4>1. heap' = heap
        BY <1>1, <2>0, <2>3, <3>2 DEF Sole
      <4> QED
        BY <3>1, <4>1
    <3>3. CASE pc[j] \notin Filling
      BY <3>1, <3>3 DEF Untouched, Filling, Swaps, Swapped
    <3> QED
      BY <3>2, <3>3
  <2> QED
    BY <2>1, <2>2, <2>3
<1>5. ASSUME NEW j \in SignIns, Torn \in asked'[j]
      PROVE  j \in crossed' \/ clash'
  BY <1>1, <1>2, <1>5, WholeAsks DEF Untorn
<1> QED
  BY <1>3, <1>4, <1>5, Zenon DEF Untorn

\* Nothing of the record changes next to a sign-in that meets nobody.
LEMMA Apart ==
    ASSUME IInv, Memory, Sole, NEW i \in SignIns, GetRepoAuth(i) \/ GetUser(i) \/ Fault(i) \/ Chokes(i),
           NEW j \in SignIns, j # i, pc'[j] \in Active,
           j \notin crossed' \/ (~clash' /\ pc'[j] \in Filling)
    PROVE  /\ pc[i] \notin Filling /\ pc'[i] \notin Filling
           /\ UNCHANGED <<field, groups, heap, file>>
<1>1. PICK state \in Active \cup Ended :
         Goto(i, state) /\ (pc[i] \notin Filling => UNCHANGED <<field, groups, heap>>)
  BY Walks
<1>2. /\ pc'[j] = pc[j] /\ pc' \in [SignIns -> Active \cup Ended] /\ Met' /\ file' = file
      /\ j \in crossed => j \in crossed'
  BY <1>1, GotoEffect DEF IInv
<1>3. Sole' /\ (clash => clash')
  BY <1>1, History
<1>4. pc'[i] \notin Filling
  <2>1. CASE j \notin crossed'
    BY <1>2, <2>1 DEF Met
  <2>2. CASE ~clash' /\ pc'[j] \in Filling
    BY <1>3, <2>2 DEF Sole
  <2> QED
    BY <2>1, <2>2
<1>5. pc[i] \notin Filling
  <2>1. CASE j \notin crossed'
    BY <1>2, <2>1 DEF IInv, Met
  <2>2. CASE ~clash' /\ pc'[j] \in Filling
    BY <1>2, <1>3, <2>2 DEF Sole
  <2> QED
    BY <2>1, <2>2
<1> QED
  BY <1>1, <1>2, <1>4, <1>5

LEMMA InitSteady == Init => Steady
<1> SUFFICES ASSUME Init PROVE Steady
  OBVIOUS
<1>1. /\ \A i \in SignIns : pc[i] = "idle"
      /\ clash = FALSE /\ field = Given(file.own, "own")
  BY DEF Init
<1>2. \A i \in SignIns : pc[i] \notin Filling
  BY <1>1, Places
<1>3. Sole
  BY <1>1, <1>2 DEF Sole
<1>4. Bare
  BY <1>1, <1>2 DEF Bare, Checked
<1>5. \A i \in SignIns : (Lone(i) => Current(i)) /\ Panics(i)
  BY <1>1, <1>2 DEF Lone, Panics
<1> QED
  BY <1>3, <1>4, <1>5, InitUntorn DEF Steady

\* The registers of the sign-in that goes on.
LEMMA CurrentSelf ==
    ASSUME IInv, Memory, Steady, NEW i \in SignIns, GetRepoAuth(i) \/ GetUser(i) \/ Fault(i) \/ Chokes(i),
           Lone(i)'
    PROVE  Current(i)'
<1>1. PICK state \in Active \cup Ended : Goto(i, state)
  BY Walks
<1>2. pc'[i] = state /\ (pc[i] \notin Ended => (i \in crossed => i \in crossed')) /\ (clash => clash')
  BY <1>1, GotoEffect, History DEF IInv, Steady
<1>3. pc[i] \in Filling => Current(i) /\ pc[i] \notin Ended
  <2>1. pc[i] \in Filling => pc[i] \notin Ended
    BY Places
  <2>2. pc[i] \in Filling => Lone(i)
    BY <1>2, <2>1 DEF Lone
  <2> QED
    BY <2>1, <2>2 DEF Steady
<1>4. /\ groups.len \in Nat /\ groups.len <= Len(heap[groups.arr])
      /\ sort \in [SignIns -> Registers(Words)] /\ sort[i] \in Registers(Words)
      /\ sort[i].n \in Nat /\ sort[i].i \in Nat /\ sort[i].j \in Nat
      /\ Placed(pc[i], sort[i])
      /\ pc[i] \in Filling \ {"write", "append"} => groups.len # 0
  BY DEF Memory, Cells, Holds, Registers, Slices
<1>5. CASE pc'[i] \notin {"less", "distinct", "truncate"} \cup Swaps \cup Swapped
  BY <1>5 DEF Current
<1>6. CASE SortBegins(i)
  <2>1. sort'[i].n = groups.len /\ groups' = groups
    BY <1>4, <1>6 DEF SortBegins, memory, Registers
  <2>2. pc'[i] \in {"front", "less"}
    BY <1>1, <1>6, GotoEffect, Places DEF SortBegins, IInv
  <2> QED
    BY <2>1, <2>2 DEF Current, Swaps, Swapped
<1>7. CASE InOrder(i)
  <2>1. sort'[i].n = sort[i].n /\ groups' = groups /\ pc[i] = "less"
    BY <1>4, <1>7 DEF InOrder, Compare, memory, Registers
  <2>2. sort[i].n = groups.len
    BY <1>3, <2>1, Places DEF Current
  <2>3. pc'[i] \in {"front", "less"}
    BY <1>7, GotoEffect, Places DEF InOrder, Compare, IInv
  <2> QED
    BY <2>1, <2>2, <2>3 DEF Current, Swaps, Swapped
<1>8. CASE OutOfOrder(i)
  <2>1. sort'[i].n = sort[i].n /\ sort'[i].arr = groups.arr /\ groups' = groups /\ pc[i] = "less"
    BY <1>4, <1>8 DEF OutOfOrder, memory, Registers
  <2>2. sort[i].n = groups.len
    BY <1>3, <2>1, Places DEF Current
  <2>3. pc'[i] = "swap"
    BY <1>8, GotoEffect, Places DEF OutOfOrder, IInv
  <2> QED
    BY <2>1, <2>2, <2>3 DEF Current
<1>9. CASE FrontBegins(i)
  <2>1. sort'[i].n = groups.len /\ sort'[i].i = 1 /\ groups' = groups /\ pc[i] = "front"
    BY <1>4, <1>9 DEF FrontBegins, memory, Registers
  <2>2. groups.len >= 1
    BY <1>4, <2>1, Places
  <2>3. pc'[i] \in {"truncate", "distinct"}
    BY <1>9, GotoEffect, Places DEF FrontBegins, IInv
  <2> QED
    BY <2>1, <2>2, <2>3 DEF Current, Swaps, Swapped
<1>10. CASE Duplicate(i)
  <2>1. sort'[i].n = sort[i].n /\ sort'[i].i = sort[i].i /\ groups' = groups /\ pc[i] = "distinct"
    BY <1>4, <1>10 DEF Duplicate, CompareKept, memory, Registers
  <2>2. sort[i].n = groups.len
    BY <1>3, <2>1, Places DEF Current
  <2>3. sort[i].i <= groups.len
    BY <1>4, <2>1, <2>2 DEF Placed
  <2>4. pc'[i] \in {"truncate", "distinct"}
    BY <1>10, GotoEffect, Places DEF Duplicate, CompareKept, IInv
  <2> QED
    BY <2>1, <2>2, <2>3, <2>4 DEF Current, Swaps, Swapped
<1>11. CASE Distinct(i)
  <2>1. sort'[i].n = sort[i].n /\ sort'[i].arr = groups.arr /\ groups' = groups /\ pc[i] = "distinct"
    BY <1>4, <1>11 DEF Distinct, memory, Registers
  <2>2. sort[i].n = groups.len
    BY <1>3, <2>1, Places DEF Current
  <2>3. pc'[i] = "keep"
    BY <1>11, GotoEffect, Places DEF Distinct, IInv
  <2> QED
    BY <2>1, <2>2, <2>3 DEF Current
<1>12. CASE StoreFirst(i)
  <2>1. sort' = sort /\ groups' = groups /\ pc[i] \in Swaps
    BY <1>12 DEF StoreFirst
  <2>2. sort[i].n = groups.len /\ sort[i].arr = groups.arr
    BY <1>3, <2>1, Places DEF Current, Swaps
  <2>3. pc'[i] \in Swapped
    BY <1>12, GotoEffect, Places DEF StoreFirst, Swapped, IInv
  <2> QED
    BY <2>1, <2>2, <2>3 DEF Current, Swapped
<1>13. CASE StoreSecond(i) /\ pc[i] = "swap2"
  <2>1. Compare(i, sort[i].i, sort[i].j - 1) /\ groups' = groups
    BY <1>13 DEF StoreSecond
  <2>2. sort'[i].n = sort[i].n
    BY <1>4, <2>1 DEF Compare, Registers
  <2>3. sort[i].n = groups.len
    BY <1>3, <1>13, Places DEF Current, Swapped
  <2>4. pc'[i] \in {"front", "less"}
    BY <2>1, GotoEffect, Places DEF Compare, IInv
  <2> QED
    BY <2>1, <2>2, <2>3, <2>4 DEF Current, Swaps, Swapped
<1>14. CASE StoreSecond(i) /\ pc[i] # "swap2"
  <2>1. CompareKept(i, sort[i].i) /\ groups' = groups /\ pc[i] = "keep2"
    BY <1>14 DEF StoreSecond, Swapped
  <2>2. sort'[i].n = sort[i].n /\ sort'[i].i = sort[i].i
    BY <1>4, <2>1 DEF CompareKept, Registers
  <2>3. sort[i].n = groups.len
    BY <1>3, <2>1, Places DEF Current, Swapped
  <2>4. sort[i].i <= groups.len
    BY <1>4, <2>1, <2>3 DEF Placed
  <2>5. pc'[i] \in {"truncate", "distinct"}
    BY <2>1, GotoEffect, Places DEF CompareKept, IInv
  <2> QED
    BY <2>1, <2>2, <2>3, <2>4, <2>5 DEF Current, Swaps, Swapped
<1>15. CASE \/ Begin(i) \/ FieldGiven(i) \/ FieldBlank(i) \/ WriteField(i)
            \/ NoGroups(i) \/ AppendGroups(i) \/ StoreGroups(i) \/ Truncate(i) \/ OutOfRange(i)
            \/ GetUser(i) \/ Fault(i) \/ Chokes(i)
  <2>1. \E to \in (Active \cup Ended) \ ({"less", "distinct", "truncate"} \cup Swaps \cup Swapped) :
           Goto(i, to)
    <3>1. {"write", "append", "store", "len"} \cap
             ({"less", "distinct", "truncate"} \cup Swaps \cup Swapped) = {}
          /\ ({"check", "copy", "connect", "search"} \cup Ended) \cap
             ({"less", "distinct", "truncate"} \cup Swaps \cup Swapped) = {}
      BY DEF Swaps, Swapped, Ended
    <3> QED
      BY <1>15, <3>1, Places DEF Begin, FieldGiven, FieldBlank, WriteField, NoGroups, AppendGroups,
         StoreGroups, Truncate, OutOfRange, GetUser, CopyConf, Connect, Unreachable, Search, Fault, Chokes
  <2> QED
    BY <1>5, <2>1, GotoEffect DEF IInv
<1> QED
  BY <1>6, <1>7, <1>8, <1>9, <1>10, <1>11, <1>12, <1>13, <1>14, <1>15 DEF GetRepoAuth

\* A section with all its fields is complete.
LEMMA Complete ==
    ASSUME file \in Files, field = Given(file.own, "own"), file.own # NoSection,
           \A f \in Fields : field[f] # "blank"
    PROVE  ~Incomplete
<1>1. file.own.given \subseteq Fields
  BY FilesAssumption
<1>2. \A f \in Fields : f \in file.own.given
  BY DEF Given
<1> QED
  BY <1>1, <1>2 DEF Incomplete

\* Who has checked all fields has seen none that is blank.
LEMMA AllChecked ==
    ASSUME IInv, NEW i \in SignIns, FieldGiven(i), step[i] = 3, Checked(i)
    PROVE  \A f \in Fields : field[f] # "blank"
<1>1. /\ field[Checks[1]] # "blank" /\ field[Checks[2]] # "blank" /\ field[Checks[3]] # "blank"
  BY DEF FieldGiven, Checked
<1> QED
  BY <1>1, Sections DEF Checks

\* A field that is checked and given stays noted.
LEMMA CheckedOn ==
    ASSUME IInv, NEW i \in SignIns, FieldGiven(i), Checked(i)
    PROVE  Checked(i)'
<1>1. step[i] \in 1..3 /\ step \in [SignIns -> 1..3]
  BY DEF IInv, Typed
<1>2. /\ field' = field /\ field[Checks[step[i]]] # "blank" /\ pc[i] = "check"
      /\ step'[i] = IF step[i] = 3 THEN 1 ELSE step[i] + 1
  BY <1>1 DEF FieldGiven, memory
<1>3. CASE step[i] = 3
  BY <1>2, <1>3 DEF Checked
<1>4. CASE step[i] # 3
  <2>1. \A s \in 1..step'[i] - 1 : s \in 1..step[i] - 1 \/ s = step[i]
    BY <1>1, <1>2, <1>4
  <2> QED
    BY <1>2, <2>1 DEF Checked
<1> QED
  BY <1>3, <1>4

\* Checked(i) after any step of i.
LEMMA CheckedSelf ==
    ASSUME IInv, Memory, NEW i \in SignIns, GetRepoAuth(i) \/ GetUser(i) \/ Fault(i) \/ Chokes(i), Checked(i)
    PROVE  Checked(i)'
<1>1. CASE FieldGiven(i)
  BY <1>1, CheckedOn
<1>2. CASE Begin(i)
  <2>1. step'[i] = 1
    BY <1>2 DEF Begin, IInv, Typed
  <2> QED
    BY <2>1 DEF Checked
<1>3. CASE ~FieldGiven(i) /\ ~Begin(i)
  <2>1. \E to \in (Active \cup Ended) \ {"check"} : Goto(i, to)
    <3>1. "check" \notin Ended /\ "check" \notin Filling
      BY Places
    <3> QED
      BY <1>3, <3>1, Places DEF GetRepoAuth, GetUser, FieldBlank, WriteField, NoGroups, AppendGroups,
         StoreGroups, SortBegins, InOrder, OutOfOrder, FrontBegins, Duplicate, Distinct, OutOfRange,
         StoreFirst, StoreSecond, Compare, CompareKept, Truncate, CopyConf, Connect, Unreachable,
         Search, Fault, Chokes
  <2> QED
    BY <2>1, GotoEffect DEF IInv, Checked
<1> QED
  BY <1>1, <1>2, <1>3

LEMMA BareStep ==
    ASSUME IInv, Memory, Steady, NEW i \in SignIns, GetRepoAuth(i) \/ GetUser(i) \/ Fault(i) \/ Chokes(i)
    PROVE  Bare'
<1>1. PICK state \in Active \cup Ended :
         /\ Goto(i, state)
         /\ pc[i] \notin Filling => UNCHANGED <<field, groups, heap>>
         /\ \A j \in SignIns : j # i => step'[j] = step[j]
  BY Walks
<1>2. /\ pc'[i] = state /\ file' = file /\ \A j \in SignIns : j # i => pc'[j] = pc[j]
  BY <1>1, GotoEffect DEF IInv
<1> SUFFICES ASSUME file.def = NoSection
             PROVE  /\ field' = Given(file.own, "own")
                    /\ \A j \in SignIns : pc'[j] \notin Filling /\ Checked(j)'
                    /\ Incomplete => \A j \in SignIns : pc'[j] \in {"check", "idle", "panic", "lost"}
  BY <1>2 DEF Bare, Incomplete
<1>3. /\ field = Given(file.own, "own")
      /\ \A j \in SignIns : pc[j] \notin Filling /\ Checked(j)
      /\ Incomplete => \A j \in SignIns : pc[j] \in {"check", "idle", "panic", "lost"}
  BY DEF Steady, Bare
<1>4. field' = field
  BY <1>1, <1>3
<1>5. ASSUME NEW j \in SignIns
      PROVE  Checked(j)'
  <2>1. CASE j = i
    BY <1>3, <2>1, CheckedSelf
  <2>2. CASE j # i
    BY <1>1, <1>2, <1>3, <1>4, <2>2 DEF Checked
  <2> QED
    BY <2>1, <2>2
<1>6. \/ Begin(i) \/ FieldGiven(i) \/ FieldBlank(i) \/ CopyConf(i) \/ Connect(i) \/ Unreachable(i)
      \/ Search(i) \/ (Fault(i) /\ pc[i] = "copy") \/ (Chokes(i) /\ pc[i] = "search")
  <2>1. pc[i] \notin Filling
    BY <1>3
  <2>2. pc[i] \notin {"write", "append", "store", "len", "less", "front", "distinct", "truncate",
                      "swap", "keep", "swap2", "keep2"}
    BY <2>1, Places
  <2>3. ~WriteField(i) /\ ~NoGroups(i) /\ ~AppendGroups(i) /\ ~StoreGroups(i) /\ ~Truncate(i)
    BY <2>2 DEF WriteField, NoGroups, AppendGroups, StoreGroups, Truncate
  <2>4. ~SortBegins(i) /\ ~InOrder(i) /\ ~OutOfOrder(i) /\ ~FrontBegins(i) /\ ~Duplicate(i)
        /\ ~Distinct(i) /\ ~OutOfRange(i) /\ ~StoreFirst(i) /\ ~StoreSecond(i)
    BY <2>2 DEF SortBegins, InOrder, OutOfOrder, FrontBegins, Duplicate, Distinct, OutOfRange,
       StoreFirst, StoreSecond, Swaps, Swapped
  <2>5. (Fault(i) => pc[i] = "copy") /\ (Chokes(i) => pc[i] = "search")
    BY <2>2 DEF Fault, Chokes
  <2> QED
    BY <2>3, <2>4, <2>5 DEF GetRepoAuth, GetUser
<1>7. pc'[i] \notin Filling
  <2>1. \E to \in (Active \cup Ended) \ Filling : Goto(i, to)
    BY <1>6, Places DEF Begin, FieldGiven, FieldBlank, CopyConf, Connect, Unreachable, Search, Fault, Chokes
  <2> QED
    BY <2>1, GotoEffect DEF IInv
<1>8. ASSUME Incomplete
      PROVE  pc'[i] \in {"check", "idle", "panic", "lost"}
  <2>1. pc[i] \in {"check", "idle", "panic", "lost"} /\ file.own # NoSection
    BY <1>3, <1>8 DEF Incomplete
  <2>2. CASE Begin(i)
    <3>1. Goto(i, "check")
      BY <2>1, <2>2 DEF Begin
    <3> QED
      BY <3>1, GotoEffect, Places DEF IInv
  <2>3. CASE FieldBlank(i)
    <3>1. Goto(i, "panic")
      BY <2>3 DEF FieldBlank
    <3> QED
      BY <3>1, GotoEffect, Places DEF IInv
  <2>4. CASE FieldGiven(i)
    <3>1. step[i] # 3
      BY <1>3, <1>8, <2>1, <2>4, AllChecked, Complete DEF Memory, Cells
    <3>2. Goto(i, "check")
      BY <2>4, <3>1 DEF FieldGiven
    <3> QED
      BY <3>2, GotoEffect, Places DEF IInv
  <2>5. ~CopyConf(i) /\ ~Connect(i) /\ ~Unreachable(i) /\ ~Search(i) /\ ~Fault(i) /\ ~Chokes(i)
    BY <2>1 DEF CopyConf, Connect, Unreachable, Search, Fault, Chokes
  <2> QED
    BY <1>6, <2>2, <2>3, <2>4, <2>5
<1> QED
  BY <1>2, <1>3, <1>4, <1>5, <1>7, <1>8

\* Who comes upon half a name met somebody, or two have met before.
LEMMA Choked ==
    ASSUME IInv, Memory, Steady, NEW i \in SignIns, Chokes(i)
    PROVE  i \in crossed \/ clash
<1> SUFFICES ASSUME i \notin crossed, ~clash PROVE FALSE
  OBVIOUS
<1>1. /\ heap \in [ArrayIds -> Seq(Wholes)] /\ file \in Files /\ Sole /\ Met
      /\ groups.arr \in ArrayIds /\ groups.len \in Nat /\ groups.len <= Len(heap[groups.arr])
      /\ Placed(pc[i], sort[i]) /\ sort[i].n \in Nat /\ sort[i].i \in Nat /\ sort[i].j \in Nat
      /\ conf[i].groups.arr \in ArrayIds /\ conf[i].groups.len \in Nat
      /\ conf[i].groups.len <= Len(heap[conf[i].groups.arr])
  BY Arrayed DEF Steady, Untorn, Memory, Cells, Holds, Slices, Registers, IInv
<1>2. /\ Torn \notin Wholes
      /\ \A a \in ArrayIds : Len(heap[a]) \in Nat
      /\ \A a \in ArrayIds : \A k \in 1..Len(heap[a]) : heap[a][k] \in Wholes
  BY <1>1, Names, ElementOfSeq, LenProperties
<1>3. CASE pc[i] \in {"less", "distinct"}
  <2>1. \A k : Readings(groups.arr, k) = {heap[groups.arr][k]}
    BY <1>1, <1>3, Calm DEF Filling, Swaps, Swapped
  <2>2. PICK k \in {sort[i].j - 1, sort[i].j, sort[i].i} :
           /\ Torn \in Readings(groups.arr, k) /\ sort[i].j <= groups.len
           /\ pc[i] = "less" => k \in {sort[i].j - 1, sort[i].j}
           /\ pc[i] = "distinct" => k \in {sort[i].i, sort[i].j}
    BY <1>3 DEF Chokes
  <2>3. k \in 1..Len(heap[groups.arr])
    BY <1>1, <1>2, <1>3, <2>2 DEF Placed
  <2> QED
    BY <1>1, <1>2, <2>1, <2>2, <2>3
<1>4. CASE pc[i] = "search"
  <2>1. PICK k \in 1..conf[i].groups.len : Torn \in Readings(conf[i].groups.arr, k)
    BY <1>4 DEF Chokes
  <2>2. Racing(conf[i].groups.arr) = {}
    BY <1>1, <1>4, CalmSearch
  <2>3. k \in 1..Len(heap[conf[i].groups.arr])
    BY <1>1, <1>2
  <2> QED
    BY <1>1, <1>2, <2>1, <2>2, <2>3 DEF Readings
<1> QED
  BY <1>3, <1>4 DEF Chokes

\* Who comes to the check, to a panic and to a half name.
LEMMA Arrives ==
    ASSUME IInv, NEW i \in SignIns, GetRepoAuth(i) \/ GetUser(i) \/ Fault(i) \/ Chokes(i)
    PROVE  /\ pc'[i] = "check" => Begin(i) \/ FieldGiven(i)
           /\ pc'[i] = "panic" => FieldBlank(i) \/ OutOfRange(i) \/ Fault(i)
           /\ pc'[i] = "choked" => Chokes(i)
<1>1. CASE Begin(i) \/ FieldGiven(i)
  <2>1. \E state \in {"check", "copy", "noauth"} : Goto(i, state)
    BY <1>1 DEF Begin, FieldGiven
  <2> QED
    BY <1>1, <2>1, GotoEffect, Places DEF IInv
<1>2. CASE FieldBlank(i) \/ OutOfRange(i) \/ Fault(i)
  <2>1. \E state \in {"panic", "write"} : Goto(i, state)
    BY <1>2 DEF FieldBlank, OutOfRange, Fault
  <2> QED
    BY <1>2, <2>1, GotoEffect, Places DEF IInv
<1>3. CASE Chokes(i)
  <2>1. Goto(i, "choked")
    BY <1>3 DEF Chokes
  <2> QED
    BY <1>3, <2>1, GotoEffect, Places DEF IInv
<1> DEFINE elsewhere == (Filling \cup {"copy", "connect", "search", "ok", "refused"})
<1>4. ASSUME \E state \in elsewhere : Goto(i, state)
      PROVE  pc'[i] \notin {"check", "panic", "choked"}
  <2>1. elsewhere \subseteq Active \cup Ended /\ elsewhere \cap {"check", "panic", "choked"} = {}
    BY Places
  <2> QED
    BY <1>4, <2>1, GotoEffect DEF IInv
<1>5. CASE WriteField(i) \/ NoGroups(i) \/ StoreGroups(i) \/ SortBegins(i) \/ FrontBegins(i)
           \/ Truncate(i) \/ StoreFirst(i)
  <2>1. \E state \in elsewhere : Goto(i, state)
    BY <1>5, Places DEF WriteField, NoGroups, StoreGroups, SortBegins, FrontBegins, Truncate,
       StoreFirst
  <2> QED
    BY <1>4, <2>1
<1>6. CASE InOrder(i) \/ Duplicate(i) \/ StoreSecond(i)
  <2>1. \E state \in elsewhere : Goto(i, state)
    BY <1>6, Places DEF InOrder, Duplicate, StoreSecond, Compare, CompareKept
  <2> QED
    BY <1>4, <2>1
<1>7. CASE AppendGroups(i)
  <2>1. Goto(i, "store")
    BY <1>7 DEF AppendGroups
  <2> QED
    BY <1>4, <2>1, Places
<1>8. CASE OutOfOrder(i)
  <2>1. Goto(i, "swap")
    BY <1>8 DEF OutOfOrder
  <2> QED
    BY <1>4, <2>1, Places
<1>9. CASE Distinct(i)
  <2>1. Goto(i, "keep")
    BY <1>9 DEF Distinct
  <2> QED
    BY <1>4, <2>1, Places
<1>10. CASE GetUser(i)
  <2>1. \E state \in elsewhere : Goto(i, state)
    BY <1>10, Places DEF GetUser, CopyConf, Connect, Unreachable, Search
  <2> QED
    BY <1>4, <2>1
<1> QED
  BY <1>1, <1>2, <1>3, <1>5, <1>6, <1>7, <1>8, <1>9, <1>10 DEF GetRepoAuth

LEMMA PanicsStep ==
    ASSUME IInv, Memory, Steady, NEW i \in SignIns, GetRepoAuth(i) \/ GetUser(i) \/ Fault(i) \/ Chokes(i),
           NEW j \in SignIns
    PROVE  Panics(j)'
<1>1. PICK state \in Active \cup Ended : Goto(i, state)
  BY Walks
<1>2. /\ pc'[i] = state /\ file' = file /\ \A k \in SignIns : k # i => pc'[k] = pc[k]
      /\ \A k \in crossed : (k = i => pc[i] \notin Ended) => k \in crossed'
  BY <1>1, GotoEffect DEF IInv
<1>3. Incomplete' = Incomplete /\ (clash => clash')
  BY <1>1, <1>2, History DEF Incomplete, Steady
<1>4. CASE j # i
  BY <1>2, <1>3, <1>4 DEF Steady, Panics
<1>5. CASE j = i /\ state = "check"
  <2>1. Begin(i) \/ FieldGiven(i)
    BY <1>2, <1>5, Arrives
  <2>2. CASE Begin(i)
    BY <1>2, <1>3, <1>5, <2>2, GotoEffect, Places DEF Begin, Panics, IInv
  <2>3. CASE FieldGiven(i)
    BY <1>2, <1>5, <2>3 DEF FieldGiven, Panics, Steady
  <2> QED
    BY <2>1, <2>2, <2>3
<1>6. CASE j = i /\ state = "panic"
  <2>1. FieldBlank(i) \/ OutOfRange(i) \/ Fault(i)
    BY <1>2, <1>6, Arrives
  <2>2. CASE FieldBlank(i)
    <3>1. /\ pc[i] = "check" /\ step[i] \in 1..3 /\ field[Checks[step[i]]] = "blank"
          /\ file.own # NoSection
      BY <2>2 DEF FieldBlank, IInv, Typed, Steady, Panics
    <3>2. file.def = NoSection
      <4>1. file.def # NoSection => Goto(i, "write")
        BY <2>2 DEF FieldBlank
      <4>2. file.def # NoSection => pc'[i] = "write"
        BY <4>1, GotoEffect, Places DEF IInv
      <4> QED
        BY <1>2, <1>6, <4>2
    <3>3. Checks[step[i]] \in Fields
      BY <3>1, Sections DEF Checks
    <3>4. file.own.given # Fields
      BY <3>1, <3>2, <3>3 DEF Steady, Bare, Given
    <3> QED
      BY <1>2, <1>3, <1>6, <3>1, <3>2, <3>4 DEF Incomplete, Panics
  <2>3. CASE OutOfRange(i)
    <3>1. /\ pc[i] \in {"less", "distinct", "truncate"}
          /\ pc[i] \in {"less", "distinct"} => sort[i].j > groups.len
          /\ pc[i] = "truncate" => sort[i].i > Len(heap[groups.arr])
      BY <2>3 DEF OutOfRange
    <3>2. /\ Placed(pc[i], sort[i]) /\ groups.len \in Nat /\ groups.len <= Len(heap[groups.arr])
          /\ sort[i].n \in Nat /\ sort[i].i \in Nat /\ sort[i].j \in Nat
          /\ Len(heap[groups.arr]) \in Nat
      BY Arrayed, LenProperties DEF Memory, Cells, Holds, Registers, Slices
    <3>3. ~Current(i)
      BY <3>1, <3>2 DEF Current, Placed
    <3>4. pc[i] \in Filling /\ pc[i] \notin Ended
      BY <3>1, Places
    <3>5. i \in crossed
      BY <3>3, <3>4 DEF Steady, Lone
    <3> QED
      BY <1>2, <1>6, <3>4, <3>5 DEF Panics
  <2>4. CASE Fault(i)
    <3>1. PICK k \in SignIns \ {i} : pc[k] \in {"store", "write"}
      BY <2>4 DEF Fault
    <3>2. pc[k] \in Filling /\ pc[i] \in Active /\ pc[i] \notin Ended
      BY <2>4, <3>1, Places DEF Fault
    <3>3. i \in crossed
      BY <3>1, <3>2 DEF IInv, Met
    <3> QED
      BY <1>2, <1>6, <3>2, <3>3 DEF Panics
  <2> QED
    BY <2>1, <2>2, <2>3, <2>4
<1>7. CASE j = i /\ state \notin {"check", "panic", "choked"}
  BY <1>2, <1>7 DEF Panics
<1>8. CASE j = i /\ state = "choked"
  <2>1. Chokes(i)
    BY <1>2, <1>8, Arrives
  <2>2. i \in crossed \/ clash
    BY <2>1, Choked
  <2>3. pc[i] \notin Ended
    BY <2>1, Places DEF Chokes
  <2> QED
    BY <1>2, <1>3, <1>8, <2>2, <2>3 DEF Panics
<1> QED
  BY <1>4, <1>5, <1>6, <1>7, <1>8

LEMMA SteadyRestarts ==
    ASSUME Memory, Restart
    PROVE  Steady'
<1>1. /\ field' = Given(file.own, "own") /\ clash' = FALSE /\ file' = file
      /\ \A i \in SignIns : pc'[i] \in {"lost", "idle"}
  BY DEF Restart
<1>2. \A i \in SignIns : pc'[i] \notin Filling
  BY <1>1, Places
<1>3. Sole' /\ Bare'
  BY <1>1, <1>2 DEF Sole, Bare, Checked
<1>5. Untorn'
  <2>1. /\ heap' = LoadedHeap(file) /\ sort' = [i \in SignIns |-> NoSort] /\ file \in Files
        /\ asked' = [i \in SignIns |-> {}] /\ Wholes' = Wholes
    BY <1>1 DEF Restart, Memory, Cells, Wholes, Named
  <2>2. heap' \in [ArrayIds -> Seq(Wholes)] /\ sort' \in [SignIns -> Registers(Wholes)]
    BY <2>1, Loaded
  <2> QED
    BY <1>1, <2>1, <2>2 DEF Untorn, Untouched
<1>4. \A i \in SignIns : (Lone(i)' => Current(i)') /\ Panics(i)'
  BY <1>1, <1>2 DEF Lone, Panics
<1> QED
  BY <1>3, <1>4, <1>5 DEF Steady

LEMMA SteadyStep == IInv /\ Memory /\ Steady /\ [Next]_vars => Steady'
<1> SUFFICES ASSUME IInv, Memory, Steady, [Next]_vars PROVE Steady'
  OBVIOUS
<1>1. ASSUME NEW i \in SignIns, GetRepoAuth(i) \/ GetUser(i) \/ Fault(i) \/ Chokes(i)
      PROVE  Steady'
  <2>1. PICK state \in Active \cup Ended :
           Goto(i, state) /\ \A j \in SignIns : j # i => sort'[j] = sort[j]
    BY <1>1, Walks
  <2>2. Sole' /\ (clash => clash')
    BY <2>1, History DEF Steady
  <2>3. Bare'
    BY <1>1, BareStep
  <2>4. \A j \in SignIns : j # i => pc'[j] = pc[j] /\ (j \in crossed => j \in crossed')
    BY <2>1, GotoEffect DEF IInv
  <2>5. ASSUME NEW j \in SignIns, Lone(j)'
        PROVE  Current(j)'
    <3>1. CASE j = i
      BY <1>1, <2>5, <3>1, CurrentSelf
    <3>2. CASE j # i
      <4>1. pc'[j] \in Active /\ (j \notin crossed' \/ (~clash' /\ pc'[j] \in Filling))
        BY <2>5, Places DEF Lone
      <4>2. UNCHANGED <<field, groups, heap, file>>
        BY <1>1, <3>2, <4>1, Apart DEF Steady
      <4>3. Lone(j)
        BY <2>2, <2>4, <2>5, <3>2 DEF Lone
      <4>4. Current(j)
        BY <4>3 DEF Steady
      <4> QED
        BY <2>1, <2>4, <3>2, <4>2, <4>4 DEF Current
    <3> QED
      BY <3>1, <3>2
  <2>7. Untorn'
    BY <1>1, UntornStep DEF Steady
  <2>6. \A j \in SignIns : Panics(j)'
    BY <1>1, PanicsStep
  <2> QED
    BY <2>2, <2>3, <2>5, <2>6, <2>7 DEF Steady
<1>2. CASE UNCHANGED vars
  <2>1. Untorn'
    BY <1>2 DEF vars, Steady, Untorn, Untouched, Wholes, Named
  <2> QED
    BY <1>2, <2>1 DEF vars, Steady, Sole, Bare, Checked, Incomplete, Lone, Current, Panics
<1> QED
  BY <1>1, <1>2, SteadyRestarts DEF Next

\* Whoever meets nobody works on the record as it is, and panics only for want
\* of a default section.  Until two fill the record at once no element is read
\* or stored in halves by those who sort, compact and copy the groups.
THEOREM SteadyInvariant == Spec => []Steady
BY InitSteady, SteadyStep, InitMemory, MemoryStep, InitIInv, IInvStep, PTL DEF Spec

----------------------------------------------------------------------------
\* TypeOK: every variable keeps its type; the slices lie within their arrays,
\* whatever was filled, sorted and cut at once.
THEOREM TypeCorrect == Spec => []TypeOK
<1>1. IInv /\ Memory /\ Steady => TypeOK
  <2> SUFFICES ASSUME IInv, Memory, Steady PROVE TypeOK
    OBVIOUS
  <2>1. /\ file \in Files /\ Words \subseteq Groups \cup {0, Torn}
        /\ heap \in [ArrayIds -> Seq(Words)]
    BY Names DEF Memory, Cells, Words, Wholes
  <2>2. groups.arr \in ArrayIds /\ groups.len \in 0..Len(heap[groups.arr])
    <3>1. groups.arr \in ArrayIds /\ groups.len \in Nat /\ groups.len <= Len(heap[groups.arr])
      BY Arrayed DEF Memory, Cells, Slices
    <3>2. Len(heap[groups.arr]) \in Nat
      BY <2>1, <3>1, LenProperties
    <3> QED
      BY <3>1, <3>2
  <2>3. \A a \in ArrayIds : heap[a] \in Seq(Groups \cup {0, Torn})
    BY <2>1, SeqMonotonic
  <2>4. \A i \in SignIns : {sort[i].a, sort[i].b} \subseteq Groups \cup {0, Torn}
    BY <2>1 DEF Memory, Cells, Registers
  <2>5. ASSUME NEW i \in SignIns
        PROVE  conf[i].groups.len \in 0..Len(heap[conf[i].groups.arr])
    <3>1. /\ conf[i].groups.arr \in ArrayIds /\ conf[i].groups.len \in Nat
          /\ conf[i].groups.len <= Len(heap[conf[i].groups.arr])
      BY DEF Memory, Holds, Slices
    <3>2. Len(heap[conf[i].groups.arr]) \in Nat
      BY <2>1, <3>1, LenProperties
    <3> QED
      BY <3>1, <3>2
  <2>6. \A i \in SignIns : asked[i] \subseteq Groups \cup {Torn, 0}
    BY <2>1 DEF Memory
  <2> QED
    BY <2>1, <2>2, <2>3, <2>4, <2>5, <2>6 DEF TypeOK, IInv, Typed, Steady, Sole
<1> QED
  BY <1>1, InductiveInvariant, MemoryInvariant, SteadyInvariant, PTL

\* PanicsExplained: without a default section for an incomplete one no sign-in
\* comes further than the check, and any other panic is of a sign-in that met
\* another one filling the record, or came upon half a name that two who filled
\* it at once have left.
THEOREM PanicsOnlySo == Spec => []PanicsExplained
<1>1. Steady => PanicsExplained
  <2> SUFFICES ASSUME Steady, NEW i \in SignIns
               PROVE  /\ pc[i] = "panic" => (Incomplete /\ file.def = NoSection) \/ i \in crossed
                      /\ pc[i] = "choked" => i \in crossed \/ clash
                      /\ Incomplete /\ file.def = NoSection =>
                            pc[i] \in Ended \cup {"check"} /\ pc[i] \notin {"ok", "refused"}
    BY DEF PanicsExplained
  <2>1. Panics(i) /\ Bare
    BY DEF Steady
  <2> QED
    BY <2>1, Places DEF Panics, Bare
<1> QED
  BY <1>1, SteadyInvariant, PTL

----------------------------------------------------------------------------
(***************************************************************************)
(* The groups, as long as no two sign-ins filled the record at once: what  *)
(* is true of the list between the steps of unique.Strings.                *)
(***************************************************************************)

\* Of a list g: each value of V is in one of the places; the values rise from
\* place to place; the first k are in order and distinct.
Covers(V, g, places) == \A v \in V : \E p \in places : g[p] = v
Rises(g, places) == \A p, q \in places : p < q => g[p] <= g[q]
Climbs(g, k) == \A p, q \in 1..k : p < q => g[p] < g[q]

\* The list g of n elements and the registers r while it is sorted: all but
\* the element at r.j is in order up to r.i; what is at r.j is about to be
\* swapped with what is before it; the first half of the swap is done.
RisesBut(g, k, j) == \A p, q \in 1..k : p < q /\ q # j => g[p] <= g[q]
Comparing(V, g, n, r) == Covers(V, g, 1..n) /\ RisesBut(g, r.i, r.j)
Swapping(V, g, n, r) ==
    Comparing(V, g, n, r) /\ r.a = g[r.j - 1] /\ r.b = g[r.j] /\ r.b < r.a
HalfSwapped(V, g, n, r) ==
    /\ \A v \in V : v = r.b \/ \E p \in 1..n : p # r.j - 1 /\ g[p] = v
    /\ Rises(g, 1..r.i) /\ r.b \in V /\ \A q \in r.j..r.i : r.b <= g[q]
InPlace(V, g, n) == Covers(V, g, 1..n) /\ Rises(g, 1..n)

\* While the distinct elements are moved to the front: those up to r.i are
\* kept, those from r.j on are still to be looked at.
Choosing(V, g, n, r) ==
    /\ Covers(V, g, (1..r.i) \cup (r.j..n))
    /\ Climbs(g, r.i) /\ Rises(g, {r.i} \cup (r.j..n))
Moving(V, g, n, r) ==
    /\ Covers(V, g, (1..r.i - 1) \cup (r.j..n))
    /\ Climbs(g, r.i - 1) /\ Rises(g, {r.i - 1} \cup (r.j..n))
    /\ r.a = g[r.j] /\ r.b = g[r.i] /\ g[r.i - 1] < g[r.j]
HalfMoved(V, g, n, r) ==
    /\ Covers(V, g, (1..r.i) \cup (r.j + 1..n))
    /\ Climbs(g, r.i) /\ Rises(g, {r.i} \cup (r.j + 1..n))
    /\ r.b \in V /\ (r.i = r.j => r.b = g[r.i])
Chosen(V, g, k) == Covers(V, g, 1..k) /\ Climbs(g, k)

\* What the slice s shows is named in the file.
Real(s) == \A k \in 1..s.len : heap[s.arr][k] \in Named

\* The record as it was loaded, and as one sign-in after another leaves it.
Fresh == field = Given(file.own, "own") /\ Shows(groups) = file.own.groups
Filled ==
    /\ Incomplete /\ field = Given(file.def, "def")
    /\ file.own.groups # <<>> => Chosen(Named, Shows(groups), groups.len)

\* How far sign-in i is with the fields.
Writing(i) ==
    /\ pc[i] \in Filling => Incomplete
    /\ pc[i] = "write" =>
          \A s \in 1..step[i] - 1 : field[Writes[s]] = Given(file.def, "def")[Writes[s]]
    /\ pc[i] \in Filling \ {"write"} => field = Given(file.def, "def")

\* How far it is with the groups.
Sorting(i) ==
    LET V == Named
        g == Shows(groups)
        n == groups.len
        r == sort[i]
    IN
    /\ pc[i] \in {"write", "append"} /\ file.own.groups # <<>> =>
          \A v \in V : v \in ToSet(file.def.groups) \/ \E p \in 1..n : g[p] = v
    /\ pc[i] = "store" =>
          /\ \A p \in 1..r.n : heap[r.arr][p] \in V
          /\ \A v \in V : \E p \in 1..r.n : heap[r.arr][p] = v
    /\ pc[i] = "len" => Covers(V, g, 1..n)
    /\ pc[i] = "less" => Comparing(V, g, n, r)
    /\ pc[i] = "swap" => Swapping(V, g, n, r)
    /\ pc[i] = "swap2" => HalfSwapped(V, g, n, r)
    /\ pc[i] = "front" => InPlace(V, g, n)
    /\ pc[i] = "distinct" => Choosing(V, g, n, r)
    /\ pc[i] = "keep" => Moving(V, g, n, r)
    /\ pc[i] = "keep2" => HalfMoved(V, g, n, r)
    /\ pc[i] = "truncate" => Chosen(V, g, r.i)

\* What sign-in i knows of the record when it met nobody filling it.
Sees(i) ==
    /\ Checked(i)
    /\ pc[i] = "copy" /\ file.own # NoSection => ToSet(Shows(groups)) = MeantGroups
    /\ pc[i] \in {"connect", "search"} => ToSet(Shows(conf[i].groups)) = MeantGroups
    /\ asked[i] # {} => asked[i] = MeantGroups

Mine(i) ==
    /\ Writing(i) /\ Sorting(i)
    /\ Real(conf[i].groups) /\ 0 \notin asked[i]
    /\ i \notin crossed => Sees(i)

Whole ==
    /\ (\A i \in SignIns : pc[i] \notin Filling) => Fresh \/ Filled
    /\ Real(groups)
    /\ \A i \in SignIns : Mine(i)

Merging == ~clash => Whole

----------------------------------------------------------------------------
(* What the steps of unique.Strings do to a list.                          *)

\* The element at r.j is in place: so are all up to r.i.
LEMMA InsertDone ==
    ASSUME NEW V \in SUBSET Nat, NEW n \in Nat, NEW g \in [1..n -> V], NEW r,
           r.i \in Nat, r.j \in Nat, 2 <= r.j, r.j <= r.i, r.i <= n,
           Comparing(V, g, n, r), g[r.j - 1] <= g[r.j]
    PROVE  Rises(g, 1..r.i)
<1> SUFFICES ASSUME NEW p \in 1..r.i, NEW q \in 1..r.i, p < q
             PROVE  g[p] <= g[q]
  BY DEF Rises
<1>1. \A k \in 1..n : g[k] \in Nat
  OBVIOUS
<1>2. CASE q # r.j
  BY <1>2 DEF Comparing, RisesBut
<1>3. CASE q = r.j /\ p = r.j - 1
  BY <1>3
<1>4. CASE q = r.j /\ p # r.j - 1
  <2>1. r.j - 1 \in 1..r.i /\ p < r.j - 1 /\ r.j - 1 # r.j
    BY <1>4
  <2>2. g[p] <= g[r.j - 1]
    BY <2>1 DEF Comparing, RisesBut
  <2>3. p \in 1..n /\ q \in 1..n /\ r.j - 1 \in 1..n
    BY <2>1
  <2> QED
    BY <1>1, <1>4, <2>2, <2>3
<1> QED
  BY <1>2, <1>3, <1>4

\* The next element is looked at, or all are in place.
LEMMA InsertNext ==
    ASSUME NEW V, NEW n \in Nat, NEW g, NEW k \in Nat, k <= n, NEW r,
           Covers(V, g, 1..n), Rises(g, 1..k), r.i = k + 1, r.j = k + 1
    PROVE  /\ k + 1 > n => InPlace(V, g, n)
           /\ Comparing(V, g, n, r)
<1>1. k + 1 > n => k = n
  OBVIOUS
<1>2. \A p, q \in 1..k + 1 : p < q /\ q # k + 1 => p \in 1..k /\ q \in 1..k
  OBVIOUS
<1> QED
  BY <1>1, <1>2 DEF InPlace, Comparing, Rises, RisesBut

LEMMA SwapBegun ==
    ASSUME NEW V \in SUBSET Nat, NEW n \in Nat, NEW g \in [1..n -> V], NEW r,
           r.i \in Nat, r.j \in Nat, 2 <= r.j, r.j <= r.i, r.i <= n,
           Swapping(V, g, n, r), NEW h, h = [g EXCEPT ![r.j] = r.a]
    PROVE  HalfSwapped(V, h, n, r)
<1>1. /\ \A k \in 1..n : g[k] \in Nat /\ g[k] \in V
      /\ \A k \in 1..n : h[k] = IF k = r.j THEN g[r.j - 1] ELSE g[k]
      /\ r.j \in 1..n /\ r.j - 1 \in 1..n /\ r.j - 1 # r.j
      /\ r.b = g[r.j] /\ r.b < g[r.j - 1]
  <2>1. r.j \in 1..n /\ r.j - 1 \in 1..n /\ r.j - 1 # r.j
    OBVIOUS
  <2>2. \A k \in 1..n : g[k] \in V
    OBVIOUS
  <2>3. r.a = g[r.j - 1] /\ r.b = g[r.j] /\ r.b < g[r.j - 1]
    BY DEF Swapping
  <2>4. \A k \in 1..n : h[k] = IF k = r.j THEN g[r.j - 1] ELSE g[k]
    BY <2>3
  <2> QED
    BY <2>1, <2>2, <2>3, <2>4
<1>2. Covers(V, g, 1..n) /\ \A p, q \in 1..r.i : p < q /\ q # r.j => g[p] <= g[q]
  BY DEF Swapping, Comparing, RisesBut
<1>3. ASSUME NEW v \in V, v # r.b
      PROVE  \E p \in 1..n : p # r.j - 1 /\ h[p] = v
  <2>1. PICK p \in 1..n : g[p] = v
    BY <1>2 DEF Covers
  <2>2. CASE p = r.j - 1
    BY <1>1, <2>1, <2>2
  <2>3. CASE p # r.j - 1
    <3>1. p # r.j
      BY <1>1, <1>3, <2>1
    <3> QED
      BY <1>1, <2>1, <2>3, <3>1
  <2> QED
    BY <2>2, <2>3
<1>4. ASSUME NEW p \in 1..r.i, NEW q \in 1..r.i, p < q
      PROVE  h[p] <= h[q]
  <2>1. p \in 1..n /\ q \in 1..n
    OBVIOUS
  <2>2. CASE q # r.j /\ p # r.j
    BY <1>1, <1>2, <1>4, <2>1, <2>2
  <2>3. CASE p = r.j
    <3>1. q # r.j /\ r.j - 1 \in 1..r.i /\ r.j - 1 < q
      BY <1>4, <2>3
    <3>2. g[r.j - 1] <= g[q]
      BY <1>2, <3>1
    <3> QED
      BY <1>1, <2>1, <2>3, <3>1, <3>2
  <2>4. CASE q = r.j
    <3>1. p # r.j /\ r.j - 1 \in 1..r.i /\ (p = r.j - 1 \/ p < r.j - 1)
      BY <1>4, <2>4
    <3>2. g[p] <= g[r.j - 1]
      BY <1>1, <1>2, <2>1, <3>1, SMTT(30)
    <3> QED
      BY <1>1, <2>1, <2>4, <3>1, <3>2
  <2> QED
    BY <2>2, <2>3, <2>4
<1>5. ASSUME NEW q \in r.j..r.i
      PROVE  r.b <= h[q]
  <2>1. q \in 1..n /\ q \in 1..r.i
    OBVIOUS
  <2>2. CASE q = r.j
    BY <1>1, <2>2
  <2>3. CASE q # r.j
    <3>1. r.j \in 1..r.i /\ r.j < q
      BY <2>3
    <3>2. g[r.j] <= g[q]
      BY <1>2, <2>1, <2>3, <3>1
    <3> QED
      BY <1>1, <2>1, <2>3, <3>2
  <2> QED
    BY <2>2, <2>3
<1> QED
  BY <1>1, <1>3, <1>4, <1>5 DEF HalfSwapped, Rises

LEMMA SwapEnded ==
    ASSUME NEW V \in SUBSET Nat, NEW n \in Nat, NEW g \in [1..n -> V], NEW r,
           r.i \in Nat, r.j \in Nat, 2 <= r.j, r.j <= r.i, r.i <= n,
           HalfSwapped(V, g, n, r), NEW h, h = [g EXCEPT ![r.j - 1] = r.b]
    PROVE  /\ Covers(V, h, 1..n)
           /\ RisesBut(h, r.i, r.j - 1)
<1>1. /\ \A k \in 1..n : g[k] \in Nat
      /\ \A k \in 1..n : h[k] = IF k = r.j - 1 THEN r.b ELSE g[k]
      /\ r.j - 1 \in 1..n /\ r.b \in Nat
  <2>1. r.j - 1 \in 1..n
    OBVIOUS
  <2>2. \A k \in 1..n : g[k] \in V
    OBVIOUS
  <2>3. r.b \in V
    BY DEF HalfSwapped
  <2>4. \A k \in 1..n : h[k] = IF k = r.j - 1 THEN r.b ELSE g[k]
    OBVIOUS
  <2> QED
    BY <2>1, <2>2, <2>3, <2>4
<1>2. Covers(V, h, 1..n)
  <2> SUFFICES ASSUME NEW v \in V PROVE \E p \in 1..n : h[p] = v
    BY DEF Covers
  <2>1. CASE v = r.b
    BY <1>1, <2>1
  <2>2. CASE v # r.b
    BY <1>1, <2>2 DEF HalfSwapped
  <2> QED
    BY <2>1, <2>2
<1>3. ASSUME NEW p \in 1..r.i, NEW q \in 1..r.i, p < q, q # r.j - 1
      PROVE  h[p] <= h[q]
  <2>1. p \in 1..n /\ q \in 1..n /\ h[q] = g[q]
    BY <1>1, <1>3
  <2>2. CASE p = r.j - 1
    <3>1. q \in r.j..r.i
      BY <1>3, <2>2
    <3> QED
      BY <1>1, <2>1, <2>2, <3>1 DEF HalfSwapped
  <2>3. CASE p # r.j - 1
    BY <1>1, <1>3, <2>1, <2>3 DEF HalfSwapped, Rises
  <2> QED
    BY <2>2, <2>3
<1> QED
  BY <1>2, <1>3 DEF RisesBut

\* The element at r.j is the last one kept, once more.
LEMMA DuplicateSkipped ==
    ASSUME NEW V \in SUBSET Nat, NEW n \in Nat, NEW g \in [1..n -> V], NEW r,
           r.i \in Nat, r.j \in Nat, 1 <= r.i, r.i < r.j, r.j <= n,
           Choosing(V, g, n, r), g[r.i] >= g[r.j]
    PROVE  /\ Covers(V, g, (1..r.i) \cup (r.j + 1..n))
           /\ Climbs(g, r.i) /\ Rises(g, {r.i} \cup (r.j + 1..n))
<1>1. /\ \A k \in 1..n : g[k] \in Nat
      /\ r.i \in 1..n /\ r.j \in 1..n /\ r.j \in r.j..n /\ r.i \in 1..r.i
  <2>1. r.i \in 1..n /\ r.j \in 1..n /\ r.j \in r.j..n /\ r.i \in 1..r.i
    OBVIOUS
  <2>2. \A k \in 1..n : g[k] \in V
    OBVIOUS
  <2> QED
    BY <2>1, <2>2
<1>2. g[r.i] = g[r.j]
  <2>1. g[r.i] <= g[r.j]
    BY <1>1 DEF Choosing, Rises
  <2> QED
    BY <1>1, <2>1
<1>3. ASSUME NEW v \in V
      PROVE  \E p \in (1..r.i) \cup (r.j + 1..n) : g[p] = v
  <2>1. PICK p \in (1..r.i) \cup (r.j..n) : g[p] = v
    BY DEF Choosing, Covers
  <2>2. CASE p = r.j
    BY <1>1, <1>2, <2>1, <2>2
  <2>3. CASE p # r.j
    <3>1. p \in (1..r.i) \cup (r.j + 1..n)
      BY <2>3
    <3> QED
      BY <2>1, <3>1
  <2> QED
    BY <2>2, <2>3
<1>4. {r.i} \cup (r.j + 1..n) \subseteq {r.i} \cup (r.j..n)
  OBVIOUS
<1> QED
  BY <1>3, <1>4 DEF Choosing, Covers, Rises

\* The element at r.j is the next one to keep.
LEMMA MoveChosen ==
    ASSUME NEW V \in SUBSET Nat, NEW n \in Nat, NEW g \in [1..n -> V], NEW r, NEW s,
           r.i \in Nat, r.j \in Nat, 1 <= r.i, r.i < r.j, r.j <= n,
           Choosing(V, g, n, r), g[r.i] < g[r.j],
           s.i = r.i + 1, s.j = r.j, s.a = g[r.j], s.b = g[r.i + 1]
    PROVE  Moving(V, g, n, s)
<1>1. s.i - 1 = r.i
  OBVIOUS
<1> QED
  BY <1>1 DEF Choosing, Moving

LEMMA MoveBegun ==
    ASSUME NEW V \in SUBSET Nat, NEW n \in Nat, NEW g \in [1..n -> V], NEW r,
           r.i \in Nat, r.j \in Nat, 2 <= r.i, r.i <= r.j, r.j <= n,
           Moving(V, g, n, r), NEW h, h = [g EXCEPT ![r.i] = r.a]
    PROVE  HalfMoved(V, h, n, r)
<1>1. /\ \A k \in 1..n : g[k] \in Nat /\ g[k] \in V
      /\ \A k \in 1..n : h[k] = IF k = r.i THEN g[r.j] ELSE g[k]
      /\ r.i \in 1..n /\ r.i - 1 \in 1..n /\ r.j \in 1..n
      /\ r.b = g[r.i] /\ g[r.i - 1] < g[r.j]
  <2>1. r.i \in 1..n /\ r.i - 1 \in 1..n /\ r.j \in 1..n
    OBVIOUS
  <2>2. \A k \in 1..n : g[k] \in V
    OBVIOUS
  <2>3. r.a = g[r.j] /\ r.b = g[r.i] /\ g[r.i - 1] < g[r.j]
    BY DEF Moving
  <2>4. \A k \in 1..n : h[k] = IF k = r.i THEN g[r.j] ELSE g[k]
    BY <2>3
  <2> QED
    BY <2>1, <2>2, <2>3, <2>4
<1>2. Covers(V, h, (1..r.i) \cup (r.j + 1..n))
  <2> SUFFICES ASSUME NEW v \in V
               PROVE  \E p \in (1..r.i) \cup (r.j + 1..n) : h[p] = v
    BY DEF Covers
  <2>1. PICK p \in (1..r.i - 1) \cup (r.j..n) : g[p] = v
    BY DEF Moving, Covers
  <2>2. CASE p = r.j
    <3>1. r.i \in 1..r.i /\ h[r.i] = v
      BY <1>1, <2>1, <2>2
    <3> QED
      BY <3>1
  <2>3. CASE p # r.j
    <3>1. p \in (1..r.i) \cup (r.j + 1..n) /\ p \in 1..n /\ p # r.i
      BY <2>3
    <3> QED
      BY <1>1, <2>1, <3>1
  <2> QED
    BY <2>2, <2>3
<1>3. ASSUME NEW p \in 1..r.i, NEW q \in 1..r.i, p < q
      PROVE  h[p] < h[q]
  <2>1. p \in 1..r.i - 1 /\ p \in 1..n /\ q \in 1..n /\ h[p] = g[p]
    BY <1>1, <1>3, SMTT(30)
  <2>2. CASE q = r.i
    <3>1. p = r.i - 1 \/ (p < r.i - 1 /\ r.i - 1 \in 1..r.i - 1)
      BY <2>1
    <3>2. g[p] <= g[r.i - 1]
      BY <1>1, <2>1, <3>1, SMTT(30) DEF Moving, Climbs
    <3> QED
      BY <1>1, <2>1, <2>2, <3>2, SMTT(30)
  <2>3. CASE q # r.i
    <3>1. q \in 1..r.i - 1 /\ h[q] = g[q]
      BY <1>1, <2>1, <2>3
    <3> QED
      BY <1>3, <2>1, <3>1 DEF Moving, Climbs
  <2> QED
    BY <2>2, <2>3
<1>4. ASSUME NEW p \in {r.i} \cup (r.j + 1..n), NEW q \in {r.i} \cup (r.j + 1..n), p < q
      PROVE  h[p] <= h[q]
  <2>1. /\ q \in r.j + 1..n /\ q \in 1..n /\ h[q] = g[q] /\ p \in 1..n
        /\ q \in r.j..n /\ r.j \in r.j..n /\ r.j < q
    <3>1. q \in r.j + 1..n
      BY <1>4
    <3>2. /\ q \in 1..n /\ q # r.i /\ q \in r.j..n /\ r.j \in r.j..n /\ r.j < q /\ p \in 1..n
      BY <3>1
    <3> QED
      BY <1>1, <3>1, <3>2
  <2>2. CASE p = r.i
    BY <1>1, <2>1, <2>2 DEF Moving, Rises
  <2>3. CASE p # r.i
    <3>1. p \in r.j..n /\ h[p] = g[p]
      BY <1>1, <2>1, <2>3
    <3> QED
      BY <1>4, <2>1, <3>1 DEF Moving, Rises
  <2> QED
    BY <2>2, <2>3
<1>5. r.i = r.j => r.b = h[r.i]
  BY <1>1
<1> QED
  BY <1>1, <1>2, <1>3, <1>4, <1>5 DEF HalfMoved, Climbs, Rises

LEMMA MoveEnded ==
    ASSUME NEW V \in SUBSET Nat, NEW n \in Nat, NEW g \in [1..n -> V], NEW r,
           r.i \in Nat, r.j \in Nat, 2 <= r.i, r.i <= r.j, r.j <= n,
           HalfMoved(V, g, n, r), NEW h, h = [g EXCEPT ![r.j] = r.b]
    PROVE  /\ Covers(V, h, (1..r.i) \cup (r.j + 1..n))
           /\ Climbs(h, r.i) /\ Rises(h, {r.i} \cup (r.j + 1..n))
<1>1. \A k \in (1..r.i) \cup (r.j + 1..n) : k \in 1..n /\ h[k] = g[k]
  <2> SUFFICES ASSUME NEW k \in (1..r.i) \cup (r.j + 1..n)
               PROVE  k \in 1..n /\ h[k] = g[k]
    OBVIOUS
  <2>1. k \in 1..n /\ (k = r.j => r.i = r.j)
    OBVIOUS
  <2> QED
    BY <2>1 DEF HalfMoved
<1>2. 1..r.i \subseteq (1..r.i) \cup (r.j + 1..n)
      /\ {r.i} \cup (r.j + 1..n) \subseteq (1..r.i) \cup (r.j + 1..n)
  OBVIOUS
<1> QED
  BY <1>1, <1>2 DEF HalfMoved, Covers, Climbs, Rises

\* All have been looked at, or there is a next one.
LEMMA ChooseNext ==
    ASSUME NEW V, NEW n \in Nat, NEW g, NEW k \in Nat, NEW j \in Nat, NEW r,
           Covers(V, g, (1..k) \cup (j + 1..n)), Climbs(g, k), Rises(g, {k} \cup (j + 1..n)),
           r.i = k, r.j = j + 1
    PROVE  /\ j + 1 > n => Chosen(V, g, r.i)
           /\ Choosing(V, g, n, r)
<1>1. j + 1 > n => (1..k) \cup (j + 1..n) = 1..k
  OBVIOUS
<1> QED
  BY <1>1 DEF Chosen, Choosing

----------------------------------------------------------------------------
(* Steps of sign-in i while no two fill the record.                        *)

LEMMA SameFile ==
    ASSUME file' = file
    PROVE  Named' = Named /\ MeantGroups' = MeantGroups /\ Incomplete' = Incomplete
BY DEF Named, MeantGroups, Incomplete

\* The step stores no name but the file's where a copy could show it.
StaysReal ==
    \A j \in SignIns : Real(conf[j].groups) =>
        \A k \in 1..conf[j].groups.len : heap'[conf[j].groups.arr][k] \in Named

LEMMA Listed ==
    ASSUME Memory, Real(groups)
    PROVE  /\ Named \in SUBSET Nat /\ groups.len \in Nat /\ groups.arr \in ArrayIds
           /\ Shows(groups) \in [1..groups.len -> Named]
           /\ \A k \in 1..groups.len : Shows(groups)[k] = heap[groups.arr][k]
           /\ (groups.len = 0) = (file.own.groups = <<>>)
<1>1. Named \in SUBSET Nat
  BY Names DEF Memory, Cells
<1>2. groups.len \in Nat /\ groups.arr \in ArrayIds
      /\ (groups.len = 0) = (file.own.groups = <<>>)
  BY Arrayed DEF Memory, Cells, Slices
<1>3. Shows(groups) = [k \in 1..groups.len |-> heap[groups.arr][k]]
  BY DEF Shows
<1>4. Shows(groups) \in [1..groups.len -> Named]
  BY <1>3 DEF Real
<1> QED
  BY <1>1, <1>2, <1>3, <1>4

LEMMA WholeNext ==
    ASSUME IInv, Memory, Steady, Whole, NEW i \in SignIns,
           GetRepoAuth(i) \/ GetUser(i) \/ Fault(i) \/ Chokes(i), ~clash, ~clash',
           StaysReal, Real(groups)', Mine(i)',
           pc[i] \in Filling /\ pc'[i] \notin Filling => Fresh' \/ Filled'
    PROVE  Whole'
<1>1. PICK state \in Active \cup Ended :
         /\ Goto(i, state)
         /\ pc[i] \notin Filling => UNCHANGED <<field, groups, heap>>
         /\ \A j \in SignIns : j # i =>
               /\ sort'[j] = sort[j] /\ step'[j] = step[j]
               /\ conf'[j] = conf[j] /\ asked'[j] = asked[j]
  BY Walks
<1>2. /\ file' = file
      /\ \A j \in SignIns : j # i => pc'[j] = pc[j] /\ (j \in crossed => j \in crossed')
  BY <1>1, GotoEffect DEF IInv
<1>3. Named' = Named /\ MeantGroups' = MeantGroups /\ Incomplete' = Incomplete
  BY <1>2, SameFile
<1>4. ASSUME \A j \in SignIns : pc'[j] \notin Filling
      PROVE  Fresh' \/ Filled'
  <2>1. CASE pc[i] \in Filling
    BY <1>4, <2>1
  <2>2. CASE pc[i] \notin Filling
    <3>1. \A j \in SignIns : pc[j] \notin Filling
      BY <1>2, <1>4, <2>2
    <3>2. Fresh \/ Filled
      BY <3>1 DEF Whole
    <3>3. UNCHANGED <<field, groups, heap>> /\ Shows(groups)' = Shows(groups)
      BY <1>1, <2>2 DEF Shows
    <3> QED
      BY <1>2, <1>3, <3>2, <3>3 DEF Fresh, Filled
  <2> QED
    BY <2>1, <2>2
<1>5. ASSUME NEW j \in SignIns, j # i
      PROVE  Mine(j)'
  <2>1. /\ Mine(j) /\ pc'[j] = pc[j] /\ sort'[j] = sort[j] /\ step'[j] = step[j]
        /\ conf'[j] = conf[j] /\ asked'[j] = asked[j]
    BY <1>1, <1>2, <1>5 DEF Whole
  <2>2. ASSUME pc'[j] \in Filling
        PROVE  Writing(j)' /\ Sorting(j)'
    <3>1. UNCHANGED <<field, groups, heap, file>>
      <4>1. pc'[j] \in Active
        BY <2>2, Places
      <4> QED
        BY <1>5, <2>2, <4>1, Apart DEF Steady
    <3>2. Shows(groups)' = Shows(groups)
      BY <3>1 DEF Shows
    <3>3. Writing(j)'
      BY <1>3, <2>1, <3>1 DEF Mine, Writing
    <3>4. Sorting(j)'
      BY <1>3, <2>1, <3>1, <3>2 DEF Mine, Sorting
    <3> QED
      BY <3>3, <3>4
  <2>3. ASSUME pc'[j] \notin Filling
        PROVE  Writing(j)' /\ Sorting(j)'
    BY <2>3, Places DEF Writing, Sorting
  <2>4. Real(conf[j].groups)'
    <3>1. Real(conf[j].groups)
      BY <2>1 DEF Mine
    <3>2. \A k \in 1..conf[j].groups.len : heap'[conf[j].groups.arr][k] \in Named
      BY <3>1 DEF StaysReal
    <3> QED
      BY <1>3, <2>1, <3>2 DEF Real
  <2>5. ASSUME j \notin crossed'
        PROVE  Sees(j)'
    <3>1. Sees(j)
      BY <1>2, <1>5, <2>1, <2>5 DEF Mine
    <3>2. CASE pc'[j] \in Active
      <4>1. UNCHANGED <<field, groups, heap, file>>
        BY <1>5, <2>5, <3>2, Apart DEF Steady
      <4>2. Shows(groups)' = Shows(groups) /\ Shows(conf[j].groups)' = Shows(conf[j].groups)
        BY <2>1, <4>1 DEF Shows
      <4> QED
        BY <1>3, <2>1, <3>1, <4>1, <4>2 DEF Sees, Checked
    <3>3. CASE pc'[j] \notin Active
      BY <1>3, <2>1, <3>1, <3>3, Places DEF Sees, Checked
    <3> QED
      BY <3>2, <3>3
  <2> QED
    BY <2>1, <2>2, <2>3, <2>4, <2>5 DEF Mine
<1> QED
  BY <1>4, <1>5 DEF Whole

\* A step of one who is not filling the record.
LEMMA WholeQuiet ==
    ASSUME IInv, Memory, Steady, Whole, NEW i \in SignIns,
           GetRepoAuth(i) \/ GetUser(i) \/ Fault(i) \/ Chokes(i), ~clash, ~clash',
           UNCHANGED <<groups, heap>>, Mine(i)',
           pc[i] \in Filling /\ pc'[i] \notin Filling => Fresh' \/ Filled'
    PROVE  Whole'
<1>1. file' = file
  BY Walks, GotoEffect DEF IInv
<1>2. Named' = Named
  BY <1>1, SameFile
<1>3. StaysReal
  BY DEF StaysReal, Real
<1>4. Real(groups)'
  BY <1>2 DEF Whole, Real
<1> QED
  BY <1>3, <1>4, WholeNext

\* What a step that goes on with the filling owes.
LEMMA WholeFills ==
    ASSUME IInv, Memory, Steady, Whole, NEW i \in SignIns,
           GetRepoAuth(i) \/ GetUser(i) \/ Fault(i) \/ Chokes(i), ~clash, ~clash',
           pc'[i] \in Filling, pc[i] \notin Ended, conf' = conf, asked' = asked,
           StaysReal, Real(groups)', Writing(i)', Sorting(i)'
    PROVE  Whole'
<1>1. file' = file /\ (i \in crossed => i \in crossed')
  BY Walks, GotoEffect DEF IInv
<1>2. Named' = Named /\ MeantGroups' = MeantGroups
  BY <1>1, SameFile
<1>3. Mine(i)
  BY DEF Whole
<1>4. Real(conf[i].groups)'
  <2>1. \A k \in 1..conf[i].groups.len : heap'[conf[i].groups.arr][k] \in Named
    BY <1>3 DEF StaysReal, Mine
  <2> QED
    BY <1>2, <2>1 DEF Real
<1>5. i \notin crossed' => Sees(i)'
  BY <1>1, <1>2, <1>3, Places DEF Mine, Sees, Checked
<1>6. Mine(i)'
  BY <1>3, <1>4, <1>5 DEF Mine
<1> QED
  BY <1>6, WholeNext

LEMMA WritingOn ==
    ASSUME NEW i \in SignIns, Writing(i), pc[i] \in Filling \ {"write"},
           pc'[i] \in Filling \ {"write"}, field' = field, file' = file
    PROVE  Writing(i)'
<1>1. Incomplete' = Incomplete
  BY SameFile
<1> QED
  BY <1>1 DEF Writing

\* A step from one place of unique.Strings to another.
LEMMA WholeSorts ==
    ASSUME IInv, Memory, Steady, Whole, NEW i \in SignIns, GetRepoAuth(i), ~clash, ~clash',
           pc[i] \in Filling \ {"write"}, pc'[i] \in Filling \ {"write"},
           UNCHANGED <<field, conf, asked>>, StaysReal, Real(groups)', Sorting(i)'
    PROVE  Whole'
<1>1. file' = file
  BY Walks, GotoEffect DEF IInv
<1>2. Writing(i)'
  BY <1>1, WritingOn DEF Whole, Mine
<1>3. pc[i] \notin Ended
  BY Places
<1> QED
  BY <1>2, <1>3, WholeFills

\* A step out of the filling, or outside of it, that leaves the memory alone.
LEMMA WholeLeaves ==
    ASSUME IInv, Memory, Steady, Whole, NEW i \in SignIns,
           GetRepoAuth(i) \/ GetUser(i) \/ Fault(i) \/ Chokes(i), ~clash, ~clash',
           UNCHANGED <<groups, heap>>, pc'[i] \notin Filling,
           pc[i] \in Filling => Fresh' \/ Filled',
           Real(conf[i].groups)', 0 \notin asked'[i], i \notin crossed' => Sees(i)'
    PROVE  Whole'
<1>1. Writing(i)' /\ Sorting(i)'
  BY Places DEF Writing, Sorting
<1>2. Mine(i)'
  BY <1>1 DEF Mine
<1> QED
  BY <1>2, WholeQuiet

----------------------------------------------------------------------------
(* The fields.                                                             *)

LEMMA WholeBegins ==
    ASSUME IInv, Memory, Steady, Whole, NEW i \in SignIns, Begin(i), ~clash, ~clash'
    PROVE  Whole'
<1>1. PICK state \in {"check", "copy", "noauth"} :
         Goto(i, state) /\ (state = "copy" => file.own = NoSection)
  BY DEF Begin
<1>2. /\ pc[i] \in Ended /\ UNCHANGED memory
      /\ conf' = [conf EXCEPT ![i] = NoConf] /\ asked' = [asked EXCEPT ![i] = {}]
      /\ step' = [step EXCEPT ![i] = 1]
  BY DEF Begin
<1>3. pc'[i] = state /\ file' = file
  BY <1>1, GotoEffect, Places DEF IInv
<1>4. conf'[i] = NoConf /\ asked'[i] = {} /\ step'[i] = 1
  BY <1>2 DEF IInv, Typed, Memory, Cells
<1>5. Real(conf[i].groups)'
  <2>1. conf'[i].groups.len = 0
    BY <1>4, Loaded DEF Memory, Cells
  <2> QED
    BY <2>1 DEF Real
<1>6. Sees(i)'
  BY <1>1, <1>3, <1>4 DEF Sees, Checked
<1>7. state \notin Filling /\ pc[i] \notin Filling
  BY <1>1, <1>2, Places
<1>8. GetRepoAuth(i)
  BY DEF GetRepoAuth
<1> QED
  BY <1>2, <1>3, <1>4, <1>5, <1>6, <1>7, <1>8, WholeLeaves DEF memory

\* Between the sign-ins the record has the groups that the file stands for, as
\* soon as all its fields are given.
LEMMA Complemented ==
    ASSUME IInv, Memory, Whole, \A f \in Fields : field[f] # "blank", Fresh \/ Filled,
           file.own # NoSection
    PROVE  ToSet(Shows(groups)) = MeantGroups
<1>1. Real(groups) /\ file \in Files
  BY DEF Whole, Memory, Cells
<1>2. CASE Fresh
  <2>1. ~Incomplete
    BY <1>1, <1>2, Complete DEF Fresh
  <2> QED
    BY <1>2, <2>1 DEF Fresh, MeantGroups
<1>3. CASE Filled /\ file.own.groups = <<>>
  <2>1. groups.len = 0
    BY <1>1, <1>3, Listed
  <2>2. Shows(groups) = file.own.groups
    BY <1>3, <2>1 DEF Shows
  <2> QED
    BY <1>3, <2>2 DEF Filled, MeantGroups
<1>4. CASE Filled /\ file.own.groups # <<>>
  <2>1. Shows(groups) \in [1..groups.len -> Named]
    BY <1>1, Listed
  <2>2. \A v \in Named : \E p \in 1..groups.len : Shows(groups)[p] = v
    BY <1>4 DEF Filled, Chosen, Covers
  <2>3. ToSet(Shows(groups)) = Named
    BY <2>1, <2>2 DEF ToSet
  <2> QED
    BY <1>4, <2>3 DEF Filled, MeantGroups
<1> QED
  BY <1>2, <1>3, <1>4

LEMMA WholeFieldGiven ==
    ASSUME IInv, Memory, Steady, Whole, NEW i \in SignIns, FieldGiven(i), ~clash, ~clash'
    PROVE  Whole'
<1>1. PICK state \in {"check", "copy"} : Goto(i, state) /\ (state = "copy" => step[i] = 3)
  BY DEF FieldGiven
<1>2. pc[i] = "check" /\ UNCHANGED <<memory, conf, asked>>
  BY DEF FieldGiven
<1>3. /\ pc'[i] = state /\ file' = file /\ (i \in crossed => i \in crossed') /\ Met' /\ Met
      /\ \A j \in SignIns : j # i => pc'[j] = pc[j]
  BY <1>1, <1>2, GotoEffect, Places DEF IInv
<1>4. Named' = Named /\ MeantGroups' = MeantGroups
  BY <1>3, SameFile
<1>5. pc[i] \notin Filling /\ pc'[i] \notin Filling /\ Mine(i) /\ pc'[i] \in Active
  BY <1>1, <1>2, <1>3, Places DEF Whole
<1>6. Real(conf[i].groups)' /\ 0 \notin asked'[i]
  BY <1>2, <1>4, <1>5 DEF Mine, Real, memory
<1>7. ASSUME i \notin crossed'
      PROVE  Sees(i)'
  <2>1. Sees(i) /\ Checked(i)
    BY <1>3, <1>5, <1>7 DEF Mine, Sees
  <2>2. Checked(i)'
    BY <2>1, CheckedOn
  <2>3. ASSUME state = "copy", file.own # NoSection
        PROVE  ToSet(Shows(groups)) = MeantGroups
    <3>1. \A f \in Fields : field[f] # "blank"
      BY <1>1, <2>1, <2>3, AllChecked
    <3>2. \A j \in SignIns : pc[j] \notin Filling
      BY <1>3, <1>5, <1>7 DEF Met
    <3> QED
      BY <2>3, <3>1, <3>2, Complemented DEF Whole
  <2>4. Shows(groups)' = Shows(groups)
    BY <1>2 DEF Shows, memory
  <2> QED
    BY <1>1, <1>2, <1>3, <1>4, <2>1, <2>2, <2>3, <2>4 DEF Sees
<1>8. GetRepoAuth(i)
  BY DEF GetRepoAuth
<1> QED
  BY <1>2, <1>5, <1>6, <1>7, <1>8, WholeLeaves DEF memory

\* The first blank field: the record is incomplete, and each group is in one of
\* the sections.
LEMMA WholeFieldBlank ==
    ASSUME IInv, Memory, Steady, Whole, NEW i \in SignIns, FieldBlank(i), ~clash, ~clash'
    PROVE  Whole'
<1>1. PICK state \in {"panic", "write"} : Goto(i, state)
  BY DEF FieldBlank
<1>2. /\ pc[i] = "check" /\ UNCHANGED <<memory, sort, conf, asked>>
      /\ step' = [step EXCEPT ![i] = 1] /\ field[Checks[step[i]]] = "blank"
  BY DEF FieldBlank
<1>3. /\ pc'[i] = state /\ file' = file /\ (i \in crossed => i \in crossed')
      /\ \A j \in SignIns : j # i => pc'[j] = pc[j]
  BY <1>1, <1>2, GotoEffect, Places DEF IInv
<1>4. Named' = Named /\ MeantGroups' = MeantGroups /\ Incomplete' = Incomplete
  BY <1>3, SameFile
<1>5. pc[i] \notin Filling /\ pc[i] \notin Ended /\ Mine(i) /\ GetRepoAuth(i)
  BY <1>2, Places DEF Whole, GetRepoAuth
<1>6. UNCHANGED <<field, groups, heap>> /\ Shows(groups)' = Shows(groups)
  BY <1>2 DEF memory, Shows
<1>7. CASE state = "panic"
  <2>1. Real(conf[i].groups)' /\ 0 \notin asked'[i]
    BY <1>2, <1>4, <1>5, <1>6 DEF Mine, Real
  <2>2. i \notin crossed' => Sees(i)'
    BY <1>2, <1>3, <1>4, <1>5, <1>7 DEF Mine, Sees, Checked
  <2>3. pc'[i] \notin Filling
    BY <1>3, <1>7, Places
  <2> QED
    BY <1>5, <1>6, <2>1, <2>2, <2>3, WholeLeaves
<1>8. CASE state = "write"
  <2>1. pc'[i] \in Filling /\ pc'[i] = "write"
    BY <1>3, <1>8, Places
  <2>2. \A j \in SignIns : pc[j] \notin Filling
    <3>1. Sole'
      BY <1>1, History DEF Steady
    <3> QED
      BY <1>3, <1>5, <2>1, <3>1 DEF Sole
  <2>3. Fresh \/ Filled
    BY <2>2 DEF Whole
  <2>4. Incomplete
    <3>1. CASE Filled
      BY <3>1 DEF Filled
    <3>2. CASE Fresh
      <4>1. file.own # NoSection
        BY <1>2 DEF Steady, Panics
      <4>2. step[i] \in 1..3
        BY DEF IInv, Typed
      <4>3. Checks[step[i]] \in Fields
        BY <4>2, Sections DEF Checks
      <4>4. file.own.given # Fields
        BY <1>2, <3>2, <4>3 DEF Fresh, Given
      <4> QED
        BY <4>1, <4>4 DEF Incomplete
    <3> QED
      BY <2>3, <3>1, <3>2
  <2>5. Writing(i)'
    <3>1. step'[i] = 1
      BY <1>2 DEF IInv, Typed
    <3> QED
      BY <1>4, <2>1, <2>4, <3>1 DEF Writing
  <2>6. ASSUME file.own.groups # <<>>, NEW v \in Named, v \notin ToSet(file.def.groups)
        PROVE  \E p \in 1..groups.len : Shows(groups)[p] = v
    <3>1. CASE Filled
      BY <2>6, <3>1 DEF Filled, Chosen, Covers
    <3>2. CASE Fresh
      <4>1. v \in ToSet(Shows(groups))
        BY <2>6, <3>2 DEF Fresh, Named
      <4>2. DOMAIN Shows(groups) = 1..groups.len
        BY DEF Shows
      <4> QED
        BY <4>1, <4>2 DEF ToSet
    <3> QED
      BY <2>3, <3>1, <3>2
  <2>7. Sorting(i)'
    BY <1>3, <1>4, <1>6, <2>1, <2>6 DEF Sorting
  <2>8. StaysReal /\ Real(groups)'
    BY <1>4, <1>6 DEF StaysReal, Real, Whole
  <2> QED
    BY <1>2, <1>5, <2>1, <2>5, <2>7, <2>8, WholeFills
<1> QED
  BY <1>1, <1>7, <1>8

LEMMA WholeWrites ==
    ASSUME IInv, Memory, Steady, Whole, NEW i \in SignIns, WriteField(i), ~clash, ~clash'
    PROVE  Whole'
<1> DEFINE f == Writes[step[i]]
           state == IF step[i] = 3 THEN "append" ELSE "write"
<1>1. /\ pc[i] = "write" /\ Goto(i, state)
      /\ field' = [field EXCEPT ![f] = Given(file.def, "def")[f]]
      /\ step' = [step EXCEPT ![i] = IF step[i] = 3 THEN 1 ELSE step[i] + 1]
      /\ UNCHANGED <<groups, heap, sort, conf, asked>>
  BY DEF WriteField
<1>2. pc'[i] = state /\ file' = file
  BY <1>1, GotoEffect, Places DEF IInv
<1>3. Named' = Named /\ MeantGroups' = MeantGroups /\ Incomplete' = Incomplete
  BY <1>2, SameFile
<1>4. pc[i] \in Filling /\ pc'[i] \in Filling /\ pc[i] \notin Ended /\ Mine(i) /\ GetRepoAuth(i)
  BY <1>1, <1>2, Places DEF Whole, GetRepoAuth
<1>5. step[i] \in 1..3 /\ field \in [Fields -> Origins] /\ step \in [SignIns -> 1..3]
  BY DEF IInv, Typed
<1>6. /\ Incomplete
      /\ \A s \in 1..step[i] - 1 : field[Writes[s]] = Given(file.def, "def")[Writes[s]]
  BY <1>1, <1>4 DEF Mine, Writing
<1>7. f \in Fields
  BY <1>5, Sections DEF Writes
<1>8. \A s \in 1..step[i] : field'[Writes[s]] = Given(file.def, "def")[Writes[s]]
  <2> SUFFICES ASSUME NEW s \in 1..step[i]
               PROVE  field'[Writes[s]] = Given(file.def, "def")[Writes[s]]
    OBVIOUS
  <2>1. CASE s = step[i]
    BY <1>1, <1>5, <1>7, <2>1
  <2>2. CASE s # step[i]
    <3>1. s \in 1..step[i] - 1 /\ s \in 1..3
      BY <1>5, <2>2
    <3>2. Writes[s] \in Fields
      BY <3>1, Sections DEF Writes
    <3> QED
      BY <1>1, <1>5, <1>6, <1>7, <3>1, <3>2
  <2> QED
    BY <2>1, <2>2
<1>9. Writing(i)'
  <2>1. CASE step[i] = 3
    <3>1. \A e \in Fields : field'[e] = Given(file.def, "def")[e]
      BY <1>8, <2>1, Sections DEF Writes
    <3>2. DOMAIN field' = Fields /\ DOMAIN Given(file.def, "def") = Fields
      BY <1>1, <1>5 DEF Given
    <3>3. field' = Given(file.def, "def")
      <4>1. field' = [e \in Fields |-> field'[e]]
        BY <1>1, <1>5
      <4>2. Given(file.def, "def") = [e \in Fields |-> Given(file.def, "def")[e]]
        BY DEF Given
      <4> QED
        BY <3>1, <4>1, <4>2
    <3> QED
      BY <1>2, <1>3, <1>6, <2>1, <3>3 DEF Writing
  <2>2. CASE step[i] # 3
    <3>1. step'[i] - 1 = step[i]
      BY <1>1, <1>5, <2>2
    <3> QED
      BY <1>2, <1>3, <1>6, <1>8, <2>2, <3>1 DEF Writing
  <2> QED
    BY <2>1, <2>2
<1>10. Sorting(i)'
  <2>1. Shows(groups)' = Shows(groups)
    BY <1>1 DEF Shows
  <2>2. pc'[i] \in {"write", "append"}
    BY <1>2
  <2> QED
    BY <1>1, <1>2, <1>3, <1>4, <2>1, <2>2 DEF Mine, Sorting
<1>11. StaysReal /\ Real(groups)'
  BY <1>1, <1>3 DEF StaysReal, Real, Whole
<1> QED
  BY <1>1, <1>4, <1>9, <1>10, <1>11, WholeFills

----------------------------------------------------------------------------
(* Failures, and the way out without groups.                               *)

\* Who fills the record alone reads whole names.
LEMMA ReadsWhole ==
    ASSUME Memory, Steady, NEW i \in SignIns, ~clash, pc[i] \in {"less", "distinct"}
    PROVE  /\ Placed(pc[i], sort[i]) /\ sort[i].n = groups.len /\ groups.len \in Nat
           /\ sort[i].i \in Nat /\ sort[i].j \in Nat
           /\ \A k \in 1..groups.len :
                 /\ Readings(groups.arr, k) = {Shows(groups)[k]}
                 /\ Shows(groups)[k] # Torn
<1>1. /\ heap \in [ArrayIds -> Seq(Wholes)] /\ file \in Files /\ Sole
      /\ groups.arr \in ArrayIds /\ groups.len \in Nat /\ groups.len <= Len(heap[groups.arr])
      /\ Placed(pc[i], sort[i]) /\ sort[i].i \in Nat /\ sort[i].j \in Nat
  BY Arrayed DEF Steady, Untorn, Memory, Cells, Holds, Slices, Registers
<1>2. sort[i].n = groups.len
  <2>1. Current(i)
    BY Places DEF Steady, Lone
  <2> QED
    BY <2>1 DEF Current
<1>3. \A k : Readings(groups.arr, k) = {heap[groups.arr][k]}
  BY <1>1, Calm DEF Filling, Swaps, Swapped
<1>4. \A k \in 1..groups.len : heap[groups.arr][k] # Torn
  <2>1. Torn \notin Wholes /\ Len(heap[groups.arr]) \in Nat
        /\ \A k \in 1..Len(heap[groups.arr]) : heap[groups.arr][k] \in Wholes
    BY <1>1, Names, ElementOfSeq, LenProperties
  <2>2. 1..groups.len \subseteq 1..Len(heap[groups.arr])
    BY <1>1, <2>1
  <2> QED
    BY <2>1, <2>2
<1>5. \A k \in 1..groups.len : Shows(groups)[k] = heap[groups.arr][k]
  BY DEF Shows
<1> QED
  BY <1>1, <1>2, <1>3, <1>4, <1>5

LEMMA ChokesNot ==
    ASSUME Memory, Steady, NEW i \in SignIns, ~clash, Chokes(i)
    PROVE  pc[i] = "search"
<1> SUFFICES ASSUME pc[i] # "search" PROVE FALSE
  OBVIOUS
<1>1. pc[i] \in {"less", "distinct"}
  BY DEF Chokes
<1>2. PICK k \in {sort[i].j - 1, sort[i].j, sort[i].i} :
         /\ Torn \in Readings(groups.arr, k)
         /\ pc[i] = "less" => k \in {sort[i].j - 1, sort[i].j}
         /\ pc[i] = "distinct" => k \in {sort[i].i, sort[i].j}
  BY <1>1 DEF Chokes
<1>3. k \in 1..groups.len
  BY <1>1, <1>2, ReadsWhole DEF Placed
<1> QED
  BY <1>1, <1>2, <1>3, ReadsWhole

\* Who is alone is never out of range.
LEMMA InRange ==
    ASSUME Memory, Steady, NEW i \in SignIns, ~clash, OutOfRange(i)
    PROVE  FALSE
<1>1. /\ pc[i] \in {"less", "distinct", "truncate"}
      /\ pc[i] \in {"less", "distinct"} => sort[i].j > groups.len
      /\ pc[i] = "truncate" => sort[i].i > Len(heap[groups.arr])
  BY DEF OutOfRange
<1>2. /\ Placed(pc[i], sort[i]) /\ groups.len \in Nat /\ groups.len <= Len(heap[groups.arr])
      /\ sort[i].n \in Nat /\ sort[i].i \in Nat /\ sort[i].j \in Nat
      /\ Len(heap[groups.arr]) \in Nat
  BY Arrayed, LenProperties DEF Memory, Cells, Holds, Registers, Slices
<1>3. Current(i)
  BY <1>1, Places DEF Steady, Lone
<1> QED
  BY <1>1, <1>2, <1>3 DEF Current, Placed

LEMMA WholeFaults ==
    ASSUME IInv, Memory, Steady, Whole, NEW i \in SignIns, Fault(i), ~clash, ~clash'
    PROVE  Whole'
<1>1. PICK j \in SignIns \ {i} : pc[j] \in {"store", "write"}
  BY DEF Fault
<1>2. pc[i] = "copy"
  <2>1. pc[j] \in Filling /\ Sole
    BY <1>1, Places DEF Steady
  <2>2. pc[i] \notin Filling
    BY <1>1, <2>1 DEF Sole
  <2> QED
    BY <2>2, Places DEF Fault
<1>3. Goto(i, "panic") /\ UNCHANGED <<memory, conf, asked>>
  BY DEF Fault
<1>4. pc'[i] = "panic" /\ file' = file /\ (i \in crossed => i \in crossed')
  BY <1>2, <1>3, GotoEffect, Places DEF IInv
<1>5. Named' = Named /\ MeantGroups' = MeantGroups
  BY <1>4, SameFile
<1>6. pc[i] \notin Filling /\ pc'[i] \notin Filling /\ Mine(i)
  BY <1>2, <1>4, Places DEF Whole
<1>7. Real(conf[i].groups)' /\ 0 \notin asked'[i]
  BY <1>3, <1>5, <1>6 DEF Mine, Real, memory
<1>8. i \notin crossed' => Sees(i)'
  BY <1>3, <1>4, <1>5, <1>6 DEF Mine, Sees, Checked
<1> QED
  BY <1>3, <1>6, <1>7, <1>8, WholeLeaves DEF memory

LEMMA WholeNoGroups ==
    ASSUME IInv, Memory, Steady, Whole, NEW i \in SignIns, NoGroups(i), ~clash, ~clash'
    PROVE  Whole'
<1>1. pc[i] = "append" /\ groups.len = 0 /\ Goto(i, "copy") /\ UNCHANGED <<memory, conf, asked>>
  BY DEF NoGroups
<1>2. pc'[i] = "copy" /\ file' = file /\ (i \in crossed => i \in crossed')
  BY <1>1, GotoEffect, Places DEF IInv
<1>3. Named' = Named /\ MeantGroups' = MeantGroups /\ Incomplete' = Incomplete
  BY <1>2, SameFile
<1>4. pc[i] \in Filling \ {"write"} /\ pc'[i] \notin Filling /\ Mine(i) /\ GetRepoAuth(i)
  BY <1>1, <1>2, Places DEF Whole, GetRepoAuth
<1>5. Incomplete /\ field = Given(file.def, "def")
  BY <1>4 DEF Mine, Writing
<1>6. file.own.groups = <<>> /\ Shows(groups) = file.own.groups
  <2>1. file.own.groups = <<>>
    BY <1>1, Listed DEF Whole
  <2> QED
    BY <1>1, <2>1 DEF Shows
<1>7. Shows(groups)' = Shows(groups)
  BY <1>1 DEF memory, Shows
<1>8. Filled'
  BY <1>1, <1>2, <1>3, <1>5, <1>6 DEF Filled, memory
<1>9. Real(conf[i].groups)' /\ 0 \notin asked'[i]
  BY <1>1, <1>3, <1>4 DEF Mine, Real, memory
<1>10. i \notin crossed' => Sees(i)'
  <2>1. ToSet(Shows(groups)) = MeantGroups
    BY <1>5, <1>6 DEF MeantGroups, Incomplete
  <2> QED
    BY <1>1, <1>2, <1>3, <1>4, <1>7, <2>1 DEF Mine, Sees, Checked
<1> QED
  BY <1>1, <1>4, <1>8, <1>9, <1>10, WholeLeaves DEF memory

----------------------------------------------------------------------------
(* The copy and what is asked with it.                                     *)

LEMMA WholeCopies ==
    ASSUME IInv, Memory, Steady, Whole, NEW i \in SignIns, CopyConf(i), ~clash, ~clash'
    PROVE  Whole'
<1>1. pc[i] = "copy" /\ Goto(i, "connect") /\ UNCHANGED <<memory, asked>>
  BY DEF CopyConf
<1>2. pc'[i] = "connect" /\ file' = file /\ (i \in crossed => i \in crossed')
  BY <1>1, GotoEffect, Places DEF IInv
<1>3. Named' = Named /\ MeantGroups' = MeantGroups
  BY <1>2, SameFile
<1>4. pc[i] \notin Filling /\ pc'[i] \notin Filling /\ Mine(i) /\ GetUser(i)
  BY <1>1, <1>2, Places DEF Whole, GetUser
<1>5. conf'[i].groups = IF file.own = NoSection THEN Slice("def", Len(file.def.groups)) ELSE groups
  BY DEF CopyConf, IInv, Typed
<1> DEFINE s == conf'[i].groups
<1>6. CASE file.own = NoSection
  <2>1. s.arr = "def" /\ s.len = Len(file.def.groups)
    BY <1>5, <1>6 DEF Slice
  <2>2. heap'["def"] = file.def.groups /\ file.def.groups \in Seq(Named)
    BY <1>1, Names DEF Memory, Cells, memory
  <2>3. \A k \in 1..Len(file.def.groups) : file.def.groups[k] \in Named
    BY <2>2, ElementOfSeq
  <2>4. Real(conf[i].groups)'
    BY <1>3, <2>1, <2>2, <2>3 DEF Real
  <2>5. ToSet(Shows(conf[i].groups)') = MeantGroups
    <3>1. DOMAIN file.def.groups = 1..Len(file.def.groups)
      BY <2>2, LenProperties
    <3>2. Shows(conf[i].groups)' = [k \in 1..Len(file.def.groups) |-> file.def.groups[k]]
      BY <2>1, <2>2 DEF Shows
    <3>3. ToSet(Shows(conf[i].groups)') = ToSet(file.def.groups)
      BY <3>1, <3>2 DEF ToSet
    <3> QED
      BY <1>6, <3>3 DEF MeantGroups
  <2>6. i \notin crossed' => Sees(i)'
    BY <1>1, <1>2, <1>3, <1>4, <2>5 DEF Mine, Sees, Checked
  <2>7. 0 \notin asked'[i]
    BY <1>1, <1>4 DEF Mine
  <2> QED
    BY <1>1, <1>4, <2>4, <2>6, <2>7, WholeLeaves DEF memory
<1>7. CASE file.own # NoSection
  <2>1. s = groups /\ groups' = groups /\ heap' = heap
    BY <1>1, <1>5, <1>7 DEF memory
  <2>2. Real(conf[i].groups)'
    BY <1>3, <2>1 DEF Real, Whole
  <2>3. ASSUME i \notin crossed'
        PROVE  Sees(i)'
    <3>1. Sees(i)
      BY <1>2, <1>4, <2>3 DEF Mine
    <3>2. Shows(conf[i].groups)' = Shows(groups)
      BY <2>1 DEF Shows
    <3> QED
      BY <1>1, <1>2, <1>3, <1>7, <3>1, <3>2 DEF Sees, Checked
  <2>4. 0 \notin asked'[i]
    BY <1>1, <1>4 DEF Mine
  <2> QED
    BY <1>1, <1>4, <2>2, <2>3, <2>4, WholeLeaves DEF memory
<1> QED
  BY <1>6, <1>7

LEMMA WholeConnects ==
    ASSUME IInv, Memory, Steady, Whole, NEW i \in SignIns, Connect(i), ~clash, ~clash'
    PROVE  Whole'
<1>1. /\ pc[i] = "connect" /\ Goto(i, "search") /\ UNCHANGED <<memory, conf, asked>>
      /\ GetUser(i)
  BY DEF Connect, GetUser
<1>2. pc'[i] = "search" /\ file' = file /\ (i \in crossed => i \in crossed')
  BY <1>1, GotoEffect, Places DEF IInv
<1>3. Named' = Named /\ MeantGroups' = MeantGroups
  BY <1>2, SameFile
<1>4. pc[i] \notin Filling /\ pc'[i] \notin Filling /\ Mine(i)
  BY <1>1, <1>2, Places DEF Whole
<1>5. Real(conf[i].groups)' /\ 0 \notin asked'[i]
  BY <1>1, <1>3, <1>4 DEF Mine, Real, memory
<1>6. Shows(conf[i].groups)' = Shows(conf[i].groups)
  BY <1>1 DEF Shows, memory
<1>7. i \notin crossed' => Sees(i)'
  BY <1>1, <1>2, <1>3, <1>4, <1>6 DEF Mine, Sees, Checked
<1> QED
  BY <1>1, <1>4, <1>5, <1>7, WholeLeaves DEF memory

\* Who gives its copy up shows nothing any more.
LEMMA GivesUp ==
    ASSUME IInv, Memory, NEW i \in SignIns, conf' = [conf EXCEPT ![i] = NoConf]
    PROVE  Real(conf[i].groups)'
<1>1. conf'[i] = NoConf
  BY DEF IInv, Typed, Memory, Cells
<1>2. conf'[i].groups.len = 0
  BY <1>1, Loaded DEF Memory, Cells
<1> QED
  BY <1>2 DEF Real

LEMMA WholeUnreachable ==
    ASSUME IInv, Memory, Steady, Whole, NEW i \in SignIns, Unreachable(i), ~clash, ~clash'
    PROVE  Whole'
<1>1. /\ pc[i] = "connect" /\ Goto(i, "refused") /\ UNCHANGED <<memory, asked>>
      /\ conf' = [conf EXCEPT ![i] = NoConf] /\ GetUser(i)
  BY DEF Unreachable, GetUser
<1>2. pc'[i] = "refused" /\ file' = file /\ (i \in crossed => i \in crossed')
  BY <1>1, GotoEffect, Places DEF IInv
<1>3. MeantGroups' = MeantGroups
  BY <1>2, SameFile
<1>4. pc[i] \notin Filling /\ pc'[i] \notin Filling /\ Mine(i)
  BY <1>1, <1>2, Places DEF Whole
<1>5. Real(conf[i].groups)' /\ 0 \notin asked'[i]
  BY <1>1, <1>4, GivesUp DEF Mine
<1>6. i \notin crossed' => Sees(i)'
  BY <1>1, <1>2, <1>3, <1>4 DEF Mine, Sees, Checked
<1> QED
  BY <1>1, <1>4, <1>5, <1>6, WholeLeaves DEF memory

\* Half a name is a matter of the directory only: while one fills the record,
\* each name it sorts is whole.
LEMMA WholeChokes ==
    ASSUME IInv, Memory, Steady, Whole, NEW i \in SignIns, Chokes(i), ~clash, ~clash'
    PROVE  Whole'
<1>1. /\ Goto(i, "choked") /\ UNCHANGED <<memory, asked>>
      /\ conf' = [conf EXCEPT ![i] = NoConf]
      /\ pc[i] \in {"less", "distinct", "search"}
  BY DEF Chokes
<1>2. pc'[i] = "choked" /\ file' = file /\ (i \in crossed => i \in crossed')
  <2>1. pc[i] \notin Ended
    BY <1>1, Places
  <2> QED
    BY <1>1, <2>1, GotoEffect, Places DEF IInv
<1>3. pc[i] = "search"
  BY <1>1, ChokesNot
<1>4. pc[i] \notin Filling /\ pc'[i] \notin Filling /\ Mine(i)
  BY <1>2, <1>3, Places DEF Whole
<1>5. Real(conf[i].groups)' /\ 0 \notin asked'[i]
  BY <1>1, <1>4, GivesUp DEF Mine
<1>6. i \in crossed'
  BY <1>2, Choked
<1> QED
  BY <1>1, <1>4, <1>5, <1>6, WholeLeaves DEF memory

LEMMA WholeSearches ==
    ASSUME IInv, Memory, Steady, Whole, NEW i \in SignIns, Search(i), ~clash, ~clash'
    PROVE  Whole'
<1> DEFINE s == conf[i].groups
           torn == Racing(s.arr) \cap 1..s.len
           read(half) == {IF k \in half THEN Torn ELSE heap[s.arr][k] : k \in 1..s.len}
<1>1. PICK state \in {"ok", "refused"} : Goto(i, state)
  BY DEF Search
<1>2. /\ pc[i] = "search" /\ UNCHANGED memory /\ GetUser(i)
      /\ conf' = [conf EXCEPT ![i] = NoConf]
  BY DEF Search, GetUser
<1>3. PICK half \in SUBSET torn : asked' = [asked EXCEPT ![i] = read(half)]
  BY DEF Search
<1>4. asked'[i] = read(half)
  BY <1>3 DEF Memory, Cells
<1>5. pc'[i] = state /\ file' = file /\ (i \in crossed => i \in crossed')
  BY <1>1, <1>2, GotoEffect, Places DEF IInv
<1>6. Named' = Named /\ MeantGroups' = MeantGroups
  BY <1>5, SameFile
<1>7. pc[i] \notin Filling /\ pc'[i] \notin Filling /\ Mine(i) /\ pc[i] \in Active
  BY <1>1, <1>2, <1>5, Places DEF Whole
<1>8. Real(conf[i].groups)'
  BY <1>2, GivesUp
<1>9. 0 \notin asked'[i]
  <2>1. \A k \in 1..s.len : heap[s.arr][k] \in Named
    BY <1>7 DEF Mine, Real
  <2>2. 0 \notin Named /\ Torn # 0
    BY Names, GroupsAssumption DEF Memory, Cells
  <2> QED
    BY <1>4, <2>1, <2>2
<1>10. ASSUME i \notin crossed'
       PROVE  Sees(i)'
  <2>1. Sees(i) /\ i \notin crossed
    BY <1>5, <1>7, <1>10 DEF Mine
  <2>2. \A j \in SignIns : pc[j] \notin Filling
    BY <1>7, <2>1 DEF IInv, Met
  <2>3. Racing(s.arr) = {}
    BY <2>2, Places DEF Racing, Swaps, Swapped
  <2>4. asked'[i] = {heap[s.arr][k] : k \in 1..s.len}
    BY <1>4, <2>3
  <2>5. ToSet(Shows(s)) = {heap[s.arr][k] : k \in 1..s.len}
    BY DEF ToSet, Shows
  <2>6. asked'[i] = MeantGroups
    BY <1>2, <2>1, <2>4, <2>5 DEF Sees
  <2> QED
    BY <1>1, <1>5, <1>6, <2>6 DEF Sees, Checked
<1> QED
  BY <1>2, <1>7, <1>8, <1>9, <1>10, WholeLeaves DEF memory

----------------------------------------------------------------------------
(* The groups: append, and unique.Strings on the list.                     *)

\* What sign-in i knows of its registers and of the list while it is alone.
LEMMA Alone ==
    ASSUME Memory, Steady, Whole, NEW i \in SignIns, pc[i] \in Filling, ~clash
    PROVE  /\ Current(i) /\ Sorting(i) /\ Placed(pc[i], sort[i])
           /\ sort \in [SignIns -> Registers(Words)]
           /\ sort[i].n \in Nat /\ sort[i].i \in Nat /\ sort[i].j \in Nat
           /\ Named \in SUBSET Nat /\ groups.len \in Nat
           /\ Shows(groups) \in [1..groups.len -> Named]
           /\ pc[i] \notin {"write", "append"} => groups.len >= 1
<1>1. Current(i)
  BY DEF Steady, Lone
<1>2. Sorting(i) /\ Placed(pc[i], sort[i])
  BY DEF Whole, Mine, Memory, Holds
<1>3. /\ sort \in [SignIns -> Registers(Words)]
      /\ sort[i].n \in Nat /\ sort[i].i \in Nat /\ sort[i].j \in Nat
  BY DEF Memory, Cells, Registers
<1>4. /\ Named \in SUBSET Nat /\ groups.len \in Nat
      /\ Shows(groups) \in [1..groups.len -> Named]
      /\ (groups.len = 0) = (file.own.groups = <<>>)
  BY Listed DEF Whole
<1>5. pc[i] \notin {"write", "append"} => file.own.groups # <<>>
  BY DEF Memory, Holds
<1> QED
  BY <1>1, <1>2, <1>3, <1>4, <1>5

\* A look at the list.
LEMMA WholeLooks ==
    ASSUME IInv, Memory, Steady, Whole, NEW i \in SignIns, GetRepoAuth(i), ~clash, ~clash',
           pc[i] \in Filling \ {"write"}, pc'[i] \in Filling \ {"write"},
           UNCHANGED <<memory, conf, asked>>, Sorting(i)'
    PROVE  Whole'
<1>1. file' = file
  BY Walks, GotoEffect DEF IInv
<1>2. Named' = Named
  BY <1>1, SameFile
<1>3. StaysReal /\ Real(groups)'
  BY <1>2 DEF StaysReal, Real, Whole, memory
<1> QED
  BY <1>3, WholeSorts DEF memory

\* A sort begins: nothing is known of the order yet.
LEMMA WholeSortBegins ==
    ASSUME IInv, Memory, Steady, Whole, NEW i \in SignIns, SortBegins(i), ~clash, ~clash'
    PROVE  Whole'
<1> DEFINE state == IF groups.len < 2 THEN "front" ELSE "less"
<1>1. /\ pc[i] = "len" /\ Goto(i, state) /\ UNCHANGED <<memory, conf, asked>>
      /\ sort' = [sort EXCEPT ![i] = [@ EXCEPT !.n = groups.len, !.i = 2, !.j = 2]]
  BY DEF SortBegins
<1>2. pc[i] \in Filling \ {"write"} /\ GetRepoAuth(i)
  BY <1>1, Places DEF GetRepoAuth
<1>3. pc'[i] = state /\ pc'[i] \in Filling \ {"write"} /\ file' = file
  BY <1>1, GotoEffect, Places DEF IInv
<1>4. Named' = Named /\ Shows(groups)' = Shows(groups) /\ groups' = groups
  BY <1>1, <1>3, SameFile DEF memory, Shows
<1>5. /\ Sorting(i) /\ sort \in [SignIns -> Registers(Words)] /\ groups.len \in Nat
      /\ Shows(groups) \in [1..groups.len -> Named] /\ Named \in SUBSET Nat
  BY <1>2, Alone
<1>6. Covers(Named, Shows(groups), 1..groups.len)
  BY <1>1, <1>5 DEF Sorting
<1>7. CASE groups.len < 2
  <2>1. InPlace(Named, Shows(groups), groups.len)
    BY <1>5, <1>6, <1>7 DEF InPlace, Rises
  <2>2. Sorting(i)'
    BY <1>3, <1>4, <1>7, <2>1 DEF Sorting
  <2> QED
    BY <1>1, <1>2, <1>3, <2>2, WholeLooks
<1>8. CASE ~(groups.len < 2)
  <2>1. sort'[i].i = 2 /\ sort'[i].j = 2
    BY <1>1, <1>5 DEF Registers
  <2>2. Comparing(Named, Shows(groups), groups.len, sort'[i])
    BY <1>6, <2>1 DEF Comparing, RisesBut
  <2>3. Sorting(i)'
    BY <1>3, <1>4, <1>8, <2>2 DEF Sorting
  <2> QED
    BY <1>1, <1>2, <1>3, <2>3, WholeLooks
<1> QED
  BY <1>7, <1>8

LEMMA WholeInOrder ==
    ASSUME IInv, Memory, Steady, Whole, NEW i \in SignIns, InOrder(i), ~clash, ~clash'
    PROVE  Whole'
<1> DEFINE k == sort[i].i
           j == sort[i].j
           state == IF k + 1 > sort[i].n THEN "front" ELSE "less"
<1>1. /\ pc[i] = "less" /\ Shows(groups)[j] >= Shows(groups)[j - 1]
      /\ UNCHANGED <<memory, conf, asked>> /\ Compare(i, k, 1)
  <2>1. PICK x \in Readings(groups.arr, j), y \in Readings(groups.arr, j - 1) : NotBefore(x, y)
    BY DEF InOrder
  <2>2. pc[i] = "less" /\ UNCHANGED <<memory, conf, asked>> /\ Compare(i, k, 1)
    BY DEF InOrder
  <2>3. j \in 1..groups.len /\ j - 1 \in 1..groups.len
    BY <2>2, ReadsWhole DEF Placed
  <2> QED
    BY <2>1, <2>2, <2>3, ReadsWhole DEF NotBefore
<1>2. /\ Goto(i, state)
      /\ sort' = [sort EXCEPT ![i] = [@ EXCEPT !.i = k + 1, !.j = k + 1,
                                       !.a = 0, !.b = 0]]
  BY <1>1 DEF Compare
<1>3. pc[i] \in Filling \ {"write"} /\ GetRepoAuth(i)
  BY <1>1, Places DEF GetRepoAuth
<1>4. pc'[i] = state /\ pc'[i] \in Filling \ {"write"} /\ file' = file
  BY <1>2, GotoEffect, Places DEF IInv
<1>5. Named' = Named /\ Shows(groups)' = Shows(groups) /\ groups' = groups
  BY <1>1, <1>4, SameFile DEF memory, Shows
<1>6. /\ Sorting(i) /\ sort \in [SignIns -> Registers(Words)] /\ groups.len \in Nat
      /\ Shows(groups) \in [1..groups.len -> Named] /\ Named \in SUBSET Nat
      /\ k \in Nat /\ j \in Nat /\ sort[i].n = groups.len /\ Placed("less", sort[i])
  BY <1>1, <1>3, Alone DEF Current
<1>7. 2 <= j /\ j <= k /\ k <= groups.len
  BY <1>6 DEF Placed
<1>8. Comparing(Named, Shows(groups), groups.len, sort[i])
  BY <1>1, <1>6 DEF Sorting
<1>9. Shows(groups)[j - 1] <= Shows(groups)[j]
  <2>1. Shows(groups)[j] \in Nat /\ Shows(groups)[j - 1] \in Nat
    <3>1. j \in 1..groups.len /\ j - 1 \in 1..groups.len
      BY <1>6, <1>7
    <3> QED
      BY <1>6, <3>1
  <2> QED
    BY <1>1, <2>1
<1>10. Rises(Shows(groups), 1..k)
  BY <1>6, <1>7, <1>8, <1>9, InsertDone
<1>11. sort'[i].i = k + 1 /\ sort'[i].j = k + 1
  BY <1>2, <1>6 DEF Registers
<1>12. /\ k + 1 > groups.len => InPlace(Named, Shows(groups), groups.len)
       /\ Comparing(Named, Shows(groups), groups.len, sort'[i])
  <2>1. Covers(Named, Shows(groups), 1..groups.len)
    BY <1>8 DEF Comparing
  <2> QED
    BY <1>6, <1>7, <1>10, <1>11, <2>1, InsertNext
<1>13. Sorting(i)'
  BY <1>4, <1>5, <1>6, <1>12 DEF Sorting
<1> QED
  BY <1>1, <1>3, <1>4, <1>13, WholeLooks

LEMMA WholeOutOfOrder ==
    ASSUME IInv, Memory, Steady, Whole, NEW i \in SignIns, OutOfOrder(i), ~clash, ~clash'
    PROVE  Whole'
<1> DEFINE j == sort[i].j
<1>1. /\ pc[i] = "less" /\ Shows(groups)[j] < Shows(groups)[j - 1]
      /\ UNCHANGED <<memory, conf, asked>> /\ Goto(i, "swap")
      /\ sort' = [sort EXCEPT ![i] =
           [@ EXCEPT !.arr = groups.arr, !.a = Shows(groups)[j - 1], !.b = Shows(groups)[j]]]
  <2>1. PICK x \in Readings(groups.arr, j), y \in Readings(groups.arr, j - 1) : Before(x, y)
    BY DEF OutOfOrder
  <2>2. pc[i] = "less" /\ UNCHANGED <<memory, conf, asked>> /\ Goto(i, "swap")
    BY DEF OutOfOrder
  <2>3. PICK a \in Readings(groups.arr, j - 1), b \in Readings(groups.arr, j) :
           sort' = [sort EXCEPT ![i] = [@ EXCEPT !.arr = groups.arr, !.a = a, !.b = b]]
    BY DEF OutOfOrder
  <2>4. j \in 1..groups.len /\ j - 1 \in 1..groups.len
    BY <2>2, ReadsWhole DEF Placed
  <2>5. /\ Readings(groups.arr, j) = {Shows(groups)[j]} /\ Shows(groups)[j] # Torn
        /\ Readings(groups.arr, j - 1) = {Shows(groups)[j - 1]} /\ Shows(groups)[j - 1] # Torn
    BY <2>2, <2>4, ReadsWhole
  <2>6. Shows(groups)[j] < Shows(groups)[j - 1]
    BY <2>1, <2>5 DEF Before
  <2>7. a = Shows(groups)[j - 1] /\ b = Shows(groups)[j]
    BY <2>5
  <2> QED
    BY <2>2, <2>3, <2>6, <2>7
<1>2. pc[i] \in Filling \ {"write"} /\ GetRepoAuth(i)
  BY <1>1, Places DEF GetRepoAuth
<1>3. pc'[i] = "swap" /\ pc'[i] \in Filling \ {"write"} /\ file' = file
  BY <1>1, GotoEffect, Places DEF IInv
<1>4. Named' = Named /\ Shows(groups)' = Shows(groups) /\ groups' = groups
  BY <1>1, <1>3, SameFile DEF memory, Shows
<1>5. Sorting(i) /\ sort \in [SignIns -> Registers(Words)]
  BY <1>2, Alone
<1>6. Comparing(Named, Shows(groups), groups.len, sort[i])
  BY <1>1, <1>5 DEF Sorting
<1>7. /\ sort'[i].i = sort[i].i /\ sort'[i].j = j
      /\ sort'[i].a = Shows(groups)[j - 1] /\ sort'[i].b = Shows(groups)[j]
  BY <1>1, <1>5 DEF Registers
<1>8. Swapping(Named, Shows(groups), groups.len, sort'[i])
  BY <1>1, <1>6, <1>7 DEF Swapping, Comparing
<1>9. Sorting(i)'
  BY <1>3, <1>4, <1>8 DEF Sorting
<1> QED
  BY <1>1, <1>2, <1>3, <1>9, WholeLooks

LEMMA WholeFrontBegins ==
    ASSUME IInv, Memory, Steady, Whole, NEW i \in SignIns, FrontBegins(i), ~clash, ~clash'
    PROVE  Whole'
<1> DEFINE state == IF groups.len < 2 THEN "truncate" ELSE "distinct"
<1>1. /\ pc[i] = "front" /\ Goto(i, state) /\ UNCHANGED <<memory, conf, asked>>
      /\ sort' = [sort EXCEPT ![i] = [@ EXCEPT !.n = groups.len, !.i = 1, !.j = 2]]
  BY DEF FrontBegins
<1>2. pc[i] \in Filling \ {"write"} /\ GetRepoAuth(i)
  BY <1>1, Places DEF GetRepoAuth
<1>3. pc'[i] = state /\ pc'[i] \in Filling \ {"write"} /\ file' = file
  BY <1>1, GotoEffect, Places DEF IInv
<1>4. Named' = Named /\ Shows(groups)' = Shows(groups) /\ groups' = groups
  BY <1>1, <1>3, SameFile DEF memory, Shows
<1>5. /\ Sorting(i) /\ sort \in [SignIns -> Registers(Words)] /\ groups.len \in Nat
      /\ groups.len >= 1
  BY <1>1, <1>2, Alone
<1>6. /\ Covers(Named, Shows(groups), 1..groups.len)
      /\ Rises(Shows(groups), 1..groups.len)
  BY <1>1, <1>5 DEF Sorting, InPlace
<1>7. sort'[i].i = 1 /\ sort'[i].j = 2
  BY <1>1, <1>5 DEF Registers
<1>8. Climbs(Shows(groups), 1)
  BY DEF Climbs
<1>9. CASE groups.len < 2
  <2>1. 1..groups.len = 1..1
    BY <1>5, <1>9
  <2>2. Chosen(Named, Shows(groups), 1)
    BY <1>6, <1>8, <2>1 DEF Chosen
  <2>3. Sorting(i)'
    BY <1>3, <1>4, <1>7, <1>9, <2>2 DEF Sorting
  <2> QED
    BY <1>1, <1>2, <1>3, <2>3, WholeLooks
<1>10. CASE ~(groups.len < 2)
  <2>1. (1..1) \cup (2..groups.len) = 1..groups.len /\ {1} \cup (2..groups.len) = 1..groups.len
    BY <1>5
  <2>2. Choosing(Named, Shows(groups), groups.len, sort'[i])
    BY <1>6, <1>7, <1>8, <2>1 DEF Choosing
  <2>3. Sorting(i)'
    BY <1>3, <1>4, <1>10, <2>2 DEF Sorting
  <2> QED
    BY <1>1, <1>2, <1>3, <2>3, WholeLooks
<1> QED
  BY <1>9, <1>10

\* The next element of those that are compared with the last one kept.
LEMMA SortingNext ==
    ASSUME IInv, NEW i \in SignIns, CompareKept(i, sort[i].i), sort[i].n = groups.len,
           groups' = groups, sort \in [SignIns -> Registers(Words)],
           groups.len \in Nat, sort[i].i \in Nat, sort[i].j \in Nat,
           Covers(Named, Shows(groups)', (1..sort[i].i) \cup (sort[i].j + 1..groups.len)),
           Climbs(Shows(groups)', sort[i].i),
           Rises(Shows(groups)', {sort[i].i} \cup (sort[i].j + 1..groups.len))
    PROVE  pc'[i] \in Filling \ {"write"} /\ Sorting(i)'
<1> DEFINE k == sort[i].i
           j == sort[i].j
           state == IF j + 1 > sort[i].n THEN "truncate" ELSE "distinct"
<1>1. Goto(i, state) /\ sort' = [sort EXCEPT ![i] = [@ EXCEPT !.i = k, !.j = j + 1,
                                                       !.a = 0, !.b = 0]]
  BY DEF CompareKept
<1>2. pc'[i] = state /\ file' = file
  BY <1>1, GotoEffect, Places DEF IInv
<1>3. Named' = Named
  BY <1>2, SameFile
<1>4. sort'[i].i = k /\ sort'[i].j = j + 1
  BY <1>1 DEF Registers
<1>5. /\ j + 1 > groups.len => Chosen(Named, Shows(groups)', sort'[i].i)
      /\ Choosing(Named, Shows(groups)', groups.len, sort'[i])
  BY <1>4, ChooseNext
<1>6. Sorting(i)'
  BY <1>2, <1>3, <1>5 DEF Sorting
<1> QED
  BY <1>2, <1>6, Places

LEMMA WholeDuplicate ==
    ASSUME IInv, Memory, Steady, Whole, NEW i \in SignIns, Duplicate(i), ~clash, ~clash'
    PROVE  Whole'
<1> DEFINE k == sort[i].i
           j == sort[i].j
<1>1. /\ pc[i] = "distinct" /\ Shows(groups)[k] >= Shows(groups)[j]
      /\ UNCHANGED <<memory, conf, asked>> /\ CompareKept(i, k)
  <2>1. PICK x \in Readings(groups.arr, k), y \in Readings(groups.arr, j) : NotBefore(x, y)
    BY DEF Duplicate
  <2>2. pc[i] = "distinct" /\ UNCHANGED <<memory, conf, asked>> /\ CompareKept(i, k)
    BY DEF Duplicate
  <2>3. j \in 1..groups.len /\ k \in 1..groups.len
    BY <2>2, ReadsWhole DEF Placed
  <2> QED
    BY <2>1, <2>2, <2>3, ReadsWhole DEF NotBefore
<1>2. pc[i] \in Filling \ {"write"} /\ GetRepoAuth(i)
  BY <1>1, Places DEF GetRepoAuth
<1>3. Shows(groups)' = Shows(groups) /\ groups' = groups
  BY <1>1 DEF memory, Shows
<1>4. /\ Sorting(i) /\ sort \in [SignIns -> Registers(Words)] /\ groups.len \in Nat
      /\ Shows(groups) \in [1..groups.len -> Named] /\ Named \in SUBSET Nat
      /\ k \in Nat /\ j \in Nat /\ sort[i].n = groups.len /\ Placed("distinct", sort[i])
  BY <1>1, <1>2, Alone DEF Current
<1>5. 1 <= k /\ k < j /\ j <= groups.len
  BY <1>4 DEF Placed
<1>6. Choosing(Named, Shows(groups), groups.len, sort[i])
  BY <1>1, <1>4 DEF Sorting
<1>7. /\ Covers(Named, Shows(groups), (1..k) \cup (j + 1..groups.len))
      /\ Climbs(Shows(groups), k) /\ Rises(Shows(groups), {k} \cup (j + 1..groups.len))
  BY <1>1, <1>4, <1>5, <1>6, DuplicateSkipped
<1>8. pc'[i] \in Filling \ {"write"} /\ Sorting(i)'
  BY <1>1, <1>3, <1>4, <1>7, SortingNext
<1> QED
  BY <1>1, <1>2, <1>8, WholeLooks

LEMMA WholeDistinct ==
    ASSUME IInv, Memory, Steady, Whole, NEW i \in SignIns, Distinct(i), ~clash, ~clash'
    PROVE  Whole'
<1> DEFINE k == sort[i].i
           j == sort[i].j
<1>1. /\ pc[i] = "distinct" /\ Shows(groups)[k] < Shows(groups)[j]
      /\ UNCHANGED <<memory, conf, asked>> /\ Goto(i, "keep")
      /\ sort' = [sort EXCEPT ![i] = [@ EXCEPT !.i = k + 1, !.arr = groups.arr,
                                       !.a = Shows(groups)[j], !.b = Shows(groups)[k + 1]]]
  <2>1. PICK x \in Readings(groups.arr, k), y \in Readings(groups.arr, j) : Before(x, y)
    BY DEF Distinct
  <2>2. pc[i] = "distinct" /\ UNCHANGED <<memory, conf, asked>> /\ Goto(i, "keep")
    BY DEF Distinct
  <2>3. PICK a \in Readings(groups.arr, j), b \in Readings(groups.arr, k + 1) :
           sort' = [sort EXCEPT ![i] = [@ EXCEPT !.i = k + 1, !.arr = groups.arr,
                                                 !.a = a, !.b = b]]
    BY DEF Distinct
  <2>4. j \in 1..groups.len /\ k \in 1..groups.len /\ k + 1 \in 1..groups.len
    BY <2>2, ReadsWhole DEF Placed
  <2>5. /\ Readings(groups.arr, j) = {Shows(groups)[j]} /\ Shows(groups)[j] # Torn
        /\ Readings(groups.arr, k) = {Shows(groups)[k]} /\ Shows(groups)[k] # Torn
        /\ Readings(groups.arr, k + 1) = {Shows(groups)[k + 1]}
    BY <2>2, <2>4, ReadsWhole
  <2>6. Shows(groups)[k] < Shows(groups)[j]
    BY <2>1, <2>5 DEF Before
  <2>7. a = Shows(groups)[j] /\ b = Shows(groups)[k + 1]
    BY <2>5
  <2> QED
    BY <2>2, <2>3, <2>6, <2>7
<1>2. pc[i] \in Filling \ {"write"} /\ GetRepoAuth(i)
  BY <1>1, Places DEF GetRepoAuth
<1>3. pc'[i] = "keep" /\ pc'[i] \in Filling \ {"write"} /\ file' = file
  BY <1>1, GotoEffect, Places DEF IInv
<1>4. Named' = Named /\ Shows(groups)' = Shows(groups) /\ groups' = groups
  BY <1>1, <1>3, SameFile DEF memory, Shows
<1>5. /\ Sorting(i) /\ sort \in [SignIns -> Registers(Words)] /\ groups.len \in Nat
      /\ Shows(groups) \in [1..groups.len -> Named] /\ Named \in SUBSET Nat
      /\ k \in Nat /\ j \in Nat /\ sort[i].n = groups.len /\ Placed("distinct", sort[i])
  BY <1>1, <1>2, Alone DEF Current
<1>6. 1 <= k /\ k < j /\ j <= groups.len
  BY <1>5 DEF Placed
<1>7. Choosing(Named, Shows(groups), groups.len, sort[i])
  BY <1>1, <1>5 DEF Sorting
<1>8. /\ sort'[i].i = k + 1 /\ sort'[i].j = j
      /\ sort'[i].a = Shows(groups)[j] /\ sort'[i].b = Shows(groups)[k + 1]
  BY <1>1, <1>5 DEF Registers
<1>9. Moving(Named, Shows(groups), groups.len, sort'[i])
  BY <1>1, <1>5, <1>6, <1>7, <1>8, MoveChosen
<1>10. Sorting(i)'
  BY <1>3, <1>4, <1>9 DEF Sorting
<1> QED
  BY <1>1, <1>2, <1>3, <1>10, WholeLooks

\* One element of the list is overwritten.
LEMMA Overwritten ==
    ASSUME Memory, Whole, NEW p \in 1..groups.len, NEW v \in Named,
           heap' = [heap EXCEPT ![groups.arr][p] = v], groups' = groups, file' = file
    PROVE  /\ StaysReal /\ Real(groups)'
           /\ Shows(groups)' = [Shows(groups) EXCEPT ![p] = v]
<1>1. /\ heap \in [ArrayIds -> Seq(Words)] /\ groups.arr \in Shared /\ groups.arr \in ArrayIds
      /\ groups.len \in Nat /\ groups.len <= Len(heap[groups.arr])
      /\ Len(heap[groups.arr]) \in Nat /\ v \in Words
  BY Arrayed, LenProperties DEF Memory, Cells, Slices, Words, Wholes
<1>2. /\ \A a \in ArrayIds : a # groups.arr => heap'[a] = heap[a]
      /\ \A k \in 1..Len(heap[groups.arr]) :
            heap'[groups.arr][k] = IF k = p THEN v ELSE heap[groups.arr][k]
  BY <1>1, Stored DEF Memory
<1>3. Named' = Named
  BY SameFile
<1>4. \A k \in 1..groups.len : heap'[groups.arr][k] = IF k = p THEN v ELSE heap[groups.arr][k]
  <2>1. \A k \in 1..groups.len : k \in 1..Len(heap[groups.arr])
    BY <1>1
  <2> QED
    BY <1>2, <2>1
<1>5. Real(groups)'
  BY <1>3, <1>4 DEF Real, Whole
<1>6. Shows(groups)' = [Shows(groups) EXCEPT ![p] = v]
  BY <1>4 DEF Shows
<1>7. StaysReal
  <2> SUFFICES ASSUME NEW j \in SignIns, Real(conf[j].groups), NEW k \in 1..conf[j].groups.len
               PROVE  heap'[conf[j].groups.arr][k] \in Named
    BY DEF StaysReal
  <2>1. /\ conf[j].groups.arr \in ArrayIds /\ conf[j].groups.len \in Nat
        /\ conf[j].groups.len <= Len(heap[conf[j].groups.arr])
    BY DEF Memory, Holds, Slices
  <2>2. heap[conf[j].groups.arr][k] \in Named
    BY DEF Real
  <2>3. CASE conf[j].groups.arr # groups.arr
    BY <1>2, <2>1, <2>2, <2>3
  <2>4. CASE conf[j].groups.arr = groups.arr
    <3>1. k \in 1..Len(heap[groups.arr])
      BY <1>1, <2>1, <2>4
    <3> QED
      BY <1>2, <2>2, <2>4, <3>1
  <2> QED
    BY <2>3, <2>4
<1> QED
  BY <1>5, <1>6, <1>7

LEMMA WholeSwapBegins ==
    ASSUME IInv, Memory, Steady, Whole, NEW i \in SignIns, StoreFirst(i), pc[i] = "swap",
           ~clash, ~clash'
    PROVE  Whole'
<1> DEFINE r == sort[i]
<1>1. /\ heap' = [heap EXCEPT ![r.arr][r.j] = r.a]
      /\ Goto(i, "swap2") /\ UNCHANGED <<field, groups, sort, conf, asked>>
  <2>1. Spot(i) = r.j /\ pc[i] \in Swaps
    BY DEF Spot, Swaps
  <2>2. PICK x \in Writings(i, r.a, r.b) : heap' = [heap EXCEPT ![r.arr][Spot(i)] = x]
    BY DEF StoreFirst
  <2>3. x = r.a
    BY <2>1, <2>2, Exact DEF Steady
  <2> QED
    BY <2>1, <2>2, <2>3 DEF StoreFirst
<1>2. pc[i] \in Filling \ {"write"} /\ GetRepoAuth(i)
  BY Places DEF GetRepoAuth
<1>3. pc'[i] = "swap2" /\ pc'[i] \in Filling \ {"write"} /\ file' = file
  BY <1>1, GotoEffect, Places DEF IInv
<1>4. Named' = Named
  BY <1>3, SameFile
<1>5. /\ Sorting(i) /\ groups.len \in Nat /\ r.arr = groups.arr
      /\ Shows(groups) \in [1..groups.len -> Named] /\ Named \in SUBSET Nat
      /\ r.i \in Nat /\ r.j \in Nat /\ r.n = groups.len /\ Placed("swap", r)
  BY <1>2, Alone DEF Current, Swaps
<1>6. 2 <= r.j /\ r.j <= r.i /\ r.i <= groups.len /\ r.j \in 1..groups.len
      /\ r.j - 1 \in 1..groups.len
  BY <1>5 DEF Placed
<1>7. Swapping(Named, Shows(groups), groups.len, r)
  BY <1>5 DEF Sorting
<1>8. r.a \in Named
  BY <1>5, <1>6, <1>7 DEF Swapping
<1>9. /\ StaysReal /\ Real(groups)'
      /\ Shows(groups)' = [Shows(groups) EXCEPT ![r.j] = r.a]
  BY <1>1, <1>3, <1>5, <1>6, <1>8, Overwritten
<1>10. HalfSwapped(Named, Shows(groups)', groups.len, r)
  BY <1>5, <1>6, <1>7, <1>9, SwapBegun
<1>11. Sorting(i)'
  BY <1>1, <1>3, <1>4, <1>10 DEF Sorting
<1> QED
  BY <1>1, <1>2, <1>3, <1>9, <1>11, WholeSorts

LEMMA WholeKeepBegins ==
    ASSUME IInv, Memory, Steady, Whole, NEW i \in SignIns, StoreFirst(i), pc[i] = "keep",
           ~clash, ~clash'
    PROVE  Whole'
<1> DEFINE r == sort[i]
<1>1. /\ heap' = [heap EXCEPT ![r.arr][r.i] = r.a]
      /\ Goto(i, "keep2") /\ UNCHANGED <<field, groups, sort, conf, asked>>
  <2>1. Spot(i) = r.i /\ pc[i] \in Swaps
    BY DEF Spot, Swaps
  <2>2. PICK x \in Writings(i, r.a, r.b) : heap' = [heap EXCEPT ![r.arr][Spot(i)] = x]
    BY DEF StoreFirst
  <2>3. x = r.a
    BY <2>1, <2>2, Exact DEF Steady
  <2> QED
    BY <2>1, <2>2, <2>3 DEF StoreFirst
<1>2. pc[i] \in Filling \ {"write"} /\ GetRepoAuth(i)
  BY Places DEF GetRepoAuth
<1>3. pc'[i] = "keep2" /\ pc'[i] \in Filling \ {"write"} /\ file' = file
  BY <1>1, GotoEffect, Places DEF IInv
<1>4. Named' = Named
  BY <1>3, SameFile
<1>5. /\ Sorting(i) /\ groups.len \in Nat /\ r.arr = groups.arr
      /\ Shows(groups) \in [1..groups.len -> Named] /\ Named \in SUBSET Nat
      /\ r.i \in Nat /\ r.j \in Nat /\ r.n = groups.len /\ Placed("keep", r)
  BY <1>2, Alone DEF Current, Swaps
<1>6. 2 <= r.i /\ r.i <= r.j /\ r.j <= groups.len /\ r.i \in 1..groups.len
      /\ r.j \in 1..groups.len
  BY <1>5 DEF Placed
<1>7. Moving(Named, Shows(groups), groups.len, r)
  BY <1>5 DEF Sorting
<1>8. r.a \in Named
  BY <1>5, <1>6, <1>7 DEF Moving
<1>9. /\ StaysReal /\ Real(groups)'
      /\ Shows(groups)' = [Shows(groups) EXCEPT ![r.i] = r.a]
  BY <1>1, <1>3, <1>5, <1>6, <1>8, Overwritten
<1>10. HalfMoved(Named, Shows(groups)', groups.len, r)
  BY <1>5, <1>6, <1>7, <1>9, MoveBegun
<1>11. Sorting(i)'
  BY <1>1, <1>3, <1>4, <1>10 DEF Sorting
<1> QED
  BY <1>1, <1>2, <1>3, <1>9, <1>11, WholeSorts

LEMMA WholeSwapEnds ==
    ASSUME IInv, Memory, Steady, Whole, NEW i \in SignIns, StoreSecond(i), pc[i] = "swap2",
           ~clash, ~clash'
    PROVE  Whole'
<1> DEFINE r == sort[i]
           h == Shows(groups)'
<1>1. /\ heap' = [heap EXCEPT ![r.arr][r.j - 1] = r.b]
      /\ Compare(i, r.i, r.j - 1) /\ UNCHANGED <<field, groups, conf, asked>>
  <2>1. Spot(i) = r.j - 1 /\ pc[i] \in Swapped
    BY DEF Spot, Swapped
  <2>2. PICK x \in Writings(i, r.b, r.a) : heap' = [heap EXCEPT ![r.arr][Spot(i)] = x]
    BY DEF StoreSecond
  <2>3. x = r.b
    BY <2>1, <2>2, Exact DEF Steady
  <2> QED
    BY <2>1, <2>2, <2>3 DEF StoreSecond
<1>2. pc[i] \in Filling \ {"write"} /\ GetRepoAuth(i)
  BY Places DEF GetRepoAuth
<1>3. file' = file
  BY <1>2, Walks, GotoEffect DEF IInv
<1>4. Named' = Named
  BY <1>3, SameFile
<1>5. /\ Sorting(i) /\ groups.len \in Nat /\ r.arr = groups.arr
      /\ Shows(groups) \in [1..groups.len -> Named] /\ Named \in SUBSET Nat
      /\ r.i \in Nat /\ r.j \in Nat /\ r.n = groups.len /\ Placed("swap2", r)
      /\ sort \in [SignIns -> Registers(Words)]
  BY <1>2, Alone DEF Current, Swapped
<1>6. 2 <= r.j /\ r.j <= r.i /\ r.i <= groups.len /\ r.j - 1 \in 1..groups.len
  BY <1>5 DEF Placed
<1>7. HalfSwapped(Named, Shows(groups), groups.len, r)
  BY <1>5 DEF Sorting
<1>8. r.b \in Named
  BY <1>7 DEF HalfSwapped
<1>9. StaysReal /\ Real(groups)' /\ h = [Shows(groups) EXCEPT ![r.j - 1] = r.b]
  BY <1>1, <1>3, <1>5, <1>6, <1>8, Overwritten
<1> HIDE DEF h
<1>10. /\ Covers(Named, h, 1..groups.len)
       /\ RisesBut(h, r.i, r.j - 1)
  BY <1>5, <1>6, <1>7, <1>9, SwapEnded
<1>11. CASE r.j - 1 > 1
  <2>1. sort' = [sort EXCEPT ![i] = [@ EXCEPT !.i = r.i, !.j = r.j - 1,
                                             !.a = 0, !.b = 0]]
        /\ Goto(i, "less")
    <3>1. ~(r.i > r.n)
      BY <1>5, <1>6
    <3> QED
      BY <1>1, <1>11, <3>1 DEF Compare
  <2>2. pc'[i] = "less" /\ pc'[i] \in Filling \ {"write"}
    BY <2>1, GotoEffect, Places DEF IInv
  <2>3. sort'[i].i = r.i /\ sort'[i].j = r.j - 1
    BY <1>5, <2>1 DEF Registers
  <2>4. Comparing(Named, h, groups.len, sort'[i])
    BY <1>10, <2>3 DEF Comparing
  <2>5. Sorting(i)'
    BY <1>1, <1>4, <2>2, <2>4 DEF Sorting, h
  <2> QED
    BY <1>1, <1>2, <1>9, <2>2, <2>5, WholeSorts
<1>12. CASE ~(r.j - 1 > 1)
  <2> DEFINE state == IF r.i + 1 > r.n THEN "front" ELSE "less"
  <2>1. sort' = [sort EXCEPT ![i] = [@ EXCEPT !.i = r.i + 1, !.j = r.i + 1,
                                             !.a = 0, !.b = 0]]
        /\ Goto(i, state)
    BY <1>1, <1>12 DEF Compare
  <2>2. pc'[i] = state /\ pc'[i] \in Filling \ {"write"}
    BY <2>1, GotoEffect, Places DEF IInv
  <2>3. sort'[i].i = r.i + 1 /\ sort'[i].j = r.i + 1
    BY <1>5, <2>1 DEF Registers
  <2>4. Rises(h, 1..r.i)
    <3>1. \A p, q \in 1..r.i : p < q => q # r.j - 1
      BY <1>5, <1>6, <1>12
    <3> QED
      BY <1>10, <3>1 DEF Rises, RisesBut
  <2>5. /\ r.i + 1 > groups.len => InPlace(Named, h, groups.len)
        /\ Comparing(Named, h, groups.len, sort'[i])
    BY <1>5, <1>6, <1>10, <2>3, <2>4, InsertNext
  <2>6. Sorting(i)'
    BY <1>1, <1>4, <1>5, <2>2, <2>5 DEF Sorting, h
  <2> QED
    BY <1>1, <1>2, <1>9, <2>2, <2>6, WholeSorts
<1> QED
  BY <1>11, <1>12

LEMMA WholeKeepEnds ==
    ASSUME IInv, Memory, Steady, Whole, NEW i \in SignIns, StoreSecond(i), pc[i] = "keep2",
           ~clash, ~clash'
    PROVE  Whole'
<1> DEFINE r == sort[i]
<1>1. /\ heap' = [heap EXCEPT ![r.arr][r.j] = r.b]
      /\ CompareKept(i, r.i) /\ UNCHANGED <<field, groups, conf, asked>>
  <2>1. Spot(i) = r.j /\ pc[i] \in Swapped
    BY DEF Spot, Swapped
  <2>2. PICK x \in Writings(i, r.b, r.a) : heap' = [heap EXCEPT ![r.arr][Spot(i)] = x]
    BY DEF StoreSecond
  <2>3. x = r.b
    BY <2>1, <2>2, Exact DEF Steady
  <2> QED
    BY <2>1, <2>2, <2>3 DEF StoreSecond
<1>2. pc[i] \in Filling \ {"write"} /\ GetRepoAuth(i)
  BY Places DEF GetRepoAuth
<1>3. file' = file
  BY <1>2, Walks, GotoEffect DEF IInv
<1>4. /\ Sorting(i) /\ groups.len \in Nat /\ r.arr = groups.arr
      /\ Shows(groups) \in [1..groups.len -> Named] /\ Named \in SUBSET Nat
      /\ r.i \in Nat /\ r.j \in Nat /\ r.n = groups.len /\ Placed("keep2", r)
      /\ sort \in [SignIns -> Registers(Words)]
  BY <1>2, Alone DEF Current, Swapped
<1>5. 2 <= r.i /\ r.i <= r.j /\ r.j <= groups.len /\ r.j \in 1..groups.len
  BY <1>4 DEF Placed
<1>6. HalfMoved(Named, Shows(groups), groups.len, r)
  BY <1>4 DEF Sorting
<1>7. r.b \in Named
  BY <1>6 DEF HalfMoved
<1>8. StaysReal /\ Real(groups)' /\ Shows(groups)' = [Shows(groups) EXCEPT ![r.j] = r.b]
  BY <1>1, <1>3, <1>4, <1>5, <1>7, Overwritten
<1>9. /\ Covers(Named, Shows(groups)', (1..r.i) \cup (r.j + 1..groups.len))
      /\ Climbs(Shows(groups)', r.i) /\ Rises(Shows(groups)', {r.i} \cup (r.j + 1..groups.len))
  BY <1>4, <1>5, <1>6, <1>8, MoveEnded
<1>10. pc'[i] \in Filling \ {"write"} /\ Sorting(i)'
  BY <1>1, <1>4, <1>9, SortingNext
<1> QED
  BY <1>1, <1>2, <1>8, <1>10, WholeSorts

LEMMA WholeAppends ==
    ASSUME IInv, Memory, Steady, Whole, NEW i \in SignIns, AppendGroups(i), ~clash, ~clash'
    PROVE  Whole'
<1>1. /\ pc[i] = "append" /\ Goto(i, "store") /\ groups.len # 0
      /\ UNCHANGED <<field, groups, conf, asked>>
  BY DEF AppendGroups
<1>2. pc[i] \in Filling \ {"write"} /\ GetRepoAuth(i)
  BY <1>1, Places DEF GetRepoAuth
<1>3. pc'[i] = "store" /\ pc'[i] \in Filling \ {"write"} /\ file' = file
  BY <1>1, GotoEffect, Places DEF IInv
<1>4. Named' = Named
  BY <1>3, SameFile
<1>5. PICK arr \in Shared, new \in Seq(Words) :
         /\ heap' = [heap EXCEPT ![arr] = new] /\ Need \in 1..Len(new)
         /\ Fits \/ Racing(groups.arr) = {} => Extends(new)
         /\ \A k \in DOMAIN new :
               \/ new[k] \in Wholes
               \/ new[k] = Torn /\ ~Fits /\ Racing(groups.arr) # {}
               \/ k \in DOMAIN heap[groups.arr] /\ new[k] = heap[groups.arr][k]
         /\ sort' = [sort EXCEPT ![i] = [@ EXCEPT !.arr = arr, !.n = Need]]
         /\ \/ /\ arr = groups.arr /\ Len(new) = Len(heap[arr])
               /\ \A k \in 1..Len(new) : k > Need => new[k] = heap[arr][k]
            \/ arr # groups.arr /\ \A j \in SignIns : arr \notin Held(j)
  BY Allocated
<1>6. /\ heap \in [ArrayIds -> Seq(Words)] /\ arr \in ArrayIds
      /\ sort \in [SignIns -> Registers(Words)] /\ Sorting(i)
      /\ groups.len \in Nat /\ groups.arr \in ArrayIds
      /\ \A k \in 1..groups.len : Shows(groups)[k] = heap[groups.arr][k]
      /\ Real(groups) /\ file.own.groups # <<>>
      /\ ToSet(file.def.groups) \subseteq Named /\ file.def.groups \in Seq(Words)
  BY <1>1, <1>2, Arrayed, Alone, Listed, Names DEF Whole, Memory, Cells
<1>7. heap'[arr] = new /\ \A a \in ArrayIds : a # arr => heap'[a] = heap[a]
  BY <1>5, <1>6
<1>8. /\ Need = groups.len + Len(file.def.groups) /\ Len(file.def.groups) \in Nat
      /\ Need \in Nat /\ Need \in 1..Len(new) /\ Len(new) \in Nat
      /\ \A k \in 1..groups.len : new[k] = heap[groups.arr][k]
      /\ \A k \in 1..Len(file.def.groups) : new[groups.len + k] = file.def.groups[k]
      /\ \A k \in 1..Need : groups.len < k => new[k] \in ToSet(file.def.groups)
  <2>1. Fits \/ Racing(groups.arr) = {}
    BY <1>1, Calm DEF Steady, Filling, Swaps, Swapped
  <2>2. Extends(new) /\ Len(new) \in Nat /\ Len(file.def.groups) \in Nat
    BY <1>5, <1>6, <2>1, LenProperties
  <2> QED
    BY <1>5, <1>6, <2>2 DEF Extends, Need
<1>9. \A k \in 1..Need : new[k] \in Named
  <2> SUFFICES ASSUME NEW k \in 1..Need PROVE new[k] \in Named
    OBVIOUS
  <2>1. CASE groups.len < k
    BY <1>6, <1>8, <2>1
  <2>2. CASE ~(groups.len < k)
    <3>1. k \in 1..groups.len
      BY <1>6, <1>8, <2>2
    <3> QED
      BY <1>6, <1>8, <3>1 DEF Real
  <2> QED
    BY <2>1, <2>2
<1>10. ASSUME NEW v \in Named
       PROVE  \E p \in 1..Need : new[p] = v
  <2>1. CASE v \in ToSet(file.def.groups)
    <3>1. PICK k \in 1..Len(file.def.groups) : file.def.groups[k] = v
      <4>1. file.def.groups \in Seq(Words)
        BY <1>6
      <4>2. \A w \in ToSet(file.def.groups) : \E k \in 1..Len(file.def.groups) : file.def.groups[k] = w
        BY <4>1, LenProperties DEF ToSet
      <4> QED
        BY <2>1, <4>2
    <3>2. groups.len + k \in 1..Need
      BY <1>6, <1>8
    <3> QED
      BY <1>8, <3>1, <3>2
  <2>2. CASE v \notin ToSet(file.def.groups)
    <3>1. PICK p \in 1..groups.len : Shows(groups)[p] = v
      BY <1>1, <1>6, <2>2 DEF Sorting
    <3>2. p \in 1..Need
      BY <1>6, <1>8
    <3> QED
      BY <1>6, <1>8, <3>1, <3>2
  <2> QED
    BY <2>1, <2>2
<1>11. sort'[i].arr = arr /\ sort'[i].n = Need
  BY <1>5, <1>6 DEF Registers
<1>12. Sorting(i)'
  BY <1>3, <1>4, <1>7, <1>9, <1>10, <1>11 DEF Sorting
<1>13. Real(groups)'
  <2>1. \A k \in 1..groups.len : heap'[groups.arr][k] = heap[groups.arr][k]
    BY <1>6, <1>7, <1>8
  <2> QED
    BY <1>1, <1>4, <1>6, <2>1 DEF Real
<1>14. StaysReal
  <2> SUFFICES ASSUME NEW j \in SignIns, Real(conf[j].groups), NEW k \in 1..conf[j].groups.len
               PROVE  heap'[conf[j].groups.arr][k] \in Named
    BY DEF StaysReal
  <2>1. /\ conf[j].groups.arr \in ArrayIds /\ conf[j].groups.len \in Nat
        /\ conf[j].groups.len <= Len(heap[conf[j].groups.arr])
        /\ conf[j].groups.arr \in Held(j)
    BY DEF Memory, Holds, Slices, Held
  <2>2. heap[conf[j].groups.arr][k] \in Named
    BY DEF Real
  <2>3. CASE conf[j].groups.arr # arr
    BY <1>7, <2>1, <2>2, <2>3
  <2>4. CASE conf[j].groups.arr = arr
    <3>1. /\ Len(new) = Len(heap[arr])
          /\ \A m \in 1..Len(new) : m > Need => new[m] = heap[arr][m]
      BY <1>5, <2>1, <2>4
    <3>2. k \in 1..Len(new)
      BY <1>8, <2>1, <2>4, <3>1
    <3>3. CASE k > Need
      BY <1>7, <2>2, <2>4, <3>1, <3>2, <3>3
    <3>4. CASE ~(k > Need)
      <4>1. k \in 1..Need
        BY <1>8, <3>2, <3>4
      <4> QED
        BY <1>7, <1>9, <2>4, <4>1
    <3> QED
      BY <3>3, <3>4
  <2> QED
    BY <2>3, <2>4
<1> QED
  BY <1>1, <1>2, <1>3, <1>12, <1>13, <1>14, WholeSorts

LEMMA WholeStores ==
    ASSUME IInv, Memory, Steady, Whole, NEW i \in SignIns, StoreGroups(i), ~clash, ~clash'
    PROVE  Whole'
<1>1. /\ pc[i] = "store" /\ Goto(i, "len") /\ groups' = Slice(sort[i].arr, sort[i].n)
      /\ UNCHANGED <<field, heap, sort, conf, asked>>
  BY DEF StoreGroups
<1>2. pc[i] \in Filling \ {"write"} /\ GetRepoAuth(i)
  BY <1>1, Places DEF GetRepoAuth
<1>3. pc'[i] = "len" /\ pc'[i] \in Filling \ {"write"} /\ file' = file
  BY <1>1, GotoEffect, Places DEF IInv
<1>4. Named' = Named
  BY <1>3, SameFile
<1>5. groups'.arr = sort[i].arr /\ groups'.len = sort[i].n
  BY <1>1 DEF Slice
<1>6. Sorting(i)
  BY <1>2, Alone
<1>7. /\ \A p \in 1..sort[i].n : heap[sort[i].arr][p] \in Named
      /\ \A v \in Named : \E p \in 1..sort[i].n : heap[sort[i].arr][p] = v
  BY <1>1, <1>6 DEF Sorting
<1>8. Real(groups)' /\ StaysReal
  BY <1>1, <1>4, <1>5, <1>7 DEF Real, StaysReal
<1>9. Shows(groups)' = [k \in 1..sort[i].n |-> heap[sort[i].arr][k]]
  BY <1>1, <1>5 DEF Shows
<1>10. Covers(Named, Shows(groups)', 1..sort[i].n)
  BY <1>7, <1>9 DEF Covers
<1>11. Sorting(i)'
  BY <1>3, <1>4, <1>5, <1>10 DEF Sorting
<1> QED
  BY <1>1, <1>2, <1>3, <1>8, <1>11, WholeSorts

\* The end: the list is the one that the file stands for.
LEMMA WholeTruncates ==
    ASSUME IInv, Memory, Steady, Whole, NEW i \in SignIns, Truncate(i), ~clash, ~clash'
    PROVE  Whole'
<1> DEFINE k == sort[i].i
<1>1. /\ pc[i] = "truncate" /\ Goto(i, "copy") /\ groups' = [groups EXCEPT !.len = k]
      /\ UNCHANGED <<field, heap, conf, asked>>
  BY DEF Truncate
<1>2. pc[i] \in Filling \ {"write"} /\ pc[i] \in Filling \ {"write", "append"} /\ GetRepoAuth(i)
      /\ pc[i] \notin Ended
  BY <1>1, Places DEF GetRepoAuth
<1>3. /\ pc'[i] = "copy" /\ pc'[i] \notin Filling /\ file' = file
      /\ (i \in crossed => i \in crossed')
  BY <1>1, <1>2, GotoEffect, Places DEF IInv
<1>4. Named' = Named /\ MeantGroups' = MeantGroups /\ Incomplete' = Incomplete
  BY <1>3, SameFile
<1>5. /\ Sorting(i) /\ groups.len \in Nat /\ k \in Nat /\ k <= groups.len
      /\ \A p \in 1..groups.len : Shows(groups)[p] = heap[groups.arr][p]
      /\ Real(groups) /\ Mine(i) /\ file.own.groups # <<>>
      /\ groups \in Slices(Shared)
  BY <1>1, <1>2, Alone, Listed DEF Current, Whole, Memory, Cells, Holds
<1>6. groups'.arr = groups.arr /\ groups'.len = k
  BY <1>1, <1>5 DEF Slices
<1>7. Incomplete /\ field = Given(file.def, "def")
  BY <1>2, <1>5 DEF Mine, Writing
<1>8. Chosen(Named, Shows(groups), k)
  BY <1>1, <1>5 DEF Sorting
<1>9. Real(groups)' /\ StaysReal
  BY <1>1, <1>4, <1>5, <1>6 DEF Real, StaysReal
<1> DEFINE h == Shows(groups)'
<1>10. h = [p \in 1..k |-> heap[groups.arr][p]]
  BY <1>1, <1>6 DEF Shows
<1>11. \A p \in 1..k : h[p] = Shows(groups)[p] /\ h[p] \in Named
  BY <1>5, <1>10 DEF Real
<1>12. DOMAIN h = 1..k
  BY <1>10
<1> HIDE DEF h
<1>13. Chosen(Named, h, k)
  BY <1>8, <1>11 DEF Chosen, Covers, Climbs
<1>14. Filled'
  BY <1>1, <1>3, <1>4, <1>6, <1>7, <1>13 DEF Filled, h
<1>15. ToSet(h) = MeantGroups
  <2>1. \A v \in Named : \E p \in 1..k : h[p] = v
    BY <1>13 DEF Chosen, Covers
  <2>2. ToSet(h) = Named
    BY <1>11, <1>12, <2>1 DEF ToSet
  <2> QED
    BY <1>5, <1>7, <2>2 DEF MeantGroups, Incomplete
<1>16. Real(conf[i].groups)' /\ 0 \notin asked'[i]
  BY <1>1, <1>4, <1>5 DEF Mine, Real
<1>17. i \notin crossed' => Sees(i)'
  BY <1>1, <1>3, <1>4, <1>5, <1>15 DEF Mine, Sees, Checked, h
<1>18. Mine(i)'
  <2>1. Writing(i)' /\ Sorting(i)'
    BY <1>3, Places DEF Writing, Sorting
  <2> QED
    BY <1>16, <1>17, <2>1 DEF Mine
<1> QED
  BY <1>2, <1>9, <1>14, <1>18, WholeNext

----------------------------------------------------------------------------
\* The record of a process that has just read its file.
LEMMA LoadedWhole ==
    ASSUME file \in Files
    PROVE  /\ \A s : s = LoadedGroups(file) =>
                 [k \in 1..s.len |-> LoadedHeap(file)[s.arr][k]] = file.own.groups
           /\ \A k \in 1..LoadedGroups(file).len : LoadedHeap(file)["own"][k] \in Named
           /\ LoadedGroups(file).arr = "own"
<1>1. /\ LoadedHeap(file)["own"] = file.own.groups
      /\ LoadedGroups(file) = Slice("own", Len(file.own.groups))
  BY Loaded
<1>2. LoadedGroups(file).arr = "own" /\ LoadedGroups(file).len = Len(file.own.groups)
  BY <1>1 DEF Slice
<1>3. file.own.groups \in Seq(Named)
  BY Names
<1>4. \A k \in 1..Len(file.own.groups) : file.own.groups[k] \in Named
  BY <1>3, ElementOfSeq
<1>5. file.own.groups = [k \in 1..Len(file.own.groups) |-> file.own.groups[k]]
  BY <1>3, LenProperties
<1> QED
  BY <1>1, <1>2, <1>4, <1>5

LEMMA InitMerging == Init => Merging
<1> SUFFICES ASSUME Init PROVE Whole
  BY DEF Merging
<1>1. /\ file \in Files /\ field = Given(file.own, "own")
      /\ groups = LoadedGroups(file) /\ heap = LoadedHeap(file)
      /\ \A i \in SignIns : pc[i] = "idle" /\ conf[i] = NoConf /\ asked[i] = {}
  BY DEF Init
<1>2. Fresh
  <2>1. Shows(groups) = file.own.groups
    BY <1>1, LoadedWhole DEF Shows
  <2> QED
    BY <1>1, <2>1 DEF Fresh
<1>3. Real(groups)
  BY <1>1, LoadedWhole DEF Real
<1>4. \A i \in SignIns : pc[i] \notin Filling
  BY <1>1, Places
<1>5. ASSUME NEW i \in SignIns
      PROVE  Mine(i)
  <2>1. Writing(i) /\ Sorting(i)
    BY <1>4, Places DEF Writing, Sorting
  <2>2. Real(conf[i].groups)
    BY <1>1, Loaded DEF Real
  <2>3. Sees(i)
    BY <1>1 DEF Sees, Checked
  <2> QED
    BY <1>1, <2>1, <2>2, <2>3 DEF Mine
<1> QED
  BY <1>2, <1>3, <1>5 DEF Whole

LEMMA MergingRestarts ==
    ASSUME Memory, Restart
    PROVE  Merging'
<1> SUFFICES Whole'
  BY DEF Merging
<1>1. /\ file \in Files /\ file' = file /\ field' = Given(file.own, "own")
      /\ groups' = LoadedGroups(file) /\ heap' = LoadedHeap(file)
      /\ \A i \in SignIns : pc'[i] \in {"lost", "idle"} /\ conf'[i] = NoConf /\ asked'[i] = {}
  BY DEF Restart, Memory, Cells
<1>2. Named' = Named
  BY <1>1, SameFile
<1>3. Fresh'
  <2>1. Shows(groups)' = file.own.groups
    BY <1>1, LoadedWhole DEF Shows
  <2> QED
    BY <1>1, <2>1 DEF Fresh
<1>4. Real(groups)'
  BY <1>1, <1>2, LoadedWhole DEF Real
<1>5. \A i \in SignIns : pc'[i] \notin Filling
  BY <1>1, Places
<1>6. ASSUME NEW i \in SignIns
      PROVE  Mine(i)'
  <2>1. Writing(i)' /\ Sorting(i)'
    BY <1>5, Places DEF Writing, Sorting
  <2>2. Real(conf[i].groups)'
    BY <1>1, Loaded DEF Real
  <2>3. Sees(i)'
    BY <1>1 DEF Sees, Checked
  <2> QED
    BY <1>1, <2>1, <2>2, <2>3 DEF Mine
<1> QED
  BY <1>3, <1>4, <1>6 DEF Whole

LEMMA MergingStep == IInv /\ Memory /\ Steady /\ Merging /\ [Next]_vars => Merging'
<1> SUFFICES ASSUME IInv, Memory, Steady, Merging, [Next]_vars PROVE Merging'
  OBVIOUS
<1>1. ASSUME NEW i \in SignIns, GetRepoAuth(i) \/ GetUser(i) \/ Fault(i) \/ Chokes(i), ~clash'
      PROVE  Whole'
  <2>1. ~clash
    BY <1>1, Walks, History DEF Steady
  <2>2. Whole
    BY <2>1 DEF Merging
  <2>3. CASE Begin(i) \/ FieldGiven(i) \/ FieldBlank(i) \/ WriteField(i)
    BY <1>1, <2>1, <2>2, <2>3, WholeBegins, WholeFieldGiven, WholeFieldBlank, WholeWrites
  <2>4. CASE NoGroups(i) \/ AppendGroups(i) \/ StoreGroups(i)
    BY <1>1, <2>1, <2>2, <2>4, WholeNoGroups, WholeAppends, WholeStores
  <2>5. CASE \/ SortBegins(i) \/ InOrder(i) \/ OutOfOrder(i)
             \/ FrontBegins(i) \/ Duplicate(i) \/ Distinct(i)
    BY <1>1, <2>1, <2>2, <2>5, WholeSortBegins, WholeInOrder, WholeOutOfOrder, WholeFrontBegins,
       WholeDuplicate, WholeDistinct
  <2>6. CASE StoreFirst(i)
    <3>1. pc[i] = "swap" \/ pc[i] = "keep"
      BY <2>6 DEF StoreFirst, Swaps
    <3> QED
      BY <1>1, <2>1, <2>2, <2>6, <3>1, WholeSwapBegins, WholeKeepBegins
  <2>7. CASE StoreSecond(i)
    <3>1. pc[i] = "swap2" \/ pc[i] = "keep2"
      BY <2>7 DEF StoreSecond, Swapped
    <3> QED
      BY <1>1, <2>1, <2>2, <2>7, <3>1, WholeSwapEnds, WholeKeepEnds
  <2>8. CASE Truncate(i) \/ OutOfRange(i)
    BY <1>1, <2>1, <2>2, <2>8, WholeTruncates, InRange
  <2>9. CASE GetUser(i)
    BY <1>1, <2>1, <2>2, <2>9, WholeCopies, WholeConnects, WholeUnreachable,
       WholeSearches DEF GetUser
  <2>10. CASE Fault(i)
    BY <1>1, <2>1, <2>2, <2>10, WholeFaults
  <2>11. CASE Chokes(i)
    BY <1>1, <2>1, <2>2, <2>11, WholeChokes
  <2> QED
    BY <1>1, <2>3, <2>4, <2>5, <2>6, <2>7, <2>8, <2>9, <2>10, <2>11 DEF GetRepoAuth
<1>2. CASE UNCHANGED vars
  <2>1. /\ UNCHANGED <<file, field, groups, heap, pc, step, sort, conf, asked, clash, crossed>>
        /\ Named' = Named /\ MeantGroups' = MeantGroups /\ Incomplete' = Incomplete
    BY <1>2, SameFile DEF vars
  <2>2. Shows(groups)' = Shows(groups)
        /\ \A i \in SignIns : Shows(conf[i].groups)' = Shows(conf[i].groups)
    BY <2>1 DEF Shows
  <2>3. (Fresh' <=> Fresh) /\ (Filled' <=> Filled) /\ (Real(groups)' <=> Real(groups))
    BY <2>1, <2>2 DEF Fresh, Filled, Real
  <2>4. ASSUME NEW i \in SignIns, Mine(i)
        PROVE  Mine(i)'
    <3>1. Writing(i)'
      BY <2>1, <2>4 DEF Mine, Writing
    <3>2. Sorting(i)'
      BY <2>1, <2>2, <2>4 DEF Mine, Sorting
    <3>3. Real(conf[i].groups)' /\ 0 \notin asked'[i]
      BY <2>1, <2>4 DEF Mine, Real
    <3>4. i \notin crossed' => Sees(i)'
      BY <2>1, <2>2, <2>4 DEF Mine, Sees, Checked
    <3> QED
      BY <3>1, <3>2, <3>3, <3>4 DEF Mine
  <2>5. Whole => Whole'
    BY <2>1, <2>3, <2>4 DEF Whole
  <2> QED
    BY <2>1, <2>5 DEF Merging
<1>3. CASE Restart
  BY <1>3, MergingRestarts
<1> QED
  BY <1>1, <1>2, <1>3 DEF Next, Merging

\* As long as no two sign-ins filled the record at once, the list of groups is
\* at each step of unique.Strings what an insertion sort and a removal of
\* duplicates leave there, and it keeps every group of both sections.
THEOREM MergingInvariant == Spec => []Merging
BY InitMerging, MergingStep, InitSteady, SteadyStep, InitMemory, MemoryStep, InitIInv, IInvStep,
   PTL DEF Spec

\* KnownGroups: a sign-in asks for groups that one of the sections names, for
\* half a name only if it met another one filling the record or two have filled
\* it at once, for an empty one only if two have; and for some group when the
\* repository has one.
THEOREM AsksForKnown == Spec => []KnownGroups
<1>1. Memory /\ Steady /\ Merging => KnownGroups
  <2> SUFFICES ASSUME Memory, Steady, Merging, NEW i \in SignIns
               PROVE  /\ asked[i] \subseteq {Torn, 0} \cup Named
                      /\ Torn \in asked[i] => i \in crossed \/ clash
                      /\ 0 \in asked[i] => clash
                      /\ pc[i] = "search" /\ file.own.groups # <<>> => conf[i].groups.len > 0
    BY DEF KnownGroups
  <2>1. Holds(i) /\ asked[i] \subseteq Words
    BY DEF Memory
  <2>2. ~clash => 0 \notin asked[i]
    BY DEF Merging, Whole, Mine
  <2>3. Torn \in asked[i] => i \in crossed \/ clash
    BY DEF Steady, Untorn
  <2> QED
    BY <2>1, <2>2, <2>3 DEF Holds, Words, Wholes
<1> QED
  BY <1>1, MemoryInvariant, SteadyInvariant, MergingInvariant, PTL

\* SeenMerged: who meets nobody filling the record asks for the groups that the
\* file stands for, whoever filled it before.
THEOREM AsksForMeant == Spec => []SeenMerged
<1>1. Merging => SeenMerged
  BY DEF Merging, Whole, Mine, Sees, SeenMerged
<1> QED
  BY <1>1, MergingInvariant, PTL

\* SettledMerge: between the sign-ins the record is the one that was loaded, or
\* the default's fields with the groups of both sections, sorted and without
\* duplicates.
THEOREM SettlesMerged == Spec => []SettledMerge
<1>1. Memory /\ Merging => SettledMerge
  <2> SUFFICES ASSUME Memory, Whole, \A i \in SignIns : pc[i] \notin Filling, ~Fresh
               PROVE  /\ Incomplete /\ field = Given(file.def, "def")
                      /\ ToSet(Shows(groups)) = MeantGroups /\ Ascending(Shows(groups))
    BY DEF Merging, SettledMerge, Fresh
  <2>1. Filled
    BY DEF Whole
  <2>2. /\ groups.len \in Nat /\ Shows(groups) \in [1..groups.len -> Named]
        /\ (groups.len = 0) = (file.own.groups = <<>>)
    BY Listed DEF Whole
  <2>3. DOMAIN Shows(groups) = 1..groups.len
    BY <2>2
  <2>4. CASE file.own.groups = <<>>
    <3>1. Shows(groups) = file.own.groups
      BY <2>2, <2>4 DEF Shows
    <3>2. Ascending(Shows(groups))
      BY <2>2, <2>3, <2>4 DEF Ascending
    <3> QED
      BY <2>1, <2>4, <3>1, <3>2 DEF Filled, MeantGroups, Incomplete
  <2>5. CASE file.own.groups # <<>>
    <3>1. /\ \A v \in Named : \E p \in 1..groups.len : Shows(groups)[p] = v
          /\ \A p, q \in 1..groups.len : p < q => Shows(groups)[p] < Shows(groups)[q]
      BY <2>1, <2>5 DEF Filled, Chosen, Covers, Climbs
    <3>2. ToSet(Shows(groups)) = Named
      BY <2>2, <2>3, <3>1 DEF ToSet
    <3>3. Ascending(Shows(groups))
      <4>1. \A k \in (1..groups.len) \ {1} : k - 1 \in 1..groups.len /\ k - 1 < k
        BY <2>2
      <4> QED
        BY <2>3, <3>1, <4>1 DEF Ascending
    <3> QED
      BY <2>1, <2>5, <3>2, <3>3 DEF Filled, MeantGroups, Incomplete
  <2> QED
    BY <2>4, <2>5
<1> QED
  BY <1>1, MemoryInvariant, MergingInvariant, PTL
=============================================================================
