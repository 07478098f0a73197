---------------------------- MODULE AnswersProofs ----------------------------
(***************************************************************************)
(* Theorems about Answers, for any finite sets of names, any packages and  *)
(* outputs of the index tool, and any number of calls: first what the      *)
(* conversions do to a message, then what becomes of the answers.          *)
(*                                                                         *)
(* The conversions run through sequences of any length.  Their induction   *)
(* needs no more than that a set of naturals has a least element (WFMin):  *)
(* Induction is stated about sets, and applied to the set of the positions *)
(* up to which a loop has done what it should.                             *)
(***************************************************************************)
EXTENDS Answers, FiniteSetTheorems, SequenceTheorems, WellFoundedInduction, TLAPS

-----------------------------------------------------------------------------
(* Induction.                                                              *)

\* A set of naturals that holds 0 and the successor of each of its members is Nat:
\* otherwise the least of what it lacks has a predecessor.
LEMMA Induction ==
    ASSUME NEW S \in SUBSET Nat, 0 \in S, \A n \in S : n + 1 \in S
    PROVE  S = Nat
<1> DEFINE T == Nat \ S
           R == OpToRel(<, Nat)
<1> SUFFICES ASSUME T # {} PROVE FALSE
  OBVIOUS
<1>1. IsWellFoundedOn(R, Nat)
  BY NatLessThanWellFounded
<1>2. PICK x \in T : \A y \in T : ~ (<<y, x>> \in R)
  <2> HIDE DEF R
  <2> QED
    BY <1>1, WFMin
<1>3. x - 1 \in Nat /\ x - 1 \in T
  <2>1. x \in Nat /\ x # 0 /\ x \notin S
    OBVIOUS
  <2>2. x - 1 \in Nat /\ (x - 1) + 1 = x
    BY <2>1
  <2> QED
    BY <2>1, <2>2
<1>4. <<x - 1, x>> \in R
  BY <1>3 DEF OpToRel
<1> QED
  BY <1>2, <1>3, <1>4

\* Up to a bound.
LEMMA InductionUpTo ==
    ASSUME NEW k \in Nat, NEW S, 0 \in S, \A n \in 0..k - 1 : n \in S => n + 1 \in S
    PROVE  0..k \subseteq S
<1> DEFINE T == {n \in Nat : n \in S \/ n > k}
<1>1. 0 \in T /\ T \in SUBSET Nat
  OBVIOUS
<1>2. \A n \in T : n + 1 \in T
  OBVIOUS
<1>3. T = Nat
  <2> HIDE DEF T
  <2> QED
    BY <1>1, <1>2, Induction
<1> QED
  BY <1>3

-----------------------------------------------------------------------------
(* The fields of the classes.                                              *)

\* The classes, and the kinds of fields that they have.
Types == {"File", "Files", "Folders", "RPM"}

Kinds == {One("string"), One("uint64"), Optional("bool"),
          Many("scalar"), Many("File"), Many("Folders")}

\* The table of the fields, written out.
LEMMA FieldsShape ==
    ASSUME NEW type \in Types
    PROVE  \E k \in 1..16 : /\ DOMAIN Fields(type) = 1..k /\ Len(Fields(type)) = k
                             /\ \A n \in 1..k : Fields(type)[n] \in Kinds
<1>1. CASE type = "File"
  <2>1. Fields(type) = <<One("string")>>
    BY <1>1 DEF Fields, FileFields
  <2> QED
    BY <2>1 DEF Kinds
<1>2. CASE type = "Files"
  <2>1. Fields(type) = <<Many("File")>>
    BY <1>2 DEF Fields, FilesFields
  <2> QED
    BY <2>1 DEF Kinds
<1>3. CASE type = "Folders"
  <2>1. Fields(type) = <<One("string"), Optional("bool"), Many("Folders")>>
    BY <1>3 DEF Fields, FoldersFields
  <2> QED
    BY <2>1 DEF Kinds
<1>4. CASE type = "RPM"
  <2>1. Fields(type) = RPMFields
    BY <1>4 DEF Fields
  <2>2. DOMAIN RPMFields = 1..16 /\ Len(RPMFields) = 16
    BY DEF RPMFields
  <2>3. \A n \in 1..16 : RPMFields[n] \in {Many("scalar"), One("uint64"), One("string")}
    BY DEF RPMFields
  <2> QED
    BY <2>1, <2>2, <2>3 DEF Kinds
<1> QED
  BY <1>1, <1>2, <1>3, <1>4 DEF Types

\* Only lists hold messages, and the default of a list is the empty one.
LEMMA KindsOK ==
    ASSUME NEW field \in Kinds
    PROVE  /\ field.kind = "list" => Default(field) = <<>> /\ ~field.optional
           /\ field.of # "scalar" => field.kind = "list" /\ field.of \in Types
<1>1. \A k : One(k).kind = k /\ One(k).of = "scalar" /\ ~One(k).optional
  BY DEF One
<1>2. \A k : Optional(k).kind = k /\ Optional(k).of = "scalar"
  BY DEF Optional
<1>3. \A t : Many(t).kind = "list" /\ Many(t).of = t /\ ~Many(t).optional
  BY DEF Many
<1>4. field.kind = "list" => Default(field) = <<>>
  BY DEF Default
<1> QED
  BY <1>1, <1>2, <1>3, <1>4 DEF Kinds, Types

\* What the proofs use of the table: Unknown is no class's field, a list has no
\* default but the empty one.
LEMMA FieldsOK ==
    ASSUME NEW type \in Types
    PROVE  /\ Len(Fields(type)) \in Nat \ {0} /\ DOMAIN Fields(type) = 1..Len(Fields(type))
           /\ 99 \notin DOMAIN Fields(type)
           /\ \A n \in DOMAIN Fields(type) :
                 /\ Fields(type)[n].kind = "list" =>
                       Default(Fields(type)[n]) = <<>> /\ ~Fields(type)[n].optional
                 /\ Nested(type, n) =>
                       Fields(type)[n].kind = "list" /\ Fields(type)[n].of \in Types
<1>1. PICK k \in 1..16 : /\ DOMAIN Fields(type) = 1..k /\ Len(Fields(type)) = k
                         /\ \A n \in 1..k : Fields(type)[n] \in Kinds
  BY FieldsShape
<1>2. \A n \in DOMAIN Fields(type) :
         /\ Fields(type)[n].kind = "list" =>
               Default(Fields(type)[n]) = <<>> /\ ~Fields(type)[n].optional
         /\ Nested(type, n) => Fields(type)[n].kind = "list" /\ Fields(type)[n].of \in Types
  BY <1>1, KindsOK DEF Nested
<1> QED
  BY <1>1, <1>2

-----------------------------------------------------------------------------
(* Reading.                                                                *)

\* The message after each of the first k fields, as ReadFrom has it.
IsReading(r, m, wire, k) ==
    r = [p \in 0..k |-> IF p = 0 THEN m ELSE ReadField(r[p - 1], wire[p])]

\* Such a function exists, for any number of fields.
LEMMA ReadingExists ==
    ASSUME NEW m, NEW wire, NEW k \in Nat
    PROVE  \E r : IsReading(r, m, wire, k)
<1> DEFINE S == {n \in Nat : \E r : IsReading(r, m, wire, n)}
<1>1. 0 \in S
  <2>1. IsReading([p \in 0..0 |-> m], m, wire, 0)
    BY DEF IsReading
  <2> QED
    BY <2>1
<1>2. ASSUME NEW n \in S PROVE n + 1 \in S
  <2>1. PICK g : IsReading(g, m, wire, n)
    OBVIOUS
  <2> DEFINE h == [p \in 0..n + 1 |-> IF p = n + 1 THEN ReadField(g[n], wire[p]) ELSE g[p]]
  <2>2. IsReading(h, m, wire, n + 1)
    BY <2>1 DEF IsReading
  <2> QED
    BY <2>2
<1> HIDE DEF S
<1>3. S = Nat
  <2>1. S \in SUBSET Nat
    BY DEF S
  <2> QED
    BY <2>1, <1>1, <1>2, Induction
<1> QED
  BY <1>3 DEF S

\* ReadFrom is the last message of it.
LEMMA ReadingUnfolds ==
    ASSUME NEW m, NEW wire, Len(wire) \in Nat
    PROVE  \E r : IsReading(r, m, wire, Len(wire)) /\ ReadFrom(m, wire) = r[Len(wire)]
<1> DEFINE f == CHOOSE r : IsReading(r, m, wire, Len(wire))
<1>1. IsReading(f, m, wire, Len(wire))
  BY ReadingExists
<1>2. ReadFrom(m, wire) = f[Len(wire)]
  BY DEF ReadFrom, IsReading
<1> QED
  BY <1>1, <1>2

\* Each message of it is made from the one before.
LEMMA ReadingSteps ==
    ASSUME NEW r, NEW m, NEW wire, NEW k \in Nat, IsReading(r, m, wire, k)
    PROVE  r[0] = m /\ \A p \in 0..k - 1 : r[p + 1] = ReadField(r[p], wire[p + 1])
<1>1. \A p \in 0..k : r[p] = IF p = 0 THEN m ELSE ReadField(r[p - 1], wire[p])
  BY DEF IsReading
<1> SUFFICES ASSUME NEW p \in 0..k - 1 PROVE r[p + 1] = ReadField(r[p], wire[p + 1])
  BY <1>1
<1>2. p + 1 \in 0..k /\ p + 1 # 0 /\ (p + 1) - 1 = p
  OBVIOUS
<1> QED
  BY <1>1, <1>2

\* No field, one field.
LEMMA ReadNothing == ASSUME NEW m PROVE ReadFrom(m, <<>>) = m
  BY ReadingUnfolds DEF IsReading

LEMMA ReadOne == ASSUME NEW m, NEW f PROVE ReadFrom(m, <<f>>) = ReadField(m, f)
<1>1. PICK r : IsReading(r, m, <<f>>, 1) /\ ReadFrom(m, <<f>>) = r[1]
  BY ReadingUnfolds
<1> QED
  BY <1>1 DEF IsReading

\* The fields are read one after the other.
LEMMA ReadBoth ==
    ASSUME NEW A, NEW u \in Seq(A), NEW v \in Seq(A), NEW m
    PROVE  ReadFrom(m, u \o v) = ReadFrom(ReadFrom(m, u), v)
<1> DEFINE w == u \o v
           a == Len(u)
           b == Len(v)
<1>1. a \in Nat /\ b \in Nat /\ Len(w) = a + b
      /\ (\A i \in 1..a : w[i] = u[i]) /\ (\A i \in 1..b : w[a + i] = v[i])
  OBVIOUS
<1> HIDE DEF w, a, b
<1>2. PICK r : IsReading(r, m, w, a + b) /\ ReadFrom(m, w) = r[a + b]
  <2>1. Len(w) \in Nat
    BY <1>1
  <2>2. \E r : IsReading(r, m, w, Len(w)) /\ ReadFrom(m, w) = r[Len(w)]
    BY <2>1, ReadingUnfolds
  <2> QED
    BY <1>1, <2>2
<1>3. PICK r1 : IsReading(r1, m, u, a) /\ ReadFrom(m, u) = r1[a]
  BY <1>1, ReadingUnfolds DEF a
<1>4. PICK r2 : IsReading(r2, r1[a], v, b) /\ ReadFrom(r1[a], v) = r2[b]
  BY <1>1, ReadingUnfolds DEF b
<1>5. r[a] = r1[a]
  <2> DEFINE S == {p \in 0..a : r[p] = r1[p]}
  <2>1. 0 \in S
    BY <1>1, <1>2, <1>3, ReadingSteps
  <2>2. \A n \in 0..a - 1 : n \in S => n + 1 \in S
    <3> SUFFICES ASSUME NEW n \in 0..a - 1, r[n] = r1[n] PROVE r[n + 1] = r1[n + 1]
      BY <1>1
    <3>1. r[n + 1] = ReadField(r[n], w[n + 1])
      <4>1. n \in 0..(a + b) - 1 /\ a + b \in Nat
        BY <1>1
      <4> QED
        BY <4>1, <1>2, ReadingSteps
    <3>2. r1[n + 1] = ReadField(r1[n], u[n + 1])
      BY <1>1, <1>3, ReadingSteps
    <3> QED
      BY <1>1, <3>1, <3>2
  <2> HIDE DEF S
  <2>3. 0..a \subseteq S
    BY <1>1, <2>1, <2>2, InductionUpTo
  <2> QED
    BY <1>1, <2>3 DEF S
<1>6. r[a + b] = r2[b]
  <2> DEFINE S == {p \in 0..b : r[a + p] = r2[p]}
  <2>1. 0 \in S
    BY <1>1, <1>5, <1>4, ReadingSteps
  <2>2. \A n \in 0..b - 1 : n \in S => n + 1 \in S
    <3> SUFFICES ASSUME NEW n \in 0..b - 1, r[a + n] = r2[n] PROVE r[a + (n + 1)] = r2[n + 1]
      BY <1>1
    <3>1. r[a + (n + 1)] = ReadField(r[a + n], w[a + (n + 1)])
      <4>1. a + n \in 0..(a + b) - 1 /\ a + (n + 1) = (a + n) + 1 /\ a + b \in Nat
        BY <1>1
      <4> QED
        BY <4>1, <1>2, ReadingSteps
    <3>2. r2[n + 1] = ReadField(r2[n], v[n + 1])
      BY <1>1, <1>4, ReadingSteps
    <3> QED
      BY <1>1, <3>1, <3>2
  <2> HIDE DEF S
  <2>3. 0..b \subseteq S
    BY <1>1, <2>1, <2>2, InductionUpTo
  <2> QED
    BY <1>1, <2>3 DEF S
<1> QED
  BY <1>2, <1>3, <1>4, <1>6 DEF w

\* The slots d with v in slot n.
With(d, n, v) == [k \in DOMAIN d \cup {n} |-> IF k = n THEN v ELSE d[k]]

\* The last value that is put in a slot stays.
LEMMA WithOK ==
    ASSUME NEW d, NEW n, NEW v
    PROVE  /\ \A x : With(With(d, n, x), n, v) = With(d, n, v)
           /\ \A type : Put(Construct(type, d), n, v) = Construct(type, With(d, n, v))
  BY DEF With, Put, Construct

\* Append and a field, as names that the provers do not look into.
More(s, v) == Append(s, v)
Item(n, v) == [number |-> n, value |-> v]

\* One turn of the loop.
LEMMA Turn ==
    ASSUME NEW type \in Types, NEW n \in DOMAIN Fields(type), NEW d, NEW v, NEW m,
           m = Construct(type, d)
    PROVE  /\ Fields(type)[n].kind # "list" =>
                 ReadField(m, Item(n, v)) = Construct(type, With(d, n, v))
           /\ Fields(type)[n].kind = "list" =>
                 ReadField(m, Item(n, v)) = Construct(type, With(d, n, More(Get(m, n), v)))
<1>1. m.type = type /\ m.slots = d
  BY DEF Construct
<1>2. Item(n, v).number = n /\ Item(n, v).value = v
  BY DEF Item
<1>3. \A x : Put(m, n, x) = Construct(type, With(d, n, x))
  BY WithOK
<1>4. ReadField(m, Item(n, v)) = Put(m, n, IF Fields(type)[n].kind = "list"
                                           THEN More(Get(m, n), v) ELSE v)
  BY <1>1, <1>2 DEF ReadField, More
<1> QED
  BY <1>3, <1>4

\* The first element makes a list, each further one is appended.
LEMMA TurnFirst ==
    ASSUME NEW type \in Types, NEW n \in DOMAIN Fields(type), Fields(type)[n].kind = "list",
           NEW d, n \notin DOMAIN d, NEW v
    PROVE  ReadField(Construct(type, d), Item(n, v)) = Construct(type, With(d, n, <<v>>))
<1>1. Get(Construct(type, d), n) = <<>>
  BY FieldsOK DEF Get, Construct
<1>2. More(<<>>, v) = <<v>>
  BY DEF More
<1> QED
  BY <1>1, <1>2, Turn

LEMMA TurnMore ==
    ASSUME NEW type \in Types, NEW n \in DOMAIN Fields(type), Fields(type)[n].kind = "list",
           NEW d, n \in DOMAIN d, NEW v
    PROVE  ReadField(Construct(type, d), Item(n, v)) = Construct(type, With(d, n, More(d[n], v)))
<1>1. Get(Construct(type, d), n) = d[n]
  BY DEF Get, Construct
<1> QED
  BY <1>1, Turn

\* What the class does not know changes nothing.
LEMMA SkipOK ==
    ASSUME NEW type \in Types, NEW d
    PROVE  ReadField(Construct(type, d), Unknown) = Construct(type, d)
  BY FieldsOK DEF ReadField, Construct, Unknown

\* A sequence begins with its first element.
LEMMA FirstOf == ASSUME NEW S, NEW s \in Seq(S), s # <<>> PROVE SubSeq(s, 1, 1) = <<s[1]>>
<1>1. Len(s) \in Nat /\ Len(s) # 0
  OBVIOUS
<1>2. s[1] \in S
  BY <1>1
<1>3. SubSeq(s, 1, 1) = [i \in 1..1 |-> s[i]]
  BY <1>1
<1>4. SubSeq(s, 1, 1) \in Seq(S) /\ Len(SubSeq(s, 1, 1)) = 1 /\ SubSeq(s, 1, 1)[1] = s[1]
  BY <1>1
<1>5. <<s[1]>> \in Seq(S) /\ Len(<<s[1]>>) = 1
  BY <1>2
<1>6. \A i \in 1..Len(SubSeq(s, 1, 1)) : SubSeq(s, 1, 1)[i] = <<s[1]>>[i]
  BY <1>4
<1>7. \A S1 : \A a, b \in Seq(S1) : Len(a) = Len(b) /\ (\A i \in 1..Len(a) : a[i] = b[i]) => a = b
  BY SeqEqual
<1> HIDE <1>7
<1> QED
  BY <1>4, <1>5, <1>6, <1>7

\* A list that is written element by element is read as it was.
LEMMA ListReads ==
    ASSUME NEW type \in Types, NEW n \in DOMAIN Fields(type), Fields(type)[n].kind = "list",
           NEW d, n \notin DOMAIN d, NEW S, NEW list \in Seq(S), list # <<>>,
           NEW m, m = Construct(type, d)
    PROVE  ReadFrom(m, [i \in DOMAIN list |-> Item(n, list[i])])
             = Construct(type, With(d, n, list))
<1> DEFINE wire == [i \in DOMAIN list |-> Item(n, list[i])]
           k == Len(list)
<1>1. /\ k \in Nat /\ k # 0 /\ k - 1 \in Nat /\ DOMAIN list = 1..k /\ Len(wire) = k
      /\ \A i \in 1..k : wire[i] = Item(n, list[i])
  OBVIOUS
<1> HIDE DEF wire, k
<1>2. PICK r : IsReading(r, m, wire, k) /\ ReadFrom(m, wire) = r[k]
  <2>1. Len(wire) \in Nat
    BY <1>1
  <2>2. \E r : IsReading(r, m, wire, Len(wire)) /\ ReadFrom(m, wire) = r[Len(wire)]
    BY <2>1, ReadingUnfolds
  <2> QED
    BY <1>1, <2>2
<1>3. r[0] = m /\ \A p \in 0..k - 1 : r[p + 1] = ReadField(r[p], wire[p + 1])
  BY <1>1, <1>2, ReadingSteps
<1> DEFINE Part(p) == With(d, n, SubSeq(list, 1, p + 1))
           T == {p \in 0..k - 1 : r[p + 1] = Construct(type, Part(p))}
<1>4. 0 \in T
  <2>1. r[1] = ReadField(m, wire[1]) /\ wire[1] = Item(n, list[1])
    <3>1. 0 \in 0..k - 1 /\ 0 + 1 = 1 /\ 1 \in 1..k
      BY <1>1
    <3>2. r[0 + 1] = ReadField(r[0], wire[0 + 1])
      BY <1>3, <3>1
    <3> QED
      BY <1>1, <1>3, <3>1, <3>2
  <2>2. r[1] = Construct(type, With(d, n, <<list[1]>>))
    BY <2>1, TurnFirst
  <2>3. SubSeq(list, 1, 0 + 1) = <<list[1]>>
    BY FirstOf
  <2>4. 0 \in 0..k - 1 /\ 0 + 1 = 1
    BY <1>1
  <2> QED
    BY <2>2, <2>3, <2>4
<1>5. \A p \in 0..(k - 1) - 1 : p \in T => p + 1 \in T
  <2> SUFFICES ASSUME NEW p \in 0..(k - 1) - 1, p \in T PROVE p + 1 \in T
    OBVIOUS
  <2> DEFINE part == SubSeq(list, 1, p + 1)
             next == list[(p + 1) + 1]
             e == With(d, n, part)
  <2>1. r[p + 1] = Construct(type, e)
    OBVIOUS
  <2>2. r[(p + 1) + 1] = ReadField(r[p + 1], Item(n, next))
    BY <1>1, <1>3
  <2>3. SubSeq(list, 1, (p + 1) + 1) = More(part, next)
    BY <1>1 DEF k, More
  <2>4. n \in DOMAIN e /\ e[n] = part /\ With(e, n, More(part, next)) = With(d, n, More(part, next))
    BY DEF With
  <2> HIDE DEF part, next, e, T
  <2>5. ReadField(r[p + 1], Item(n, next)) = Construct(type, With(e, n, More(e[n], next)))
    <3>1. n \in DOMAIN e
      BY <2>4
    <3> QED
      BY <2>1, <3>1, TurnMore
  <2>6. r[(p + 1) + 1] = Construct(type, With(d, n, More(part, next)))
    BY <2>1, <2>2, <2>4, <2>5
  <2>7. p + 1 \in 0..k - 1
    BY <1>1
  <2> QED
    BY <2>3, <2>6, <2>7 DEF T, part, next
<1> HIDE DEF T
<1>6. 0..k - 1 \subseteq T
  BY <1>1, <1>4, <1>5, InductionUpTo
<1>7. r[k] = Construct(type, With(d, n, SubSeq(list, 1, k)))
  BY <1>1, <1>6 DEF T
<1>8. SubSeq(list, 1, k) = list
  BY <1>1 DEF k
<1> QED
  BY <1>2, <1>7, <1>8 DEF wire

-----------------------------------------------------------------------------
(* Writing.                                                                *)

\* The first k sequences, joined one by one, as FlattenSeq has it.
IsFlat(f, seqs, k) == f = [i \in 1..k |-> IF i = 1 THEN seqs[i] ELSE f[i - 1] \o seqs[i]]

\* Such a function exists, for any number of sequences.
LEMMA FlatExists ==
    ASSUME NEW seqs, NEW k \in Nat
    PROVE  \E f : IsFlat(f, seqs, k)
<1> DEFINE S == {n \in Nat : \E f : IsFlat(f, seqs, n)}
<1>1. 0 \in S
  <2>1. IsFlat([i \in 1..0 |-> seqs], seqs, 0)
    BY DEF IsFlat
  <2> QED
    BY <2>1
<1>2. ASSUME NEW n \in S PROVE n + 1 \in S
  <2>1. PICK g : IsFlat(g, seqs, n)
    OBVIOUS
  <2>2. PICK x : x = IF n = 0 THEN seqs[1] ELSE g[n] \o seqs[n + 1]
    OBVIOUS
  <2> DEFINE h == [i \in 1..n + 1 |-> IF i = n + 1 THEN x ELSE g[i]]
  <2>3. ASSUME NEW i \in 1..n + 1 PROVE h[i] = IF i = 1 THEN seqs[i] ELSE h[i - 1] \o seqs[i]
    <3>1. CASE i = n + 1
      BY <2>2, <3>1
    <3>2. CASE i # n + 1
      <4>1. i \in 1..n /\ h[i] = g[i]
        BY <3>2
      <4>2. g[i] = IF i = 1 THEN seqs[i] ELSE g[i - 1] \o seqs[i]
        BY <2>1, <4>1 DEF IsFlat
      <4>3. i # 1 => h[i - 1] = g[i - 1]
        BY <4>1
      <4> QED
        BY <4>1, <4>2, <4>3
    <3> QED
      BY <3>1, <3>2
  <2>4. IsFlat(h, seqs, n + 1)
    <3> HIDE DEF h
    <3>1. h = [i \in 1..n + 1 |-> h[i]]
      BY DEF h
    <3> QED
      BY <2>3, <3>1 DEF IsFlat
  <2> QED
    BY <2>4
<1> HIDE DEF S
<1>3. S = Nat
  <2>1. S \in SUBSET Nat
    BY DEF S
  <2> QED
    BY <2>1, <1>1, <1>2, Induction
<1> QED
  BY <1>3 DEF S

\* Each join is made from the one before.
LEMMA FlatSteps ==
    ASSUME NEW f, NEW seqs, NEW k \in Nat, k # 0, IsFlat(f, seqs, k)
    PROVE  f[1] = seqs[1] /\ \A i \in 1..k - 1 : f[i + 1] = f[i] \o seqs[i + 1]
<1>1. \A i \in 1..k : f[i] = IF i = 1 THEN seqs[i] ELSE f[i - 1] \o seqs[i]
  BY DEF IsFlat
<1>2. f[1] = seqs[1]
  BY <1>1
<1>3. ASSUME NEW i \in 1..k - 1 PROVE f[i + 1] = f[i] \o seqs[i + 1]
  <2>1. i + 1 \in 1..k /\ i + 1 # 1 /\ (i + 1) - 1 = i
    OBVIOUS
  <2> QED
    BY <1>1, <2>1
<1> QED
  BY <1>2, <1>3

\* FlattenSeq is the last join.
LEMMA FlattenUnfolds ==
    ASSUME NEW seqs, Len(seqs) \in Nat, Len(seqs) # 0
    PROVE  \E f : IsFlat(f, seqs, Len(seqs)) /\ FlattenSeq(seqs) = f[Len(seqs)]
<1> DEFINE g == CHOOSE f : IsFlat(f, seqs, Len(seqs))
<1>1. IsFlat(g, seqs, Len(seqs))
  BY FlatExists
<1>2. FlattenSeq(seqs) = g[Len(seqs)]
  BY DEF FlattenSeq, IsFlat
<1> QED
  BY <1>1, <1>2

\* A sequence, of whatever it holds.
IsSeq(s) == s \in Seq(ToSet(s))

\* A function on 1..k is a sequence.
LEMMA IsSeqOK ==
    ASSUME NEW k \in Nat, NEW s, DOMAIN s = 1..k, s = [i \in 1..k |-> s[i]]
    PROVE  IsSeq(s) /\ Len(s) = k
  BY DEF IsSeq, ToSet

\* A sequence of elements of S is one of elements of any larger set.
LEMMA SeqGrows ==
    ASSUME NEW S, NEW T, S \subseteq T, NEW s \in Seq(S)
    PROVE  s \in Seq(T)
  OBVIOUS

\* A message of the class, with lists where its fields are lists.
Shaped(type, m) ==
    /\ m = Construct(type, m.slots) /\ DOMAIN m.slots \subseteq DOMAIN Fields(type)
    /\ \A n \in DOMAIN m.slots : Fields(type)[n].kind = "list" => IsSeq(m.slots[n])

\* A field that is written is set, and not an empty list.
LEMMA WorthOK ==
    ASSUME NEW type \in Types, NEW m, Shaped(type, m), NEW n \in DOMAIN Fields(type),
           WorthWriting(m, n)
    PROVE  /\ n \in DOMAIN m.slots /\ Get(m, n) = m.slots[n]
           /\ Fields(type)[n].kind = "list" => IsSeq(m.slots[n]) /\ m.slots[n] # <<>>
<1>1. m.type = type
  BY DEF Shaped, Construct
<1>2. n \in DOMAIN m.slots
  BY <1>1 DEF WorthWriting, Has, Get
<1>3. Get(m, n) = m.slots[n]
  BY <1>2 DEF Get
<1>4. Fields(type)[n].kind = "list" =>
         Default(Fields(type)[n]) = <<>> /\ ~Fields(type)[n].optional
  BY FieldsOK
<1>5. Fields(type)[n].kind = "list" => m.slots[n] # <<>>
  BY <1>1, <1>3, <1>4 DEF WorthWriting
<1> QED
  BY <1>2, <1>3, <1>5 DEF Shaped

\* One field: what is written of it is read as its value.
LEMMA WrittenOK ==
    ASSUME NEW type \in Types, NEW m, Shaped(type, m), NEW n \in DOMAIN Fields(type)
    PROVE  /\ IsSeq(Written(m, n))
           /\ ~WorthWriting(m, n) => Written(m, n) = <<>>
           /\ WorthWriting(m, n) =>
                 \A d : n \notin DOMAIN d =>
                    ReadFrom(Construct(type, d), Written(m, n))
                      = Construct(type, With(d, n, m.slots[n]))
<1>1. m.type = type
  BY DEF Shaped, Construct
<1>2. CASE ~WorthWriting(m, n)
  <2>1. Written(m, n) = <<>>
    BY <1>2 DEF Written
  <2>2. IsSeq(<<>>)
    BY DEF IsSeq
  <2> QED
    BY <1>2, <2>1, <2>2
<1>3. CASE WorthWriting(m, n) /\ Fields(type)[n].kind # "list"
  <2>1. Get(m, n) = m.slots[n]
    BY <1>3, WorthOK
  <2>2. Written(m, n) = <<Item(n, m.slots[n])>>
    <3>1. Written(m, n) = [i \in DOMAIN <<m.slots[n]>> |-> Item(n, <<m.slots[n]>>[i])]
      BY <1>1, <1>3, <2>1 DEF Written, Item
    <3> QED
      BY <3>1
  <2>3. IsSeq(<<Item(n, m.slots[n])>>)
    BY DEF IsSeq, ToSet
  <2>4. \A d : ReadField(Construct(type, d), Item(n, m.slots[n]))
                 = Construct(type, With(d, n, m.slots[n]))
    BY <1>3, Turn
  <2> QED
    BY <1>3, <2>2, <2>3, <2>4, ReadOne
<1>4. CASE WorthWriting(m, n) /\ Fields(type)[n].kind = "list"
  <2> DEFINE list == m.slots[n]
  <2>1. Get(m, n) = list /\ IsSeq(list) /\ list # <<>>
    BY <1>4, WorthOK
  <2> HIDE DEF list
  <2>2. Written(m, n) = [i \in DOMAIN list |-> Item(n, list[i])]
    BY <1>1, <1>4, <2>1 DEF Written, Item
  <2>3. IsSeq(Written(m, n))
    <3>1. DOMAIN list = 1..Len(list) /\ Len(list) \in Nat
      BY <2>1 DEF IsSeq
    <3> QED
      BY <2>2, <3>1, IsSeqOK
  <2>4. ASSUME NEW d, n \notin DOMAIN d
        PROVE  ReadFrom(Construct(type, d), [i \in DOMAIN list |-> Item(n, list[i])])
                 = Construct(type, With(d, n, list))
    BY <1>4, <2>1, <2>4, ListReads DEF IsSeq
  <2> QED
    BY <1>4, <2>2, <2>3, <2>4 DEF list
<1> QED
  BY <1>2, <1>3, <1>4

\* The first fields of a message, and what is left of the message when it is
\* written and read.
KeptTo(type, m, j) ==
    Construct(type, [n \in {k \in 1..j : WorthWriting(m, k)} |-> m.slots[n]])
Kept(type, m) == KeptTo(type, m, Len(Fields(type)))

\* Reading goes from one prefix of the fields to the next.
LEMMA KeptNext ==
    ASSUME NEW type \in Types, NEW m, Shaped(type, m), NEW j \in Nat,
           j + 1 \in DOMAIN Fields(type)
    PROVE  ReadFrom(KeptTo(type, m, j), Written(m, j + 1)) = KeptTo(type, m, j + 1)
<1> DEFINE d == [n \in {k \in 1..j : WorthWriting(m, k)} |-> m.slots[n]]
<1>1. KeptTo(type, m, j) = Construct(type, d) /\ j + 1 \notin DOMAIN d
  BY DEF KeptTo
<1>2. CASE WorthWriting(m, j + 1)
  <2>1. {k \in 1..j + 1 : WorthWriting(m, k)} = {k \in 1..j : WorthWriting(m, k)} \cup {j + 1}
    BY <1>2
  <2>2. With(d, j + 1, m.slots[j + 1]) = [n \in {k \in 1..j + 1 : WorthWriting(m, k)} |-> m.slots[n]]
    BY <2>1 DEF With
  <2>3. KeptTo(type, m, j + 1) = Construct(type, With(d, j + 1, m.slots[j + 1]))
    BY <2>2 DEF KeptTo
  <2> HIDE DEF d
  <2> QED
    BY <1>1, <1>2, <2>3, WrittenOK
<1>3. CASE ~WorthWriting(m, j + 1)
  <2>1. {k \in 1..j + 1 : WorthWriting(m, k)} = {k \in 1..j : WorthWriting(m, k)}
    BY <1>3
  <2>2. KeptTo(type, m, j + 1) = KeptTo(type, m, j)
    BY <2>1 DEF KeptTo
  <2>3. Written(m, j + 1) = <<>>
    BY <1>3, WrittenOK
  <2> QED
    BY <2>2, <2>3, ReadNothing
<1> QED
  BY <1>2, <1>3

\* A message of scalars and of lists of scalars, or with its messages written.
LEMMA WriteReads ==
    ASSUME NEW type \in Types, NEW m, Shaped(type, m)
    PROVE  /\ \E A : Write(type, m) \in Seq(A)
           /\ Read(type, Write(type, m)) = Kept(type, m)
<1> DEFINE K == Len(Fields(type))
           seqs == [n \in DOMAIN Fields(type) |-> Written(m, n)]
           A == UNION {ToSet(Written(m, n)) : n \in DOMAIN Fields(type)}
<1>1. K \in Nat /\ K # 0 /\ K - 1 \in Nat /\ DOMAIN Fields(type) = 1..K
  BY FieldsOK
<1>2. Len(seqs) = K /\ \A n \in 1..K : seqs[n] = Written(m, n)
  BY <1>1
<1>3. \A n \in 1..K : Written(m, n) \in Seq(A)
  <2> SUFFICES ASSUME NEW n \in 1..K PROVE Written(m, n) \in Seq(A)
    OBVIOUS
  <2>1. IsSeq(Written(m, n))
    BY <1>1, WrittenOK
  <2>2. ToSet(Written(m, n)) \subseteq A
    BY <1>1
  <2> HIDE DEF A
  <2> QED
    BY <2>1, <2>2, SeqGrows DEF IsSeq
<1> HIDE DEF K, seqs, A
<1>4. PICK f : IsFlat(f, seqs, K) /\ FlattenSeq(seqs) = f[K]
  <2>1. Len(seqs) \in Nat /\ Len(seqs) # 0
    BY <1>1, <1>2
  <2>2. \E f : IsFlat(f, seqs, Len(seqs)) /\ FlattenSeq(seqs) = f[Len(seqs)]
    BY <2>1, FlattenUnfolds
  <2> QED
    BY <1>2, <2>2
<1>5. f[1] = seqs[1] /\ \A i \in 1..K - 1 : f[i + 1] = f[i] \o seqs[i + 1]
  BY <1>1, <1>4, FlatSteps
<1> DEFINE OK(i) == f[i] \in Seq(A) /\ ReadFrom(Fresh(type), f[i]) = KeptTo(type, m, i)
           T == {p \in 0..K - 1 : OK(p + 1)}
<1>6. KeptTo(type, m, 0) = Fresh(type)
  <2>1. {k \in 1..0 : WorthWriting(m, k)} = {}
    OBVIOUS
  <2>2. [n \in {} |-> m.slots[n]] = <<>>
    OBVIOUS
  <2> QED
    BY <2>1, <2>2 DEF KeptTo, Fresh
<1>7. 0 \in T
  <2>1. f[1] = Written(m, 1) /\ f[1] \in Seq(A)
    BY <1>1, <1>2, <1>3, <1>5
  <2>2. ReadFrom(KeptTo(type, m, 0), Written(m, 0 + 1)) = KeptTo(type, m, 0 + 1)
    <3>1. 0 + 1 \in DOMAIN Fields(type)
      BY <1>1
    <3> QED
      BY <3>1, KeptNext
  <2>3. 0 \in 0..K - 1 /\ 0 + 1 = 1
    BY <1>1
  <2> QED
    BY <1>6, <2>1, <2>2, <2>3
<1>8. \A p \in 0..(K - 1) - 1 : p \in T => p + 1 \in T
  <2> SUFFICES ASSUME NEW p \in 0..(K - 1) - 1, p \in T PROVE p + 1 \in T
    OBVIOUS
  <2> DEFINE i == p + 1
  <2>1. f[i] \in Seq(A) /\ ReadFrom(Fresh(type), f[i]) = KeptTo(type, m, i)
    OBVIOUS
  <2>2. i \in 1..K - 1 /\ i \in Nat /\ i + 1 \in 1..K /\ p + 1 \in 0..K - 1
    BY <1>1
  <2> HIDE DEF T
  <2>3. f[i + 1] = f[i] \o Written(m, i + 1) /\ Written(m, i + 1) \in Seq(A)
    BY <1>2, <1>3, <1>5, <2>2
  <2>4. f[i + 1] \in Seq(A)
    BY <2>1, <2>3
  <2>5. ReadFrom(Fresh(type), f[i + 1]) = ReadFrom(KeptTo(type, m, i), Written(m, i + 1))
    BY <2>1, <2>3, ReadBoth
  <2>6. ReadFrom(KeptTo(type, m, i), Written(m, i + 1)) = KeptTo(type, m, i + 1)
    BY <1>1, <2>2, KeptNext
  <2> QED
    BY <2>2, <2>4, <2>5, <2>6 DEF T
<1> HIDE DEF T
<1>9. 0..K - 1 \subseteq T
  BY <1>1, <1>7, <1>8, InductionUpTo
<1>10. OK(K)
  <2>1. K - 1 \in T /\ (K - 1) + 1 = K
    BY <1>1, <1>9
  <2> HIDE DEF OK
  <2> QED
    BY <2>1 DEF T
<1>11. Write(type, m) = f[K]
  BY <1>4 DEF Write, seqs
<1> QED
  BY <1>10, <1>11 DEF Read, Kept, K

\* Whatever is read, it is a message of the class.
LEMMA ReadIsMessage ==
    ASSUME NEW type \in Types, NEW A, NEW wire \in Seq(A)
    PROVE  \E d : Read(type, wire) = Construct(type, d)
<1> DEFINE k == Len(wire)
<1>1. PICK r : IsReading(r, Fresh(type), wire, k) /\ Read(type, wire) = r[k]
  BY ReadingUnfolds DEF Read
<1>2. k \in Nat
  OBVIOUS
<1> HIDE DEF k
<1>3. r[0] = Fresh(type) /\ \A p \in 0..k - 1 : r[p + 1] = ReadField(r[p], wire[p + 1])
  BY <1>1, <1>2, ReadingSteps
<1> DEFINE T == {p \in 0..k : \E d : r[p] = Construct(type, d)}
<1>4. 0 \in T
  BY <1>2, <1>3 DEF Fresh
<1>5. \A p \in 0..k - 1 : p \in T => p + 1 \in T
  <2> SUFFICES ASSUME NEW p \in 0..k - 1, p \in T PROVE p + 1 \in T
    OBVIOUS
  <2>1. PICK d : r[p] = Construct(type, d)
    OBVIOUS
  <2>2. r[p + 1] = ReadField(r[p], wire[p + 1])
    BY <1>3
  <2>3. r[p].type = type
    BY <2>1 DEF Construct
  <2>4. \E e : r[p + 1] = Construct(type, e)
    BY <2>1, <2>2, <2>3 DEF ReadField, Put
  <2>5. p + 1 \in 0..k
    BY <1>2
  <2> QED
    BY <2>4, <2>5
<1> HIDE DEF T
<1>6. 0..k \subseteq T
  BY <1>2, <1>4, <1>5, InductionUpTo
<1> QED
  BY <1>1, <1>2, <1>6 DEF T

\* A field that the class does not know is skipped, wherever it is.
LEMMA WiderReads ==
    ASSUME NEW type \in Types, NEW A, NEW wire \in Seq(A), NEW w \in Wider(wire)
    PROVE  Read(type, w) = Read(type, wire)
<1>1. CASE w = wire
  BY <1>1
<1>2. CASE \E i \in 1..Len(wire) + 1 : w = InsertAt(wire, i, Unknown)
  <2>1. PICK i \in 1..Len(wire) + 1 : w = InsertAt(wire, i, Unknown)
    BY <1>2
  <2> DEFINE u == SubSeq(wire, 1, i - 1)
             v == SubSeq(wire, i, Len(wire))
             B == A \cup {Unknown}
  <2>2. u \in Seq(A) /\ v \in Seq(A) /\ wire = u \o v
    <3>1. Len(wire) \in Nat /\ 1 \in 1..Len(wire) + 1 /\ i - 1 \in 1 - 1..Len(wire)
          /\ Len(wire) \in i - 1..Len(wire) /\ (i - 1) + 1 = i
      OBVIOUS
    <3>2. SubSeq(wire, 1, i - 1) \o SubSeq(wire, (i - 1) + 1, Len(wire)) = SubSeq(wire, 1, Len(wire))
      BY <3>1, ConcatAdjacentSubSeq
    <3>3. SubSeq(wire, 1, Len(wire)) = wire
      BY SubSeqFull
    <3>4. u \in Seq(A) /\ v \in Seq(A)
      OBVIOUS
    <3> QED
      BY <3>1, <3>2, <3>3, <3>4
  <2>3. w = (u \o <<Unknown>>) \o v
    BY <2>1 DEF InsertAt
  <2>4. u \in Seq(B) /\ v \in Seq(B) /\ <<Unknown>> \in Seq(B) /\ (u \o <<Unknown>>) \in Seq(B)
    <3>1. A \subseteq B /\ Unknown \in B
      OBVIOUS
    <3> HIDE DEF u, v, B
    <3>2. u \in Seq(B) /\ v \in Seq(B)
      BY <2>2, <3>1, SeqGrows
    <3> QED
      BY <3>1, <3>2
  <2> HIDE DEF u, v, B
  <2>5. Read(type, wire) = ReadFrom(Read(type, u), v)
    BY <2>2, ReadBoth DEF Read
  <2>6. Read(type, w) = ReadFrom(ReadFrom(Fresh(type), u \o <<Unknown>>), v)
    BY <2>3, <2>4, ReadBoth DEF Read
  <2>7. ReadFrom(Fresh(type), u \o <<Unknown>>) = ReadField(Read(type, u), Unknown)
    BY <2>4, ReadBoth, ReadOne, ZenonT(30) DEF Read
  <2>8. ReadField(Read(type, u), Unknown) = Read(type, u)
    BY <2>2, ReadIsMessage, SkipOK
  <2> QED
    BY <2>5, <2>6, <2>7, <2>8
<1> QED
  BY <1>1, <1>2 DEF Wider

-----------------------------------------------------------------------------
(* Messages that hold messages.                                            *)

\* A message whose elements are messages of their class.
Message(type, m) ==
    /\ Shaped(type, m)
    /\ \A n \in DOMAIN m.slots : Nested(type, n) =>
          \A i \in DOMAIN m.slots[n] : Shaped(Fields(type)[n].of, m.slots[n][i])

\* What is read of a message: every message without the fields that are not
\* written.
Copy(type, m) == Construct(type, Each(type, Kept(type, m).slots, Kept))

\* The slots of a sealed message, one by one.
LEMMA SealedSlots ==
    ASSUME NEW type \in Types, NEW m
    PROVE  LET s == Sealed(type, m) IN
           /\ s = Construct(type, s.slots) /\ s.type = type /\ DOMAIN s.slots = DOMAIN m.slots
           /\ \A n \in DOMAIN m.slots :
                 s.slots[n] = IF Nested(type, n)
                              THEN [i \in DOMAIN m.slots[n] |-> Write(Fields(type)[n].of, m.slots[n][i])]
                              ELSE m.slots[n]
  BY DEF Sealed, Construct, Each

\* Sealing keeps the shape and which fields are written.
LEMMA SealedOK ==
    ASSUME NEW type \in Types, NEW m, Message(type, m)
    PROVE  /\ Shaped(type, Sealed(type, m))
           /\ \A n \in DOMAIN Fields(type) :
                 WorthWriting(Sealed(type, m), n) = WorthWriting(m, n)
<1> DEFINE s == Sealed(type, m)
<1>1. /\ s = Construct(type, s.slots) /\ s.type = type /\ DOMAIN s.slots = DOMAIN m.slots
      /\ \A n \in DOMAIN m.slots :
            s.slots[n] = IF Nested(type, n)
                         THEN [i \in DOMAIN m.slots[n] |-> Write(Fields(type)[n].of, m.slots[n][i])]
                         ELSE m.slots[n]
  BY SealedSlots
<1> HIDE DEF s
<1>2. m.type = type /\ DOMAIN m.slots \subseteq DOMAIN Fields(type)
  BY DEF Message, Shaped, Construct
<1>3. ASSUME NEW n \in DOMAIN m.slots, Nested(type, n)
      PROVE  /\ Fields(type)[n].kind = "list" /\ Default(Fields(type)[n]) = <<>>
             /\ ~Fields(type)[n].optional
             /\ IsSeq(s.slots[n]) /\ (s.slots[n] = <<>>) = (m.slots[n] = <<>>)
  <2>1. /\ Fields(type)[n].kind = "list" /\ Default(Fields(type)[n]) = <<>>
        /\ ~Fields(type)[n].optional
    BY <1>2, <1>3, FieldsOK
  <2> DEFINE list == m.slots[n]
  <2>2. IsSeq(list)
    BY <2>1 DEF Message, Shaped
  <2>3. s.slots[n] = [i \in DOMAIN list |-> Write(Fields(type)[n].of, list[i])]
    BY <1>1, <1>3
  <2> HIDE DEF list
  <2>4. Len(list) \in Nat /\ DOMAIN list = 1..Len(list) /\ (list = <<>>) = (Len(list) = 0)
    BY <2>2 DEF IsSeq
  <2>5. IsSeq(s.slots[n]) /\ Len(s.slots[n]) = Len(list)
    BY <2>3, <2>4, IsSeqOK
  <2>6. (s.slots[n] = <<>>) = (Len(s.slots[n]) = 0)
    BY <2>5 DEF IsSeq
  <2> QED
    BY <2>1, <2>4, <2>5, <2>6 DEF list
<1>4. Shaped(type, s)
  BY <1>1, <1>2, <1>3 DEF Shaped, Message
<1>5. ASSUME NEW n \in DOMAIN Fields(type) PROVE WorthWriting(s, n) = WorthWriting(m, n)
  <2>1. CASE n \notin DOMAIN m.slots
    BY <1>1, <1>2, <2>1 DEF WorthWriting, Has, Get
  <2>2. CASE n \in DOMAIN m.slots /\ ~Nested(type, n)
    BY <1>1, <1>2, <2>2 DEF WorthWriting, Has, Get
  <2>3. CASE n \in DOMAIN m.slots /\ Nested(type, n)
    BY <1>1, <1>2, <1>3, <2>3 DEF WorthWriting, Has, Get
  <2> QED
    BY <2>1, <2>2, <2>3
<1> QED
  BY <1>4, <1>5 DEF s

\* A message that holds what the elements of m are written as, or wires that are
\* read the same.
Seals(type, m, s) ==
    /\ Shaped(type, s) /\ DOMAIN s.slots = DOMAIN m.slots
    /\ \A n \in DOMAIN Fields(type) : WorthWriting(s, n) = WorthWriting(m, n)
    /\ \A n \in DOMAIN m.slots :
          IF Nested(type, n)
          THEN /\ DOMAIN s.slots[n] = DOMAIN m.slots[n]
               /\ \A i \in DOMAIN m.slots[n] :
                     Read(Fields(type)[n].of, s.slots[n][i]) = Kept(Fields(type)[n].of, m.slots[n][i])
          ELSE s.slots[n] = m.slots[n]

\* The message with its messages written is one.
LEMMA SealedSeals ==
    ASSUME NEW type \in Types, NEW m, Message(type, m)
    PROVE  Seals(type, m, Sealed(type, m))
<1> DEFINE s == Sealed(type, m)
<1>1. /\ DOMAIN s.slots = DOMAIN m.slots
      /\ \A n \in DOMAIN m.slots :
            s.slots[n] = IF Nested(type, n)
                         THEN [i \in DOMAIN m.slots[n] |-> Write(Fields(type)[n].of, m.slots[n][i])]
                         ELSE m.slots[n]
  BY SealedSlots
<1>2. Shaped(type, s) /\ \A n \in DOMAIN Fields(type) : WorthWriting(s, n) = WorthWriting(m, n)
  BY SealedOK
<1> HIDE DEF s
<1>3. ASSUME NEW n \in DOMAIN m.slots, Nested(type, n)
      PROVE  /\ DOMAIN s.slots[n] = DOMAIN m.slots[n]
             /\ \A i \in DOMAIN m.slots[n] :
                   Read(Fields(type)[n].of, s.slots[n][i]) = Kept(Fields(type)[n].of, m.slots[n][i])
  <2> DEFINE of == Fields(type)[n].of
             list == m.slots[n]
  <2>1. of \in Types
    BY <1>3, FieldsOK DEF Message, Shaped
  <2>2. \A i \in DOMAIN list : Shaped(of, list[i])
    BY <1>3 DEF Message
  <2>3. s.slots[n] = [i \in DOMAIN list |-> Write(of, list[i])]
    BY <1>1, <1>3
  <2> HIDE DEF of, list
  <2>4. \A i \in DOMAIN list : Read(of, Write(of, list[i])) = Kept(of, list[i])
    BY <2>1, <2>2, WriteReads
  <2>5. /\ DOMAIN s.slots[n] = DOMAIN list
        /\ \A i \in DOMAIN list : Read(of, s.slots[n][i]) = Kept(of, list[i])
    BY <2>3, <2>4
  <2> QED
    BY <2>5 DEF of, list
<1> QED
  BY <1>1, <1>2, <1>3 DEF Seals, s

\* What the class reads of it is the message, without the fields that are not
\* written, and in spite of a field it does not know.
LEMMA SealsRead ==
    ASSUME NEW type \in Types, NEW m, Message(type, m), NEW s, Seals(type, m, s),
           NEW w \in Wider(Write(type, s))
    PROVE  Deserialize(type, w) = Copy(type, m)
<1> DEFINE W == {k \in 1..Len(Fields(type)) : WorthWriting(m, k)}
<1>1. /\ Shaped(type, s)
      /\ \A n \in DOMAIN Fields(type) : WorthWriting(s, n) = WorthWriting(m, n)
      /\ \A n \in DOMAIN m.slots : ~Nested(type, n) => s.slots[n] = m.slots[n]
  BY DEF Seals
<1>2. ASSUME NEW n \in DOMAIN m.slots, Nested(type, n)
      PROVE  /\ DOMAIN s.slots[n] = DOMAIN m.slots[n]
             /\ \A i \in DOMAIN m.slots[n] :
                   Read(Fields(type)[n].of, s.slots[n][i]) = Kept(Fields(type)[n].of, m.slots[n][i])
  BY <1>2 DEF Seals
<1>3. Read(type, w) = Kept(type, s)
  <2>1. PICK A : Write(type, s) \in Seq(A)
    BY <1>1, WriteReads
  <2>2. Read(type, Write(type, s)) = Kept(type, s)
    BY <1>1, WriteReads
  <2> QED
    BY <2>1, <2>2, WiderReads
<1>4. DOMAIN Fields(type) = 1..Len(Fields(type))
  BY FieldsOK
<1>5. {k \in 1..Len(Fields(type)) : WorthWriting(s, k)} = W
  BY <1>1, <1>4
<1>6. Kept(type, s).slots = [n \in W |-> s.slots[n]]
  BY <1>5 DEF Kept, KeptTo, Construct
<1>7. Kept(type, m).slots = [n \in W |-> m.slots[n]]
  BY DEF Kept, KeptTo, Construct
<1> DEFINE a == Each(type, [n \in W |-> s.slots[n]], Read)
           b == Each(type, [n \in W |-> m.slots[n]], Kept)
<1>8. ASSUME NEW n \in W PROVE a[n] = b[n]
  <2>1. WorthWriting(m, n) /\ n \in DOMAIN Fields(type)
    BY <1>4
  <2>2. n \in DOMAIN m.slots
    BY <2>1, WorthOK DEF Message
  <2> HIDE DEF W
  <2>3. CASE ~Nested(type, n)
    BY <1>1, <2>2, <2>3 DEF Each
  <2>4. CASE Nested(type, n)
    <3> DEFINE of == Fields(type)[n].of
               list == m.slots[n]
    <3>1. a[n] = [i \in DOMAIN s.slots[n] |-> Read(of, s.slots[n][i])]
      BY <2>4 DEF Each
    <3>2. b[n] = [i \in DOMAIN list |-> Kept(of, list[i])]
      BY <2>4 DEF Each
    <3>3. /\ DOMAIN s.slots[n] = DOMAIN list
          /\ \A i \in DOMAIN list : Read(of, s.slots[n][i]) = Kept(of, list[i])
      BY <1>2, <2>2, <2>4
    <3> HIDE DEF of, list, a, b
    <3> QED
      BY <3>1, <3>2, <3>3
  <2> QED
    BY <2>3, <2>4
<1>9. a = b
  <2>1. a = [n \in W |-> a[n]] /\ b = [n \in W |-> b[n]]
    BY DEF Each
  <2> HIDE DEF a, b, W
  <2> QED
    BY <1>8, <2>1
<1> QED
  BY <1>3, <1>6, <1>7, <1>9 DEF Deserialize, Copy

\* One element's wire with a field that its class does not know seals as well.
LEMMA WiderSeals ==
    ASSUME NEW type \in Types, NEW m, Message(type, m), NEW n \in DOMAIN m.slots, Nested(type, n),
           NEW wires \in WiderOne(Sealed(type, m).slots[n])
    PROVE  Seals(type, m, Put(Sealed(type, m), n, wires))
<1> DEFINE s == Sealed(type, m)
           z == Put(s, n, wires)
           of == Fields(type)[n].of
           list == m.slots[n]
<1>1. /\ s.type = type /\ DOMAIN s.slots = DOMAIN m.slots
      /\ s.slots[n] = [i \in DOMAIN list |-> Write(of, list[i])]
  BY SealedSlots
<1>2. Seals(type, m, s)
  BY SealedSeals
<1>3. /\ Fields(type)[n].kind = "list" /\ of \in Types /\ ~Fields(type)[n].optional
      /\ n \in DOMAIN Fields(type) /\ Default(Fields(type)[n]) = <<>>
  BY FieldsOK DEF Message, Shaped
<1>4. IsSeq(list) /\ \A i \in DOMAIN list : Shaped(of, list[i])
  BY <1>3 DEF Message, Shaped
<1>5. PICK i \in DOMAIN list : \E wire \in Wider(Write(of, list[i])) : wires = [s.slots[n] EXCEPT ![i] = wire]
  BY <1>1 DEF WiderOne
<1>6. PICK wire \in Wider(Write(of, list[i])) : wires = [s.slots[n] EXCEPT ![i] = wire]
  BY <1>5
<1>7. /\ z = Construct(type, z.slots) /\ z.type = type /\ DOMAIN z.slots = DOMAIN m.slots
      /\ z.slots[n] = wires
      /\ \A k \in DOMAIN m.slots : k # n => z.slots[k] = s.slots[k]
  <2> HIDE DEF s
  <2> QED
    BY <1>1 DEF Put, Construct
<1> HIDE DEF s, z, of, list
<1>8. /\ DOMAIN wires = DOMAIN list /\ wires = [j \in DOMAIN list |-> wires[j]]
      /\ \A j \in DOMAIN list : wires[j] = IF j = i THEN wire ELSE Write(of, list[j])
  BY <1>1, <1>6
<1>9. Len(list) \in Nat /\ DOMAIN list = 1..Len(list)
  BY <1>4 DEF IsSeq
<1>10. IsSeq(wires) /\ Len(wires) = Len(list) /\ wires # <<>>
  <2>1. IsSeq(wires) /\ Len(wires) = Len(list)
    BY <1>8, <1>9, IsSeqOK
  <2> QED
    BY <1>8, <2>1
<1>11. \A j \in DOMAIN list : Read(of, wires[j]) = Kept(of, list[j])
  <2>1. \A j \in DOMAIN list : Read(of, Write(of, list[j])) = Kept(of, list[j])
    BY <1>3, <1>4, WriteReads
  <2>2. \E A : Write(of, list[i]) \in Seq(A)
    BY <1>3, <1>4, WriteReads
  <2>3. Read(of, wire) = Read(of, Write(of, list[i]))
    BY <1>3, <2>2, WiderReads
  <2> QED
    BY <1>8, <2>1, <2>3
<1>12. Shaped(type, s) /\ \A k \in DOMAIN Fields(type) : WorthWriting(s, k) = WorthWriting(m, k)
  BY <1>2 DEF Seals
<1>13. Shaped(type, z)
  BY <1>1, <1>7, <1>10, <1>12 DEF Shaped
<1>14. WorthWriting(s, n) /\ WorthWriting(z, n)
  <2>1. s.slots[n] # <<>>
    BY <1>1
  <2> QED
    BY <1>1, <1>3, <1>7, <1>10, <2>1 DEF WorthWriting, Get
<1>15. ASSUME NEW k \in DOMAIN Fields(type) PROVE WorthWriting(z, k) = WorthWriting(m, k)
  <2>1. CASE k = n
    BY <1>3, <1>12, <1>14, <2>1
  <2>2. CASE k # n
    <3>1. WorthWriting(z, k) = WorthWriting(s, k)
      BY <1>1, <1>7, <2>2 DEF WorthWriting, Has, Get
    <3> QED
      BY <1>12, <3>1
  <2> QED
    BY <2>1, <2>2
<1>16. \A k \in DOMAIN m.slots :
          IF Nested(type, k)
          THEN /\ DOMAIN z.slots[k] = DOMAIN m.slots[k]
               /\ \A j \in DOMAIN m.slots[k] :
                     Read(Fields(type)[k].of, z.slots[k][j]) = Kept(Fields(type)[k].of, m.slots[k][j])
          ELSE z.slots[k] = m.slots[k]
  <2> SUFFICES ASSUME NEW k \in DOMAIN m.slots
               PROVE  IF Nested(type, k)
                      THEN /\ DOMAIN z.slots[k] = DOMAIN m.slots[k]
                           /\ \A j \in DOMAIN m.slots[k] :
                                 Read(Fields(type)[k].of, z.slots[k][j])
                                   = Kept(Fields(type)[k].of, m.slots[k][j])
                      ELSE z.slots[k] = m.slots[k]
    OBVIOUS
  <2>1. CASE k = n
    BY <1>7, <1>8, <1>11, <2>1 DEF of, list
  <2>2. CASE k # n
    <3>1. z.slots[k] = s.slots[k]
      BY <1>7, <2>2
    <3> QED
      BY <1>2, <3>1 DEF Seals
  <2> QED
    BY <2>1, <2>2
<1>17. Seals(type, m, z)
  BY <1>7, <1>13, <1>15, <1>16 DEF Seals
<1> QED
  BY <1>17 DEF s, z

\* Whichever service sends it, the class reads the message.
LEMMA DeserializeOK ==
    ASSUME NEW type \in Types, NEW m, Message(type, m), NEW w \in Newer(m)
    PROVE  Deserialize(type, w) = Copy(type, m)
<1>1. m.type = type
  BY DEF Message, Shaped, Construct
<1>2. CASE w \in Wider(Serialize(m))
  <2>1. Serialize(m) = Write(type, Sealed(type, m))
    BY <1>1 DEF Serialize
  <2> QED
    BY <1>2, <2>1, SealedSeals, SealsRead
<1>3. CASE \E n \in DOMAIN m.slots :
             /\ Nested(type, n)
             /\ \E wires \in WiderOne(Sealed(type, m).slots[n]) :
                   w = Write(type, Put(Sealed(type, m), n, wires))
  <2>1. PICK n \in DOMAIN m.slots :
           /\ Nested(type, n)
           /\ \E wires \in WiderOne(Sealed(type, m).slots[n]) :
                 w = Write(type, Put(Sealed(type, m), n, wires))
    BY <1>3
  <2>2. PICK wires \in WiderOne(Sealed(type, m).slots[n]) :
           w = Write(type, Put(Sealed(type, m), n, wires))
    BY <2>1
  <2>3. w \in Wider(Write(type, Put(Sealed(type, m), n, wires)))
    BY <2>2 DEF Wider
  <2> QED
    BY <2>1, <2>2, <2>3, WiderSeals, SealsRead
<1> QED
  BY <1>1, <1>2, <1>3 DEF Newer

\* The fields that are not written have the value that their getter gives anyway.
LEMMA KeptOK ==
    ASSUME NEW type \in Types, NEW x, Shaped(type, x)
    PROVE  /\ Shaped(type, Kept(type, x))
           /\ \A n \in DOMAIN Fields(type) : Get(Kept(type, x), n) = Get(x, n)
           /\ Plain(type, Kept(type, x)) = Plain(type, x)
<1> DEFINE k == Kept(type, x)
           W == {n \in DOMAIN Fields(type) : WorthWriting(x, n)}
<1>1. k = Construct(type, [n \in W |-> x.slots[n]])
  BY FieldsOK DEF Kept, KeptTo
<1>2. k.type = type /\ k.slots = [n \in W |-> x.slots[n]] /\ k = Construct(type, k.slots)
  BY <1>1 DEF Construct
<1>3. DOMAIN k.slots = W /\ \A n \in W : k.slots[n] = x.slots[n]
  BY <1>2
<1> HIDE DEF k
<1>4. x.type = type
  BY DEF Shaped, Construct
<1>5. \A n \in W : n \in DOMAIN x.slots /\ Get(x, n) = x.slots[n]
                   /\ (Fields(type)[n].kind = "list" => IsSeq(x.slots[n]))
  BY WorthOK
<1>6. Shaped(type, k)
  BY <1>2, <1>3, <1>5 DEF Shaped
<1>7. ASSUME NEW n \in DOMAIN Fields(type) PROVE Get(k, n) = Get(x, n)
  <2>1. CASE WorthWriting(x, n)
    BY <1>3, <1>5, <2>1 DEF Get
  <2>2. CASE ~WorthWriting(x, n)
    <3>1. Get(k, n) = Default(Fields(type)[n])
      BY <1>2, <1>3, <2>2 DEF Get
    <3>2. Get(x, n) = Default(Fields(type)[n])
      BY <1>4, <2>2 DEF WorthWriting, Has, Get
    <3> QED
      BY <3>1, <3>2
  <2> QED
    BY <2>1, <2>2
<1>8. Plain(type, k) = Plain(type, x)
  BY <1>7 DEF Plain
<1> QED
  BY <1>6, <1>7, <1>8 DEF k

\* What the getters of the copy give.
LEMMA CopyOK ==
    ASSUME NEW type \in Types, NEW m, Message(type, m)
    PROVE  /\ Message(type, Copy(type, m))
           /\ \A n \in DOMAIN Fields(type) :
                 Get(Copy(type, m), n)
                   = IF Nested(type, n)
                     THEN [i \in DOMAIN Get(m, n) |-> Kept(Fields(type)[n].of, Get(m, n)[i])]
                     ELSE Get(m, n)
<1> DEFINE c == Copy(type, m)
           k == Kept(type, m)
<1>1. /\ c = Construct(type, c.slots) /\ c.type = type /\ DOMAIN c.slots = DOMAIN k.slots
      /\ \A n \in DOMAIN k.slots :
            c.slots[n] = IF Nested(type, n)
                         THEN [i \in DOMAIN k.slots[n] |-> Kept(Fields(type)[n].of, k.slots[n][i])]
                         ELSE k.slots[n]
  BY DEF Copy, Construct, Each
<1>2. Shaped(type, k) /\ \A n \in DOMAIN Fields(type) : Get(k, n) = Get(m, n)
  BY KeptOK DEF Message
<1>3. \A n \in DOMAIN k.slots : n \in DOMAIN m.slots /\ k.slots[n] = m.slots[n]
  <2>1. DOMAIN Fields(type) = 1..Len(Fields(type))
    BY FieldsOK
  <2> QED
    BY <2>1, WorthOK DEF Kept, KeptTo, Construct, Message
<1> HIDE DEF c, k
<1>4. k.type = type /\ DOMAIN k.slots \subseteq DOMAIN Fields(type)
  BY <1>2 DEF Shaped, Construct
<1>5. ASSUME NEW n \in DOMAIN k.slots, Nested(type, n)
      PROVE  /\ IsSeq(c.slots[n])
             /\ \A i \in DOMAIN c.slots[n] : Shaped(Fields(type)[n].of, c.slots[n][i])
  <2> DEFINE of == Fields(type)[n].of
             list == k.slots[n]
  <2>1. of \in Types /\ Fields(type)[n].kind = "list"
    BY <1>4, <1>5, FieldsOK
  <2>2. IsSeq(list)
    BY <1>2, <2>1 DEF Shaped
  <2>3. \A i \in DOMAIN list : Shaped(of, list[i])
    BY <1>3, <1>5 DEF Message
  <2>4. c.slots[n] = [i \in DOMAIN list |-> Kept(of, list[i])]
    BY <1>1, <1>5
  <2> HIDE DEF of, list
  <2>5. Len(list) \in Nat /\ DOMAIN list = 1..Len(list)
    BY <2>2 DEF IsSeq
  <2>6. IsSeq(c.slots[n])
    BY <2>4, <2>5, IsSeqOK
  <2>7. \A i \in DOMAIN list : Shaped(of, Kept(of, list[i]))
    BY <2>1, <2>3, KeptOK
  <2> QED
    BY <2>4, <2>6, <2>7 DEF of
<1>6. Message(type, c)
  <2>1. Shaped(type, c)
    BY <1>1, <1>2, <1>4, <1>5 DEF Shaped
  <2> QED
    BY <1>1, <1>5, <2>1 DEF Message
<1>7. ASSUME NEW n \in DOMAIN Fields(type)
      PROVE  Get(c, n) = IF Nested(type, n)
                         THEN [i \in DOMAIN Get(m, n) |-> Kept(Fields(type)[n].of, Get(m, n)[i])]
                         ELSE Get(m, n)
  <2>1. CASE n \in DOMAIN k.slots
    <3>1. Get(c, n) = c.slots[n] /\ Get(m, n) = k.slots[n]
      BY <1>1, <1>2, <2>1 DEF Get
    <3> QED
      BY <1>1, <2>1, <3>1
  <2>2. CASE n \notin DOMAIN k.slots
    <3>1. Get(c, n) = Default(Fields(type)[n]) /\ Get(m, n) = Default(Fields(type)[n])
      BY <1>1, <1>2, <1>4, <2>2 DEF Get
    <3>2. CASE Nested(type, n)
      <4>1. Get(m, n) = <<>> /\ Get(c, n) = <<>>
        BY <3>1, <3>2, FieldsOK
      <4>2. [i \in DOMAIN Get(m, n) |-> Kept(Fields(type)[n].of, Get(m, n)[i])] = <<>>
        BY <4>1
      <4> QED
        BY <3>2, <4>1, <4>2
    <3> QED
      BY <3>1, <3>2
  <2> QED
    BY <2>1, <2>2
<1> QED
  BY <1>6, <1>7 DEF c

\* The elements of a list of messages are messages of their class.
LEMMA ListElements ==
    ASSUME NEW type \in Types, NEW m, Message(type, m), NEW n \in DOMAIN Fields(type),
           Nested(type, n), NEW i \in DOMAIN Get(m, n)
    PROVE  Shaped(Fields(type)[n].of, Get(m, n)[i])
<1>1. m.type = type
  BY DEF Message, Shaped, Construct
<1>2. CASE n \in DOMAIN m.slots
  <2>1. Get(m, n) = m.slots[n]
    BY <1>2 DEF Get
  <2> QED
    BY <1>2, <2>1 DEF Message
<1>3. CASE n \notin DOMAIN m.slots
  <2>1. Get(m, n) = <<>>
    BY <1>1, <1>3, FieldsOK DEF Get
  <2> QED
    BY <2>1
<1> QED
  BY <1>2, <1>3

\* The plain object of a message, field by field.
LEMMA ToObjectAt ==
    ASSUME NEW type \in Types, NEW m, m.type = type
    PROVE  /\ ToObject(m) = [n \in DOMAIN Fields(type) |-> ToObject(m)[n]]
           /\ \A n \in DOMAIN Fields(type) :
                 ToObject(m)[n]
                   = IF Nested(type, n)
                     THEN [i \in DOMAIN Get(m, n) |-> Plain(Fields(type)[n].of, Get(m, n)[i])]
                     ELSE Get(m, n)
<1>1. DOMAIN Plain(type, m) = DOMAIN Fields(type)
      /\ \A n \in DOMAIN Fields(type) : Plain(type, m)[n] = Get(m, n)
  BY DEF Plain
<1> QED
  BY <1>1 DEF ToObject, Each

\* The copy says what the message says.
LEMMA CopySays ==
    ASSUME NEW type \in Types, NEW m, Message(type, m)
    PROVE  Says(Copy(type, m)) = Says(m)
<1> DEFINE c == Copy(type, m)
<1>1. m.type = type /\ c.type = type
  BY DEF Message, Shaped, Construct, Copy
<1>2. \A n \in DOMAIN Fields(type) :
         Get(c, n) = IF Nested(type, n)
                     THEN [i \in DOMAIN Get(m, n) |-> Kept(Fields(type)[n].of, Get(m, n)[i])]
                     ELSE Get(m, n)
  BY CopyOK
<1> HIDE DEF c
<1>3. ASSUME NEW n \in DOMAIN Fields(type) PROVE ToObject(c)[n] = ToObject(m)[n]
  <2>1. CASE ~Nested(type, n)
    BY <1>1, <1>2, <2>1, ToObjectAt
  <2>2. CASE Nested(type, n)
    <3> DEFINE of == Fields(type)[n].of
               list == Get(m, n)
    <3>1. of \in Types
      BY <2>2, FieldsOK
    <3>2. \A i \in DOMAIN list : Shaped(of, list[i])
      BY <2>2, ListElements
    <3>3. Get(c, n) = [i \in DOMAIN list |-> Kept(of, list[i])]
      BY <1>2, <2>2
    <3>4. /\ ToObject(m)[n] = [i \in DOMAIN list |-> Plain(of, list[i])]
          /\ ToObject(c)[n] = [i \in DOMAIN Get(c, n) |-> Plain(of, Get(c, n)[i])]
      BY <1>1, <2>2, ToObjectAt
    <3> HIDE DEF of, list
    <3>5. \A i \in DOMAIN list : Plain(of, Kept(of, list[i])) = Plain(of, list[i])
      BY <3>1, <3>2, KeptOK
    <3> QED
      BY <3>3, <3>4, <3>5
  <2> QED
    BY <2>1, <2>2
<1>4. ToObject(c) = ToObject(m)
  BY <1>1, <1>3, ToObjectAt
<1> QED
  BY <1>1, <1>4 DEF Says, c

\* What is made from the plain object of a message says what the message says.
LEMMA FromObjectSays ==
    ASSUME NEW type \in Types, NEW m, Message(type, m)
    PROVE  Says(FromObject(type, ToObject(m))) = Says(m)
<1> DEFINE o == ToObject(m)
           c == FromObject(type, o)
<1>1. m.type = type
  BY DEF Message, Shaped, Construct
<1>2. /\ DOMAIN o = DOMAIN Fields(type)
      /\ \A n \in DOMAIN Fields(type) :
            o[n] = IF Nested(type, n)
                   THEN [i \in DOMAIN Get(m, n) |-> Plain(Fields(type)[n].of, Get(m, n)[i])]
                   ELSE Get(m, n)
  BY <1>1, ToObjectAt
<1> HIDE DEF o
<1>3. /\ c.type = type /\ DOMAIN c.slots = DOMAIN Fields(type)
      /\ \A n \in DOMAIN Fields(type) :
            c.slots[n] = IF Nested(type, n)
                         THEN [i \in DOMAIN o[n] |-> Filled(Fields(type)[n].of, o[n][i])]
                         ELSE o[n]
  BY <1>2 DEF FromObject, Filled, Construct, Each
<1> HIDE DEF c
<1>4. \A of, x : Plain(of, Filled(of, Plain(of, x))) = Plain(of, x)
  BY DEF Plain, Filled, Construct, Get
<1>5. ASSUME NEW n \in DOMAIN Fields(type) PROVE ToObject(c)[n] = o[n]
  <2>1. Get(c, n) = c.slots[n]
    BY <1>3 DEF Get
  <2>2. CASE ~Nested(type, n)
    BY <1>2, <1>3, <2>1, <2>2, ToObjectAt
  <2>3. CASE Nested(type, n)
    <3> DEFINE of == Fields(type)[n].of
               list == Get(m, n)
    <3>1. o[n] = [i \in DOMAIN list |-> Plain(of, list[i])]
      BY <1>2, <2>3
    <3>2. c.slots[n] = [i \in DOMAIN o[n] |-> Filled(of, o[n][i])]
      BY <1>3, <2>3
    <3>3. ToObject(c)[n] = [i \in DOMAIN c.slots[n] |-> Plain(of, c.slots[n][i])]
      BY <1>3, <2>1, <2>3, ToObjectAt
    <3> HIDE DEF of, list
    <3> QED
      BY <1>4, <3>1, <3>2, <3>3
  <2> QED
    BY <2>2, <2>3
<1>6. ToObject(c) = o
  <2>1. ToObject(c) = [n \in DOMAIN Fields(type) |-> ToObject(c)[n]]
    BY <1>3, ToObjectAt
  <2>2. o = [n \in DOMAIN Fields(type) |-> o[n]]
    BY <1>1, ToObjectAt DEF o
  <2> QED
    BY <1>5, <2>1, <2>2
<1> QED
  BY <1>1, <1>3, <1>6 DEF Says, c, o

\* Reading back what was written.
LEMMA Faithful ==
    ASSUME NEW type \in Types, NEW m, Message(type, m), NEW w \in Newer(m)
    PROVE  LET got == Deserialize(type, w) IN
           /\ Says(got) = Says(m) /\ Message(type, got)
           /\ Says(Deserialize(type, Serialize(got))) = Says(got)
           /\ Says(FromObject(type, ToObject(got))) = Says(got)
<1> DEFINE got == Deserialize(type, w)
<1>1. got = Copy(type, m)
  BY DeserializeOK
<1> HIDE DEF got
<1>2. Says(got) = Says(m) /\ Message(type, got)
  BY <1>1, CopySays, CopyOK
<1>3. Deserialize(type, Serialize(got)) = Copy(type, got)
  BY <1>2, DeserializeOK DEF Newer, Wider
<1>4. Says(Copy(type, got)) = Says(got)
  BY <1>2, CopySays
<1>5. Says(FromObject(type, ToObject(got))) = Says(got)
  BY <1>2, FromObjectSays
<1> QED
  BY <1>2, <1>3, <1>4, <1>5 DEF got

-----------------------------------------------------------------------------
(* What the handlers build.                                                *)

\* The lists of names without a repetition.
Orders(S) == UNION {SetToSeqs(T) : T \in SUBSET S}

\* The names of a finite set in some order are a sequence.
LEMMA OrderIsSeq ==
    ASSUME NEW S, IsFiniteSet(S), NEW l \in Orders(S)
    PROVE  Len(l) \in Nat /\ DOMAIN l = 1..Len(l)
<1>1. PICK T \in SUBSET S : l \in SetToSeqs(T)
  BY DEF Orders
<1>2. Cardinality(T) \in Nat
  BY <1>1, FS_Subset, FS_CardinalityType
<1>3. l \in [1..Cardinality(T) -> T]
  BY <1>1 DEF SetToSeqs
<1> QED
  BY <1>2, <1>3

\* The parts of a constructed message.
LEMMA SlotsOK ==
    ASSUME NEW type, NEW slots
    PROVE  Construct(type, slots).slots = slots /\ Construct(type, slots).type = type
  BY DEF Construct

\* What the handlers build, one by one.
LEMMA FileOfOK == ASSUME NEW name PROVE Message("File", FileOf(name))
<1>1. Fields("File") = <<One("string")>>
  BY DEF Fields, FileFields
<1>2. One("string").kind = "string" /\ One("string").of = "scalar"
  BY DEF One
<1>3. FileOf(name).slots = <<name>>
  BY SlotsOK DEF FileOf
<1> QED
  BY <1>1, <1>2, <1>3 DEF FileOf, Message, Shaped, Nested

\* An element of the answer to a listing of folders.
LEMMA FolderOK == ASSUME NEW name PROVE Shaped("Folders", Construct("Folders", <<name>>))
<1>1. Fields("Folders") = <<One("string"), Optional("bool"), Many("Folders")>>
  BY DEF Fields, FoldersFields
<1>2. One("string").kind = "string"
  BY DEF One
<1>3. Construct("Folders", <<name>>).slots = <<name>>
  BY SlotsOK
<1> QED
  BY <1>1, <1>2, <1>3 DEF Shaped

\* The answers to the listings of folders, and of files.
LEMMA FoldersOfOK == ASSUME NEW l \in Orders(Leaves) PROVE Message("Folders", FoldersOf(l))
<1> DEFINE list == [i \in DOMAIN l |-> Construct("Folders", <<l[i]>>)]
<1>1. Fields("Folders") = <<One("string"), Optional("bool"), Many("Folders")>>
  BY DEF Fields, FoldersFields
<1>2. /\ One("string").kind = "string" /\ One("string").of = "scalar"
      /\ Optional("bool").kind = "bool" /\ Optional("bool").of = "scalar"
      /\ Many("Folders").kind = "list" /\ Many("Folders").of = "Folders"
  BY DEF One, Optional, Many
<1>3. PICK slots : slots = <<"repository", TRUE, list>> /\ FoldersOf(l) = Construct("Folders", slots)
  BY DEF FoldersOf
<1>4. IsSeq(list)
  <2>1. Len(l) \in Nat /\ DOMAIN l = 1..Len(l)
    BY NamesAssumption, OrderIsSeq
  <2> QED
    BY <2>1, IsSeqOK
<1>5. \A i \in DOMAIN list : Shaped("Folders", list[i])
  BY FolderOK
<1> HIDE DEF list
<1>6. FoldersOf(l).slots = slots
  <2>1. FoldersOf(l) = Construct("Folders", slots)
    BY <1>3
  <2> QED
    BY <2>1, SlotsOK
<1>7. DOMAIN slots = 1..3 /\ slots[3] = list
  BY <1>3
<1> DEFINE fields == Fields("Folders")
<1>8. DOMAIN fields = 1..3 /\ fields[1] = One("string") /\ fields[2] = Optional("bool")
      /\ fields[3] = Many("Folders")
  BY <1>1
<1> HIDE DEF fields
<1>9. \A n \in 1..3 : n # 3 => fields[n].kind # "list" /\ fields[n].of = "scalar"
  <2>1. \A n \in 1..3 : n # 3 => n = 1 \/ n = 2
    OBVIOUS
  <2> QED
    BY <1>2, <1>8, <2>1
<1>10. Shaped("Folders", FoldersOf(l))
  <2>1. FoldersOf(l) = Construct("Folders", FoldersOf(l).slots)
    BY <1>3, <1>6
  <2>2. \A n \in DOMAIN slots : fields[n].kind = "list" => IsSeq(slots[n])
    BY <1>4, <1>7, <1>9
  <2> QED
    BY <1>6, <1>7, <1>8, <2>1, <2>2 DEF Shaped, fields
<1>11. \A n \in DOMAIN slots : fields[n].of # "scalar" => fields[n].of = "Folders" /\ slots[n] = list
  BY <1>2, <1>7, <1>8, <1>9
<1> QED
  BY <1>5, <1>6, <1>10, <1>11 DEF Message, Nested, fields

LEMMA FilesOfOK == ASSUME NEW l \in Orders(Names \cup {Garbled}) PROVE Message("Files", FilesOf(l))
<1> DEFINE list == [i \in DOMAIN l |-> FileOf(l[i])]
<1>1. Fields("Files") = <<Many("File")>>
  BY DEF Fields, FilesFields
<1>2. Many("File").kind = "list" /\ Many("File").of = "File"
  BY DEF Many
<1>3. FilesOf(l) = Construct("Files", <<list>>)
  BY DEF FilesOf
<1>4. IsSeq(list)
  <2>1. IsFiniteSet(Names \cup {Garbled})
    BY NamesAssumption, FS_AddElement
  <2>2. Len(l) \in Nat /\ DOMAIN l = 1..Len(l)
    BY <2>1, OrderIsSeq
  <2> QED
    BY <2>2, IsSeqOK
<1>5. \A i \in DOMAIN list : Shaped("File", list[i])
  BY FileOfOK DEF Message
<1> HIDE DEF list
<1>6. FilesOf(l).slots = <<list>>
  BY <1>3, SlotsOK
<1>7. Shaped("Files", FilesOf(l))
  BY <1>1, <1>2, <1>3, <1>4, <1>6 DEF Shaped
<1> QED
  BY <1>1, <1>2, <1>5, <1>6, <1>7 DEF Message, Nested

\* The answer to a request for the details of a file.
LEMMA PackageOK == ASSUME NEW p \in Packages PROVE Message("RPM", p)
<1>1. Fields("RPM") = RPMFields
  BY DEF Fields
<1>2. /\ p = Construct("RPM", p.slots) /\ DOMAIN p.slots \subseteq DOMAIN RPMFields
      /\ \A n \in DOMAIN p.slots : RPMFields[n].kind = "list" => IsSeq(p.slots[n])
  BY PackagesAssumption DEF IsSeq
<1>3. \A n \in DOMAIN RPMFields : RPMFields[n].of = "scalar"
  BY DEF RPMFields, One, Many
<1> QED
  BY <1>1, <1>2, <1>3 DEF Message, Shaped, Nested

\* The messages that the handlers build.
Sendable == {FoldersOf(l) : l \in Orders(Leaves)} \cup {FilesOf(l) : l \in Orders(Names \cup {Garbled})}
            \cup Packages \cup {FileOf(n) : n \in Names}

\* Whatever is sent can be read.
LEMMA SendableOK == ASSUME NEW m \in Sendable PROVE m.type \in Types /\ Message(m.type, m)
<1>1. CASE m \in {FoldersOf(l) : l \in Orders(Leaves)}
  <2>1. m.type = "Folders"
    BY <1>1, FoldersOfOK, SlotsOK DEF Message, Shaped
  <2> QED
    BY <1>1, <2>1, FoldersOfOK DEF Types
<1>2. CASE m \in {FilesOf(l) : l \in Orders(Names \cup {Garbled})}
  <2>1. m.type = "Files"
    BY <1>2 DEF FilesOf, Construct
  <2> QED
    BY <1>2, <2>1, FilesOfOK DEF Types
<1>3. CASE m \in Packages
  <2>1. m.type = "RPM"
    BY <1>3, PackagesAssumption DEF Construct
  <2> QED
    BY <1>3, <2>1, PackageOK DEF Types
<1>4. CASE m \in {FileOf(n) : n \in Names}
  <2>1. m.type = "File"
    BY <1>4 DEF FileOf, Construct
  <2> QED
    BY <1>4, <2>1, FileOfOK DEF Types
<1> QED
  BY <1>1, <1>2, <1>3, <1>4 DEF Sendable

-----------------------------------------------------------------------------
(* The inductive invariant.                                                *)

\* The calls that are answered with a message, and its class.
Encoded == {"folders", "list", "info", "upload"}
Class(kind) == CASE kind = "folders" -> "Folders"
                 [] kind = "list" -> "Files"
                 [] kind = "info" -> "RPM"
                 [] OTHER -> "File"

\* The message m of a call of this kind, as the fields in wire.
Sent(kind, m, wire) ==
    m \in Sendable /\ m.type = Class(kind) /\ Valid(m) /\ wire \in Newer(m)

AnswerOK(kind, a) ==
    /\ a = Answer(a.status, a.body, a.sent)
    /\ a.status \in {-1, 0, 200, 400, 401, 500}
    /\ a.sent = Null \/ Valid(a.sent)
    /\ a.status = 200 /\ kind \in Encoded => Sent(kind, a.sent, a.body.wire)

CallOK(q) ==
    /\ q = [id |-> q.id, kind |-> q.kind, name |-> q.name, answer |-> q.answer]
    /\ q.id \in 1..made /\ q.kind \in ServiceCalls
    /\ q.kind = "upload" => q.name \in Names
    /\ AnswerOK(q.kind, q.answer)

\* A key is a call's for as long as it is under way, then one toast's at most.
KeysOK ==
    /\ \A p, q \in calls : p.id = q.id => p = q
    /\ \A t, u \in toasts : t.key = u.key => t = u
    /\ \A t \in toasts : t.key \in 1..made /\ \A q \in calls : t.key # q.id

\* The one answer that axios parses.
Parsed(q) == q.kind = "reindex" /\ q.answer.status = 200 /\ q.answer.body.form = "json"
Told(q, value) == q.answer.status # 0 /\ q.kind # "download" => value = String(q.answer.body)

TitleOK(q, type, title) ==
    (title.js = "object" => Parsed(q)) /\ (type = "danger" => Told(q, title))

ToastsOK == \A t \in toasts : TitleOK(t.of, t.type, t.title)

PageOK ==
    /\ page \in {"view", "login", "blank"}
    /\ page = "blank" => \E t \in toasts : t.title.js = "object"

\* One or none.
Single(S) == \A x, y \in S : x = y

HelperOK == Single(helper) /\ \A h \in helper : \A q \in h.of : Told(q, h.text)

ReadOK ==
    /\ Single(read)
    /\ \A r \in read :
          \E kind \in Encoded : \E wire \in Newer(r.sent) :
             Sent(kind, r.sent, wire) /\ r.got = Deserialize(r.sent.type, wire)

IInv ==
    /\ folder \subseteq Names \cup {Garbled} /\ made \in 0..MaxCalls
    /\ \A q \in calls : CallOK(q)
    /\ KeysOK /\ ToastsOK /\ PageOK /\ HelperOK /\ ReadOK

LEMMA InitIInv == Init => IInv
  BY CallsAssumption DEF Init, IInv, KeysOK, ToastsOK, PageOK, HelperOK, ReadOK, Single

-----------------------------------------------------------------------------
(* The service.                                                            *)

\* What a handler builds is of the class that the page reads it as.
LEMMA BuiltSendable ==
    ASSUME IInv, NEW q \in calls, q.kind \in Encoded, NEW m \in Built(q)
    PROVE  m \in Sendable /\ m.type = Class(q.kind)
<1>1. CASE q.kind = "folders"
  <2>1. PICK l \in Orders(Leaves) : m = FoldersOf(l)
    BY <1>1 DEF Built, Orders
  <2> QED
    BY <1>1, <2>1 DEF Sendable, Class, FoldersOf, Construct
<1>2. CASE q.kind = "list"
  <2>1. PICK l \in SetToSeqs(folder) : m = FilesOf(l)
    BY <1>2 DEF Built
  <2>2. l \in Orders(Names \cup {Garbled})
    BY <2>1 DEF IInv, Orders
  <2> QED
    BY <1>2, <2>1, <2>2 DEF Sendable, Class, FilesOf, Construct
<1>3. CASE q.kind = "info"
  BY <1>3, PackagesAssumption DEF Built, Sendable, Class, Construct
<1>4. CASE q.kind = "upload"
  BY <1>4 DEF Built, Sendable, Class, FileOf, Construct, IInv, CallOK
<1> QED
  BY <1>1, <1>2, <1>3, <1>4 DEF Encoded

LEMMA MarshalledOK ==
    ASSUME IInv, NEW q \in calls, q.kind \in Encoded, NEW m \in Built(q), NEW a \in Marshalled(m)
    PROVE  AnswerOK(q.kind, a)
<1>1. CASE Valid(m)
  <2>1. PICK wire \in Newer(m) : a = Answer(200, Bytes(wire), m)
    BY <1>1 DEF Marshalled
  <2>2. Sent(q.kind, m, wire)
    BY <1>1, <2>1, BuiltSendable DEF Sent
  <2> QED
    BY <1>1, <2>1, <2>2 DEF AnswerOK, Answer, Bytes
<1>2. CASE ~Valid(m)
  <2>1. PICK body : a = Answer(500, body, Null)
    BY <1>2 DEF Marshalled, Error
  <2> QED
    BY <2>1 DEF AnswerOK, Answer
<1> QED
  BY <1>1, <1>2

\* A call gets its answer, and the page knows nothing of it yet.
LEMMA ReplyKeeps ==
    ASSUME IInv, NEW q \in calls, NEW a, AnswerOK(q.kind, a), Reply(q, a),
           folder' \subseteq Names \cup {Garbled}
    PROVE  IInv'
<1> DEFINE p == [q EXCEPT !.answer = a]
<1>1. CallOK(q) /\ UNCHANGED <<made, page, toasts, helper, read>>
      /\ calls' = (calls \ {q}) \cup {p}
  BY DEF IInv, Reply
<1>2. /\ p = [id |-> p.id, kind |-> p.kind, name |-> p.name, answer |-> p.answer]
      /\ p.id = q.id /\ p.kind = q.kind /\ p.name = q.name /\ p.answer = a
  BY <1>1 DEF CallOK
<1> HIDE DEF p
<1>3. CallOK(p)'
  BY <1>1, <1>2 DEF CallOK
<1>4. \A c \in calls' : CallOK(c)'
  BY <1>1, <1>3 DEF IInv, CallOK
<1>5. KeysOK'
  BY <1>1, <1>2 DEF IInv, KeysOK
<1> QED
  BY <1>1, <1>4, <1>5 DEF IInv, ToastsOK, PageOK, HelperOK, ReadOK

LEMMA ServiceKeeps ==
    ASSUME IInv, NEW q \in calls, ServeMessage(q) \/ ServeOther(q) \/ Refuse(q) \/ Lose(q)
    PROVE  IInv'
<1>1. folder' \subseteq Names \cup {Garbled}
  <2>1. folder \subseteq Names \cup {Garbled} /\ (q.kind = "upload" => q.name \in Names)
    BY DEF IInv, CallOK
  <2>2. Stored(q) \subseteq Names \cup {Garbled}
    BY <2>1 DEF Stored
  <2>3. folder' \in {folder, Stored(q)}
    BY DEF ServeMessage, ServeOther, Refuse, Lose
  <2> QED
    BY <2>1, <2>2, <2>3
<1>2. CASE ServeMessage(q)
  <2>1. PICK m \in Built(q) : \E a \in Marshalled(m) : Reply(q, a)
    BY <1>2 DEF ServeMessage
  <2>2. PICK a \in Marshalled(m) : Reply(q, a)
    BY <2>1
  <2>3. AnswerOK(q.kind, a)
    BY <1>2, <2>2, MarshalledOK DEF ServeMessage, Encoded
  <2> QED
    BY <1>1, <2>2, <2>3, ReplyKeeps
<1>3. CASE ServeOther(q)
  <2>1. PICK body : Reply(q, Answer(200, body, Null)) /\ q.kind \notin Encoded
    BY <1>3 DEF ServeOther, Encoded
  <2>2. AnswerOK(q.kind, Answer(200, body, Null))
    BY <2>1 DEF AnswerOK, Answer
  <2> QED
    BY <1>1, <2>1, <2>2, ReplyKeeps
<1>4. CASE Refuse(q)
  <2>1. CASE Reply(q, Answer(400, Text("repository does not exist"), Null))
    <3>1. AnswerOK(q.kind, Answer(400, Text("repository does not exist"), Null))
      BY DEF AnswerOK, Answer
    <3> QED
      BY <1>1, <2>1, <3>1, ReplyKeeps
  <2>2. CASE Reply(q, Error(401, "not authenticated"))
    <3>1. AnswerOK(q.kind, Answer(401, Json("not authenticated"), Null))
      BY DEF AnswerOK, Answer
    <3> QED
      BY <1>1, <2>2, <3>1, ReplyKeeps DEF Error
  <2>3. CASE Reply(q, Error(500, "failed"))
    <3>1. AnswerOK(q.kind, Answer(500, Json("failed"), Null))
      BY DEF AnswerOK, Answer
    <3> QED
      BY <1>1, <2>3, <3>1, ReplyKeeps DEF Error
  <2> QED
    BY <1>4, <2>1, <2>2, <2>3 DEF Refuse
<1>5. CASE Lose(q)
  <2>1. AnswerOK(q.kind, NoResponse)
    BY DEF AnswerOK, NoResponse, Answer
  <2> QED
    BY <1>1, <1>5, <2>1, ReplyKeeps DEF Lose
<1> QED
  BY <1>2, <1>3, <1>4, <1>5

-----------------------------------------------------------------------------
(* The page.                                                               *)

\* A call has a key of its own, and no answer.
LEMMA AskKeeps ==
    ASSUME IInv, NEW kind \in ServiceCalls, NEW name, kind = "upload" => name \in Names,
           Ask(kind, name), HelperOK'
    PROVE  IInv'
<1>1. PICK q : q = [id |-> made', kind |-> kind, name |-> name, answer |-> NoAnswer]
  OBVIOUS
<1>2. /\ made' = made + 1 /\ made < MaxCalls /\ calls' = calls \cup {q}
      /\ UNCHANGED <<folder, page, toasts, read>>
  BY <1>1 DEF Ask
<1>3. made \in Nat /\ made' \in 0..MaxCalls /\ \A k \in 1..made : k \in 1..made' /\ k # made'
  BY <1>2, CallsAssumption DEF IInv
<1>4. AnswerOK(kind, NoAnswer)
  <2>1. NoAnswer = Answer(-1, Text(""), Null) /\ -1 # 200
    BY DEF NoAnswer
  <2> QED
    BY <2>1 DEF AnswerOK, Answer
<1>5. CallOK(q)' /\ q.id = made'
  BY <1>1, <1>2, <1>3, <1>4 DEF CallOK
<1>6. \A c \in calls' : CallOK(c)'
  BY <1>2, <1>3, <1>5 DEF IInv, CallOK
<1>7. KeysOK'
  BY <1>2, <1>3, <1>5 DEF IInv, KeysOK, CallOK
<1> QED
  BY <1>2, <1>3, <1>6, <1>7 DEF IInv, ToastsOK, PageOK, ReadOK

LEMMA CallKeeps ==
    ASSUME IInv, NEW kind \in ServiceCalls, Call(kind)
    PROVE  IInv'
<1>1. \E name : Ask(kind, name) /\ (kind = "upload" => name \in Names)
  BY DEF Call
<1>2. HelperOK'
  <2>1. CASE UNCHANGED helper
    BY <2>1 DEF IInv, HelperOK
  <2>2. CASE helper' = {}
    BY <2>2 DEF HelperOK, Single
  <2>3. CASE helper' = {[text |-> String(Text("Invalid login credentials.")), of |-> {}]}
    <3>1. PICK h : h = [text |-> String(Text("Invalid login credentials.")), of |-> {}]
      OBVIOUS
    <3>2. helper' = {h} /\ h.of = {}
      BY <2>3, <3>1
    <3> QED
      BY <3>2 DEF HelperOK, Single
  <2> QED
    BY <2>1, <2>2, <2>3 DEF Call
<1> QED
  BY <1>1, <1>2, AskKeeps

\* The page goes blank over an object only.
LEMMA RenderedPage ==
    ASSUME NEW route, NEW ts
    PROVE  /\ Rendered(route, ts) \in {route, "blank"}
           /\ Rendered(route, ts) = "blank" =>
                 route = "blank" \/ \E t \in ts : t.title.js = "object"
  BY DEF Rendered

\* The call is over, and its key free.
LEMMA AnsweredFrees ==
    ASSUME IInv, NEW q \in calls, Answered(q)
    PROVE  /\ UNCHANGED <<folder, made>> /\ folder' \subseteq Names \cup {Garbled}
           /\ made' \in 0..MaxCalls
           /\ CallOK(q) /\ calls' \subseteq calls /\ \A c \in calls' : CallOK(c)' /\ c.id # q.id
<1>1. UNCHANGED <<folder, made>> /\ calls' = calls \ {q}
  BY DEF Answered
<1> QED
  BY <1>1 DEF IInv, KeysOK, CallOK

LEMMA ToastKeeps ==
    ASSUME IInv, NEW q \in calls, Answered(q), NEW type, NEW title, TitleOK(q, type, title),
           AddToast(q, type, title)
    PROVE  KeysOK' /\ ToastsOK' /\ PageOK'
<1> DEFINE n == Toast(q, type, title)
<1>1. toasts' = toasts \cup {n} /\ page' = Rendered(page, toasts')
  BY DEF AddToast
<1>2. n.key = q.id /\ n.of = q /\ n.type = type /\ n.title = title
  BY DEF Toast
<1> HIDE DEF n
<1>3. KeysOK'
  BY <1>1, <1>2, AnsweredFrees DEF IInv, KeysOK, CallOK
<1>4. ToastsOK'
  BY <1>1, <1>2 DEF IInv, ToastsOK
<1>5. PageOK'
  BY <1>1, RenderedPage DEF IInv, PageOK
<1> QED
  BY <1>3, <1>4, <1>5

\* No toast: the key is not used.
LEMMA NoToastKeeps ==
    ASSUME IInv, NEW q \in calls, Answered(q), UNCHANGED <<page, toasts>>
    PROVE  KeysOK' /\ ToastsOK' /\ PageOK'
<1>1. KeysOK'
  BY AnsweredFrees DEF IInv, KeysOK
<1> QED
  BY <1>1 DEF IInv, ToastsOK, PageOK

\* The page reads the message as the class that the handler has built.
LEMMA ReadKeeps ==
    ASSUME IInv, NEW q \in calls, q.kind \in Encoded, q.answer.status = 200,
           ReadAs(Class(q.kind), q)
    PROVE  ReadOK'
<1>1. Sent(q.kind, q.answer.sent, q.answer.body.wire)
  BY DEF IInv, CallOK, AnswerOK
<1> QED
  BY <1>1 DEF ReadAs, ReadOK, Single, Sent

\* What axios and the interceptor make of a body.
LEMMA Titles ==
    ASSUME NEW kind, NEW body
    PROVE  /\ Received(kind, body).body = body
           /\ Received(kind, body).js = "object" => body.form = "json"
           /\ kind # "download" => Received(kind, body).js # "Blob"
           /\ kind # "download" => Intercept(Received(kind, body)) = String(body)
           /\ Intercept(Received(kind, body)).js = "string"
           /\ String(body).js = "string"
<1>1. /\ Received(kind, body).body = body
      /\ Received(kind, body).js = "object" => body.form = "json"
      /\ kind # "download" => Received(kind, body).js # "Blob"
  BY DEF Received, Value, ResponseType
<1>2. kind # "download" => Intercept(Received(kind, body)) = String(body)
  BY <1>1 DEF Intercept
<1>3. \A b : String(b).js = "string"
  BY DEF String, Value
<1> QED
  BY <1>1, <1>2, <1>3 DEF Intercept

LEMMA ShownKeeps ==
    ASSUME IInv, NEW q \in calls, Shown(q)
    PROVE  IInv'
<1> DEFINE body == q.answer.body
<1>1. Answered(q) /\ q.answer.status = 200
  BY DEF Shown
<1>2. KeysOK' /\ ToastsOK' /\ PageOK'
  <2>1. CASE UNCHANGED <<page, toasts>>
    BY <1>1, <2>1, NoToastKeeps
  <2>2. ASSUME NEW text, AddToast(q, "success", String(Text(text)))
        PROVE  KeysOK' /\ ToastsOK' /\ PageOK'
    <3>1. TitleOK(q, "success", String(Text(text)))
      BY Titles DEF TitleOK
    <3> QED
      BY <1>1, <2>2, <3>1, ToastKeeps
  <2>3. CASE q.kind = "reindex" /\ AddToast(q, "success", Received(q.kind, body))
    <3>1. TitleOK(q, "success", Received(q.kind, body))
      BY <1>1, <2>3, Titles DEF TitleOK, Parsed
    <3> QED
      BY <1>1, <2>3, <3>1, ToastKeeps
  <2> QED
    BY <2>1, <2>2, <2>3 DEF Shown
<1>3. ReadOK'
  <2>1. CASE UNCHANGED read
    BY <2>1 DEF IInv, ReadOK
  <2>2. CASE q.kind \in Encoded /\ ReadAs(Class(q.kind), q)
    BY <1>1, <2>2, ReadKeeps
  <2> QED
    BY <2>1, <2>2 DEF Shown, Encoded, Class
<1>4. HelperOK'
  BY DEF Shown, IInv, HelperOK
<1> QED
  BY <1>1, <1>2, <1>3, <1>4, AnsweredFrees DEF IInv

LEMMA FailedKeeps ==
    ASSUME IInv, NEW q \in calls, Failed(q)
    PROVE  IInv'
<1> DEFINE body == q.answer.body
           text == IF q.answer.status = 0 THEN String(body) ELSE Intercept(Received(q.kind, body))
<1>1. Answered(q)
  BY DEF Failed
<1>2. text.js = "string" /\ Told(q, text)
  <2>1. CASE q.answer.status = 0
    BY <2>1, Titles DEF Told
  <2>2. CASE q.answer.status # 0
    <3>1. text = Intercept(Received(q.kind, body))
      BY <2>2
    <3> HIDE DEF text
    <3> QED
      BY <3>1, Titles DEF Told
  <2> QED
    BY <2>1, <2>2
<1>3. KeysOK' /\ ToastsOK' /\ PageOK'
  <2>1. CASE UNCHANGED <<page, toasts>>
    BY <1>1, <2>1, NoToastKeeps
  <2>2. CASE AddToast(q, "danger", text)
    <3>1. TitleOK(q, "danger", text)
      BY <1>2 DEF TitleOK
    <3> QED
      BY <1>1, <2>2, <3>1, ToastKeeps
  <2> QED
    BY <2>1, <2>2 DEF Failed, AddToastError
<1>4. ReadOK'
  BY DEF Failed, IInv, ReadOK, Single
<1>5. HelperOK'
  <2>1. CASE UNCHANGED helper
    BY <2>1 DEF IInv, HelperOK
  <2>2. CASE helper' = {[text |-> text, of |-> {q}]}
    BY <1>2, <2>2 DEF HelperOK, Single
  <2> QED
    BY <2>1, <2>2 DEF Failed
<1> QED
  BY <1>1, <1>3, <1>4, <1>5, AnsweredFrees DEF IInv

\* The directory, the toasts and the routes without a call.
LEMMA OthersKeep ==
    ASSUME IInv,
           \/ \E name \in Names \cup {Garbled} : Replaced(name)
           \/ \E t \in toasts : DeleteToast(t)
           \/ Navigate
           \/ Reload
    PROVE  IInv'
<1>1. CASE \E name \in Names \cup {Garbled} : Replaced(name)
  <2>1. UNCHANGED <<calls, made, page, toasts, helper, read>> /\ folder' \subseteq Names \cup {Garbled}
    BY <1>1 DEF Replaced, IInv
  <2> QED
    BY <2>1 DEF IInv, CallOK, KeysOK, ToastsOK, PageOK, HelperOK, ReadOK
<1>2. CASE \E t \in toasts : DeleteToast(t)
  <2>1. /\ UNCHANGED <<folder, calls, made, page, helper, read>>
        /\ page = "view" /\ toasts' \subseteq toasts
    BY <1>2 DEF DeleteToast
  <2> QED
    BY <2>1 DEF IInv, CallOK, KeysOK, ToastsOK, PageOK, HelperOK, ReadOK
<1>3. CASE Navigate
  <2>1. UNCHANGED <<folder, calls, made, toasts, read>> /\ helper' = {}
        /\ page' \in {"login", Rendered("view", toasts)}
    BY <1>3 DEF Navigate
  <2>2. PageOK'
    BY <2>1, RenderedPage DEF PageOK
  <2> QED
    BY <2>1, <2>2 DEF IInv, CallOK, KeysOK, ToastsOK, HelperOK, ReadOK, Single
<1>4. CASE Reload
  BY <1>4 DEF Reload, IInv, KeysOK, ToastsOK, PageOK, HelperOK, ReadOK, Single
<1> QED
  BY <1>1, <1>2, <1>3, <1>4

LEMMA IInvStep == IInv /\ [Next]_vars => IInv'
<1> SUFFICES ASSUME IInv, [Next]_vars PROVE IInv'
  OBVIOUS
<1>1. ASSUME NEW kind \in ServiceCalls, Call(kind) PROVE IInv'
  BY <1>1, CallKeeps
<1>2. ASSUME NEW q \in calls, ServeMessage(q) \/ ServeOther(q) \/ Refuse(q) \/ Lose(q) PROVE IInv'
  BY <1>2, ServiceKeeps
<1>3. ASSUME NEW q \in calls, Shown(q) PROVE IInv'
  BY <1>3, ShownKeeps
<1>4. ASSUME NEW q \in calls, Failed(q) PROVE IInv'
  BY <1>4, FailedKeeps
<1>5. CASE \/ \E name \in Names \cup {Garbled} : Replaced(name)
           \/ \E t \in toasts : DeleteToast(t)
           \/ Navigate
           \/ Reload
  BY <1>5, OthersKeep
<1>6. CASE UNCHANGED vars
  BY <1>6 DEF vars, IInv, CallOK, KeysOK, ToastsOK, PageOK, HelperOK, ReadOK
<1> QED
  BY <1>1, <1>2, <1>3, <1>4, <1>5, <1>6 DEF Next

-----------------------------------------------------------------------------
(* What follows.                                                           *)

\* Calls, answers, toasts and what the page has read agree with each other,
\* whatever calls are under way.
THEOREM InductiveInvariant == Spec => []IInv
  BY InitIInv, IInvStep, PTL DEF Spec

LEMMA SingleCardinality == ASSUME NEW S, Single(S) PROVE Cardinality(S) <= 1
<1>1. CASE S = {}
  BY <1>1, FS_EmptySet
<1>2. CASE S # {}
  <2>1. PICK x : S = {x}
    BY <1>2 DEF Single
  <2> QED
    BY <2>1, FS_Singleton
<1> QED
  BY <1>1, <1>2

\* TypeOK: the calls and the toasts keep their types, and no two toasts of the
\* list have one key.
THEOREM TypeCorrect == Spec => []TypeOK
<1>1. IInv => TypeOK
  <2> SUFFICES ASSUME IInv PROVE TypeOK
    OBVIOUS
  <2>1. made \in 0..MaxCalls /\ 1..made \subseteq 1..MaxCalls
    BY CallsAssumption DEF IInv
  <2>2. \A q \in calls : /\ q.id \in 1..MaxCalls /\ q.kind \in ServiceCalls
                         /\ q.answer.status \in {-1, 0, 200, 400, 401, 500}
                         /\ q.answer.sent = Null \/ Valid(q.answer.sent)
    BY <2>1 DEF IInv, CallOK, AnswerOK
  <2>3. Cardinality(helper) <= 1 /\ Cardinality(read) <= 1
    BY SingleCardinality DEF IInv, HelperOK, ReadOK
  <2> QED
    BY <2>1, <2>2, <2>3 DEF TypeOK, IInv, KeysOK, PageOK
<1> QED
  BY <1>1, InductiveInvariant, PTL

\* BlankExplained: only a reindexing whose tool printed a JSON object makes the
\* page go blank.
THEOREM BlankHasCause == Spec => []BlankExplained
<1>1. IInv => BlankExplained
  BY DEF IInv, PageOK, ToastsOK, TitleOK, Parsed, BlankExplained
<1> QED
  BY <1>1, InductiveInvariant, PTL

\* ErrorsTold: a failure is told in the service's words, but for a download's.
THEOREM FailuresTold == Spec => []ErrorsTold
<1>1. IInv => ErrorsTold
  BY DEF IInv, ToastsOK, TitleOK, HelperOK, Told, ErrorsTold
<1> QED
  BY <1>1, InductiveInvariant, PTL

\* What is in read came from a message that the handler built for that call, in
\* the class that the page takes for it.
ReadIsDecoded ==
    \A r \in read : /\ r.sent \in Sendable /\ Valid(r.sent)
                    /\ \E wire \in Newer(r.sent) : r.got = Deserialize(r.sent.type, wire)

\* Whatever the calls under way and the order of their answers, the page decodes
\* the message sent, as its class, with at most a field that it does not know.
THEOREM DecodesWhatWasSent == Spec => []ReadIsDecoded
<1>1. IInv => ReadIsDecoded
  BY DEF IInv, ReadOK, ReadIsDecoded, Sent
<1> QED
  BY <1>1, InductiveInvariant, PTL

\* ReadsAsSent: whatever the calls under way, the order of their answers and the
\* fields the page does not know, it reads what the service wrote.
THEOREM ReadsWhatWasSent == Spec => []ReadsAsSent
<1>1. ReadIsDecoded => ReadsAsSent
  BY SendableOK, Faithful DEF ReadIsDecoded, ReadsAsSent
<1> QED
  BY <1>1, DecodesWhatWasSent, PTL

\* ReadRoundTrip: what the page has read survives being written and read again,
\* and being made from its plain object.
THEOREM RoundTrips == Spec => []ReadRoundTrip
<1>1. ReadIsDecoded => ReadRoundTrip
  <2> SUFFICES ASSUME ReadIsDecoded, NEW r \in read
      PROVE  /\ Says(Deserialize(r.got.type, Serialize(r.got))) = Says(r.got)
             /\ Says(FromObject(r.got.type, ToObject(r.got))) = Says(r.got)
    BY DEF ReadRoundTrip
  <2>1. PICK wire \in Newer(r.sent) : r.got = Deserialize(r.sent.type, wire)
    BY DEF ReadIsDecoded
  <2>2. r.sent.type \in Types /\ Message(r.sent.type, r.sent)
    BY SendableOK DEF ReadIsDecoded
  <2>3. r.got.type = r.sent.type
    BY <2>1 DEF Deserialize, Construct
  <2> QED
    BY <2>1, <2>2, <2>3, Faithful
<1> QED
  BY <1>1, DecodesWhatWasSent, PTL
=============================================================================
