----------------------------- MODULE Conversions -----------------------------
(***************************************************************************)
(* How the page's classes write, read and convert the messages, and what   *)
(* the service can marshal.  Of the bytes the model keeps the sequence of  *)
(* numbered fields; a field that holds a message holds such a sequence in  *)
(* turn.  Messages nest once, as the handlers nest them: files in the list *)
(* of files, folders in the root.                                          *)
(***************************************************************************)
EXTENDS Messages

\* The elements of a field are messages, which are converted one by one.
Nested(type, n) == Fields(type)[n].of # "scalar"
Each(type, data, Convert(_, _)) ==
    [n \in DOMAIN data |->
        IF Nested(type, n)
        THEN [i \in DOMAIN data[n] |-> Convert(Fields(type)[n].of, data[n][i])]
        ELSE data[n]]

\* Variant: the lists of texts are forgotten.
FilledNoTexts(type, data) ==
    Construct(type, Restrict(data, {n \in DOMAIN data : Fields(type)[n] # Many("scalar")}))

\* A field is set from the object when the object has it.
Filled(type, data) == Construct(type, data)
FromObject(type, data) == Filled(type, Each(type, data, Filled))

\* Every getter has a default, so every field is there.
Plain(type, m) == [n \in DOMAIN Fields(type) |-> Get(m, n)]
ToObject(m) == Each(m.type, Plain(m.type, m), Plain)

\* A field is written when its value is not the default; an optional one when
\* it is there.
WorthWriting(m, n) ==
    IF Fields(m.type)[n].optional THEN Has(m, n)
    ELSE Get(m, n) # Default(Fields(m.type)[n])

Written(m, n) ==
    LET values == IF Fields(m.type)[n].kind = "list" THEN Get(m, n) ELSE <<Get(m, n)>>
    IN  IF WorthWriting(m, n)
        THEN [i \in DOMAIN values |-> [number |-> n, value |-> values[i]]]
        ELSE <<>>

Write(type, m) == FlattenSeq([n \in DOMAIN Fields(type) |-> Written(m, n)])

\* The messages it holds are written first.
Sealed(type, m) == Construct(type, Each(type, m.slots, Write))
Serialize(m) == Write(m.type, Sealed(m.type, m))

\* Variant: an unknown field ends the message.
ReadFieldKnown(m, f) ==
    IF f.number \notin DOMAIN Fields(m.type) THEN Fresh(m.type)
    ELSE Put(m, f.number, IF Fields(m.type)[f.number].kind = "list"
                          THEN Append(Get(m, f.number), f.value)
                          ELSE f.value)

\* One turn of the loop of deserialize; skipField where the class has no such
\* field.
ReadField(m, f) ==
    IF f.number \notin DOMAIN Fields(m.type) THEN m
    ELSE Put(m, f.number, IF Fields(m.type)[f.number].kind = "list"
                          THEN Append(Get(m, f.number), f.value)
                          ELSE f.value)

\* The loop, with message m to begin with.
ReadFrom(m, wire) ==
    LET message[p \in 0..Len(wire)] ==
          IF p = 0 THEN m ELSE ReadField(message[p - 1], wire[p])
    IN  message[Len(wire)]

Read(type, wire) == ReadFrom(Fresh(type), wire)
Deserialize(type, wire) == Construct(type, Each(type, Read(type, wire).slots, Read))

\* What a message says, whether a field is there or filled in.
Says(m) == [type |-> m.type, fields |-> ToObject(m)]

\* proto.Marshal refuses a text that is not UTF-8, in the message or in one that
\* it holds.
Texts(m) ==
    {m.slots[n] : n \in {k \in DOMAIN m.slots : Fields(m.type)[k].kind = "string"}}
    \cup UNION {ToSet(m.slots[n]) : n \in {k \in DOMAIN m.slots : Fields(m.type)[k] = Many("scalar")}}
Elements(m) == UNION {ToSet(m.slots[n]) : n \in {k \in DOMAIN m.slots : Nested(m.type, k)}}
Valid(m) == Garbled \notin Texts(m) /\ \A x \in Elements(m) : Garbled \notin Texts(x)
=============================================================================
