------------------------------ MODULE Messages ------------------------------
(***************************************************************************)
(* The messages the service answers with, as the page's classes for them   *)
(* hold them.  One set of operators, driven by the fields of each class,   *)
(* stands for the code that is repeated in every class.  A message keeps   *)
(* what was put into its fields and nothing for the rest; its getters fill *)
(* in defaults.                                                            *)
(***************************************************************************)
EXTENDS Integers, SequencesExt, FiniteSetsExt, Functions

CONSTANTS
    Garbled,  \* a text that is not valid UTF-8
    Null      \* null

\* The fields of a class by their numbers: what one holds, and the message its
\* elements are.
One(kind) == [kind |-> kind, of |-> "scalar", optional |-> FALSE]
Optional(kind) == [kind |-> kind, of |-> "scalar", optional |-> TRUE]
Many(type) == [kind |-> "list", of |-> type, optional |-> FALSE]

FileFields == <<One("string")>>
FilesFields == <<Many("File")>>
FoldersFields == <<One("string"), Optional("bool"), Many("Folders")>>
RPMFields == [n \in 1..16 |-> CASE n \in {6, 9} -> Many("scalar")
                                [] n = 7 -> One("uint64")
                                [] OTHER -> One("string")]

Fields(type) == CASE type = "File" -> FileFields
                  [] type = "Files" -> FilesFields
                  [] type = "Folders" -> FoldersFields
                  [] type = "RPM" -> RPMFields

Default(field) == CASE field.kind = "string" -> ""
                    [] field.kind = "uint64" -> 0
                    [] field.kind = "bool" -> FALSE
                    [] field.kind = "list" -> <<>>

\* Get: a getter; Has: has_root, for the fields that tell.
Get(m, n) == IF n \in DOMAIN m.slots THEN m.slots[n] ELSE Default(Fields(m.type)[n])
Has(m, n) == n \in DOMAIN m.slots

\* new T(data): data[n] is missing where the object has undefined.
Construct(type, data) == [type |-> type, slots |-> data]
Fresh(type) == Construct(type, <<>>)

\* A setter.
Put(m, n, value) ==
    Construct(m.type, [k \in DOMAIN m.slots \cup {n} |-> IF k = n THEN value ELSE m.slots[k]])
=============================================================================
