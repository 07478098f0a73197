------------------------- MODULE StoreReadersProofs -------------------------
(***************************************************************************)
(* Theorems about StoreReaders, for any number of uploads, listings and    *)
(* reindexings of any files.  What FileStoreProofs knows of one step of    *)
(* the file store is used for the uploads under the readers.               *)
(***************************************************************************)
EXTENDS StoreReaders, FileStoreProofs

----------------------------------------------------------------------------
(* The inductive invariant.                                                *)

\* A file that an upload has open is there.
OpenPresent == \A q \in Requests : pc[q] = "write" => path[q] \in present

\* A listing has the files that were answered before it from its first step on.
ListingInv ==
    \A s \in Readers :
        rd[s].kind = "list" => rd[s].before \subseteq Found(s)

\* What a tool that runs has read so far is still so.
ReadsTrue(q) ==
    rd[q].kind = "index" /\ rd[q].pc = "read" =>
        \A x \in Paths : rd[q].saw[x] # Unseen => rd[q].saw[x] = Contents[x]

\* While there is a reindexing that nothing came across, there are no old
\* readings: a tool that runs beside it makes it one that something came across,
\* and every tool that starts after it sees the files as they still are.
FreshInv ==
    tool = TRUE =>
        \A s \in Readers :
            rd[s].kind = "index" /\ rd[s].alone = TRUE /\ rd[s].pc # "idle" =>
                /\ rd[s].pc \in {"read", "exit"} => \A q \in Readers \ {s} : ~Running(q)
                /\ \A q \in Readers : ReadsTrue(q)
                /\ rd[s].pc \in {"exit", "ok"} => index = Contents

ReadersInv ==
    /\ TypeOK /\ LocalsOK /\ OpenPresent
    /\ ReadersTypeOK /\ ListingInv /\ FreshInv

----------------------------------------------------------------------------
(* The file store under the readers.                                       *)

\* A step of an upload, or a crash, is a step of the file store.
LEMMA UploadIsNext == UploadStep \/ ServiceCrash => Next
  BY DEF UploadStep, ServiceCrash, Next, Arrives, Proceeds

\* Readers leave the file store alone.
LEMMA ReadersOnlyRead ==
    ASSUME NEW s \in Readers,
           \/ StartList(s) \/ ListAnswered(s) \/ StartIndex(s) \/ EchoAnswered(s)
           \/ ToolReads(s) \/ ToolWrites(s) \/ IndexAnswered(s) \/ ReaderEnds(s)
    PROVE  UNCHANGED vars /\ UNCHANGED <<tool, stored>>
  BY DEF StartList, ListAnswered, StartIndex, EchoAnswered, ToolReads, ToolWrites,
         IndexAnswered, ReaderEnds, Reads

LEMMA StoreStep == [ReadersNext]_<<vars, readers>> => [Next]_vars
<1> SUFFICES ASSUME [ReadersNext]_<<vars, readers>> PROVE [Next]_vars
  OBVIOUS
<1>1. UploadStep \/ ServiceCrash => Next
  BY UploadIsNext
<1>2. ASSUME NEW s \in Readers,
             \/ StartList(s) \/ ListAnswered(s) \/ StartIndex(s) \/ EchoAnswered(s)
             \/ ToolReads(s) \/ ToolWrites(s) \/ IndexAnswered(s) \/ ReaderEnds(s)
      PROVE  UNCHANGED vars
  BY <1>2, ReadersOnlyRead
<1> QED
  BY <1>1, <1>2 DEF ReadersNext

\* Files are never removed, and one that is opened is there.
LEMMA PresentGrows ==
    TypeOK /\ LocalsOK /\ OpenPresent /\ [Next]_vars =>
        present \subseteq present' /\ OpenPresent'
<1> SUFFICES ASSUME TypeOK, LocalsOK, OpenPresent, [Next]_vars
             PROVE  present \subseteq present' /\ OpenPresent'
  OBVIOUS
<1>1. ASSUME NEW r \in Requests, NEW o, NEW x, NEW p, NEW state, state # "write",
             Begin(r, o, x, p, state)
      PROVE  present \subseteq present' /\ OpenPresent'
  BY <1>1 DEF Begin, TypeOK, OpenPresent
<1>2. ASSUME NEW r \in Requests, Arrives(r)
      PROVE  present \subseteq present' /\ OpenPresent'
  <2>1. \E o, x, p : \E state \in {"create", "err", "read", "ok"} : Begin(r, o, x, p, state)
    BY <1>2 DEF Arrives, UploadAccepted, UploadRejected, DownloadOpened, DownloadMissing, FileInfo
  <2> QED
    BY <1>1, <2>1
<1>3. ASSUME NEW r \in Requests, CreateFile(r)
      PROVE  present \subseteq present' /\ OpenPresent'
  BY <1>3 DEF CreateFile, client, TypeOK, OpenPresent
<1>4. ASSUME NEW r \in Requests, WriteBlock(r) \/ ReadBlock(r)
      PROVE  present \subseteq present' /\ OpenPresent'
  BY <1>4 DEF WriteBlock, ReadBlock, client, OpenPresent
<1>5. ASSUME NEW r \in Requests, UploadStored(r) \/ DownloadSent(r) \/ IoFails(r)
      PROVE  present \subseteq present' /\ OpenPresent'
  BY <1>5 DEF UploadStored, DownloadSent, IoFails, Answer, client, TypeOK, OpenPresent
<1>6. Crash => present \subseteq present' /\ OpenPresent'
  BY DEF Crash, client, TypeOK, OpenPresent
<1>7. UNCHANGED vars => present \subseteq present' /\ OpenPresent'
  BY DEF vars, OpenPresent
<1> QED
  BY <1>2, <1>3, <1>4, <1>5, <1>6, <1>7 DEF Next, Proceeds

LEMMA ContentsTyped ==
    ASSUME TypeOK PROVE Contents \in [Paths -> Images \cup {Absent}]
  BY DEF TypeOK, Contents

LEMMA IdleTyped ==
    /\ Idle = [pc |-> "idle", kind |-> "none", saw |-> Idle.saw, waits |-> FALSE,
               before |-> {}, alone |-> FALSE]
    /\ Idle.saw \in [Paths -> Images \cup {Unseen, Absent}]
    /\ \A x \in Paths : Idle.saw[x] = Unseen
  BY DEF Idle

----------------------------------------------------------------------------
(* Types.                                                                  *)

ReaderRecords ==
    [pc : {"idle", "read", "exit", "ok"}, kind : {"none", "list", "index"},
     saw : [Paths -> Images \cup {Unseen, Absent}],
     waits : BOOLEAN, before : SUBSET present, alone : BOOLEAN]

LEMMA EmptyIsImage == Empty \in Images
  BY DEF Empty, Images

LEMMA ReaderRecordsGrow ==
    present \subseteq present' => ReaderRecords \subseteq ReaderRecords'
  BY DEF ReaderRecords

\* A change of one field keeps a record a record.
LEMMA RecordEdits ==
    ASSUME NEW rec \in ReaderRecords
    PROVE  /\ \A v \in {"idle", "read", "exit", "ok"} : [rec EXCEPT !.pc = v] \in ReaderRecords
           /\ \A v \in [Paths -> Images \cup {Unseen, Absent}] :
                  [rec EXCEPT !.saw = v] \in ReaderRecords
           /\ \A v \in BOOLEAN : [rec EXCEPT !.waits = v] \in ReaderRecords
           /\ \A v \in BOOLEAN : [rec EXCEPT !.alone = v] \in ReaderRecords
  BY DEF ReaderRecords

LEMMA IdleIsRecord == Idle \in ReaderRecords
  BY DEF Idle, ReaderRecords

\* What each step of a reader makes of the records.
LEMMA ReaderStepTyped ==
    ASSUME TypeOK, ReadersTypeOK, NEW s \in Readers,
           \/ StartList(s) \/ ListAnswered(s) \/ StartIndex(s) \/ EchoAnswered(s)
           \/ ToolReads(s) \/ ToolWrites(s) \/ IndexAnswered(s) \/ ReaderEnds(s)
    PROVE  rd' \in [Readers -> ReaderRecords] /\ index' \in [Paths -> Images \cup {Absent}]
<1>1. rd \in [Readers -> ReaderRecords] /\ index \in [Paths -> Images \cup {Absent}]
  BY DEF ReadersTypeOK, ReaderRecords
<1>2. ASSUME NEW rec \in ReaderRecords, Reads(s, rec)
      PROVE  rd' \in [Readers -> ReaderRecords] /\ index' = index
  BY <1>1, <1>2 DEF Reads
<1>3. CASE StartList(s)
  <2>1. [x \in Paths |-> IF x \in present THEN Empty ELSE Unseen]
            \in [Paths -> Images \cup {Unseen, Absent}]
    BY EmptyIsImage
  <2>2. stored \in SUBSET present
    BY DEF ReadersTypeOK
  <2>3. [Idle EXCEPT !.pc = "read", !.kind = "list", !.before = stored,
                     !.saw = [x \in Paths |-> IF x \in present THEN Empty ELSE Unseen]]
            \in ReaderRecords
    BY <2>1, <2>2 DEF Idle, ReaderRecords
  <2> QED
    BY <1>1, <1>2, <1>3, <2>3 DEF StartList
<1>4. CASE ListAnswered(s)
  <2>1. PICK late \in SUBSET (present \ Found(s)) :
            Reads(s, [rd[s] EXCEPT !.pc = "ok",
                                   !.saw = [x \in Paths |-> IF x \in late THEN Empty
                                                                          ELSE @[x]]])
    BY <1>4 DEF ListAnswered
  <2>2. [x \in Paths |-> IF x \in late THEN Empty ELSE rd[s].saw[x]]
            \in [Paths -> Images \cup {Unseen, Absent}]
    BY <1>1, EmptyIsImage DEF ReaderRecords
  <2>3. [rd[s] EXCEPT !.pc = "ok",
                      !.saw = [x \in Paths |-> IF x \in late THEN Empty ELSE @[x]]]
            \in ReaderRecords
    BY <1>1, <2>2 DEF ReaderRecords
  <2> QED
    BY <1>1, <1>2, <2>1, <2>3
<1>5. CASE StartIndex(s)
  <2> DEFINE others == {q \in Readers \ {s} : Running(q)}
  <2>1. (others = {}) \in BOOLEAN /\ \A q \in Readers : (rd[q].alone /\ q \notin others) \in BOOLEAN
    OBVIOUS
  <2>2. [Idle EXCEPT !.pc = "read", !.kind = "index", !.waits = TRUE, !.alone = others = {}]
            \in ReaderRecords
    BY <2>1 DEF Idle, ReaderRecords
  <2>3. ASSUME NEW q \in Readers
        PROVE  [rd[q] EXCEPT !.alone = @ /\ q \notin others] \in ReaderRecords
    BY <1>1, <2>1, RecordEdits
  <2> QED
    BY <1>1, <1>5, <2>2, <2>3 DEF StartIndex
<1>6. CASE EchoAnswered(s)
  <2>1. [rd[s] EXCEPT !.pc = "ok", !.waits = FALSE] \in ReaderRecords
    BY <1>1 DEF ReaderRecords
  <2> QED
    BY <1>1, <1>2, <1>6, <2>1 DEF EchoAnswered
<1>7. CASE ToolReads(s)
  <2>1. PICK x \in Paths : Reads(s, [rd[s] EXCEPT !.saw[x] = Contents[x]])
    BY <1>7 DEF ToolReads
  <2>2. [rd[s] EXCEPT !.saw[x] = Contents[x]] \in ReaderRecords
    BY <1>1, ContentsTyped DEF ReaderRecords
  <2> QED
    BY <1>1, <1>2, <2>1, <2>2
<1>8. CASE ToolWrites(s)
  <2>1. rd[s] \in ReaderRecords /\ \A x \in Paths : rd[s].saw[x] # Unseen
    BY <1>1, <1>8 DEF ToolWrites, Found
  <2>2. rd[s].saw \in [Paths -> Images \cup {Absent}]
    BY <2>1 DEF ReaderRecords
  <2>3. [rd[s] EXCEPT !.pc = "exit", !.saw = Idle.saw] \in ReaderRecords
    BY <1>1, IdleIsRecord DEF ReaderRecords
  <2> QED
    BY <1>1, <1>8, <2>2, <2>3 DEF ToolWrites
<1>9. CASE IndexAnswered(s)
  <2>1. [rd[s] EXCEPT !.pc = "ok", !.waits = FALSE] \in ReaderRecords
    BY <1>1 DEF ReaderRecords
  <2> QED
    BY <1>1, <1>2, <1>9, <2>1 DEF IndexAnswered
<1>10. CASE ReaderEnds(s)
  BY <1>1, <1>2, <1>10, IdleIsRecord DEF ReaderEnds
<1> QED
  BY <1>3, <1>4, <1>5, <1>6, <1>7, <1>8, <1>9, <1>10

LEMMA ReadersTypeStep ==
    TypeOK /\ LocalsOK /\ OpenPresent /\ ReadersTypeOK /\ [ReadersNext]_<<vars, readers>>
        => ReadersTypeOK'
<1> SUFFICES ASSUME TypeOK, LocalsOK, OpenPresent, ReadersTypeOK,
                    [ReadersNext]_<<vars, readers>>
             PROVE  ReadersTypeOK'
  OBVIOUS
<1>1. /\ tool \in BOOLEAN /\ index \in [Paths -> Images \cup {Absent}]
      /\ stored \subseteq present /\ rd \in [Readers -> ReaderRecords]
  BY DEF ReadersTypeOK, ReaderRecords
<1>2. present \subseteq present' /\ OpenPresent'
  BY StoreStep, PresentGrows
<1>3. SUFFICES /\ tool' \in BOOLEAN /\ index' \in [Paths -> Images \cup {Absent}]
               /\ stored' \subseteq present' /\ rd' \in [Readers -> ReaderRecords]
  BY <1>2, ReaderRecordsGrow DEF ReadersTypeOK, ReaderRecords
<1>4. CASE UploadStep
  <2>1. stored' = stored \cup {path[q] : q \in {w \in Requests : pc[w] = "write" /\ pc'[w] = "ok"}}
    BY <1>4 DEF UploadStep, Noted
  <2>2. stored' \subseteq present'
    BY <1>1, <1>2, <2>1 DEF OpenPresent
  <2>3. rd' \in [Readers -> ReaderRecords]
    <3>1. \A s \in Readers : (rd[s].alone /\ <<present, disk>>' = <<present, disk>>) \in BOOLEAN
      OBVIOUS
    <3> QED
      BY <1>1, <1>4, <3>1, RecordEdits DEF UploadStep, Noted
  <2> QED
    BY <1>1, <1>4, <2>2, <2>3 DEF UploadStep
<1>5. CASE ServiceCrash
  <2>1. rd' \in [Readers -> ReaderRecords]
    BY <1>1, <1>5, IdleIsRecord, RecordEdits DEF ServiceCrash
  <2> QED
    BY <1>1, <1>2, <1>5, <2>1 DEF ServiceCrash
<1>6. ASSUME NEW s \in Readers,
             \/ StartList(s) \/ ListAnswered(s) \/ StartIndex(s) \/ EchoAnswered(s)
             \/ ToolReads(s) \/ ToolWrites(s) \/ IndexAnswered(s) \/ ReaderEnds(s)
      PROVE  /\ tool' \in BOOLEAN /\ index' \in [Paths -> Images \cup {Absent}]
             /\ stored' \subseteq present' /\ rd' \in [Readers -> ReaderRecords]
  <2>1. tool' = tool /\ stored' = stored
    BY <1>6, ReadersOnlyRead
  <2> QED
    BY <1>1, <1>2, <1>6, <2>1, ReaderStepTyped
<1>7. CASE UNCHANGED <<vars, readers>>
  BY <1>1, <1>2, <1>7 DEF readers
<1> QED
  BY <1>4, <1>5, <1>6, <1>7 DEF ReadersNext

----------------------------------------------------------------------------
(* Listings.                                                               *)

\* What a step does to the record of a listing that it neither starts nor ends.
LEMMA UploadKeepsRecords ==
    ASSUME ReadersTypeOK, UploadStep, NEW s \in Readers
    PROVE  /\ rd'[s].pc = rd[s].pc /\ rd'[s].kind = rd[s].kind /\ rd'[s].saw = rd[s].saw
           /\ rd'[s].before = rd[s].before
           /\ rd'[s].alone = TRUE =>
                 rd[s].alone = TRUE /\ present' = present /\ disk' = disk
<1> DEFINE same == <<present, disk>>' = <<present, disk>>
<1>1. rd'[s] = [rd[s] EXCEPT !.alone = @ /\ same] /\ rd[s] \in ReaderRecords
  BY DEF UploadStep, Noted, ReadersTypeOK, ReaderRecords
<1>2. same \in BOOLEAN /\ (same => present' = present /\ disk' = disk)
  OBVIOUS
<1> HIDE DEF same
<1>3. /\ rd'[s].pc = rd[s].pc /\ rd'[s].kind = rd[s].kind /\ rd'[s].saw = rd[s].saw
      /\ rd'[s].before = rd[s].before /\ rd'[s].alone = (rd[s].alone /\ same)
  BY <1>1 DEF ReaderRecords
<1>4. rd[s].alone \in BOOLEAN
  BY <1>1 DEF ReaderRecords
<1>5. (rd[s].alone /\ same) = TRUE => rd[s].alone = TRUE /\ same
  BY <1>2, <1>4
<1> QED
  BY <1>2, <1>3, <1>5

\* A crash makes a record idle or only says that nobody waits.
LEMMA CrashKeepsRecords ==
    ASSUME ReadersTypeOK, ServiceCrash, NEW s \in Readers
    PROVE  \/ rd'[s] = Idle
           \/ /\ rd'[s].pc = rd[s].pc /\ rd'[s].kind = rd[s].kind /\ rd'[s].saw = rd[s].saw
              /\ rd'[s].before = rd[s].before /\ rd'[s].alone = rd[s].alone
<1>1. rd[s] \in ReaderRecords
  BY DEF ReadersTypeOK, ReaderRecords
<1>2. rd'[s] = Idle \/ rd'[s] = [rd[s] EXCEPT !.waits = FALSE]
  BY DEF ServiceCrash
<1> QED
  BY <1>1, <1>2 DEF ReaderRecords

LEMMA IdleSays == Idle.pc = "idle" /\ Idle.kind = "none" /\ Idle.alone = FALSE
  BY DEF Idle

LEMMA ListingStep ==
    TypeOK /\ ReadersTypeOK /\ ListingInv /\ [ReadersNext]_<<vars, readers>> => ListingInv'
<1> SUFFICES ASSUME TypeOK, ReadersTypeOK, ListingInv, [ReadersNext]_<<vars, readers>>,
                    NEW t \in Readers, rd'[t].kind = "list"
             PROVE  \A x \in rd'[t].before : x \in Paths /\ rd'[t].saw[x] # Unseen
  BY DEF ListingInv, Found
<1>1. rd \in [Readers -> ReaderRecords] /\ stored \subseteq present
  BY DEF ReadersTypeOK, ReaderRecords
<1>2. rd[t].kind = "list" =>
          \A x \in rd[t].before : x \in Paths /\ rd[t].saw[x] # Unseen
  BY DEF ListingInv, Found
<1>3. Unseen \notin Images \cup {Absent} /\ Empty \in Images
  BY MarksAssumption, EmptyIsImage
<1>4. CASE UploadStep
  BY <1>2, <1>4, UploadKeepsRecords
<1>5. CASE ServiceCrash
  BY <1>2, <1>5, CrashKeepsRecords, IdleSays
<1>6. ASSUME NEW s \in Readers, NEW rec, Reads(s, rec), s # t \/ rec = rd[t]
      PROVE  \A x \in rd'[t].before : x \in Paths /\ rd'[t].saw[x] # Unseen
  BY <1>1, <1>2, <1>6 DEF Reads
<1>7. CASE StartList(t)
  <2>1. /\ rd'[t].before = stored
        /\ rd'[t].saw = [x \in Paths |-> IF x \in present THEN Empty ELSE Unseen]
    BY <1>1, <1>7 DEF StartList, Reads, Idle
  <2>2. present \subseteq Paths
    BY <1>1 DEF TypeOK
  <2> QED
    BY <1>1, <1>3, <2>1, <2>2
<1>8. CASE ListAnswered(t)
  <2>1. PICK late \in SUBSET (present \ Found(t)) :
            Reads(t, [rd[t] EXCEPT !.pc = "ok",
                                   !.saw = [x \in Paths |-> IF x \in late THEN Empty
                                                                          ELSE @[x]]])
    BY <1>8 DEF ListAnswered
  <2>2. rd[t].kind = "list" /\ rd[t].pc = "read"
    BY <1>8 DEF ListAnswered
  <2>3. /\ rd'[t].before = rd[t].before
        /\ rd'[t].saw = [x \in Paths |-> IF x \in late THEN Empty ELSE rd[t].saw[x]]
    BY <1>1, <2>1 DEF Reads, ReaderRecords
  <2> QED
    BY <1>2, <1>3, <2>2, <2>3
<1>9. ASSUME NEW s \in Readers, StartList(s) \/ ListAnswered(s), s # t
      PROVE  \A x \in rd'[t].before : x \in Paths /\ rd'[t].saw[x] # Unseen
  BY <1>6, <1>9 DEF StartList, ListAnswered
<1>10. ASSUME NEW s \in Readers, StartIndex(s)
       PROVE  \A x \in rd'[t].before : x \in Paths /\ rd'[t].saw[x] # Unseen
  <2>1. s # t
    BY <1>1, <1>10 DEF StartIndex, Idle
  <2>2. /\ rd'[t].kind = rd[t].kind /\ rd'[t].pc = rd[t].pc
        /\ rd'[t].before = rd[t].before /\ rd'[t].saw = rd[t].saw
    BY <1>1, <1>10, <2>1 DEF StartIndex, ReaderRecords
  <2> QED
    BY <1>2, <2>2
<1>11. ASSUME NEW s \in Readers,
              \/ EchoAnswered(s) \/ ToolReads(s) \/ ToolWrites(s) \/ IndexAnswered(s)
              \/ ReaderEnds(s)
       PROVE  \A x \in rd'[t].before : x \in Paths /\ rd'[t].saw[x] # Unseen
  <2>1. CASE s # t
    BY <1>1, <1>2, <1>11, <2>1 DEF EchoAnswered, ToolReads, ToolWrites, IndexAnswered,
                                   ReaderEnds, Reads
  <2>2. CASE s = t /\ ReaderEnds(s)
    BY <1>1, <2>2 DEF ReaderEnds, Reads, Idle
  <2>3. CASE s = t /\ ToolReads(s)
    <3>1. PICK x \in Paths : Reads(t, [rd[t] EXCEPT !.saw[x] = Contents[x]])
      BY <2>3 DEF ToolReads
    <3>2. rd'[t].kind = rd[t].kind
      BY <1>1, <3>1 DEF Reads, ReaderRecords
    <3> QED
      BY <2>3, <3>2 DEF ToolReads
  <2>4. CASE s = t /\ (EchoAnswered(s) \/ ToolWrites(s))
    <3>1. rd'[t].kind = rd[t].kind
      BY <1>1, <2>4 DEF EchoAnswered, ToolWrites, Reads, ReaderRecords
    <3> QED
      BY <2>4, <3>1 DEF EchoAnswered, ToolWrites
  <2>5. CASE s = t /\ IndexAnswered(s)
    BY <1>1, <1>2, <2>5 DEF IndexAnswered, Reads, ReaderRecords
  <2> QED
    BY <1>11, <2>1, <2>2, <2>3, <2>4, <2>5
<1>12. CASE UNCHANGED <<vars, readers>>
  BY <1>2, <1>12 DEF readers
<1> QED
  BY <1>4, <1>5, <1>7, <1>8, <1>9, <1>10, <1>11, <1>12 DEF ReadersNext

----------------------------------------------------------------------------
(* Reindexings.                                                            *)

\* What FreshInv says of one reindexing that nothing came across.
Fresh(s) ==
    /\ rd[s].pc \in {"read", "exit"} => \A q \in Readers \ {s} : ~Running(q)
    /\ \A q \in Readers : ReadsTrue(q)
    /\ rd[s].pc \in {"exit", "ok"} => index = Contents

LEMMA FreshSays ==
    FreshInv <=> (tool = TRUE =>
                     \A s \in Readers :
                         rd[s].kind = "index" /\ rd[s].alone = TRUE /\ rd[s].pc # "idle" =>
                             Fresh(s))
  BY DEF FreshInv, Fresh

LEMMA ContentsKept ==
    ASSUME present' = present, disk' = disk PROVE Contents' = Contents
  BY DEF Contents

\* Nothing changes but records that no tool stands behind any more.
LEMMA FreshKept ==
    ASSUME FreshInv, tool' = tool, index' = index, Contents' = Contents,
           \A q \in Readers :
               \/ /\ rd'[q].kind = rd[q].kind /\ rd'[q].pc = rd[q].pc /\ rd'[q].saw = rd[q].saw
                  /\ rd'[q].alone = TRUE => rd[q].alone = TRUE
               \/ rd'[q].kind # "index"
    PROVE  FreshInv'
<1> SUFFICES ASSUME tool' = TRUE, NEW s \in Readers, rd'[s].kind = "index",
                    rd'[s].alone = TRUE, rd'[s].pc # "idle"
             PROVE  Fresh(s)'
  BY DEF FreshInv, Fresh
<1>1. /\ rd[s].kind = "index" /\ rd[s].alone = TRUE /\ rd[s].pc # "idle"
      /\ rd'[s].pc = rd[s].pc
  OBVIOUS
<1>2. Fresh(s)
  BY <1>1, FreshSays
<1>3. ASSUME NEW q \in Readers PROVE (Running(q)' => Running(q)) /\ (ReadsTrue(q) => ReadsTrue(q)')
  BY DEF Running, ReadsTrue
<1> QED
  BY <1>1, <1>2, <1>3 DEF Fresh

LEMMA FreshStep ==
    TypeOK /\ ReadersTypeOK /\ FreshInv /\ [ReadersNext]_<<vars, readers>> => FreshInv'
<1> SUFFICES ASSUME TypeOK, ReadersTypeOK, FreshInv, [ReadersNext]_<<vars, readers>>
             PROVE  FreshInv'
  OBVIOUS
<1>1. rd \in [Readers -> ReaderRecords]
  BY DEF ReadersTypeOK, ReaderRecords
<1>2. ASSUME NEW s \in Readers,
             \/ StartList(s) \/ ListAnswered(s) \/ StartIndex(s) \/ EchoAnswered(s)
             \/ ToolReads(s) \/ ToolWrites(s) \/ IndexAnswered(s) \/ ReaderEnds(s)
      PROVE  Contents' = Contents /\ tool' = tool
  BY <1>2, ReadersOnlyRead, ContentsKept DEF vars
<1>3. CASE UploadStep
  <2>1. tool' = tool /\ index' = index
    BY <1>3 DEF UploadStep
  <2>2. CASE \A s \in Readers : rd'[s].alone # TRUE
    BY <2>2 DEF FreshInv
  <2>3. CASE \E s \in Readers : rd'[s].alone = TRUE
    <3>1. Contents' = Contents
      BY <1>3, <2>3, UploadKeepsRecords, ContentsKept
    <3>2. \A q \in Readers :
              /\ rd'[q].kind = rd[q].kind /\ rd'[q].pc = rd[q].pc /\ rd'[q].saw = rd[q].saw
              /\ rd'[q].alone = TRUE => rd[q].alone = TRUE
      BY <1>3, UploadKeepsRecords
    <3> QED
      BY <2>1, <3>1, <3>2, FreshKept
  <2> QED
    BY <2>2, <2>3
<1>4. CASE ServiceCrash
  <2>1. tool' = tool /\ index' = index /\ Contents' = Contents
    BY <1>4, ContentsKept DEF ServiceCrash, Crash
  <2>2. \A q \in Readers :
            \/ /\ rd'[q].kind = rd[q].kind /\ rd'[q].pc = rd[q].pc /\ rd'[q].saw = rd[q].saw
               /\ rd'[q].alone = TRUE => rd[q].alone = TRUE
            \/ rd'[q].kind # "index"
    BY <1>4, CrashKeepsRecords, IdleSays
  <2> QED
    BY <2>1, <2>2, FreshKept
<1>5. ASSUME NEW s \in Readers, StartList(s) \/ ListAnswered(s) \/ ReaderEnds(s)
      PROVE  FreshInv'
  <2>1. tool' = tool /\ index' = index /\ Contents' = Contents
    BY <1>2, <1>5 DEF StartList, ListAnswered, ReaderEnds, Reads
  <2>2. \A q \in Readers : q # s => rd'[q] = rd[q]
    BY <1>1, <1>5 DEF StartList, ListAnswered, ReaderEnds, Reads
  <2>3. rd'[s].kind # "index"
    BY <1>1, <1>5, IdleSays DEF StartList, ListAnswered, ReaderEnds, Reads, ReaderRecords, Idle
  <2> QED
    BY <2>1, <2>2, <2>3, FreshKept
<1>6. ASSUME NEW s \in Readers, EchoAnswered(s)
      PROVE  FreshInv'
  <2>1. tool' # TRUE
    BY <1>2, <1>6 DEF EchoAnswered
  <2> QED
    BY <2>1 DEF FreshInv
<1>7. ASSUME NEW s \in Readers, StartIndex(s)
      PROVE  FreshInv'
  <2> DEFINE others == {q \in Readers \ {s} : Running(q)}
  <2>1. /\ index' = index /\ tool' = tool /\ Contents' = Contents
        /\ rd[s].pc \in {"idle", "ok"}
    BY <1>2, <1>7 DEF StartIndex
  <2>2. /\ rd'[s].kind = "index" /\ rd'[s].pc = "read" /\ rd'[s].saw = Idle.saw
        /\ rd'[s].alone = TRUE => others = {}
    BY <1>1, <1>7 DEF StartIndex, Idle
  <2>3. ASSUME NEW q \in Readers, q # s
        PROVE  /\ rd'[q].kind = rd[q].kind /\ rd'[q].pc = rd[q].pc /\ rd'[q].saw = rd[q].saw
               /\ rd'[q].alone = TRUE => rd[q].alone = TRUE /\ ~Running(q)
    <3>1. rd'[q] = [rd[q] EXCEPT !.alone = @ /\ q \notin others] /\ rd[q] \in ReaderRecords
      BY <1>1, <1>7, <2>3 DEF StartIndex
    <3>2. /\ rd'[q].kind = rd[q].kind /\ rd'[q].pc = rd[q].pc /\ rd'[q].saw = rd[q].saw
          /\ rd'[q].alone = (rd[q].alone /\ q \notin others) /\ rd[q].alone \in BOOLEAN
      BY <3>1 DEF ReaderRecords
    <3> QED
      BY <2>3, <3>2
  <2>4. ReadsTrue(s)'
    BY <2>2, IdleTyped DEF ReadsTrue
  <2> SUFFICES ASSUME tool' = TRUE, NEW t \in Readers, rd'[t].kind = "index",
                      rd'[t].alone = TRUE, rd'[t].pc # "idle"
               PROVE  Fresh(t)'
    BY DEF FreshInv, Fresh
  <2>5. CASE t = s
    <3>1. \A q \in Readers \ {s} : ~Running(q) /\ ~Running(q)'
      BY <2>2, <2>3, <2>5 DEF Running
    <3>2. \A q \in Readers \ {s} : ReadsTrue(q)'
      BY <3>1 DEF ReadsTrue, Running
    <3> QED
      BY <2>2, <2>4, <2>5, <3>1, <3>2 DEF Fresh
  <2>6. CASE t # s
    <3>1. /\ ~Running(t) /\ rd'[t].pc = rd[t].pc /\ rd[t].kind = "index"
          /\ rd[t].alone = TRUE /\ rd[t].pc # "idle" /\ tool = TRUE
      BY <2>1, <2>3, <2>6
    <3>2. Fresh(t)
      BY <3>1, FreshSays
    <3>3. ASSUME NEW q \in Readers \ {s} PROVE ReadsTrue(q)'
      <4>1. ReadsTrue(q)
        BY <3>2 DEF Fresh
      <4>2. rd'[q].kind = rd[q].kind /\ rd'[q].pc = rd[q].pc /\ rd'[q].saw = rd[q].saw
        BY <2>3
      <4> QED
        BY <2>1, <4>1, <4>2 DEF ReadsTrue
    <3> QED
      BY <2>1, <2>4, <3>1, <3>2, <3>3 DEF Fresh, Running
  <2> QED
    BY <2>5, <2>6
<1>8. ASSUME NEW s \in Readers, ToolReads(s) \/ ToolWrites(s) \/ IndexAnswered(s)
      PROVE  FreshInv'
  <2>1. /\ tool' = tool /\ Contents' = Contents
        /\ \A q \in Readers : q # s => rd'[q] = rd[q]
    BY <1>1, <1>2, <1>8 DEF ToolReads, ToolWrites, IndexAnswered, Reads
  <2> SUFFICES ASSUME tool' = TRUE, NEW t \in Readers, rd'[t].kind = "index",
                      rd'[t].alone = TRUE, rd'[t].pc # "idle"
               PROVE  Fresh(t)'
    BY DEF FreshInv, Fresh
  <2>2. ASSUME NEW q \in Readers, q # s
        PROVE  (ReadsTrue(q) => ReadsTrue(q)') /\ (Running(q)' <=> Running(q))
    BY <2>1, <2>2 DEF ReadsTrue, Running
  <2>3. CASE ToolReads(s)
    <3>1. PICK x \in Paths : Reads(s, [rd[s] EXCEPT !.saw[x] = Contents[x]])
      BY <2>3 DEF ToolReads
    <3>2. Running(s) /\ index' = index
      BY <2>3, <3>1 DEF ToolReads, Running, Reads
    <3>3. /\ rd'[s].kind = rd[s].kind /\ rd'[s].pc = rd[s].pc /\ rd'[s].alone = rd[s].alone
          /\ rd'[s].saw = [rd[s].saw EXCEPT ![x] = Contents[x]]
          /\ rd[s].saw \in [Paths -> Images \cup {Unseen, Absent}]
      BY <1>1, <3>1 DEF Reads, ReaderRecords
    <3>4. Fresh(t)
      BY <2>1, <3>3, FreshSays
    <3>5. ReadsTrue(s)'
      BY <2>1, <3>3, <3>4 DEF Fresh, ReadsTrue
    <3> QED
      BY <2>1, <2>2, <3>2, <3>3, <3>4, <3>5 DEF Fresh, Running
  <2>4. CASE ToolWrites(s)
    <3>1. /\ rd'[s].kind = rd[s].kind /\ rd'[s].pc = "exit" /\ rd'[s].alone = rd[s].alone
          /\ rd[s].kind = "index" /\ rd[s].pc = "read" /\ index' = rd[s].saw
          /\ \A x \in Paths : rd[s].saw[x] # Unseen
          /\ rd[s].saw \in [Paths -> Images \cup {Unseen, Absent}]
      BY <1>1, <2>4 DEF ToolWrites, Found, ReaderRecords
    <3>2. Fresh(t)
      BY <2>1, <3>1, FreshSays
    <3>3. rd[s].saw = Contents
      <4>1. \A x \in Paths : rd[s].saw[x] = Contents[x]
        BY <3>1, <3>2 DEF Fresh, ReadsTrue
      <4> QED
        BY <3>1, <4>1, ContentsTyped
    <3>4. ReadsTrue(s)'
      BY <3>1 DEF ReadsTrue
    <3> QED
      BY <2>1, <2>2, <3>1, <3>2, <3>3, <3>4 DEF Fresh, Running
  <2>5. CASE IndexAnswered(s)
    <3>1. /\ rd'[s].kind = rd[s].kind /\ rd'[s].pc = "ok" /\ rd'[s].alone = rd[s].alone
          /\ rd[s].pc = "exit" /\ index' = index
      BY <1>1, <2>5 DEF IndexAnswered, Reads, ReaderRecords
    <3>2. Fresh(t)
      BY <2>1, <3>1, FreshSays
    <3>3. ReadsTrue(s)'
      BY <3>1 DEF ReadsTrue
    <3> QED
      BY <2>1, <2>2, <3>1, <3>2, <3>3 DEF Fresh, Running
  <2> QED
    BY <1>8, <2>3, <2>4, <2>5
<1>9. CASE UNCHANGED <<vars, readers>>
  <2>1. tool' = tool /\ index' = index /\ rd' = rd /\ Contents' = Contents
    BY <1>9, ContentsKept DEF readers, vars
  <2> QED
    BY <2>1, FreshKept
<1> QED
  BY <1>3, <1>4, <1>5, <1>6, <1>7, <1>8, <1>9 DEF ReadersNext
----------------------------------------------------------------------------
(* Theorems.                                                               *)

LEMMA ReadersInitOK == ReadersInit => ReadersInv
<1> SUFFICES ASSUME ReadersInit PROVE ReadersInv
  OBVIOUS
<1>1. TypeOK /\ LocalsOK
  BY InitTyped DEF ReadersInit
<1>2. OpenPresent
  BY DEF ReadersInit, Init, OpenPresent
<1>3. ReadersTypeOK
  <2>1. stored \subseteq present /\ tool \in BOOLEAN /\ index \in [Paths -> Images \cup {Absent}]
    BY <1>1, ContentsTyped DEF ReadersInit
  <2>2. rd \in [Readers -> ReaderRecords]
    BY IdleIsRecord DEF ReadersInit
  <2> QED
    BY <2>1, <2>2 DEF ReadersTypeOK, ReaderRecords
<1>4. ListingInv /\ FreshInv
  BY IdleSays DEF ReadersInit, ListingInv, FreshInv
<1> QED
  BY <1>1, <1>2, <1>3, <1>4 DEF ReadersInv

\* Whatever uploads, listings, tools and crashes come between each other, a
\* listing keeps what was answered before it, and the tools that run beside a
\* reindexing that nothing came across have read nothing that is not so.
THEOREM ReadersInvariant == ReadersSpec => []ReadersInv
<1>1. ReadersInv /\ [ReadersNext]_<<vars, readers>> => ReadersInv'
  <2> SUFFICES ASSUME ReadersInv, [ReadersNext]_<<vars, readers>> PROVE ReadersInv'
    OBVIOUS
  <2>1. TypeOK /\ LocalsOK /\ OpenPresent /\ ReadersTypeOK /\ ListingInv /\ FreshInv
    BY DEF ReadersInv
  <2>2. TypeOK' /\ LocalsOK' /\ OpenPresent'
    BY <2>1, StoreStep, NextTyped, PresentGrows
  <2>3. ReadersTypeOK' /\ ListingInv' /\ FreshInv'
    BY <2>1, ReadersTypeStep, ListingStep, FreshStep
  <2> QED
    BY <2>2, <2>3 DEF ReadersInv
<1> QED
  BY <1>1, ReadersInitOK, PTL DEF ReadersSpec

\* Listings and reindexings keep their types beside any uploads, and no answered
\* upload is missing from the directory.
THEOREM ReadersTypeCorrect == ReadersSpec => []ReadersTypeOK
<1>1. ReadersInv => ReadersTypeOK
  BY DEF ReadersInv
<1> QED
  BY <1>1, ReadersInvariant, PTL

\* A file whose upload was answered is in every listing that begins later.
THEOREM AnsweredIsListed == ReadersSpec => []UploadedIsListed
<1>1. ReadersInv => UploadedIsListed
  BY DEF ReadersInv, ListingInv, UploadedIsListed
<1> QED
  BY <1>1, ReadersInvariant, PTL

\* The index is that of the files as they are after a reindexing that met no
\* other one and since whose beginning no file changed, however many of them
\* are started afterwards.
THEOREM LoneIndexFresh == ReadersSpec => []IndexFresh
<1>1. ReadersInv => IndexFresh
  <2> SUFFICES ASSUME ReadersInv, NEW s \in Readers, rd[s].kind = "index", rd[s].pc = "ok",
                      rd[s].alone, tool
               PROVE  index = Contents
    BY DEF IndexFresh
  <2>1. rd[s].alone \in BOOLEAN /\ tool \in BOOLEAN
    BY DEF ReadersInv, ReadersTypeOK
  <2>2. rd[s].alone = TRUE /\ tool = TRUE
    BY <2>1
  <2> QED
    BY <2>2 DEF ReadersInv, FreshInv
<1> QED
  BY <1>1, ReadersInvariant, PTL

\* The uploads under the readers are those of the file store: what is proved of
\* it holds here too.
THEOREM ReadersRefineStore == ReadersSpec => Spec
<1>1. ReadersInit => Init
  BY DEF ReadersInit
<1> QED
  BY <1>1, StoreStep, PTL DEF ReadersSpec, Spec
=============================================================================
