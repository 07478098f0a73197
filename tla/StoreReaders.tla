---------------------------- MODULE StoreReaders ----------------------------
(***************************************************************************)
(* The requests that read whole directories of the file store while        *)
(* uploads change it: the listing of a folder, and the external tool that  *)
(* rebuilds the index of the repository.                                   *)
(*                                                                         *)
(* Neither takes a lock.  A reindexing starts the tool as a process of its *)
(* own and waits for it; nothing keeps two of them apart.  The tool is not *)
(* part of the code: here it reads every file once, in any order, and then *)
(* writes the index at once.                                               *)
(***************************************************************************)
EXTENDS FileStore

CONSTANTS
    Readers,   \* slots for concurrent listings and reindexings
    Unseen,    \* of a path that a reader has not come to
    Absent     \* of a path at which there is no file

ASSUME MarksAssumption == Unseen \notin Images \cup {Absent} /\ Absent \notin Images

VARIABLES
    tool,     \* exec_reindex is configured; else it is NewConfig's echo
    index,    \* index[x]: what the index says of the file at x
    stored,   \* history: paths with an upload that was answered
    rd        \* rd[s]: the reader in slot s, a record like Idle

readers == <<tool, index, stored, rd>>

Idle == [pc |-> "idle", kind |-> "none",
         saw |-> [x \in Paths |-> Unseen],  \* what it has found so far
         waits |-> FALSE,                   \* a handler waits for the tool
         before |-> {},                     \* history: stored, when it began
         alone |-> FALSE]                   \* history: nothing came across it

Contents == [x \in Paths |-> IF x \in present THEN disk[x] ELSE Absent]
Running(s) == rd[s].kind = "index" /\ rd[s].pc \in {"read", "exit"}
Found(s) == {x \in Paths : rd[s].saw[x] # Unseen}

ReadersTypeOK ==
    /\ tool \in BOOLEAN
    /\ index \in [Paths -> Images \cup {Absent}]
    /\ stored \subseteq present
    /\ rd \in [Readers -> [pc : {"idle", "read", "exit", "ok"},
                           kind : {"none", "list", "index"},
                           saw : [Paths -> Images \cup {Unseen, Absent}],
                           waits : BOOLEAN, before : SUBSET present,
                           alone : BOOLEAN]]

\* The index has been made from the directories as they are.
ReadersInit ==
    /\ Init
    /\ tool \in BOOLEAN
    /\ index = Contents
    /\ stored = {}
    /\ rd = [s \in Readers |-> Idle]

----------------------------------------------------------------------------
(* Listings: handleFiles, getOdjectsInFolder.                              *)

\* A reader's step that touches nothing but its own record.
Reads(s, record) ==
    /\ rd' = [rd EXCEPT ![s] = record]
    /\ UNCHANGED <<vars, tool, index, stored>>

\* The directory is opened.  The names that are in it now will be found.
StartList(s) ==
    /\ rd[s].pc \in {"idle", "ok"}
    /\ Reads(s, [Idle EXCEPT !.pc = "read", !.kind = "list", !.before = stored,
                             !.saw = [x \in Paths |-> IF x \in present THEN Empty
                                                                       ELSE Unseen]])

\* Variant: dir.Readdir(n): one batch of names is taken for all.
ListAnsweredShort(s) ==
    /\ rd[s].pc = "read" /\ rd[s].kind = "list"
    /\ \E names \in SUBSET present :
          Reads(s, [rd[s] EXCEPT !.pc = "ok",
                                 !.saw = [x \in Paths |-> IF x \in names THEN Empty
                                                                         ELSE Unseen]])

\* dir.Readdir(-1) came to the end.  Of the files that came while it read
\* it has found any; none ever goes.
ListAnswered(s) ==
    /\ rd[s].pc = "read" /\ rd[s].kind = "list"
    /\ \E late \in SUBSET (present \ Found(s)) :
          Reads(s, [rd[s] EXCEPT !.pc = "ok",
                                 !.saw = [x \in Paths |-> IF x \in late THEN Empty
                                                                        ELSE @[x]]])

----------------------------------------------------------------------------
(* Reindexing: handleFileReindexes, Shellout.                              *)

\* The tool's process is started.
StartIndex(s) ==
    LET others == {q \in Readers \ {s} : Running(q)} IN
    /\ rd[s].pc \in {"idle", "ok"}
    /\ rd' = [q \in Readers |->
                IF q = s THEN [Idle EXCEPT !.pc = "read", !.kind = "index",
                                           !.waits = TRUE, !.alone = others = {}]
                ELSE [rd[q] EXCEPT !.alone = @ /\ q \notin others]]
    /\ UNCHANGED <<vars, tool, index, stored>>

\* No exec_reindex: the command echoes its arguments and succeeds.
EchoAnswered(s) ==
    /\ ~tool /\ rd[s].pc = "read" /\ rd[s].kind = "index" /\ rd[s].waits
    /\ Reads(s, [rd[s] EXCEPT !.pc = "ok", !.waits = FALSE])

ToolReads(s) ==
    /\ tool /\ rd[s].pc = "read" /\ rd[s].kind = "index"
    /\ \E x \in Paths \ Found(s) : Reads(s, [rd[s] EXCEPT !.saw[x] = Contents[x]])

\* The new index takes the place of the old one.
ToolWrites(s) ==
    /\ tool /\ rd[s].pc = "read" /\ rd[s].kind = "index"
    /\ Found(s) = Paths
    /\ index' = rd[s].saw
    /\ rd' = [rd EXCEPT ![s] = [@ EXCEPT !.pc = "exit", !.saw = Idle.saw]]
    /\ UNCHANGED <<vars, tool, stored>>

\* Variant: cmd.Start in the place of cmd.Run: nobody waits for the tool.
IndexAnsweredEarly(s) ==
    /\ tool /\ Running(s) /\ rd[s].waits
    /\ Reads(s, [rd[s] EXCEPT !.pc = "ok", !.waits = FALSE,
                           !.saw = Idle.saw])

\* cmd.Run returns, and the handler with it.
IndexAnswered(s) ==
    /\ rd[s].pc = "exit" /\ rd[s].waits
    /\ Reads(s, [rd[s] EXCEPT !.pc = "ok", !.waits = FALSE])

\* A directory cannot be read; the tool fails, before or after it has written
\* the index; the answer does not arrive; nobody has waited for the tool.
ReaderEnds(s) ==
    /\ rd[s].pc \in {"read", "exit"}
    /\ Reads(s, Idle)

----------------------------------------------------------------------------
(* The file store under the readers.  Downloads and file information look  *)
(* at one file and change none, so its uploads are what matters here.      *)

\* Variant: the answer to an upload is sent before the file is there.
NotedEarly ==
    /\ stored' = stored \cup {path'[q] : q \in {w \in Requests :
                                             pc[w] \in Free /\ pc'[w] = "create"}}
    /\ rd' = [s \in Readers |->
                [rd[s] EXCEPT !.alone = @ /\ <<present, disk>>' = <<present, disk>>]]

\* Whose upload is answered, and whether a file changes under a reindexing or
\* since.
Noted ==
    /\ stored' = stored \cup {path[q] : q \in {w \in Requests :
                                            pc[w] = "write" /\ pc'[w] = "ok"}}
    /\ rd' = [s \in Readers |->
                [rd[s] EXCEPT !.alone = @ /\ <<present, disk>>' = <<present, disk>>]]

UploadStep ==
    /\ \E q \in Requests :
          \/ \E x \in Paths, p \in Packages : UploadAccepted(q, x, p)
          \/ CreateFile(q) \/ WriteBlock(q) \/ UploadStored(q) \/ IoFails(q)
    /\ Noted
    /\ UNCHANGED <<tool, index>>

\* The service is killed.  Its listings are lost; a tool may be killed with it
\* or go on.
ServiceCrash ==
    /\ Crash
    /\ \E killed \in SUBSET {s \in Readers : Running(s)} :
          rd' = [s \in Readers |->
                   IF s \in killed \/ (rd[s].kind = "list" /\ rd[s].pc = "read")
                   THEN Idle
                   ELSE [rd[s] EXCEPT !.waits = FALSE]]
    /\ UNCHANGED <<tool, index, stored>>

ReadersNext ==
    \/ UploadStep \/ ServiceCrash
    \/ \E s \in Readers :
          \/ StartList(s) \/ ListAnswered(s)
          \/ StartIndex(s) \/ EchoAnswered(s) \/ ToolReads(s) \/ ToolWrites(s)
          \/ IndexAnswered(s) \/ ReaderEnds(s)

ReadersSpec == ReadersInit /\ [][ReadersNext]_<<vars, readers>>

----------------------------------------------------------------------------
(* Properties.                                                             *)

\* A file whose upload was answered before a listing began is in the listing,
\* whatever uploads come while the directory is being read.
UploadedIsListed ==
    \A s \in Readers :
        rd[s].kind = "list" /\ rd[s].pc = "ok" => rd[s].before \subseteq Found(s)

\* After a reindexing that was answered with success, that met no other one and
\* since whose beginning no file changed, the index describes the files as
\* they are, and goes on to: until the next upload, or the next tool's turn.
IndexFresh ==
    \A s \in Readers :
        rd[s].kind = "index" /\ rd[s].pc = "ok" /\ rd[s].alone /\ tool =>
            index = Contents
=============================================================================
