----------------------------- MODULE FileStore -----------------------------
(***************************************************************************)
(* The package files of the repositories, and the requests that upload,    *)
(* download and inspect them.                                              *)
(*                                                                         *)
(* Every HTTP request runs in a goroutine of its own and works on the      *)
(* directory <repo>/<folder>/RPMS.<name> directly: there is no lock, no    *)
(* temporary file and no rename.  What the model keeps of a file is its    *)
(* sequence of blocks, each labelled with the package it belongs to; what  *)
(* it keeps of a request is the system call it is about to make.  A write  *)
(* or a read of a whole file is made of one step per block, because        *)
(* os.File.Write and os.ReadFile are loops of system calls that other      *)
(* requests' calls come between.                                           *)
(***************************************************************************)
EXTENDS Naturals, FiniteSets

CONSTANTS
    Requests,    \* slots for concurrent HTTP requests; a slot is reused
    Folders,     \* values of {folderId} whose directory exists
    Names,       \* file names a client may send or ask for
    Packages,    \* contents a client may send in the form field "rpm"
    Arch,        \* Arch[p]: what pkg.Architecture() says of p, or Nothing
                 \* when rpm.Read(p) fails
    PayloadLen,  \* PayloadLen[p]: blocks of p that follow its headers
    MaxBlocks,   \* bound on the length of a file, in blocks
    Nothing      \* no block: a hole, or beyond the end of the file

Paths == Folders \X Names
Positions == 1..MaxBlocks

(***************************************************************************)
(* A block is known by the package it comes from and by whether it was cut *)
(* from the whole package ("rpm", block 1 being the headers) or from what  *)
(* follows the headers ("payload").  Block i only ever stands at position  *)
(* i of a file, so its number is not part of it.                           *)
(***************************************************************************)
Pieces == {"rpm", "payload"} \X Packages
Images == [Positions -> Pieces \cup {Nothing}]

ASSUME BlocksAssumption == /\ MaxBlocks \in Nat
                           /\ PayloadLen \in [Packages -> Nat]
                           /\ \A p \in Packages : PayloadLen[p] < MaxBlocks
ASSUME NothingAssumption == Nothing \notin Pieces

Image(kind, p, len) ==
    [i \in Positions |-> IF i <= len THEN <<kind, p>> ELSE Nothing]

Empty == [i \in Positions |-> Nothing]

\* The package as the client sent it, and as any other tool stores it.
Rpm(p) == Image("rpm", p, PayloadLen[p] + 1)

\* What io.ReadAll still finds in the reader once rpm.Read has consumed the
\* lead, the signature and the header: the reader is never rewound.
Remainder(p) == Image("payload", p, PayloadLen[p])

VARIABLES
    present,  \* paths at which a file exists
    disk,     \* disk[x]: the blocks of the file at x
    pc,       \* pc[r]: where request r stands
    op,       \* op[r]: what r asks for
    path,     \* path[r]: the file it is about
    pkg,      \* pkg[r]: the package it uploads
    off,      \* off[r]: its own file offset, in blocks
    got,      \* got[r]: the blocks its download has read
    touched,  \* history: another upload wrote to path[r] since r opened it
    burst,    \* history: packages of the overlapping uploads of a path, from
              \* the moment the path was last free of writers
    torn      \* history: paths where a writer of that burst died half-way

vars == <<present, disk, pc, op, path, pkg, off, got, touched, burst, torn>>
client == <<op, path, pkg>>
history == <<touched, burst, torn>>

Free == {"idle", "ok", "err", "lost"}   \* the slot may take a new request
InFlight == {"create", "write", "read"}

\* Uploads that hold the file at x open for writing.
Writers(x) == {r \in Requests : pc[r] = "write" /\ path[r] = x}

TypeOK ==
    /\ present \subseteq Paths
    /\ disk \in [Paths -> Images]
    /\ pc \in [Requests -> Free \cup InFlight]
    /\ op \in [Requests -> {"none", "upload", "download", "info"}]
    /\ path \in [Requests -> Paths \cup {Nothing}]
    /\ pkg \in [Requests -> Packages \cup {Nothing}]
    /\ off \in [Requests -> 0..MaxBlocks]
    /\ got \in [Requests -> Images]
    /\ touched \in [Requests -> BOOLEAN]
    /\ burst \in [Paths -> SUBSET Packages]
    /\ torn \subseteq Paths

\* The packages of x's folder, whole: what is put there by hand or by the
\* tools that built the repository.
Prepared(x) == {Rpm(p) : p \in {q \in Packages : Arch[q] = x[1]}}

Init ==
    /\ present \in SUBSET Paths
    /\ disk \in [Paths -> {Empty} \cup {Rpm(p) : p \in Packages}]
    /\ \A x \in Paths : disk[x] \in IF x \in present THEN Prepared(x) ELSE {Empty}
    /\ pc = [r \in Requests |-> "idle"]
    /\ op = [r \in Requests |-> "none"]
    /\ path = [r \in Requests |-> Nothing]
    /\ pkg = [r \in Requests |-> Nothing]
    /\ off = [r \in Requests |-> 0]
    /\ got = [r \in Requests |-> Empty]
    /\ touched = [r \in Requests |-> FALSE]
    /\ burst = [x \in Paths |-> {}]
    /\ torn = {}

(***************************************************************************)
(* A slot takes up a new request.  It starts from fresh locals.            *)
(***************************************************************************)
Begin(r, o, x, p, state) ==
    /\ pc[r] \in Free
    /\ pc' = [pc EXCEPT ![r] = state]
    /\ op' = [op EXCEPT ![r] = o]
    /\ path' = [path EXCEPT ![r] = x]
    /\ pkg' = [pkg EXCEPT ![r] = p]
    /\ off' = [off EXCEPT ![r] = 0]
    /\ got' = [got EXCEPT ![r] = Empty]
    /\ touched' = [touched EXCEPT ![r] = FALSE]
    /\ UNCHANGED <<present, disk, burst, torn>>

\* The request is answered, or its connection is gone.
Answer(r, how) == pc' = [pc EXCEPT ![r] = how]

\* r changes the file at path[r]: whoever else works on it is told.
TouchOthers(r, own) ==
    touched' = [q \in Requests |->
                  IF q = r THEN own ELSE touched[q] \/ path[q] = path[r]]

----------------------------------------------------------------------------
(* Uploading: handleFileUploading, FilesService.FileUploading,             *)
(* FilesPath.FileUploading.  The steps up to os.Create read only the       *)
(* request's own form and are one action with the request's arrival.       *)

\* Variant: the architecture of the package is not compared with the folder.
UploadUnchecked(r, x, p) ==
    /\ Arch[p] # Nothing
    /\ Begin(r, "upload", x, p, "create")

\* The form field is there, rpm.Read accepts it and its architecture is the
\* folder's.
UploadAccepted(r, x, p) ==
    /\ Arch[p] = x[1]
    /\ Begin(r, "upload", x, p, "create")

\* Not an RPM ("Invalid file") or "Incorrect package architecture".
UploadRejected(r, x, p) ==
    /\ Arch[p] # x[1]
    /\ Begin(r, "upload", x, p, "err")

\* Variant: the file is opened without O_TRUNC.
CreateFileUntruncated(r) ==
    LET x == path[r] IN
    /\ pc[r] = "create"
    /\ pc' = [pc EXCEPT ![r] = "write"]
    /\ present' = present \cup {x}
    /\ TouchOthers(r, FALSE)
    /\ burst' = [burst EXCEPT ![x] =
                   {pkg[r]} \cup (IF Writers(x) = {} THEN {} ELSE burst[x])]
    /\ torn' = IF Writers(x) = {} THEN torn \ {x} ELSE torn
    /\ UNCHANGED <<disk, client, off, got>>

\* os.Create: the name appears, or the file that was there is cut to nothing
\* under everyone who has it open.
CreateFile(r) ==
    LET x == path[r] IN
    /\ pc[r] = "create"
    /\ pc' = [pc EXCEPT ![r] = "write"]
    /\ present' = present \cup {x}
    /\ disk' = [disk EXCEPT ![x] = Empty]
    /\ TouchOthers(r, FALSE)
    /\ burst' = [burst EXCEPT ![x] =
                   {pkg[r]} \cup (IF Writers(x) = {} THEN {} ELSE burst[x])]
    /\ torn' = IF Writers(x) = {} THEN torn \ {x} ELSE torn
    /\ UNCHANGED <<client, off, got>>

\* Variant: the file is opened with O_APPEND.
AppendBlock(r) ==
    LET i == off[r] + 1
        end == CHOOSE k \in 0..MaxBlocks :
                  \A j \in Positions : (disk[path[r]][j] # Nothing) <=> (j <= k)
    IN
    /\ pc[r] = "write"
    /\ i <= PayloadLen[pkg[r]]
    /\ disk' = [disk EXCEPT ![path[r]][end + 1] = Remainder(pkg[r])[i]]
    /\ off' = [off EXCEPT ![r] = i]
    /\ TouchOthers(r, touched[r])
    /\ UNCHANGED <<present, pc, client, got, burst, torn>>

\* One of the system calls of uploadFile.Write: at the offset of this open
\* file, wherever the end of the file is by now.
WriteBlock(r) ==
    LET i == off[r] + 1 IN
    /\ pc[r] = "write"
    /\ i <= PayloadLen[pkg[r]]
    /\ disk' = [disk EXCEPT ![path[r]][i] = Remainder(pkg[r])[i]]
    /\ off' = [off EXCEPT ![r] = i]
    /\ TouchOthers(r, touched[r])
    /\ UNCHANGED <<present, pc, client, got, burst, torn>>

\* Variant: a short write is taken for a complete one.
UploadStoredShort(r) ==
    /\ pc[r] = "write"
    /\ off[r] <= PayloadLen[pkg[r]]
    /\ \E how \in {"ok", "lost"} : Answer(r, how)
    /\ UNCHANGED <<present, disk, client, off, got, history>>

\* Write returned: the answer is sent, and arrives or (WriteTimeout, a
\* broken connection) does not.
UploadStored(r) ==
    /\ pc[r] = "write"
    /\ off[r] = PayloadLen[pkg[r]]
    /\ \E how \in {"ok", "lost"} : Answer(r, how)
    /\ UNCHANGED <<present, disk, client, off, got, history>>

----------------------------------------------------------------------------
(* Downloading: os.ReadFile reads from its own offset until the end of the *)
(* file, as long as the file is at that moment; holes read as zeros.       *)

DownloadOpened(r, x) ==
    /\ x \in present
    /\ Begin(r, "download", x, Nothing, "read")

DownloadMissing(r, x) ==
    /\ x \notin present
    /\ Begin(r, "download", x, Nothing, "err")

\* The positions the file at x still has behind offset k.
Ahead(x, k) == {j \in Positions : j > k /\ disk[x][j] # Nothing}

\* Variant: the read does not stop at the end of the file.
ReadBlockPastEnd(r) ==
    LET i == off[r] + 1 IN
    /\ pc[r] = "read"
    /\ off[r] <= MaxBlocks
    /\ got' = [got EXCEPT ![r][i] = IF i \in Positions THEN disk[path[r]][i] ELSE Nothing]
    /\ off' = [off EXCEPT ![r] = i]
    /\ UNCHANGED <<present, disk, pc, client, history>>

ReadBlock(r) ==
    LET i == off[r] + 1 IN
    /\ pc[r] = "read"
    /\ Ahead(path[r], off[r]) # {}
    /\ got' = [got EXCEPT ![r][i] = disk[path[r]][i]]
    /\ off' = [off EXCEPT ![r] = i]
    /\ UNCHANGED <<present, disk, pc, client, history>>

\* Variant: one read system call is taken for the whole file.
DownloadSentShort(r) ==
    /\ pc[r] = "read"
    /\ off[r] > 0 \/ Ahead(path[r], off[r]) = {}
    /\ \E how \in {"ok", "lost"} : Answer(r, how)
    /\ UNCHANGED <<present, disk, client, off, got, history>>

\* Variant: a read of zero bytes is tried again.
DownloadSentNonEmpty(r) ==
    /\ pc[r] = "read"
    /\ off[r] > 0 /\ Ahead(path[r], off[r]) = {}
    /\ \E how \in {"ok", "lost"} : Answer(r, how)
    /\ UNCHANGED <<present, disk, client, off, got, history>>

DownloadSent(r) ==
    /\ pc[r] = "read"
    /\ Ahead(path[r], off[r]) = {}
    /\ \E how \in {"ok", "lost"} : Answer(r, how)
    /\ UNCHANGED <<present, disk, client, off, got, history>>

----------------------------------------------------------------------------
(* FileInfo: rpm.Open parses the headers at the start of the file.         *)

Parses(x) == MaxBlocks > 0 /\ \E p \in Packages : disk[x][1] = <<"rpm", p>>

FileInfo(r, x) ==
    Begin(r, "info", x, Nothing,
          IF x \in present /\ Parses(x) THEN "ok" ELSE "err")

----------------------------------------------------------------------------
(* Failures.                                                               *)

\* os.Create, Write or the read fails (no directory, no space, no rights):
\* the answer is a 500 and what was written so far stays.
IoFails(r) ==
    /\ pc[r] \in InFlight
    /\ Answer(r, "err")
    /\ torn' = IF pc[r] = "write" THEN torn \cup {path[r]} ELSE torn
    /\ UNCHANGED <<present, disk, client, off, got, touched, burst>>

\* The process dies and is started again.  It has no state but the files.
Crash ==
    /\ \E r \in Requests : pc[r] \in InFlight
    /\ pc' = [r \in Requests |-> IF pc[r] \in InFlight THEN "lost" ELSE pc[r]]
    /\ torn' = torn \cup {x \in Paths : Writers(x) # {}}
    /\ UNCHANGED <<present, disk, client, off, got, touched, burst>>

----------------------------------------------------------------------------
Arrives(r) ==
    \E x \in Paths :
        \/ \E p \in Packages : UploadAccepted(r, x, p)
        \/ \E p \in Packages : UploadRejected(r, x, p)
        \/ DownloadOpened(r, x)
        \/ DownloadMissing(r, x)
        \/ FileInfo(r, x)

Proceeds(r) ==
    \/ CreateFile(r)
    \/ WriteBlock(r)
    \/ UploadStored(r)
    \/ ReadBlock(r)
    \/ DownloadSent(r)

Next ==
    \/ \E r \in Requests : Arrives(r) \/ Proceeds(r) \/ IoFails(r)
    \/ Crash

Spec == Init /\ [][Next]_vars

\* The Go scheduler runs every goroutine, and the system calls return.
FairSpec == Spec /\ \A r \in Requests : WF_vars(Proceeds(r))

----------------------------------------------------------------------------
(* Properties.                                                             *)

\* Whatever uploads race, fail or are cut off, every block in a folder's
\* directory comes from a package of that folder's architecture: the check
\* of service/files.go is made before the first byte reaches the disk.
FolderArch ==
    \A x \in Paths, i \in Positions :
        disk[x][i] # Nothing => Arch[disk[x][i][2]] = x[1]

\* Once the overlapping uploads of a path are over, none of them having died
\* half-way, every position of the file holds what one of them has there,
\* the end of the file included.  In particular uploads of one package, however
\* they raced, leave exactly what a single upload of it leaves, and no hole is
\* left by an os.Create that truncated the file under a writer.
SettledWhole ==
    \A x \in Paths :
        burst[x] # {} /\ x \notin torn /\ Writers(x) = {} =>
            \A i \in Positions : \E p \in burst[x] : disk[x][i] = Remainder(p)[i]

\* An upload that was answered with success, and whose file no other upload
\* has opened or written since its own os.Create, has left in the file all that
\* it read from the form and nothing of what the file held before.
SoleUploadStored ==
    \A r \in Requests :
        op[r] = "upload" /\ pc[r] = "ok" /\ ~touched[r] =>
            disk[path[r]] = Remainder(pkg[r])

\* A download that no upload came across returns the file, as it was when the
\* download began and as it still is.
UntouchedDownload ==
    \A r \in Requests :
        op[r] = "download" /\ pc[r] = "ok" /\ ~touched[r] =>
            got[r] = disk[path[r]]

\* Every request is answered or loses its connection: the handlers hold no
\* lock, and a reader of a file that is truncated and extended under it still
\* comes to an end.
EveryRequestAnswered ==
    \A r \in Requests : pc[r] \in InFlight ~> pc[r] \in Free

\* What the user interface says of an upload that was answered with success:
\* "Success file uploading".  The package that was sent is in the repository.
WholePackageStored ==
    \A r \in Requests :
        op[r] = "upload" /\ pc[r] = "ok" /\ ~touched[r] =>
            disk[path[r]] = Rpm(pkg[r])
AtFirst(x) == {Empty} \cup Prepared(x)

\* FileStore implements PackageShelf: a file that no upload holds is what the
\* place shows.
Shelf == INSTANCE PackageShelf WITH
    Places <- Paths,
    Stored <- Remainder,
    OnShelf <- AtFirst,
    busy <- {x \in Paths : Writers(x) # {}},
    shelf <- [x \in Paths |-> IF Writers(x) = {} THEN disk[x] ELSE Empty]

\* What happens to a file from outside: it is busy, or it keeps its content,
\* and it comes out of a burst of uploads as a mixture of them and of nothing
\* that was there before, whatever the interleaving, the failures and crashes.
ImplementsShelf == Shelf!Spec

----------------------------------------------------------------------------
(* The inductive invariant behind the safety properties.                   *)

\* What a request's state says of its locals.
LocalsOK ==
    \A r \in Requests :
        /\ op[r] = "upload" /\ pc[r] \in {"create", "write", "ok"} =>
              path[r] \in Paths /\ pkg[r] \in Packages /\ Arch[pkg[r]] = path[r][1]
        /\ op[r] = "download" /\ pc[r] \in {"read", "ok"} => path[r] \in Paths
        /\ pc[r] \in {"create", "write"} => op[r] = "upload"
        /\ pc[r] = "read" => op[r] = "download"
        /\ pc[r] = "create" => off[r] = 0
        /\ pc[r] = "write" => off[r] <= PayloadLen[pkg[r]] /\ pkg[r] \in burst[path[r]]

\* A position of a file in a burst holds what one of the burst's packages has
\* there, or is still empty with a writer on its way to it.
BurstInv ==
    \A x \in Paths : burst[x] # {} /\ x \notin torn =>
        \A i \in Positions :
            \/ \E p \in burst[x] : disk[x][i] = Remainder(p)[i]
            \/ disk[x][i] = Nothing /\ \E w \in Writers(x) : off[w] < i

\* A lone upload has filled its file up to its offset and no further.
SoleInv ==
    \A r \in Requests : op[r] = "upload" /\ ~touched[r] =>
        /\ pc[r] = "write" => disk[path[r]] = Image("payload", pkg[r], off[r])
        /\ pc[r] = "ok" => disk[path[r]] = Remainder(pkg[r])

\* A lone download has read the file up to its offset.
ReadInv ==
    \A r \in Requests : op[r] = "download" /\ ~touched[r] =>
        /\ pc[r] = "read" =>
              \A i \in Positions :
                 got[r][i] = IF i <= off[r] THEN disk[path[r]][i] ELSE Nothing
        /\ pc[r] = "ok" => got[r] = disk[path[r]]

\* A file that is being written holds blocks of its burst's packages and holes.
PiecesInv ==
    \A x \in Paths : Writers(x) # {} =>
        \A i \in Positions : \/ disk[x][i] = Nothing
                            \/ \E p \in burst[x] : disk[x][i] = Remainder(p)[i]

IInv == /\ TypeOK /\ LocalsOK /\ FolderArch
        /\ BurstInv /\ PiecesInv /\ SoleInv /\ ReadInv
=============================================================================
