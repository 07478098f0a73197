-------------------------- MODULE FileStoreProofs --------------------------
(* Proofs, for any numbers of requests, folders, names and packages, of    *)
(* the safety properties of FileStore.                                     *)
EXTENDS FileStore, TLAPS

USE DEF Free, InFlight

\* The images of a package are files, and a block of one names the package.
LEMMA ImagesAreFiles ==
    ASSUME NEW p \in Packages, NEW kind \in {"rpm", "payload"}, NEW n \in Nat
    PROVE  /\ Empty \in Images
           /\ Image(kind, p, n) \in Images
           /\ \A i \in Positions : Image(kind, p, n)[i] \in {<<kind, p>>, Nothing}
BY DEF Empty, Image, Images, Positions, Pieces

LEMMA PackageImages ==
    ASSUME NEW p \in Packages
    PROVE  /\ PayloadLen[p] \in Nat /\ PayloadLen[p] < MaxBlocks
           /\ Empty \in Images /\ Rpm(p) \in Images /\ Remainder(p) \in Images
<1>1. PayloadLen[p] \in Nat /\ PayloadLen[p] < MaxBlocks /\ PayloadLen[p] + 1 \in Nat
  BY BlocksAssumption
<1>2. Image("rpm", p, PayloadLen[p] + 1) \in Images
  BY <1>1, ImagesAreFiles
<1>3. Image("payload", p, PayloadLen[p]) \in Images
  BY <1>1, ImagesAreFiles
<1> QED
  BY <1>1, <1>2, <1>3, ImagesAreFiles DEF Rpm, Remainder

----------------------------------------------------------------------------
(* Types, and what a request's state says of its locals.                   *)

LEMMA InitTyped == Init => TypeOK /\ LocalsOK
<1> SUFFICES ASSUME Init PROVE TypeOK /\ LocalsOK
  OBVIOUS
<1>1. MaxBlocks \in Nat /\ Empty \in Images
  BY BlocksAssumption DEF Empty, Images
<1>2. disk \in [Paths -> Images]
  BY <1>1, PackageImages DEF Init
<1>3. TypeOK
  BY <1>1, <1>2 DEF Init, TypeOK
<1>4. LocalsOK
  BY DEF Init, LocalsOK
<1> QED
  BY <1>3, <1>4

LEMMA BeginTyped ==
    ASSUME TypeOK, LocalsOK, NEW r \in Requests, NEW x \in Paths,
           NEW o \in {"upload", "download", "info"},
           NEW p \in Packages \cup {Nothing},
           NEW state \in {"create", "read", "ok", "err"},
           Begin(r, o, x, p, state),
           state = "create" => o = "upload" /\ p \in Packages /\ Arch[p] = x[1],
           state = "read" => o = "download",
           state = "ok" => o = "info"
    PROVE  TypeOK' /\ LocalsOK'
<1>1. MaxBlocks \in Nat /\ Empty \in Images
  BY BlocksAssumption DEF Empty, Images
<1>2. TypeOK'
  BY <1>1 DEF TypeOK, Begin
<1>3. LocalsOK'
  BY DEF TypeOK, LocalsOK, Begin
<1> QED
  BY <1>2, <1>3

LEMMA NextTyped == TypeOK /\ LocalsOK /\ [Next]_vars => TypeOK' /\ LocalsOK'
<1> SUFFICES ASSUME TypeOK, LocalsOK, [Next]_vars
             PROVE  TypeOK' /\ LocalsOK'
  OBVIOUS
<1>1. MaxBlocks \in Nat /\ Empty \in Images
  BY BlocksAssumption DEF Empty, Images
<1>2. ASSUME NEW r \in Requests, NEW x \in Paths, NEW p \in Packages,
             UploadAccepted(r, x, p)
      PROVE  TypeOK' /\ LocalsOK'
  BY <1>2, BeginTyped DEF UploadAccepted
<1>3. ASSUME NEW r \in Requests, NEW x \in Paths, NEW p \in Packages,
             UploadRejected(r, x, p)
      PROVE  TypeOK' /\ LocalsOK'
  BY <1>3, BeginTyped DEF UploadRejected
<1>4. ASSUME NEW r \in Requests, NEW x \in Paths, DownloadOpened(r, x)
      PROVE  TypeOK' /\ LocalsOK'
  BY <1>4, BeginTyped DEF DownloadOpened
<1>5. ASSUME NEW r \in Requests, NEW x \in Paths, DownloadMissing(r, x)
      PROVE  TypeOK' /\ LocalsOK'
  BY <1>5, BeginTyped DEF DownloadMissing
<1>6. ASSUME NEW r \in Requests, NEW x \in Paths, FileInfo(r, x)
      PROVE  TypeOK' /\ LocalsOK'
  BY <1>6, BeginTyped DEF FileInfo
<1>7. ASSUME NEW r \in Requests, CreateFile(r)
      PROVE  TypeOK' /\ LocalsOK'
  <2>1. path[r] \in Paths /\ pkg[r] \in Packages
    BY <1>7 DEF CreateFile, LocalsOK
  <2>2. TypeOK'
    BY <1>1, <1>7, <2>1 DEF CreateFile, TouchOthers, client, TypeOK
  <2>3. off[r] = 0
    BY <1>7 DEF CreateFile, LocalsOK
  <2>4. ASSUME NEW q \in Requests, pc'[q] = "write"
        PROVE  off'[q] <= PayloadLen[pkg'[q]] /\ pkg'[q] \in burst'[path'[q]]
    <3>1. CASE q = r
      BY <1>7, <2>1, <2>3, <3>1, PackageImages DEF CreateFile, client, TypeOK
    <3>2. CASE q # r
      <4>1. pc[q] = "write" /\ pkg[q] \in burst[path[q]] /\ path[q] \in Paths
        BY <1>7, <2>4, <3>2 DEF CreateFile, TypeOK, LocalsOK
      <4>2. pkg[q] \in burst'[path[q]]
        BY <1>7, <2>1, <4>1 DEF CreateFile, Writers, TypeOK
      <4> QED
        BY <1>7, <2>4, <3>2, <4>1, <4>2 DEF CreateFile, client, LocalsOK
    <3> QED
      BY <3>1, <3>2
  <2> QED
    BY <1>7, <2>1, <2>2, <2>4 DEF CreateFile, client, TypeOK, LocalsOK
<1>8. ASSUME NEW r \in Requests, WriteBlock(r)
      PROVE  TypeOK' /\ LocalsOK'
  <2> DEFINE i == off[r] + 1
  <2>1. path[r] \in Paths /\ pkg[r] \in Packages
    BY <1>8 DEF WriteBlock, LocalsOK
  <2>2. i \in Positions /\ i \in 0..MaxBlocks /\ i <= PayloadLen[pkg[r]]
    BY <1>1, <1>8, <2>1, PackageImages DEF WriteBlock, TypeOK, Positions
  <2>3. Remainder(pkg[r])[i] \in Pieces \cup {Nothing}
    BY <2>1, <2>2, PackageImages DEF Images
  <2>4. disk' \in [Paths -> Images]
    BY <1>8, <2>1, <2>2, <2>3 DEF WriteBlock, TypeOK, Images
  <2>5. TypeOK'
    BY <1>8, <2>2, <2>4 DEF WriteBlock, TouchOthers, client, TypeOK
  <2> QED
    BY <1>8, <2>1, <2>2, <2>5 DEF WriteBlock, client, TypeOK, LocalsOK
<1>9. ASSUME NEW r \in Requests, UploadStored(r)
      PROVE  TypeOK' /\ LocalsOK'
  BY <1>9 DEF UploadStored, Answer, client, history, TypeOK, LocalsOK
<1>10. ASSUME NEW r \in Requests, ReadBlock(r)
      PROVE  TypeOK' /\ LocalsOK'
  <2> DEFINE i == off[r] + 1
  <2>1. path[r] \in Paths
    BY <1>10 DEF ReadBlock, LocalsOK
  <2>2. i \in Positions /\ i \in 0..MaxBlocks
    BY <1>1, <1>10 DEF ReadBlock, Ahead, TypeOK, Positions
  <2>3. disk[path[r]][i] \in Pieces \cup {Nothing}
    BY <2>1, <2>2 DEF TypeOK, Images
  <2>4. got' \in [Requests -> Images]
    BY <1>10, <2>2, <2>3 DEF ReadBlock, TypeOK, Images
  <2>5. TypeOK'
    BY <1>10, <2>2, <2>4 DEF ReadBlock, client, history, TypeOK
  <2> QED
    BY <1>10, <2>5 DEF ReadBlock, client, history, TypeOK, LocalsOK
<1>11. ASSUME NEW r \in Requests, DownloadSent(r)
      PROVE  TypeOK' /\ LocalsOK'
  BY <1>11 DEF DownloadSent, Answer, client, history, TypeOK, LocalsOK
<1>12. ASSUME NEW r \in Requests, IoFails(r)
      PROVE  TypeOK' /\ LocalsOK'
  BY <1>12 DEF IoFails, Answer, client, TypeOK, LocalsOK
<1>13. CASE Crash
  BY <1>13 DEF Crash, Writers, client, TypeOK, LocalsOK
<1>14. CASE UNCHANGED vars
  BY <1>14 DEF vars, TypeOK, LocalsOK
<1> QED
  BY <1>2, <1>3, <1>4, <1>5, <1>6, <1>7, <1>8, <1>9, <1>10, <1>11, <1>12,
     <1>13, <1>14
  DEF Next, Arrives, Proceeds

\* TypeOK holds in every reachable state, for any values of the constants.
THEOREM TypeCorrect == Spec => []TypeOK
<1> QED
  BY InitTyped, NextTyped, PTL DEF Spec

----------------------------------------------------------------------------
(* Only os.Create and Write change a file.                                 *)

LEMMA OnlyWritersChangeDisk ==
    ASSUME [Next]_vars, \A r \in Requests : ~CreateFile(r) /\ ~WriteBlock(r)
    PROVE  disk' = disk
BY DEF Next, Arrives, Proceeds, vars, UploadAccepted, UploadRejected,
       DownloadOpened, DownloadMissing, FileInfo, Begin, UploadStored,
       ReadBlock, DownloadSent, IoFails, Crash

LEMMA CreateEmpties ==
    ASSUME TypeOK, LocalsOK, NEW r \in Requests, CreateFile(r)
    PROVE  /\ path[r] \in Paths /\ pkg[r] \in Packages
           /\ Arch[pkg[r]] = path[r][1]
           /\ \A i \in Positions : disk'[path[r]][i] = Nothing
           /\ \A x \in Paths : x # path[r] => disk'[x] = disk[x]
BY DEF CreateFile, TypeOK, LocalsOK, Empty

LEMMA WriteFillsOne ==
    ASSUME TypeOK, LocalsOK, NEW r \in Requests, WriteBlock(r)
    PROVE  /\ path[r] \in Paths /\ pkg[r] \in Packages
           /\ Arch[pkg[r]] = path[r][1]
           /\ off[r] \in Nat /\ off[r] + 1 \in Positions
           /\ off[r] + 1 <= PayloadLen[pkg[r]]
           /\ disk'[path[r]][off[r] + 1] = Remainder(pkg[r])[off[r] + 1]
           /\ disk'[path[r]][off[r] + 1] = <<"payload", pkg[r]>>
           /\ \A i \in Positions : i # off[r] + 1 =>
                 disk'[path[r]][i] = disk[path[r]][i]
           /\ \A x \in Paths : x # path[r] => disk'[x] = disk[x]
<1>1. /\ path[r] \in Paths /\ pkg[r] \in Packages /\ off[r] \in Nat
      /\ Arch[pkg[r]] = path[r][1]
  BY DEF WriteBlock, TypeOK, LocalsOK
<1>2. off[r] + 1 \in Positions /\ off[r] + 1 <= PayloadLen[pkg[r]]
  BY <1>1, BlocksAssumption, PackageImages DEF WriteBlock, Positions
<1>3. Remainder(pkg[r])[off[r] + 1] = <<"payload", pkg[r]>>
  BY <1>1, <1>2 DEF Remainder, Image
<1>4. disk[path[r]] \in Images
  BY <1>1 DEF TypeOK
<1> QED
  BY <1>1, <1>2, <1>3, <1>4 DEF WriteBlock, TypeOK, Images

----------------------------------------------------------------------------
(* FolderArch.                                                             *)

LEMMA InitFolderArch == Init => FolderArch
<1> SUFFICES ASSUME Init, NEW x \in Paths, NEW i \in Positions,
                    disk[x][i] # Nothing
             PROVE  Arch[disk[x][i][2]] = x[1]
  BY DEF FolderArch
<1>1. x \in present
  BY DEF Init, Empty
<1>2. PICK p \in Packages : Arch[p] = x[1] /\ disk[x] = Rpm(p)
  BY <1>1 DEF Init, Prepared
<1> QED
  BY <1>2 DEF Rpm, Image

LEMMA NextFolderArch ==
    TypeOK /\ LocalsOK /\ FolderArch /\ [Next]_vars => FolderArch'
<1> SUFFICES ASSUME TypeOK, LocalsOK, FolderArch, [Next]_vars
             PROVE  FolderArch'
  OBVIOUS
<1>1. ASSUME NEW r \in Requests, CreateFile(r)
      PROVE  FolderArch'
  BY <1>1, CreateEmpties DEF FolderArch
<1>2. ASSUME NEW r \in Requests, WriteBlock(r)
      PROVE  FolderArch'
  BY <1>2, WriteFillsOne DEF FolderArch
<1>3. CASE \A r \in Requests : ~CreateFile(r) /\ ~WriteBlock(r)
  BY <1>3, OnlyWritersChangeDisk DEF FolderArch
<1> QED
  BY <1>1, <1>2, <1>3

----------------------------------------------------------------------------
(* BurstInv.                                                               *)

\* A step that leaves the files alone, and lets no upload go but one that it
\* marks as torn, keeps what is known of the bursts.
LEMMA BurstKept ==
    ASSUME BurstInv, disk' = disk, burst' = burst, torn \subseteq torn',
           \A w \in Requests : pc[w] = "write" /\ path[w] \notin torn' =>
              pc'[w] = "write" /\ path'[w] = path[w] /\ off'[w] = off[w]
    PROVE  BurstInv'
BY DEF BurstInv, Writers

LEMMA NextBurstInv ==
    TypeOK /\ LocalsOK /\ BurstInv /\ [Next]_vars => BurstInv'
<1> SUFFICES ASSUME TypeOK, LocalsOK, BurstInv, [Next]_vars
             PROVE  BurstInv'
  OBVIOUS
<1>1. ASSUME NEW r \in Requests, Arrives(r)
      PROVE  BurstInv'
  BY <1>1, BurstKept
  DEF Arrives, UploadAccepted, UploadRejected, DownloadOpened,
      DownloadMissing, FileInfo, Begin, TypeOK
<1>2. ASSUME NEW r \in Requests, CreateFile(r)
      PROVE  BurstInv'
  <2> SUFFICES ASSUME NEW x \in Paths, burst'[x] # {}, x \notin torn',
                      NEW i \in Positions
               PROVE  \/ \E p \in burst'[x] : disk'[x][i] = Remainder(p)[i]
                      \/ disk'[x][i] = Nothing /\ \E w \in Writers(x)' : off'[w] < i
    BY DEF BurstInv
  <2>1. CASE x = path[r]
    <3>1. r \in Writers(x)' /\ off'[r] = 0 /\ i > 0
      BY <1>2, <2>1 DEF CreateFile, Writers, client, TypeOK, LocalsOK, Positions
    <3> QED
      BY <1>2, <2>1, <3>1, CreateEmpties
  <2>2. CASE x # path[r]
    <3>1. /\ burst'[x] = burst[x] /\ x \notin torn /\ disk'[x] = disk[x]
          /\ Writers(x)' = Writers(x) /\ off' = off
      BY <1>2, <2>2, CreateEmpties DEF CreateFile, Writers, client, TypeOK
    <3> QED
      BY <3>1 DEF BurstInv
  <2> QED
    BY <2>1, <2>2
<1>3. ASSUME NEW r \in Requests, WriteBlock(r)
      PROVE  BurstInv'
  <2> SUFFICES ASSUME NEW x \in Paths, burst'[x] # {}, x \notin torn',
                      NEW i \in Positions
               PROVE  \/ \E p \in burst'[x] : disk'[x][i] = Remainder(p)[i]
                      \/ disk'[x][i] = Nothing /\ \E w \in Writers(x)' : off'[w] < i
    BY DEF BurstInv
  <2>1. /\ burst' = burst /\ torn' = torn /\ Writers(x)' = Writers(x)
        /\ pkg[r] \in burst[path[r]]
        /\ off' = [off EXCEPT ![r] = off[r] + 1]
    BY <1>3 DEF WriteBlock, Writers, client, LocalsOK
  <2>2. CASE x = path[r] /\ i = off[r] + 1
    BY <1>3, <2>1, <2>2, WriteFillsOne
  <2>3. CASE ~(x = path[r] /\ i = off[r] + 1)
    <3>1. disk'[x][i] = disk[x][i]
      BY <1>3, <2>3, WriteFillsOne
    <3>2. CASE \E p \in burst[x] : disk[x][i] = Remainder(p)[i]
      BY <2>1, <3>1, <3>2
    <3>3. CASE disk[x][i] = Nothing /\ \E w \in Writers(x) : off[w] < i
      <4>1. PICK w \in Writers(x) : off[w] < i
        BY <3>3
      <4>2. off'[w] < i
        <5>1. CASE w = r
          BY <1>3, <2>1, <2>3, <4>1, <5>1, WriteFillsOne
          DEF Writers, Positions, TypeOK
        <5>2. CASE w # r
          BY <2>1, <4>1, <5>2 DEF Writers, TypeOK
        <5> QED
          BY <5>1, <5>2
      <4> QED
        BY <2>1, <3>1, <3>3, <4>1, <4>2
    <3> QED
      BY <2>1, <3>2, <3>3 DEF BurstInv
  <2> QED
    BY <2>2, <2>3
<1>4. ASSUME NEW r \in Requests, UploadStored(r)
      PROVE  BurstInv'
  <2> SUFFICES ASSUME NEW x \in Paths, burst'[x] # {}, x \notin torn',
                      NEW i \in Positions
               PROVE  \/ \E p \in burst'[x] : disk'[x][i] = Remainder(p)[i]
                      \/ disk'[x][i] = Nothing /\ \E w \in Writers(x)' : off'[w] < i
    BY DEF BurstInv
  <2>1. /\ burst' = burst /\ torn' = torn /\ disk' = disk /\ off' = off
        /\ Writers(x) \ {r} \subseteq Writers(x)'
        /\ pkg[r] \in Packages /\ pkg[r] \in burst[path[r]]
        /\ off[r] = PayloadLen[pkg[r]]
    BY <1>4 DEF UploadStored, Answer, Writers, client, history, TypeOK, LocalsOK
  <2>2. CASE \E p \in burst[x] : disk[x][i] = Remainder(p)[i]
    BY <2>1, <2>2
  <2>3. CASE disk[x][i] = Nothing /\ \E w \in Writers(x) : off[w] < i
    <3>1. PICK w \in Writers(x) : off[w] < i
      BY <2>3
    <3>2. CASE w = r
      <4>1. path[r] = x /\ off[r] < i /\ off[r] \in Nat /\ i \in Nat
        BY <2>1, <3>1, <3>2, PackageImages, BlocksAssumption DEF Writers, Positions
      <4>2. ~(i <= PayloadLen[pkg[r]])
        BY <2>1, <4>1
      <4>3. Remainder(pkg[r])[i] = Nothing
        BY <4>2 DEF Remainder, Image
      <4> QED
        BY <2>1, <2>3, <4>1, <4>3
    <3>3. CASE w # r
      BY <2>1, <2>3, <3>1, <3>3
    <3> QED
      BY <3>2, <3>3
  <2> QED
    BY <2>1, <2>2, <2>3 DEF BurstInv
<1>5. ASSUME NEW r \in Requests, ReadBlock(r) \/ DownloadSent(r)
      PROVE  BurstInv'
  BY <1>5, BurstKept
  DEF ReadBlock, DownloadSent, Answer, client, history, TypeOK
<1>6. ASSUME NEW r \in Requests, IoFails(r)
      PROVE  BurstInv'
  BY <1>6, BurstKept DEF IoFails, Answer, client, TypeOK
<1>7. CASE Crash
  <2>1. \A w \in Requests : pc[w] = "write" => path[w] \in torn'
    BY <1>7 DEF Crash, Writers, LocalsOK
  <2> QED
    BY <1>7, <2>1, BurstKept DEF Crash
<1>8. CASE UNCHANGED vars
  BY <1>8, BurstKept DEF vars
<1> QED
  BY <1>1, <1>2, <1>3, <1>4, <1>5, <1>6, <1>7, <1>8 DEF Next, Proceeds

----------------------------------------------------------------------------
(* PiecesInv.                                                              *)

LEMMA NextPiecesInv ==
    TypeOK /\ LocalsOK /\ PiecesInv /\ [Next]_vars => PiecesInv'
<1> SUFFICES ASSUME TypeOK, LocalsOK, PiecesInv, [Next]_vars,
                    NEW x \in Paths, Writers(x)' # {}, NEW i \in Positions
             PROVE  \/ disk'[x][i] = Nothing
                    \/ \E p \in burst'[x] : disk'[x][i] = Remainder(p)[i]
  BY DEF PiecesInv
<1>1. ASSUME NEW r \in Requests, CreateFile(r)
      PROVE  \/ disk'[x][i] = Nothing
             \/ \E p \in burst'[x] : disk'[x][i] = Remainder(p)[i]
  <2>1. CASE x = path[r]
    BY <1>1, <2>1, CreateEmpties
  <2>2. CASE x # path[r]
    <3>1. disk'[x] = disk[x] /\ burst'[x] = burst[x] /\ Writers(x)' = Writers(x)
      BY <1>1, <2>2, CreateEmpties DEF CreateFile, Writers, client, TypeOK
    <3> QED
      BY <3>1 DEF PiecesInv
  <2> QED
    BY <2>1, <2>2
<1>2. ASSUME NEW r \in Requests, WriteBlock(r)
      PROVE  \/ disk'[x][i] = Nothing
             \/ \E p \in burst'[x] : disk'[x][i] = Remainder(p)[i]
  <2>1. burst' = burst /\ Writers(x)' = Writers(x) /\ pkg[r] \in burst[path[r]]
    BY <1>2 DEF WriteBlock, Writers, client, LocalsOK
  <2>2. CASE x = path[r] /\ i = off[r] + 1
    BY <1>2, <2>1, <2>2, WriteFillsOne
  <2>3. CASE ~(x = path[r] /\ i = off[r] + 1)
    BY <1>2, <2>1, <2>3, WriteFillsOne DEF PiecesInv
  <2> QED
    BY <2>2, <2>3
<1>3. CASE \A r \in Requests : ~CreateFile(r) /\ ~WriteBlock(r)
  <2>1. disk' = disk
    BY <1>3, OnlyWritersChangeDisk
  <2>2. burst' = burst /\ Writers(x)' \subseteq Writers(x)
    BY <1>3
    DEF Next, Arrives, Proceeds, vars, UploadAccepted, UploadRejected,
        DownloadOpened, DownloadMissing, FileInfo, Begin, UploadStored,
        ReadBlock, DownloadSent, IoFails, Crash, Answer, Writers, client,
        history, TypeOK
  <2> QED
    BY <2>1, <2>2 DEF PiecesInv
<1> QED
  BY <1>1, <1>2, <1>3

----------------------------------------------------------------------------
(* SoleInv and ReadInv: what a request that nobody came across has done.   *)

\* A step that leaves alone the files and every upload that still counts.
LEMMA SoleKept ==
    ASSUME SoleInv, disk' = disk,
           \A q \in Requests : op'[q] = "upload" /\ ~touched'[q] /\ pc'[q] \in {"write", "ok"} =>
              /\ op[q] = "upload" /\ ~touched[q] /\ pc[q] = pc'[q]
              /\ path'[q] = path[q] /\ pkg'[q] = pkg[q] /\ off'[q] = off[q]
    PROVE  SoleInv'
BY DEF SoleInv

LEMMA NextSoleInv ==
    TypeOK /\ LocalsOK /\ SoleInv /\ [Next]_vars => SoleInv'
<1> SUFFICES ASSUME TypeOK, LocalsOK, SoleInv, [Next]_vars
             PROVE  SoleInv'
  OBVIOUS
<1>1. ASSUME NEW r \in Requests, Arrives(r)
      PROVE  SoleInv'
  BY <1>1, SoleKept
  DEF Arrives, UploadAccepted, UploadRejected, DownloadOpened,
      DownloadMissing, FileInfo, Begin, TypeOK
<1>2. ASSUME NEW r \in Requests, CreateFile(r)
      PROVE  SoleInv'
  <2> SUFFICES ASSUME NEW q \in Requests, op'[q] = "upload", ~touched'[q]
               PROVE  /\ pc'[q] = "write" =>
                            disk'[path'[q]] = Image("payload", pkg'[q], off'[q])
                      /\ pc'[q] = "ok" => disk'[path'[q]] = Remainder(pkg'[q])
    BY DEF SoleInv
  <2>1. client' = client /\ off' = off /\ op[q] = "upload"
    BY <1>2 DEF CreateFile, client
  <2>2. CASE q = r
    <3>1. pc'[r] = "write" /\ off[r] = 0 /\ disk'[path[r]] = Empty
      BY <1>2, CreateEmpties DEF CreateFile, TypeOK, LocalsOK
    <3>2. Image("payload", pkg[r], 0) = Empty
      BY BlocksAssumption DEF Image, Empty, Positions
    <3> QED
      BY <2>1, <2>2, <3>1, <3>2 DEF client
  <2>3. CASE q # r
    <3>1. ~touched[q] /\ path[q] # path[r] /\ pc'[q] = pc[q]
      BY <1>2, <2>3 DEF CreateFile, TouchOthers, TypeOK
    <3>2. pc[q] \in {"write", "ok"} => disk'[path[q]] = disk[path[q]]
      BY <1>2, <2>1, <3>1, CreateEmpties DEF LocalsOK
    <3> QED
      BY <2>1, <3>1, <3>2 DEF SoleInv, client
  <2> QED
    BY <2>2, <2>3
<1>3. ASSUME NEW r \in Requests, WriteBlock(r)
      PROVE  SoleInv'
  <2> SUFFICES ASSUME NEW q \in Requests, op'[q] = "upload", ~touched'[q]
               PROVE  /\ pc'[q] = "write" =>
                            disk'[path'[q]] = Image("payload", pkg'[q], off'[q])
                      /\ pc'[q] = "ok" => disk'[path'[q]] = Remainder(pkg'[q])
    BY DEF SoleInv
  <2>1. client' = client /\ pc' = pc /\ op[q] = "upload"
        /\ off' = [off EXCEPT ![r] = off[r] + 1]
    BY <1>3 DEF WriteBlock, client
  <2>2. CASE q = r
    <3>1. pc[r] = "write" /\ off'[r] = off[r] + 1
          /\ disk[path[r]] = Image("payload", pkg[r], off[r])
      BY <1>3, <2>1, <2>2 DEF WriteBlock, TouchOthers, SoleInv, TypeOK
    <3>2. disk'[path[r]] \in Images
      BY <1>3, NextTyped, WriteFillsOne DEF TypeOK
    <3>3. ASSUME NEW i \in Positions
          PROVE  disk'[path[r]][i] = Image("payload", pkg[r], off[r] + 1)[i]
      <4> i \in Nat /\ off[r] \in Nat
        BY <1>3, WriteFillsOne, BlocksAssumption DEF Positions
      <4>1. CASE i = off[r] + 1
        <5>1. disk'[path[r]][i] = <<"payload", pkg[r]>>
          BY <1>3, <4>1, WriteFillsOne
        <5> QED
          BY <4>1, <5>1 DEF Image
      <4>2. CASE i # off[r] + 1
        <5>1. disk'[path[r]][i] = disk[path[r]][i]
          BY <1>3, <4>2, WriteFillsOne
        <5>2. i <= off[r] <=> i <= off[r] + 1
          BY <4>2
        <5>3. Image("payload", pkg[r], off[r])[i]
                 = Image("payload", pkg[r], off[r] + 1)[i]
          BY <5>2 DEF Image
        <5> QED
          BY <3>1, <5>1, <5>3
      <4> QED
        BY <4>1, <4>2
    <3>4. disk'[path[r]] = Image("payload", pkg[r], off[r] + 1)
      BY <3>2, <3>3 DEF Images, Image
    <3> QED
      BY <2>1, <2>2, <3>1, <3>4 DEF client
  <2>3. CASE q # r
    <3>1. ~touched[q] /\ path[q] # path[r] /\ off'[q] = off[q]
      BY <1>3, <2>1, <2>3 DEF WriteBlock, TouchOthers, TypeOK
    <3>2. pc[q] \in {"write", "ok"} => disk'[path[q]] = disk[path[q]]
      BY <1>3, <2>1, <3>1, WriteFillsOne DEF LocalsOK
    <3> QED
      BY <2>1, <3>1, <3>2 DEF SoleInv, client
  <2> QED
    BY <2>2, <2>3
<1>4. ASSUME NEW r \in Requests, UploadStored(r)
      PROVE  SoleInv'
  <2>1. /\ client' = client /\ disk' = disk /\ off' = off /\ touched' = touched
        /\ \A q \in Requests : q # r => pc'[q] = pc[q]
        /\ pc'[r] \in {"ok", "lost"} /\ pc[r] = "write"
        /\ off[r] = PayloadLen[pkg[r]]
    BY <1>4 DEF UploadStored, Answer, client, history, TypeOK
  <2> QED
    BY <2>1 DEF SoleInv, Remainder, client
<1>5. ASSUME NEW r \in Requests, ReadBlock(r) \/ DownloadSent(r)
      PROVE  SoleInv'
  BY <1>5, SoleKept
  DEF ReadBlock, DownloadSent, Answer, client, history, TypeOK, LocalsOK
<1>6. ASSUME NEW r \in Requests, IoFails(r)
      PROVE  SoleInv'
  BY <1>6, SoleKept DEF IoFails, Answer, client, TypeOK
<1>7. CASE Crash
  BY <1>7, SoleKept DEF Crash, client
<1>8. CASE UNCHANGED vars
  BY <1>8, SoleKept DEF vars
<1> QED
  BY <1>1, <1>2, <1>3, <1>4, <1>5, <1>6, <1>7, <1>8 DEF Next, Proceeds

\* The same for the downloads.
LEMMA ReadKept ==
    ASSUME ReadInv, disk' = disk,
           \A q \in Requests : op'[q] = "download" /\ ~touched'[q] /\ pc'[q] \in {"read", "ok"} =>
              /\ op[q] = "download" /\ ~touched[q] /\ pc[q] = pc'[q]
              /\ path'[q] = path[q] /\ got'[q] = got[q] /\ off'[q] = off[q]
    PROVE  ReadInv'
BY DEF ReadInv

LEMMA NextReadInv ==
    TypeOK /\ LocalsOK /\ ReadInv /\ [Next]_vars => ReadInv'
<1> SUFFICES ASSUME TypeOK, LocalsOK, ReadInv, [Next]_vars
             PROVE  ReadInv'
  OBVIOUS
<1>1. ASSUME NEW r \in Requests, Arrives(r)
      PROVE  ReadInv'
  <2>1. CASE \E x \in Paths : DownloadOpened(r, x)
    <3>1. PICK x \in Paths : DownloadOpened(r, x)
      BY <2>1
    <3>2. /\ got'[r] = Empty /\ off'[r] = 0 /\ pc'[r] = "read" /\ disk' = disk
          /\ \A q \in Requests : q # r =>
                /\ pc'[q] = pc[q] /\ op'[q] = op[q] /\ path'[q] = path[q]
                /\ got'[q] = got[q] /\ off'[q] = off[q] /\ touched'[q] = touched[q]
      BY <3>1 DEF DownloadOpened, Begin, TypeOK
    <3>3. \A i \in Positions : got'[r][i] = Nothing /\ ~(i <= off'[r])
      BY <3>2, BlocksAssumption DEF Empty, Positions
    <3> QED
      BY <3>2, <3>3 DEF ReadInv
  <2>2. CASE ~\E x \in Paths : DownloadOpened(r, x)
    BY <1>1, <2>2, ReadKept
    DEF Arrives, UploadAccepted, UploadRejected, DownloadMissing, FileInfo,
        Begin, TypeOK
  <2> QED
    BY <2>1, <2>2
<1>2. ASSUME NEW r \in Requests, CreateFile(r) \/ WriteBlock(r)
      PROVE  ReadInv'
  <2> SUFFICES ASSUME NEW q \in Requests, op'[q] = "download", ~touched'[q],
                      pc'[q] \in {"read", "ok"}
               PROVE  /\ pc'[q] = "read" =>
                            \A i \in Positions : got'[q][i] =
                               IF i <= off'[q] THEN disk'[path'[q]][i] ELSE Nothing
                      /\ pc'[q] = "ok" => got'[q] = disk'[path'[q]]
    BY DEF ReadInv
  <2>1. /\ op[q] = "download" /\ path'[q] = path[q] /\ got'[q] = got[q]
        /\ pc[r] \in {"create", "write"}
    BY <1>2 DEF CreateFile, WriteBlock, client
  <2>2. q # r
    BY <2>1 DEF LocalsOK
  <2>3. ~touched[q] /\ path[q] # path[r] /\ pc'[q] = pc[q] /\ off'[q] = off[q]
    BY <1>2, <2>2 DEF CreateFile, WriteBlock, TouchOthers, TypeOK
  <2>4. disk'[path[q]] = disk[path[q]]
    BY <1>2, <2>1, <2>3, CreateEmpties, WriteFillsOne DEF LocalsOK
  <2> QED
    BY <2>1, <2>3, <2>4 DEF ReadInv
<1>3. ASSUME NEW r \in Requests, UploadStored(r)
      PROVE  ReadInv'
  BY <1>3, ReadKept DEF UploadStored, Answer, client, history, TypeOK, LocalsOK
<1>4. ASSUME NEW r \in Requests, ReadBlock(r)
      PROVE  ReadInv'
  <2>1. /\ client' = client /\ disk' = disk /\ pc' = pc /\ touched' = touched
        /\ pc[r] = "read" /\ off[r] \in Nat
        /\ \A q \in Requests : q # r => got'[q] = got[q] /\ off'[q] = off[q]
    BY <1>4 DEF ReadBlock, client, history, TypeOK
  <2>2. /\ off'[r] = off[r] + 1
        /\ got'[r] = [got[r] EXCEPT ![off[r] + 1] = disk[path[r]][off[r] + 1]]
    BY <1>4 DEF ReadBlock, TypeOK
  <2>3. ASSUME NEW i \in Positions, op[r] = "download", ~touched[r]
        PROVE  got'[r][i] = IF i <= off[r] + 1 THEN disk[path[r]][i] ELSE Nothing
    <3>1. got[r][i] = IF i <= off[r] THEN disk[path[r]][i] ELSE Nothing
      BY <2>1, <2>3 DEF ReadInv
    <3>2. got[r] \in Images /\ i \in Nat
      BY BlocksAssumption DEF TypeOK, Positions
    <3>3. CASE i = off[r] + 1
      BY <2>1, <2>2, <3>2, <3>3 DEF Images
    <3>4. CASE i # off[r] + 1
      <4>1. got'[r][i] = got[r][i]
        BY <2>2, <3>2, <3>4 DEF Images
      <4>2. i <= off[r] <=> i <= off[r] + 1
        BY <2>1, <3>2, <3>4
      <4> QED
        BY <3>1, <4>1, <4>2
    <3> QED
      BY <3>3, <3>4
  <2> SUFFICES ASSUME NEW q \in Requests, op[q] = "download", ~touched[q]
               PROVE  /\ pc[q] = "read" =>
                            \A i \in Positions : got'[q][i] =
                               IF i <= off'[q] THEN disk[path[q]][i] ELSE Nothing
                      /\ pc[q] = "ok" => got'[q] = disk[path[q]]
    BY <2>1 DEF ReadInv, client
  <2>4. CASE q = r
    BY <2>1, <2>2, <2>3, <2>4
  <2>5. CASE q # r
    BY <2>1, <2>5 DEF ReadInv
  <2> QED
    BY <2>4, <2>5
<1>5. ASSUME NEW r \in Requests, DownloadSent(r)
      PROVE  ReadInv'
  <2>1. /\ client' = client /\ disk' = disk /\ got' = got /\ off' = off
        /\ touched' = touched /\ pc[r] = "read" /\ pc'[r] \in {"ok", "lost"}
        /\ \A q \in Requests : q # r => pc'[q] = pc[q]
    BY <1>5 DEF DownloadSent, Answer, client, history, TypeOK
  <2>2. ASSUME op[r] = "download", ~touched[r]
        PROVE  got[r] = disk[path[r]]
    <3>1. path[r] \in Paths
      BY <2>1 DEF LocalsOK
    <3>2. got[r] \in Images /\ disk[path[r]] \in Images
      BY <3>1 DEF TypeOK
    <3>3. ASSUME NEW i \in Positions
          PROVE  got[r][i] = disk[path[r]][i]
      <4>1. got[r][i] = IF i <= off[r] THEN disk[path[r]][i] ELSE Nothing
        BY <2>1, <2>2 DEF ReadInv
      <4>2. ~(i <= off[r]) => disk[path[r]][i] = Nothing
        BY <1>5, BlocksAssumption DEF DownloadSent, Ahead, TypeOK, Positions
      <4> QED
        BY <4>1, <4>2
    <3> QED
      BY <3>2, <3>3 DEF Images
  <2> QED
    BY <2>1, <2>2 DEF ReadInv, client
<1>6. ASSUME NEW r \in Requests, IoFails(r)
      PROVE  ReadInv'
  BY <1>6, ReadKept DEF IoFails, Answer, client, TypeOK
<1>7. CASE Crash
  BY <1>7, ReadKept DEF Crash, client
<1>8. CASE UNCHANGED vars
  BY <1>8, ReadKept DEF vars
<1> QED
  BY <1>1, <1>2, <1>3, <1>4, <1>5, <1>6, <1>7, <1>8 DEF Next, Proceeds

----------------------------------------------------------------------------
(* The theorems.                                                           *)

LEMMA InitIInv == Init => IInv
<1>1. Init => BurstInv /\ PiecesInv /\ SoleInv /\ ReadInv
  BY DEF Init, BurstInv, PiecesInv, Writers, SoleInv, ReadInv
<1> QED
  BY <1>1, InitTyped, InitFolderArch DEF IInv

THEOREM InductiveInvariant == Spec => []IInv
<1>1. IInv /\ [Next]_vars => IInv'
  BY NextTyped, NextFolderArch, NextBurstInv, NextPiecesInv, NextSoleInv,
     NextReadInv DEF IInv
<1> QED
  BY <1>1, InitIInv, PTL DEF Spec

\* No race, failure or crash brings into a folder's directory a block of a
\* package of another architecture.
THEOREM ArchitecturesKeptApart == Spec => []FolderArch
<1>1. IInv => FolderArch
  BY DEF IInv
<1> QED
  BY <1>1, InductiveInvariant, PTL

\* A file that its uploads have let go of without an error is made, position
\* by position, of what one of them stored, with no hole.
THEOREM UploadsSettle == Spec => []SettledWhole
<1>1. IInv => SettledWhole
  BY DEF IInv, BurstInv, SettledWhole
<1> QED
  BY <1>1, InductiveInvariant, PTL

\* A successful upload that no other one came across is in the file whole.
THEOREM LoneUploadStored == Spec => []SoleUploadStored
<1>1. IInv => SoleUploadStored
  BY DEF IInv, SoleInv, SoleUploadStored
<1> QED
  BY <1>1, InductiveInvariant, PTL

\* A download that no upload came across is the file.
THEOREM LoneDownloadExact == Spec => []UntouchedDownload
<1>1. IInv => UntouchedDownload
  BY DEF IInv, ReadInv, UntouchedDownload
<1> QED
  BY <1>1, InductiveInvariant, PTL

----------------------------------------------------------------------------
(* FileStore implements PackageShelf.                                      *)

LEMMA InMixtures ==
    ASSUME NEW c \in Images, NEW P \in SUBSET Packages, NEW gaps,
           \A i \in Positions : \/ \E p \in P : c[i] = Remainder(p)[i]
                                \/ c[i] \in gaps
    PROVE  c \in Shelf!Mixtures(P, gaps)
BY DEF Shelf!Mixtures, Images

LEMMA InitShelf == Init => Shelf!Init
<1> SUFFICES ASSUME Init PROVE Shelf!Init
  OBVIOUS
<1>1. \A x \in Paths : Writers(x) = {}
  BY DEF Init, Writers
<1>2. \A x \in Paths : disk[x] \in AtFirst(x)
  BY DEF Init, AtFirst
<1> QED
  BY <1>1, <1>2 DEF Shelf!Init, Init

\* A step that leaves to every path its writers, its burst and, unless they
\* hold it, its content, is not seen from outside.
LEMMA ShelfStutters ==
    ASSUME burst' = burst, torn' = torn,
           \A x \in Paths : /\ Writers(x)' = {} <=> Writers(x) = {}
                            /\ Writers(x) = {} => disk'[x] = disk[x]
    PROVE  UNCHANGED Shelf!vars
BY DEF Shelf!vars

LEMMA NextShelf == IInv /\ IInv' /\ [Next]_vars => [Shelf!Next]_(Shelf!vars)
<1> SUFFICES ASSUME IInv, IInv', [Next]_vars
             PROVE  [Shelf!Next]_(Shelf!vars)
  OBVIOUS
<1> USE DEF IInv
<1>1. ASSUME NEW r \in Requests, Arrives(r)
      PROVE  UNCHANGED Shelf!vars
  <2>1. \A x \in Paths : Writers(x)' = Writers(x)
    BY <1>1 DEF Arrives, UploadAccepted, UploadRejected, DownloadOpened,
                DownloadMissing, FileInfo, Begin, Writers, TypeOK
  <2> QED
    BY <1>1, <2>1, ShelfStutters
    DEF Arrives, UploadAccepted, UploadRejected, DownloadOpened,
        DownloadMissing, FileInfo, Begin
<1>2. ASSUME NEW r \in Requests, CreateFile(r)
      PROVE  \E x \in Paths, p \in Packages : Shelf!Open(x, p)
  <2>x. PICK x \in Paths : x = path[r]
    BY <1>2, CreateEmpties
  <2>1. /\ r \in Writers(x)'
        /\ \A y \in Paths : y # x => Writers(y)' = Writers(y) /\ disk'[y] = disk[y]
    BY <1>2, <2>x, CreateEmpties DEF CreateFile, Writers, client, TypeOK
  <2>2. disk'[x] = Empty /\ Shelf!Blank = Empty
    BY <1>2, <2>x DEF CreateFile, Shelf!Blank, Empty, TypeOK
  <2>3. /\ burst' = [burst EXCEPT ![x] =
                       {pkg[r]} \cup (IF Writers(x) = {} THEN {} ELSE burst[x])]
        /\ torn' = IF Writers(x) = {} THEN torn \ {x} ELSE torn
    BY <1>2, <2>x DEF CreateFile
  <2>4. PICK p \in Packages : p = pkg[r]
    BY <1>2, CreateEmpties
  <2>5. Shelf!Open(x, p)
    BY <2>1, <2>2, <2>3, <2>4 DEF Shelf!Open
  <2> QED
    BY <2>5
<1>3. ASSUME NEW r \in Requests, WriteBlock(r)
      PROVE  UNCHANGED Shelf!vars
  <2>1. /\ burst' = burst /\ torn' = torn /\ r \in Writers(path[r])
        /\ \A x \in Paths : Writers(x)' = Writers(x)
    BY <1>3 DEF WriteBlock, Writers, client
  <2>2. \A x \in Paths : x # path[r] => disk'[x] = disk[x]
    BY <1>3, WriteFillsOne
  <2> QED
    BY <2>1, <2>2, ShelfStutters
<1>4. ASSUME NEW r \in Requests, UploadStored(r)
      PROVE  UNCHANGED Shelf!vars \/ \E x \in Paths : Shelf!Settle(x)
  <2>x. PICK x \in Paths : x = path[r]
    BY <1>4 DEF UploadStored, LocalsOK
  <2>1. /\ burst' = burst /\ torn' = torn /\ disk' = disk
        /\ r \in Writers(x) /\ Writers(x)' = Writers(x) \ {r}
        /\ \A y \in Paths : y # x => Writers(y)' = Writers(y)
        /\ pkg[r] \in burst[x]
    BY <1>4, <2>x DEF UploadStored, Answer, Writers, client, history, TypeOK, LocalsOK
  <2>2. CASE Writers(x)' # {}
    BY <2>1, <2>2, ShelfStutters
  <2>3. CASE Writers(x)' = {}
    <3> DEFINE gaps == IF x \in torn THEN Shelf!Damaged ELSE Shelf!Whole
    <3>1. \A i \in Positions : \/ \E p \in burst[x] : disk[x][i] = Remainder(p)[i]
                               \/ disk[x][i] \in gaps
      <4>1. CASE x \in torn
        BY <2>1, <4>1 DEF PiecesInv, Shelf!Damaged
      <4>2. CASE x \notin torn
        BY <2>1, <2>3, <4>2 DEF BurstInv
      <4> QED
        BY <4>1, <4>2
    <3>2. disk[x] \in Shelf!Mixtures(burst[x], gaps)
      <4> disk[x] \in Images /\ burst[x] \in SUBSET Packages
        BY DEF TypeOK
      <4> HIDE DEF gaps
      <4> QED
        BY <3>1, InMixtures
    <3>3. Shelf!Settle(x)
      BY <2>1, <2>3, <3>2 DEF Shelf!Settle
    <3> QED
      BY <3>3
  <2> QED
    BY <2>2, <2>3
<1>5. ASSUME NEW r \in Requests, ReadBlock(r) \/ DownloadSent(r)
      PROVE  UNCHANGED Shelf!vars
  <2>1. \A x \in Paths : Writers(x)' = Writers(x)
    BY <1>5 DEF ReadBlock, DownloadSent, Answer, Writers, client, TypeOK
  <2> QED
    BY <1>5, <2>1, ShelfStutters DEF ReadBlock, DownloadSent, history
\* What a file being written holds is what a torn burst may leave.
<1>6. \A x \in Paths : Writers(x) # {} =>
         disk[x] \in Shelf!Mixtures(burst[x], Shelf!Damaged)
  BY InMixtures DEF PiecesInv, Shelf!Damaged, TypeOK
<1>7. ASSUME NEW r \in Requests, IoFails(r)
      PROVE  UNCHANGED Shelf!vars \/ \E X \in SUBSET Paths : \E Y \in SUBSET X : Shelf!Tear(X, Y)
  <2>1. burst' = burst /\ disk' = disk /\ path' = path
    BY <1>7 DEF IoFails, client
  <2>2. CASE pc[r] # "write"
    <3>1. \A x \in Paths : Writers(x)' = Writers(x)
      BY <1>7, <2>1, <2>2 DEF IoFails, Answer, Writers, TypeOK
    <3>2. torn' = torn
      BY <1>7, <2>2 DEF IoFails
    <3> QED
      BY <2>1, <3>1, <3>2, ShelfStutters
  <2>3. CASE pc[r] = "write"
    <3>x. PICK x \in Paths : x = path[r]
      BY <1>7, <2>3 DEF LocalsOK
    <3>1. /\ r \in Writers(x) /\ Writers(x)' = Writers(x) \ {r}
          /\ \A y \in Paths : y # x => Writers(y)' = Writers(y)
          /\ torn' = torn \cup {x}
      BY <1>7, <2>1, <2>3, <3>x DEF IoFails, Answer, Writers, TypeOK, LocalsOK
    <3>2. CASE Writers(x)' = {}
      <4>1. Shelf!Tear({x}, {x})
        BY <2>1, <3>1, <3>2, <1>6 DEF Shelf!Tear
      <4> QED
        BY <3>1, <4>1
    <3>3. CASE Writers(x)' # {}
      <4>1. Shelf!Tear({x}, {})
        BY <2>1, <3>1, <3>3 DEF Shelf!Tear
      <4> QED
        BY <3>1, <4>1
    <3> QED
      BY <3>2, <3>3
  <2> QED
    BY <2>2, <2>3
<1>8. ASSUME Crash
      PROVE  \E X \in SUBSET Paths : \E Y \in SUBSET X : Shelf!Tear(X, Y)
  <2>x. PICK X \in SUBSET Paths : X = {x \in Paths : Writers(x) # {}}
    OBVIOUS
  <2>1. /\ burst' = burst /\ disk' = disk /\ torn' = torn \cup X
        /\ \A x \in Paths : Writers(x)' = {}
    BY <1>8, <2>x DEF Crash, Writers, client, TypeOK
  <2>2. Shelf!Tear(X, X)
    BY <2>x, <2>1, <1>6 DEF Shelf!Tear
  <2> QED
    BY <2>2
<1>9. CASE UNCHANGED vars
  BY <1>9, ShelfStutters DEF vars, Writers
<1> QED
  BY <1>1, <1>2, <1>3, <1>4, <1>5, <1>7, <1>8, <1>9
  DEF Next, Proceeds, Shelf!Next

\* The file store is a shelf: seen from outside, its files are busy or whole
\* mixtures of their last burst, and change only through uploads.
THEOREM StoreImplementsShelf == Spec => ImplementsShelf
<1>1. IInv /\ IInv' /\ [Next]_vars => [Shelf!Next]_(Shelf!vars)
  BY NextShelf
<1> QED
  BY <1>1, InitShelf, InductiveInvariant, PTL DEF Spec, Shelf!Spec, ImplementsShelf
=============================================================================
