--------------------------- MODULE Uploads_proofs ---------------------------
(***************************************************************************)
(* Proofs about uploads and their downloads while keys rotate, for any number *)
(* of uploads, requests, downloads, crashes and batches.                   *)
(***************************************************************************)
EXTENDS Uploads, FiniteSetTheorems, TLAPS

\* Every set of naturals that is not empty has a least element.
LEMMA LeastNatural ==
    ASSUME NEW S \in SUBSET Nat, S # {}
    PROVE  \E m \in S : \A k \in S : m <= k
<1> DEFINE Less == OpToRel(<, Nat)
<1>1. IsWellFoundedOn(Less, Nat)
  BY Zenon, NatLessThanWellFounded
<1>2. \A j, k \in Nat : j < k => <<j, k>> \in Less
  BY Zenon DEF OpToRel
<1> HIDE DEF Less
<1>3. PICK m \in S : \A k \in S : <<k, m>> \notin Less
  BY Zenon, <1>1, WFMin
<1>4. ASSUME NEW k \in S PROVE m <= k
  <2>1. m \in Nat /\ k \in Nat
    BY Zenon
  <2>2. ~(k < m)
    BY Zenon, <1>2, <1>3, <2>1
  <2> QED BY <2>1, <2>2
<1> QED BY Zenon, <1>4

\* A set of naturals with a bound has a greatest element.
LEMMA GreatestNatural ==
    ASSUME NEW S \in SUBSET Nat, S # {}, NEW n \in Nat, \A s \in S : s <= n
    PROVE  \E m \in S : \A k \in S : k <= m
<1> DEFINE T == {n - s : s \in S}
<1>1. T \in SUBSET Nat /\ T # {}
  <2>1. \A s \in S : n - s \in Nat
    OBVIOUS
  <2> QED BY Zenon, <2>1
<1>2. PICK d \in T : \A e \in T : d <= e
  BY Zenon, <1>1, LeastNatural
<1>3. PICK m \in S : d = n - m
  BY Zenon
<1>4. ASSUME NEW k \in S PROVE k <= m
  <2>1. d <= n - k
    BY Zenon, <1>2
  <2> QED BY <1>3, <2>1
<1> QED BY Zenon, <1>3, <1>4

-----------------------------------------------------------------------------
(***************************************************************************)
(* Uploads.                                                                *)
(*                                                                         *)
(* The argument: row and file agree except while the tool has replaced the *)
(* file and not committed the row (RowSound); a store request and the tool *)
(* hold the rows of the files they touch (StoreSound, BatchSound); and a file *)
(* only changes to none or to one under the active key (FilesMove), so the *)
(* status scan and a download in flight are at most one key behind.        *)
(***************************************************************************)

StoreRequest == [pc : {"streaming", "linked", "unlinking"}, file : Files, key : {OldKey, NewKey}]
Download ==
  [pc : {"header", "stream"}, file : Files, version : {0, 1}, key : {OldKey, NewKey, Absent},
   seen : StoredFile, swapped : BOOLEAN]
ToolRead == [version : {0, 1}, key : {OldKey, NewKey, Absent}]
ToolSelecting == [pc : {"select"}, rotate : BOOLEAN, target : {OldKey, NewKey}, cursor : Nat]
ToolBatch ==
  [pc : {"batch"}, rotate : BOOLEAN, target : {OldKey, NewKey}, cursor : Nat, todo : SUBSET Files,
   rows : [RowsLocked -> ToolRead]]
StatusScan == [pc : {"scan"}, rows : [Files -> UploadRow \cup {Absent}], todo : SUBSET Files, clean : BOOLEAN]
BothKeys == [keys |-> {OldKey, NewKey}, active |-> NewKey]

UploadsTypeOK ==
  /\ urow \in [Files -> UploadRow \cup {Absent}]
  /\ ufile \in [Files -> StoredFile \cup {Absent}]
  /\ ulock \in [Files -> Stores \cup {"tool", Absent}]
  /\ ustore \in [Stores -> StoreRequest \cup {Idle}]
  /\ udown \in [Downs -> Download \cup {Idle}]
  /\ utool = Idle \/ utool \in ToolSelecting \/ utool \in ToolBatch
  /\ ustat = Idle \/ ustat = [pc |-> "clean"] \/ ustat \in StatusScan
  /\ uring \in {[keys |-> {OldKey, NewKey}, active |-> OldKey], BothKeys, [keys |-> {NewKey}, active |-> NewKey]}
  /\ uallow \in BOOLEAN

\* Row and file agree, except for a file that was replaced and whose row is not
\* committed. A row that is not public and has a version has a file: the tool
\* found one left behind by a store request that died.
RowSound(u) ==
  /\ ufile[u] # Absent => u \in Rows
  /\ u \in Rows /\ urow[u].public => ufile[u] # Absent \/ u \in ulost
  /\ u \in Rows /\ ~urow[u].public /\ urow[u].version = 1 => ufile[u] # Absent
  /\ u \in Rows /\ urow[u].version = 1 => urow[u].key # Absent
  /\ u \in Rows /\ ufile[u] # Absent /\ u \notin uswapped /\ urow[u].version = 1 => urow[u].key = ufile[u].key

\* A store request has its row locked, unfinished, and once linked its own file;
\* the one whose answer was lost has committed.
StoreSound(r) ==
  LET c == ustore[r] IN
  /\ c.pc \in {"streaming", "linked"} =>
       /\ ulock[c.file] = r /\ c.file \in Rows
       /\ ~urow[c.file].public /\ urow[c.file].version = 0 /\ c.key = uring.active
  /\ c.pc = "linked" => ufile[c.file] = [key |-> c.key, body |-> r]
  /\ c.pc = "unlinking" => c.file \in Rows /\ urow[c.file].public /\ c.file \in ulost

\* The tool holds the rows of its batch; what it will commit is what it has read
\* or, for a file it has visited, what it found or wrote there.
BatchSound(u) ==
  /\ u \in Rows
  /\ u \in utool.todo => utool.rows[u].version = urow[u].version /\ utool.rows[u].key = urow[u].key
  /\ utool.rows[u].version = 1 => utool.rows[u].key # Absent
  /\ u \notin utool.todo /\ utool.rows[u].version = 1 =>
       /\ ufile[u] # Absent => utool.rows[u].key = ufile[u].key
       /\ ~urow[u].public => ufile[u] # Absent
ToolSound ==
  /\ utool # Idle => utool.target = uring.active
  /\ utool.pc # "batch" => RowsLocked = {}
  /\ utool.pc = "batch" => RowsLocked # {} /\ utool.todo \subseteq RowsLocked /\ \A u \in RowsLocked : BatchSound(u)

\* What the status command has found clean stays clean: nothing writes the old
\* key once it is not the active one.
OldFree(u) == ufile[u] # Absent => ufile[u].key # OldKey
ScanSound ==
  /\ ustat # Idle => uring = BothKeys
  /\ ustat.pc = "scan" /\ ustat.clean => \A u \in Files \ ustat.todo : OldFree(u)
  /\ ustat.pc = "clean" => \A u \in Files : OldFree(u)

\* A file only changes by being removed or by being written under the active key,
\* as long as the process that began the download lives.
DownSound(d) ==
  LET c == udown[d]
      f == ufile[c.file]
  IN  c # Idle =>
        /\ f = c.seen \/ f = Absent \/ f.key = uring.active
        /\ c.pc = "header" /\ ~c.swapped /\ c.version = 1 => c.key = c.seen.key /\ c.key # Absent
        /\ c.pc = "stream" => c.key = c.seen.key \/ (c.key = uring.active /\ (f = Absent \/ f.key = uring.active))

UploadsInv ==
  /\ UploadsTypeOK
  /\ \A u \in Files : RowSound(u)
  /\ \A r \in Stores : StoreSound(r)
  /\ ToolSound /\ ScanSound /\ KeyRemovalSafe
  /\ \A d \in Downs : DownSound(d)
  /\ ushown \subseteq {u \in Rows : urow[u].public}
  /\ ualarm = {}

\* The ring has one of three states, and its active key is in it.
LEMMA RingUp ==
  ASSUME UploadsTypeOK
  PROVE  /\ uring.active \in {OldKey, NewKey} /\ uring.active \in uring.keys /\ OldKey # NewKey
         /\ uring = BothKeys => uring.active = NewKey
         /\ uring.active = OldKey => uring.keys = {OldKey, NewKey}
         /\ OldKey \in uring.keys /\ uring.active = NewKey => uring = BothKeys
BY DEF UploadsTypeOK, BothKeys, OldKey, NewKey

\* No request under way is idle.
LEMMA IdleFacts ==
  /\ Idle.pc = "idle" /\ Idle \notin StoreRequest /\ Idle \notin Download
  /\ Idle \notin ToolSelecting /\ Idle \notin StatusScan
  /\ \A c \in StoreRequest : c.pc \in {"streaming", "linked", "unlinking"}
  /\ \A c \in Download : c.pc \in {"header", "stream"}
<1>1. Idle.pc = "idle"
  BY Zenon DEF Idle
<1>2. /\ \A c \in StoreRequest : c.pc \in {"streaming", "linked", "unlinking"}
      /\ \A c \in Download : c.pc \in {"header", "stream"}
      /\ \A c \in ToolSelecting : c.pc = "select"
      /\ \A c \in StatusScan : c.pc = "scan"
  BY Zenon DEF StoreRequest, Download, ToolSelecting, StatusScan
<1> QED BY Zenon, <1>1, <1>2

\* The invariant holds of the rows and files a behaviour starts from.
LEMMA InitUploads == UploadsInit => UploadsInv
<1> SUFFICES ASSUME UploadsInit PROVE UploadsInv
  BY Zenon
<1>1. urow \in [Files -> UploadRow \cup {Absent}]
  <2>1. /\ [public |-> TRUE, version |-> 0, key |-> Absent] \in UploadRow
        /\ [public |-> TRUE, version |-> 1, key |-> OldKey] \in UploadRow
    BY Zenon DEF UploadRow
  <2> QED BY Zenon, <2>1 DEF UploadsInit
<1>2. \A u \in Files : urow[u] # Absent => /\ urow[u].public /\ urow[u].key \in {OldKey, Absent}
                                            /\ (urow[u].version = 1 => urow[u].key = OldKey)
  BY DEF UploadsInit
<1>3. \A u \in Files : IF urow[u] = Absent THEN ufile[u] = Absent
                       ELSE ufile[u] \in StoredFile /\ ufile[u].key = urow[u].key
  BY Zenon, <1>2 DEF UploadsInit, StoredFile
<1>4. ufile \in [Files -> StoredFile \cup {Absent}]
  BY Zenon, <1>3 DEF UploadsInit
<1>5. UploadsTypeOK
  BY Zenon, <1>1, <1>4 DEF UploadsInit, UploadsTypeOK
<1>6. \A u \in Files : RowSound(u)
  BY Zenon, <1>2, <1>3, UploadsConstants DEF RowSound, Rows
<1>7. (\A r \in Stores : StoreSound(r)) /\ \A d \in Downs : DownSound(d)
  BY Zenon, IdleFacts DEF StoreSound, DownSound, UploadsInit
<1>8. ToolSound
  BY Zenon, IdleFacts, UploadsConstants DEF ToolSound, UploadsInit, RowsLocked
<1>9. ScanSound
  BY Zenon, IdleFacts DEF ScanSound, UploadsInit
<1>10. KeyRemovalSafe
  BY Zenon, <1>2, <1>3 DEF KeyRemovalSafe, UploadsInit
<1> QED BY Zenon, <1>5, <1>6, <1>7, <1>8, <1>9, <1>10 DEF UploadsInv, UploadsInit

\* A file that is not as before was removed or written under the active key.
FilesMove ==
  \A u \in Files : \/ ufile'[u] = ufile[u] \/ ufile'[u] = Absent
                   \/ ufile'[u] \in StoredFile /\ ufile'[u].key = uring.active

\* What such a step means for the status scan, the keys and the downloads.
LEMMA FilesMoved ==
  ASSUME UploadsInv, uring' = uring, uallow' = uallow, ufile' = [u \in Files |-> ufile'[u]], FilesMove
  PROVE  /\ ufile' \in [Files -> StoredFile \cup {Absent}]
         /\ ustat' = ustat => ScanSound'
         /\ KeyRemovalSafe'
         /\ udown' = udown => \A d \in Downs : DownSound(d)'
<1> USE RingUp DEF UploadsInv
<1>1. ufile' \in [Files -> StoredFile \cup {Absent}]
  BY Zenon DEF FilesMove, UploadsTypeOK
<1>2. ASSUME ustat' = ustat PROVE ScanSound'
  <2>1. ASSUME NEW u \in Files, uring = BothKeys, OldFree(u) PROVE OldFree(u)'
    BY Zenon, <2>1 DEF FilesMove, OldFree
  <2> QED BY Zenon, <1>2, <2>1, IdleFacts DEF ScanSound, UploadsTypeOK
<1>3. KeyRemovalSafe'
  BY Zenon DEF KeyRemovalSafe, FilesMove
<1>4. ASSUME udown' = udown, NEW d \in Downs, udown[d] # Idle PROVE DownSound(d)'
  <2> DEFINE c == udown[d]
             f == ufile[c.file]
             g == ufile'[c.file]
  <2>1. c.file \in Files
    BY Zenon, <1>4 DEF UploadsTypeOK, Download
  <2>2. g = f \/ g = Absent \/ g.key = uring.active
    BY Zenon, <2>1 DEF FilesMove
  <2>3. /\ f = c.seen \/ f = Absent \/ f.key = uring.active
        /\ c.pc = "header" /\ ~c.swapped /\ c.version = 1 => c.key = c.seen.key /\ c.key # Absent
        /\ c.pc = "stream" => c.key = c.seen.key \/ (c.key = uring.active /\ (f = Absent \/ f.key = uring.active))
    BY Zenon, <1>4 DEF DownSound
  <2>4. udown'[d] = c
    BY Zenon, <1>4
  <2> HIDE DEF c, f, g
  <2>5. /\ g = c.seen \/ g = Absent \/ g.key = uring.active
        /\ c.pc = "stream" => c.key = c.seen.key \/ (c.key = uring.active /\ (g = Absent \/ g.key = uring.active))
    BY Zenon, <2>2, <2>3
  <2> QED BY Zenon, <2>3, <2>4, <2>5 DEF DownSound, c, g
<1>5. ASSUME udown' = udown, NEW d \in Downs PROVE DownSound(d)'
  BY Zenon, <1>4, <1>5 DEF DownSound
<1> QED BY Zenon, <1>1, <1>2, <1>3, <1>5

\* A row is one of the uploads.
LEMMA RowFacts ==
  ASSUME UploadsInv, NEW u \in Rows
  PROVE  u \in Files /\ urow[u] \in UploadRow /\ urow[u].public \in BOOLEAN
BY Zenon DEF UploadsInv, UploadsTypeOK, Rows, UploadRow

\* What is known of the row of a store under way.
LEMMA StoreFacts ==
  ASSUME UploadsInv, NEW r \in Stores, ustore[r].pc \in {"streaming", "linked", "unlinking"}
  PROVE  /\ ustore[r] \in StoreRequest /\ ustore[r].file \in Files /\ ustore[r].key \in {OldKey, NewKey}
         /\ ustore[r].file \in Rows /\ (ustore[r].pc # "unlinking" => ustore[r].file \notin RowsLocked)
         /\ urow[ustore[r].file] \in UploadRow
<1>1. ustore[r] \in StoreRequest
  BY Zenon, IdleFacts DEF UploadsInv, UploadsTypeOK
<1>2. ustore[r].file \in Files /\ ustore[r].key \in {OldKey, NewKey}
  BY Zenon, <1>1 DEF StoreRequest
<1>3. ustore[r].file \in Rows
  BY Zenon DEF UploadsInv, StoreSound
<1>4. ustore[r].pc # "unlinking" => ulock[ustore[r].file] = r /\ r # "tool"
  BY Zenon, UploadsConstants DEF UploadsInv, StoreSound
<1> QED BY Zenon, <1>1, <1>2, <1>3, <1>4, RowFacts DEF RowsLocked

\* Two requests that hold their rows hold different ones, and the one whose
\* answer was lost has a finalized row.
LEMMA Apart ==
  ASSUME UploadsInv, NEW r \in Stores, ustore[r].pc \in {"streaming", "linked"},
         NEW q \in Stores, q # r, ustore[q].pc \in {"streaming", "linked", "unlinking"}
  PROVE  ustore[q].file # ustore[r].file
<1>1. ulock[ustore[r].file] = r /\ ~urow[ustore[r].file].public
  BY Zenon DEF UploadsInv, StoreSound
<1>2. \/ ulock[ustore[q].file] = q
      \/ urow[ustore[q].file].public
  BY Zenon DEF UploadsInv, StoreSound
<1> QED BY Zenon, <1>1, <1>2

\* The tool does not notice a step that leaves its rows and their files alone,
\* except for the removal of a finalized file.
LEMMA ToolKept ==
  ASSUME UploadsInv, utool' = utool, uring' = uring, RowsLocked' = RowsLocked,
         \A u \in RowsLocked : /\ urow'[u] = urow[u]
                               /\ ufile'[u] = ufile[u] \/ (ufile'[u] = Absent /\ urow[u].public)
  PROVE  ToolSound' /\ (utool = Idle \/ utool \in ToolSelecting \/ utool \in ToolBatch)'
<1>1. (utool = Idle \/ utool \in ToolSelecting \/ utool \in ToolBatch)'
  BY Zenon DEF UploadsInv, UploadsTypeOK, ToolSelecting, ToolBatch
<1>2. ASSUME utool.pc = "batch", NEW u \in RowsLocked PROVE BatchSound(u)'
  <2>1. BatchSound(u) /\ u \in Files
    BY Zenon, <1>2 DEF UploadsInv, ToolSound, RowsLocked
  <2>2. u \in Rows'
    BY Zenon, <2>1 DEF BatchSound, Rows
  <2> QED BY Zenon, <2>1, <2>2 DEF BatchSound
<1>3. ToolSound'
  BY Zenon, <1>2 DEF UploadsInv, ToolSound
<1> QED BY Zenon, <1>1, <1>3

\* Nothing but ushown and a new, empty row.
LEMMA CreateStep == ASSUME UploadsInv, NEW u \in Files, create_upload(u) PROVE UploadsInv'
<1> DEFINE new == [public |-> FALSE, version |-> 0, key |-> Absent]
<1>1. new \in UploadRow /\ ~new.public /\ new.version = 0
  BY Zenon DEF UploadRow
<1> HIDE DEF new
<1>2. /\ urow[u] = Absent /\ urow' = [urow EXCEPT ![u] = new]
      /\ UNCHANGED <<ufile, ulock, ustore, utool, ustat, uring, uallow, uswapped, udown, ulease, ualarm, ushown, ulost>>
  BY Zenon DEF create_upload, toolVars, downVars, new
<1>3. urow' \in [Files -> UploadRow \cup {Absent}] /\ urow'[u] = new /\ \A v \in Files \ {u} : urow'[v] = urow[v]
  BY Zenon, <1>1, <1>2 DEF UploadsInv, UploadsTypeOK
<1>4. Rows' = Rows \cup {u} /\ u \notin Rows /\ ufile[u] = Absent
  BY ZenonT(30), <1>1, <1>2, <1>3, UploadsConstants DEF Rows, UploadsInv, RowSound
<1>5. \A v \in Rows : urow'[v] = urow[v] /\ v \in Rows' /\ v \in Files
  BY Zenon, <1>3, <1>4 DEF Rows
<1>6. /\ ufile' = [v \in Files |-> ufile'[v]] /\ FilesMove
  BY Zenon, <1>2 DEF FilesMove, UploadsInv, UploadsTypeOK
<1>7. ScanSound' /\ KeyRemovalSafe' /\ \A d \in Downs : DownSound(d)'
  BY Zenon, <1>2, <1>6, FilesMoved
<1>8. ToolSound' /\ (utool = Idle \/ utool \in ToolSelecting \/ utool \in ToolBatch)'
  <2>1. RowsLocked' = RowsLocked
    BY Zenon, <1>2 DEF RowsLocked
  <2>2. RowsLocked \subseteq Rows
    BY Zenon DEF UploadsInv, ToolSound, BatchSound
  <2> QED BY Zenon, <1>2, <1>5, <2>1, <2>2, ToolKept
<1>9. \A v \in Files : RowSound(v)'
  BY <1>1, <1>2, <1>3, <1>4, <1>5 DEF UploadsInv, RowSound
<1>10. \A r \in Stores : StoreSound(r)'
  BY <1>2, <1>5 DEF UploadsInv, StoreSound
<1>11. UploadsTypeOK'
  BY Zenon, <1>2, <1>3, <1>8 DEF UploadsInv, UploadsTypeOK
<1>12. ushown' \subseteq {v \in Rows : urow[v].public}'
  BY Zenon, <1>2, <1>5 DEF UploadsInv
<1> QED BY Zenon, <1>2, <1>7, <1>8, <1>9, <1>10, <1>11, <1>12 DEF UploadsInv

\* Showing or hiding an upload keeps the invariant.
LEMMA ShownStep ==
  ASSUME UploadsInv, NEW u \in Files, _normalize_attachments(u) \/ Hide(u) PROVE UploadsInv'
<1>1. UNCHANGED <<urow, ufile, ulock, ustore, utool, ustat, uring, uallow, uswapped, udown, ulease, ualarm, ulost>>
  BY Zenon DEF _normalize_attachments, Hide, storeVars, toolVars, downVars
<1>2. Rows' = Rows /\ RowsLocked' = RowsLocked
  BY Zenon, <1>1 DEF Rows, RowsLocked
<1>3. ushown' \subseteq {v \in Rows : urow[v].public}
  BY Zenon DEF _normalize_attachments, Hide, UploadsInv
<1>4. ushown' \subseteq {v \in Rows : urow[v].public}'
  BY Zenon, <1>1, <1>2, <1>3
<1>5. UploadsTypeOK'
  BY Zenon, <1>1, <1>2 DEF UploadsInv, UploadsTypeOK, ToolSelecting, ToolBatch
<1>6. (\A v \in Files : RowSound(v)') /\ \A r \in Stores : StoreSound(r)'
  BY Zenon, <1>1, <1>2 DEF UploadsInv, RowSound, StoreSound
<1>7. ToolSound' /\ ScanSound' /\ KeyRemovalSafe'
  BY Zenon, <1>1, <1>2 DEF UploadsInv, ToolSound, BatchSound, ScanSound, OldFree, KeyRemovalSafe
<1>8. \A d \in Downs : DownSound(d)'
  BY Zenon, <1>1 DEF UploadsInv, DownSound
<1> QED BY Zenon, <1>1, <1>4, <1>5, <1>6, <1>7, <1>8 DEF UploadsInv

\* A step of request r on upload u: it is enough to look at r and u.
LEMMA StoreMoves ==
  ASSUME UploadsInv, NEW r \in Stores, NEW u \in Rows, u \notin RowsLocked,
         UNCHANGED <<utool, ustat, uring, uallow, uswapped, udown, ualarm, ushown>>, ulost \subseteq ulost',
         urow' \in [Files -> UploadRow \cup {Absent}], urow'[u] # Absent, urow[u].public => urow'[u].public,
         ufile' \in [Files -> StoredFile \cup {Absent}],
         ufile'[u] = ufile[u] \/ ufile'[u] = Absent \/ ufile'[u].key = uring.active,
         ulock' \in [Files -> Stores \cup {"tool", Absent}], ulock'[u] # "tool",
         ustore' \in [Stores -> StoreRequest \cup {Idle}],
         \A v \in Files \ {u} : urow'[v] = urow[v] /\ ufile'[v] = ufile[v] /\ ulock'[v] = ulock[v],
         \A q \in Stores \ {r} : ustore'[q] = ustore[q] /\ (ustore[q] # Idle => ustore[q].file # u),
         RowSound(u)', StoreSound(r)'
  PROVE  UploadsInv'
<1>1. u \in Files /\ Rows' = Rows
  BY ZenonT(30) DEF Rows
<1>2. RowsLocked' = RowsLocked
  BY Zenon, <1>1 DEF RowsLocked
<1>3. /\ ufile' = [v \in Files |-> ufile'[v]] /\ FilesMove
  <2>1. ufile' = [v \in Files |-> ufile'[v]]
    BY Zenon
  <2>2. ASSUME NEW v \in Files
        PROVE  \/ ufile'[v] = ufile[v] \/ ufile'[v] = Absent
               \/ ufile'[v] \in StoredFile /\ ufile'[v].key = uring.active
    BY Zenon
  <2> QED BY Zenon, <2>1, <2>2 DEF FilesMove
<1>4. ScanSound' /\ KeyRemovalSafe' /\ \A d \in Downs : DownSound(d)'
  BY Zenon, <1>3, FilesMoved
<1>5. ToolSound' /\ (utool = Idle \/ utool \in ToolSelecting \/ utool \in ToolBatch)'
  <2>1. RowsLocked \subseteq Files \ {u}
    BY Zenon DEF RowsLocked
  <2> QED BY Zenon, <1>2, <2>1, ToolKept
<1>6. UploadsTypeOK'
  BY Zenon, <1>5 DEF UploadsInv, UploadsTypeOK
<1>7. ASSUME NEW v \in Files PROVE RowSound(v)'
  <2>1. CASE v = u
    BY Zenon, <2>1
  <2>2. CASE v # u
    BY <1>1, <2>2 DEF UploadsInv, RowSound
  <2> QED BY Zenon, <2>1, <2>2
<1>8. ASSUME NEW q \in Stores PROVE StoreSound(q)'
  <2>1. CASE q = r
    BY Zenon, <2>1
  <2>2. CASE q # r /\ ustore[q] = Idle
    BY Zenon, <2>2, IdleFacts DEF StoreSound
  <2>3. CASE q # r /\ ustore[q] # Idle
    <3>1. ustore'[q] = ustore[q] /\ ustore[q].file \in Files \ {u} /\ StoreSound(q)
      BY ZenonT(30), <2>3 DEF UploadsInv, UploadsTypeOK, StoreRequest
    <3> QED BY ZenonT(30), <1>1, <3>1 DEF StoreSound
  <2> QED BY Zenon, <2>1, <2>2, <2>3
<1>9. ushown' \subseteq {v \in Rows : urow[v].public}'
  <2>1. \A v \in Rows : urow[v].public => urow'[v].public
    BY Zenon DEF Rows
  <2> QED BY Zenon, <1>1, <2>1 DEF UploadsInv
<1> QED BY Zenon, <1>4, <1>5, <1>6, <1>7, <1>8, <1>9 DEF UploadsInv

\* A store locks a pending row.
LEMMA BeginStep ==
  ASSUME UploadsInv, NEW r \in Stores, NEW u \in Files, StoreBegin(r, u) PROVE UploadsInv'
<1> DEFINE c == [pc |-> "streaming", file |-> u, key |-> uring.active]
<1>1. /\ ustore[r] = Idle /\ ulock[u] = Absent /\ u \in Rows /\ ~urow[u].public /\ ufile[u] = Absent
      /\ ulock' = [ulock EXCEPT ![u] = r] /\ ustore' = [ustore EXCEPT ![r] = c]
      /\ UNCHANGED <<urow, ufile, utool, ustat, uring, uallow, uswapped, udown, ualarm, ushown, ulost>>
  BY Zenon DEF StoreBegin, toolVars, downVars
<1>2. c \in StoreRequest /\ c.pc = "streaming" /\ c.file = u /\ c.key = uring.active
  BY Zenon, RingUp DEF UploadsInv, StoreRequest
<1> HIDE DEF c
<1>3. u \notin RowsLocked
  BY Zenon, <1>1, UploadsConstants DEF RowsLocked
<1>4. /\ ulock' \in [Files -> Stores \cup {"tool", Absent}] /\ ulock'[u] = r /\ r # "tool"
      /\ \A v \in Files \ {u} : ulock'[v] = ulock[v]
  BY Zenon, <1>1, UploadsConstants DEF UploadsInv, UploadsTypeOK
<1>5. /\ ustore' \in [Stores -> StoreRequest \cup {Idle}] /\ ustore'[r] = c
      /\ \A q \in Stores \ {r} : ustore'[q] = ustore[q]
  BY Zenon, <1>1, <1>2 DEF UploadsInv, UploadsTypeOK
<1>6. ASSUME NEW q \in Stores, ustore[q] # Idle PROVE ustore[q].file # u
  <2>1. ustore[q].pc \in {"streaming", "linked", "unlinking"}
    BY Zenon, <1>6, IdleFacts DEF UploadsInv, UploadsTypeOK
  <2>2. ulock[ustore[q].file] = q \/ urow[ustore[q].file].public
    BY Zenon, <2>1 DEF UploadsInv, StoreSound
  <2> QED BY Zenon, <1>1, <2>2, UploadsConstants
<1>7. urow[u] \in UploadRow /\ urow[u].version \in {0, 1} /\ RowSound(u) /\ Rows' = Rows
  BY Zenon, <1>1, RowFacts DEF UploadRow, UploadsInv, Rows
<1>8. RowSound(u)'
  BY Zenon, <1>1, <1>7 DEF RowSound
<1>9. urow[u].version = 0
  BY Zenon, <1>1, <1>7 DEF RowSound
<1>10. StoreSound(r)'
  BY Zenon, <1>1, <1>2, <1>4, <1>5, <1>7, <1>9 DEF StoreSound
<1>11. urow' \in [Files -> UploadRow \cup {Absent}] /\ urow'[u] # Absent /\ ufile' \in [Files -> StoredFile \cup {Absent}]
  BY Zenon, <1>1 DEF UploadsInv, UploadsTypeOK, Rows
<1> QED BY Zenon, <1>1, <1>3, <1>4, <1>5, <1>6, <1>8, <1>10, <1>11, StoreMoves

\* A store that holds its row holds it alone.
LEMMA HeldFacts ==
  ASSUME UploadsInv, NEW r \in Stores, ustore[r].pc \in {"streaming", "linked"}
  PROVE  /\ ustore[r].file \in Rows /\ ustore[r].file \notin RowsLocked /\ ustore[r].key = uring.active
         /\ ~urow[ustore[r].file].public /\ urow[ustore[r].file].version = 0
         /\ \A q \in Stores \ {r} : ustore[q] # Idle => ustore[q].file # ustore[r].file
<1>1. ustore[r].file \in Rows /\ ustore[r].file \notin RowsLocked
  BY Zenon, StoreFacts
<1>2. /\ ~urow[ustore[r].file].public /\ urow[ustore[r].file].version = 0
      /\ ustore[r].key = uring.active
  BY Zenon DEF UploadsInv, StoreSound
<1>3. ASSUME NEW q \in Stores \ {r}, ustore[q] # Idle PROVE ustore[q].file # ustore[r].file
  <2>1. ustore[q].pc \in {"streaming", "linked", "unlinking"}
    BY Zenon, <1>3, IdleFacts DEF UploadsInv, UploadsTypeOK
  <2> QED BY Zenon, <2>1, Apart
<1> QED BY Zenon, <1>1, <1>2, <1>3

\* Ending a store gives its row back.
LEMMA StoreEnds ==
  ASSUME UploadsInv, NEW r \in Stores, ustore[r].pc \in {"streaming", "linked"}, StoreEnd(r)
  PROVE  /\ ulock' \in [Files -> Stores \cup {"tool", Absent}] /\ ulock'[ustore[r].file] # "tool"
         /\ \A v \in Files \ {ustore[r].file} : ulock'[v] = ulock[v]
         /\ ustore' \in [Stores -> StoreRequest \cup {Idle}] /\ ustore'[r] = Idle
         /\ \A q \in Stores \ {r} : ustore'[q] = ustore[q]
         /\ StoreSound(r)'
<1>1. ustore[r].file \in Files
  BY Zenon, StoreFacts
<1>2. /\ ulock' \in [Files -> Stores \cup {"tool", Absent}] /\ ulock'[ustore[r].file] = Absent
      /\ \A v \in Files \ {ustore[r].file} : ulock'[v] = ulock[v]
  BY Zenon, <1>1 DEF StoreEnd, UploadsInv, UploadsTypeOK
<1>3. /\ ustore' \in [Stores -> StoreRequest \cup {Idle}] /\ ustore'[r] = Idle
      /\ \A q \in Stores \ {r} : ustore'[q] = ustore[q]
  BY Zenon DEF StoreEnd, UploadsInv, UploadsTypeOK
<1>4. StoreSound(r)'
  BY Zenon, <1>3, IdleFacts DEF StoreSound
<1> QED BY Zenon, <1>2, <1>3, <1>4, UploadsConstants

\* A store that is refused changes nothing else.
LEMMA RefusedStep ==
  ASSUME UploadsInv, NEW r \in Stores, ustore[r].pc \in {"streaming", "linked"}, StoreEnd(r),
         UNCHANGED <<urow, ufile, utool, ustat, uring, uallow, uswapped, udown, ualarm, ushown, ulost>>
  PROVE  UploadsInv'
<1>0. PICK u \in Files : u = ustore[r].file
  BY Zenon, StoreFacts
<1>1. /\ u \in Rows /\ u \notin RowsLocked
      /\ \A q \in Stores \ {r} : ustore[q] # Idle => ustore[q].file # u
  BY Zenon, <1>0, HeldFacts
<1>2. RowSound(u)'
  BY Zenon, <1>1 DEF UploadsInv, RowSound, Rows
<1>3. urow' \in [Files -> UploadRow \cup {Absent}] /\ urow'[u] # Absent /\ ufile' \in [Files -> StoredFile \cup {Absent}]
  BY Zenon, <1>1 DEF UploadsInv, UploadsTypeOK, Rows
<1>4. /\ ulock' \in [Files -> Stores \cup {"tool", Absent}] /\ ulock'[u] # "tool"
      /\ \A v \in Files \ {u} : ulock'[v] = ulock[v]
      /\ ustore' \in [Stores -> StoreRequest \cup {Idle}]
      /\ \A q \in Stores \ {r} : ustore'[q] = ustore[q]
      /\ StoreSound(r)'
  BY Zenon, <1>0, StoreEnds
<1> QED BY Zenon, <1>1, <1>2, <1>3, <1>4, StoreMoves

\* Linking the file keeps the invariant.
LEMMA LinkStep == ASSUME UploadsInv, NEW r \in Stores, StoreLink(r) PROVE UploadsInv'
<1>1. /\ ustore[r].pc = "streaming"
      /\ UNCHANGED <<urow, utool, ustat, uring, uallow, uswapped, udown, ualarm, ushown, ulost>>
  BY Zenon DEF StoreLink, toolVars, downVars
<1>0. PICK u \in Files, f \in StoredFile : u = ustore[r].file /\ f = [key |-> ustore[r].key, body |-> r]
  BY Zenon, <1>1, StoreFacts DEF StoredFile
<1>2. CASE StoreEnd(r) /\ UNCHANGED ufile
  BY Zenon, <1>1, <1>2, RefusedStep
<1>3. CASE /\ ufile[u] = Absent /\ ufile' = [ufile EXCEPT ![u] = f]
           /\ ustore' = [ustore EXCEPT ![r].pc = "linked"] /\ ulock' = ulock
  <2>1. /\ u \in Rows /\ u \in Files /\ u \notin RowsLocked /\ ~urow[u].public /\ urow[u].version = 0
        /\ ustore[r].key = uring.active /\ ustore[r].key \in {OldKey, NewKey}
        /\ \A q \in Stores \ {r} : ustore[q] # Idle => ustore[q].file # u
    BY Zenon, <1>0, <1>1, HeldFacts, StoreFacts
  <2>2. f \in StoredFile /\ f.key = uring.active
    BY Zenon, <1>0, <2>1 DEF StoredFile
  <2>3. ustore[r] \in StoreRequest
    BY Zenon, <1>1, StoreFacts
  <2>4. /\ ustore' \in [Stores -> StoreRequest \cup {Idle}]
        /\ ustore'[r].pc = "linked" /\ ustore'[r].file = u /\ ustore'[r].key = ustore[r].key
        /\ \A q \in Stores \ {r} : ustore'[q] = ustore[q]
    BY Zenon, <1>0, <1>3, <2>3 DEF UploadsInv, UploadsTypeOK, StoreRequest
  <2>5. StoreSound(r) /\ RowSound(u) /\ Rows' = Rows
    BY Zenon, <1>1, <2>1 DEF UploadsInv, Rows
  <2>6. /\ ulock[u] = r /\ r # "tool"
    BY Zenon, <1>0, <1>1, <2>5, UploadsConstants DEF StoreSound
  <2>7. ufile'[u] = f
    BY Zenon, <1>3, <2>1 DEF UploadsInv, UploadsTypeOK
  <2>8. StoreSound(r)'
    BY <1>0, <1>1, <1>3, <2>1, <2>4, <2>5, <2>6, <2>7 DEF StoreSound
  <2>9. /\ urow' \in [Files -> UploadRow \cup {Absent}] /\ urow'[u] # Absent
        /\ ulock' \in [Files -> Stores \cup {"tool", Absent}]
    BY Zenon, <1>1, <1>3, <2>1 DEF UploadsInv, UploadsTypeOK, Rows
  <2>10. RowSound(u)'
    BY <1>1, <2>1, <2>2, <2>5, <2>7, UploadsConstants DEF RowSound
  <2>11. /\ ufile' \in [Files -> StoredFile \cup {Absent}]
         /\ \A v \in Files \ {u} : ufile'[v] = ufile[v]
    BY Zenon, <1>3, <2>1, <2>2 DEF UploadsInv, UploadsTypeOK
  <2> QED BY Zenon, <1>1, <1>3, <2>1, <2>2, <2>4, <2>6, <2>7, <2>8, <2>9, <2>10, <2>11, StoreMoves
<1> QED BY Zenon, <1>0, <1>2, <1>3 DEF StoreLink

\* The row as the commit leaves it.
LEMMA FinalizedRow ==
  ASSUME UploadsInv, NEW r \in Stores, ustore[r].pc = "linked", urow' = Finalized(r)
  PROVE  /\ urow' \in [Files -> UploadRow \cup {Absent}]
         /\ urow'[ustore[r].file] = [public |-> TRUE, version |-> 1, key |-> ustore[r].key]
         /\ urow'[ustore[r].file] # Absent
         /\ \A v \in Files \ {ustore[r].file} : urow'[v] = urow[v]
<1> DEFINE row == [public |-> TRUE, version |-> 1, key |-> ustore[r].key]
<1>1. ustore[r].file \in Files /\ ustore[r].key \in {OldKey, NewKey}
  BY Zenon, StoreFacts
<1>2. row \in UploadRow /\ urow' = [urow EXCEPT ![ustore[r].file] = row]
  BY Zenon, <1>1 DEF UploadRow, Finalized
<1> HIDE DEF row
<1>3. /\ urow' \in [Files -> UploadRow \cup {Absent}] /\ urow'[ustore[r].file] = row
      /\ \A v \in Files \ {ustore[r].file} : urow'[v] = urow[v]
  BY Zenon, <1>1, <1>2 DEF UploadsInv, UploadsTypeOK
<1> QED BY ZenonT(30), <1>2, <1>3, UploadsConstants DEF row

\* A linked file is under the key of its store.
LEMMA LinkedFile ==
  ASSUME UploadsInv, NEW r \in Stores, ustore[r].pc = "linked"
  PROVE  /\ ufile[ustore[r].file] \in StoredFile /\ ufile[ustore[r].file] # Absent
         /\ ufile[ustore[r].file].key = ustore[r].key
<1> DEFINE f == [key |-> ustore[r].key, body |-> r]
<1>1. ustore[r].key \in {OldKey, NewKey}
  BY Zenon, StoreFacts
<1>2. f \in StoredFile /\ f.key = ustore[r].key
  BY Zenon, <1>1 DEF StoredFile
<1>3. ufile[ustore[r].file] = f
  BY Zenon DEF UploadsInv, StoreSound
<1> HIDE DEF f
<1> QED BY Zenon, <1>2, <1>3, UploadsConstants

\* A commit makes row and file agree.
LEMMA CommitStep == ASSUME UploadsInv, NEW r \in Stores, StoreCommit(r) PROVE UploadsInv'
<1>1. /\ ustore[r].pc = "linked" /\ urow' = Finalized(r) /\ StoreEnd(r)
      /\ UNCHANGED <<ufile, utool, ustat, uring, uallow, uswapped, udown, ualarm, ushown, ulost>>
  BY Zenon DEF StoreCommit, toolVars, downVars
<1>2. PICK u \in Files, k \in {OldKey, NewKey} : u = ustore[r].file /\ k = ustore[r].key
  BY Zenon, <1>1, StoreFacts
<1>3. /\ u \in Rows /\ u \notin RowsLocked
      /\ \A q \in Stores \ {r} : ustore[q] # Idle => ustore[q].file # u
  BY Zenon, <1>1, <1>2, HeldFacts
<1>4. /\ urow' \in [Files -> UploadRow \cup {Absent}] /\ urow'[u] # Absent
      /\ urow'[u] = [public |-> TRUE, version |-> 1, key |-> k]
      /\ \A v \in Files \ {u} : urow'[v] = urow[v]
  BY Zenon, <1>1, <1>2, FinalizedRow
<1>5. ufile[u] \in StoredFile /\ ufile[u].key = k /\ ufile[u] # Absent
  BY Zenon, <1>1, <1>2, LinkedFile
<1>6. RowSound(u)'
  BY <1>1, <1>4, <1>5, UploadsConstants DEF RowSound, Rows
<1>7. /\ ulock' \in [Files -> Stores \cup {"tool", Absent}] /\ ulock'[u] # "tool"
      /\ \A v \in Files \ {u} : ulock'[v] = ulock[v]
      /\ ustore' \in [Stores -> StoreRequest \cup {Idle}]
      /\ \A q \in Stores \ {r} : ustore'[q] = ustore[q]
      /\ StoreSound(r)'
  BY Zenon, <1>1, <1>2, StoreEnds
<1>8. ufile' \in [Files -> StoredFile \cup {Absent}] /\ urow'[u].public
  BY <1>1, <1>4 DEF UploadsInv, UploadsTypeOK
<1> QED BY Zenon, <1>1, <1>3, <1>4, <1>6, <1>7, <1>8, StoreMoves

\* A failed commit removes the file of a pending row.
LEMMA CommitFailsStep == ASSUME UploadsInv, NEW r \in Stores, StoreCommitFails(r) PROVE UploadsInv'
<1>1. /\ ustore[r].pc = "linked" /\ ufile' = [ufile EXCEPT ![ustore[r].file] = Absent] /\ StoreEnd(r)
      /\ UNCHANGED <<urow, utool, ustat, uring, uallow, uswapped, udown, ualarm, ushown, ulost>>
  BY Zenon DEF StoreCommitFails, toolVars, downVars
<1>2. PICK u \in Files : u = ustore[r].file
  BY Zenon, <1>1, StoreFacts
<1>3. /\ u \in Rows /\ u \notin RowsLocked /\ ~urow[u].public /\ urow[u].version = 0
      /\ \A q \in Stores \ {r} : ustore[q] # Idle => ustore[q].file # u
  BY Zenon, <1>1, <1>2, HeldFacts
<1>4. /\ ufile' \in [Files -> StoredFile \cup {Absent}] /\ ufile'[u] = Absent
      /\ \A v \in Files \ {u} : ufile'[v] = ufile[v]
  BY Zenon, <1>1, <1>2 DEF UploadsInv, UploadsTypeOK
<1>5. RowSound(u)'
  BY <1>1, <1>3, <1>4 DEF RowSound, Rows
<1>6. /\ ulock' \in [Files -> Stores \cup {"tool", Absent}] /\ ulock'[u] # "tool"
      /\ \A v \in Files \ {u} : ulock'[v] = ulock[v]
      /\ ustore' \in [Stores -> StoreRequest \cup {Idle}]
      /\ \A q \in Stores \ {r} : ustore'[q] = ustore[q]
      /\ StoreSound(r)'
  BY Zenon, <1>1, <1>2, StoreEnds
<1>7. urow' \in [Files -> UploadRow \cup {Absent}] /\ urow'[u] # Absent
  BY Zenon, <1>1, <1>3 DEF UploadsInv, UploadsTypeOK, Rows
<1> QED BY Zenon, <1>1, <1>3, <1>4, <1>5, <1>6, <1>7, StoreMoves

\* A commit whose answer is lost finalizes the row.
LEMMA UnacknowledgedStep ==
  ASSUME UploadsInv, NEW r \in Stores, StoreCommitUnacknowledged(r) PROVE UploadsInv'
<1>1. /\ ustore[r].pc = "linked" /\ urow' = Finalized(r)
      /\ ulock' = [ulock EXCEPT ![ustore[r].file] = Absent]
      /\ ustore' = [ustore EXCEPT ![r].pc = "unlinking"] /\ ulost' = ulost \cup {ustore[r].file}
      /\ UNCHANGED <<ufile, utool, ustat, uring, uallow, uswapped, udown, ualarm, ushown>>
  BY Zenon DEF StoreCommitUnacknowledged, toolVars, downVars
<1>2. PICK u \in Files, k \in {OldKey, NewKey} : u = ustore[r].file /\ k = ustore[r].key
  BY Zenon, <1>1, StoreFacts
<1>3. /\ u \in Rows /\ u \notin RowsLocked
      /\ \A q \in Stores \ {r} : ustore[q] # Idle => ustore[q].file # u
  BY Zenon, <1>1, <1>2, HeldFacts
<1>4. /\ urow' \in [Files -> UploadRow \cup {Absent}] /\ urow'[u] # Absent
      /\ urow'[u] = [public |-> TRUE, version |-> 1, key |-> k]
      /\ \A v \in Files \ {u} : urow'[v] = urow[v]
  BY Zenon, <1>1, <1>2, FinalizedRow
<1>5. ufile[u] \in StoredFile /\ ufile[u].key = k /\ ufile[u] # Absent
  BY Zenon, <1>1, <1>2, LinkedFile
<1>6. RowSound(u)'
  BY <1>1, <1>4, <1>5, UploadsConstants DEF RowSound, Rows
<1>7. /\ ulock' \in [Files -> Stores \cup {"tool", Absent}] /\ ulock'[u] # "tool"
      /\ \A v \in Files \ {u} : ulock'[v] = ulock[v]
  BY Zenon, <1>1, <1>2, UploadsConstants DEF UploadsInv, UploadsTypeOK
<1>8. ustore[r] \in StoreRequest
  BY Zenon, <1>1, StoreFacts
<1>9. /\ ustore' \in [Stores -> StoreRequest \cup {Idle}]
      /\ ustore'[r].pc = "unlinking" /\ ustore'[r].file = u
      /\ \A q \in Stores \ {r} : ustore'[q] = ustore[q]
  BY Zenon, <1>1, <1>2, <1>8 DEF UploadsInv, UploadsTypeOK, StoreRequest
<1>10. ufile' \in [Files -> StoredFile \cup {Absent}] /\ urow'[u].public /\ u \in ulost' /\ ulost \subseteq ulost'
  BY <1>1, <1>2, <1>4 DEF UploadsInv, UploadsTypeOK
<1>11. StoreSound(r)'
  BY Zenon, <1>4, <1>9, <1>10 DEF StoreSound, Rows
<1> QED BY <1>1, <1>3, <1>4, <1>6, <1>7, <1>9, <1>10, <1>11, StoreMoves

\* Removing the file of such a row is the exception that is named.
LEMMA UnlinkStep == ASSUME UploadsInv, NEW r \in Stores, StoreUnlink(r) PROVE UploadsInv'
<1>1. /\ ustore[r].pc = "unlinking" /\ ufile' = [ufile EXCEPT ![ustore[r].file] = Absent]
      /\ ustore' = [ustore EXCEPT ![r] = Idle]
      /\ UNCHANGED <<urow, ulock, utool, ustat, uring, uallow, uswapped, udown, ualarm, ushown, ulost>>
  BY Zenon DEF StoreUnlink, toolVars, downVars
<1>2. PICK u \in Rows : u = ustore[r].file
  BY Zenon, <1>1, StoreFacts
<1>3. u \in Files /\ urow[u].public /\ u \in ulost
  BY Zenon, <1>1, <1>2 DEF UploadsInv, StoreSound, Rows
<1>4. /\ ufile' \in [Files -> StoredFile \cup {Absent}] /\ ufile'[u] = Absent
      /\ \A v \in Files \ {u} : ufile'[v] = ufile[v]
  BY Zenon, <1>1, <1>2, <1>3 DEF UploadsInv, UploadsTypeOK
<1>5. Rows' = Rows /\ RowsLocked' = RowsLocked
  BY Zenon, <1>1 DEF Rows, RowsLocked
<1>6. ufile' = [v \in Files |-> ufile'[v]] /\ FilesMove
  BY Zenon, <1>4 DEF FilesMove
<1>7. ScanSound' /\ KeyRemovalSafe' /\ \A d \in Downs : DownSound(d)'
  BY Zenon, <1>1, <1>6, FilesMoved
<1>8. ToolSound' /\ (utool = Idle \/ utool \in ToolSelecting \/ utool \in ToolBatch)'
  <2>1. \A v \in RowsLocked : ufile'[v] = ufile[v] \/ (ufile'[v] = Absent /\ urow[v].public)
    BY Zenon, <1>3, <1>4 DEF RowsLocked
  <2> QED BY Zenon, <1>1, <1>5, <2>1, ToolKept
<1>9. \A v \in Files : RowSound(v)'
  BY Zenon, <1>1, <1>3, <1>4, <1>5 DEF UploadsInv, RowSound
<1>10. /\ ustore' \in [Stores -> StoreRequest \cup {Idle}] /\ ustore'[r] = Idle
       /\ \A q \in Stores \ {r} : ustore'[q] = ustore[q]
  BY Zenon, <1>1 DEF UploadsInv, UploadsTypeOK
<1>11. ASSUME NEW q \in Stores PROVE StoreSound(q)'
  <2>1. CASE q = r
    BY Zenon, <1>10, <2>1, IdleFacts DEF StoreSound
  <2>2. CASE q # r
    <3>1. ustore'[q] = ustore[q] /\ StoreSound(q)
      BY Zenon, <1>10, <2>2 DEF UploadsInv
    <3>2. ustore[q].pc = "linked" => ustore[q].file \in Files \ {u}
      <4>1. ustore[q].pc = "linked" => ustore[q].file \in Files
        BY Zenon, StoreFacts
      <4> QED BY Zenon, <1>3, <3>1, <4>1 DEF StoreSound
    <3> QED BY <1>1, <1>4, <1>5, <3>1, <3>2 DEF StoreSound
  <2> QED BY Zenon, <2>1, <2>2
<1>12. UploadsTypeOK'
  BY Zenon, <1>1, <1>4, <1>8, <1>10 DEF UploadsInv, UploadsTypeOK
<1> QED BY Zenon, <1>1, <1>5, <1>7, <1>8, <1>9, <1>11, <1>12 DEF UploadsInv

\* Every step of a store keeps the invariant, and so does its death.
LEMMA StoreSteps ==
  ASSUME UploadsInv, NEW r \in Stores, StoreStep(r) \/ StoreDies(r) PROVE UploadsInv'
<1>1. CASE StoreRefused(r)
  BY Zenon, <1>1, RefusedStep DEF StoreRefused, toolVars, downVars
<1>2. CASE StoreDies(r)
  BY Zenon, <1>2, RefusedStep DEF StoreDies, StoreEnd, toolVars, downVars
<1> QED BY Zenon, <1>1, <1>2, LinkStep, CommitStep, CommitFailsStep, UnacknowledgedStep, UnlinkStep DEF StoreStep

\* A step of the tool that changes no row and no file.
LEMMA ToolMoves ==
  ASSUME UploadsInv,
         UNCHANGED <<urow, ufile, ustore, ustat, uring, uallow, uswapped, udown, ualarm, ushown, ulost>>,
         ulock' \in [Files -> Stores \cup {"tool", Absent}],
         \A v \in Files : ulock[v] \in Stores => ulock'[v] = ulock[v],
         (utool = Idle \/ utool \in ToolSelecting \/ utool \in ToolBatch)', ToolSound'
  PROVE  UploadsInv'
<1>1. Rows' = Rows
  BY Zenon DEF Rows
<1>2. UploadsTypeOK'
  BY Zenon DEF UploadsInv, UploadsTypeOK
<1>3. ASSUME NEW r \in Stores PROVE StoreSound(r)'
  <2>1. ustore[r].pc \in {"streaming", "linked"} => ustore[r].file \in Files /\ ulock[ustore[r].file] = r
    BY Zenon, StoreFacts DEF UploadsInv, StoreSound
  <2>2. ustore[r].pc \in {"streaming", "linked"} => ulock'[ustore[r].file] = r
    BY Zenon, <2>1
  <2> QED BY Zenon, <1>1, <2>2 DEF UploadsInv, StoreSound
<1>4. \A v \in Files : RowSound(v)'
  BY Zenon, <1>1 DEF UploadsInv, RowSound
<1>5. ScanSound' /\ KeyRemovalSafe' /\ \A d \in Downs : DownSound(d)'
  BY Zenon DEF UploadsInv, ScanSound, OldFree, KeyRemovalSafe, DownSound
<1> QED BY Zenon, <1>1, <1>2, <1>3, <1>4, <1>5 DEF UploadsInv

\* Starting the tool keeps the invariant.
LEMMA ToolStarts == ASSUME UploadsInv, NEW rotate \in BOOLEAN, ToolStart(rotate) PROVE UploadsInv'
<1> DEFINE t == [pc |-> "select", rotate |-> rotate, target |-> uring.active, cursor |-> 0]
<1>1. /\ utool = Idle /\ utool' = t
      /\ UNCHANGED <<urow, ufile, ulock, ustore, ustat, uring, uallow, uswapped, udown, ualarm, ushown, ulost>>
  BY Zenon DEF ToolStart, storeVars, downVars
<1>2. t \in ToolSelecting /\ t.pc = "select" /\ t.target = uring.active
  BY Zenon, RingUp DEF ToolSelecting, UploadsInv
<1> HIDE DEF t
<1>3. RowsLocked = {} /\ RowsLocked' = {}
  BY Zenon, <1>1, IdleFacts DEF UploadsInv, ToolSound, RowsLocked
<1>4. ToolSound'
  BY Zenon, <1>1, <1>2, <1>3 DEF ToolSound
<1>5. ulock' \in [Files -> Stores \cup {"tool", Absent}]
  BY Zenon, <1>1 DEF UploadsInv, UploadsTypeOK
<1> QED BY Zenon, <1>1, <1>2, <1>4, <1>5, ToolMoves

\* A tool that gives up leaves the files it replaced, and their rows behind.
LEMMA ToolEnds ==
  ASSUME UploadsInv, ToolEnd,
         UNCHANGED <<urow, ufile, ustore, ustat, uring, uallow, uswapped, udown, ualarm, ushown, ulost>>
  PROVE  UploadsInv'
<1>1. /\ ulock' \in [Files -> Stores \cup {"tool", Absent}]
      /\ \A v \in Files : ulock[v] \in Stores => ulock'[v] = ulock[v]
      /\ \A v \in Files : ulock'[v] # "tool"
  BY Zenon, UploadsConstants DEF ToolEnd, UploadsInv, UploadsTypeOK, RowsLocked
<1>2. RowsLocked' = {}
  BY Zenon, <1>1 DEF RowsLocked
<1>3. ToolSound' /\ utool' = Idle
  BY Zenon, <1>2, IdleFacts DEF ToolSound, ToolEnd
<1> QED BY Zenon, <1>1, <1>3, ToolMoves

\* A tool between batches holds no row.
LEMMA SelectFacts ==
  ASSUME UploadsInv, utool.pc = "select"
  PROVE  utool \in ToolSelecting /\ RowsLocked = {} /\ utool.target = uring.active
<1>1. utool \in ToolSelecting
  BY Zenon, IdleFacts DEF UploadsInv, UploadsTypeOK, ToolBatch
<1> QED BY Zenon, <1>1, IdleFacts DEF UploadsInv, ToolSound

\* Selecting a batch keeps the invariant.
LEMMA ToolSelects == ASSUME UploadsInv, ToolSelect PROVE UploadsInv'
<1> DEFINE B == NextBatch
           rows == [u \in B |-> [version |-> urow[u].version, key |-> urow[u].key]]
           t == [pc |-> "batch", rotate |-> utool.rotate, target |-> utool.target, cursor |-> utool.cursor,
                 todo |-> B, rows |-> rows]
<1>1. /\ utool.pc = "select"
      /\ UNCHANGED <<urow, ufile, ustore, ustat, uring, uallow, uswapped, udown, ualarm, ushown, ulost>>
  BY Zenon DEF ToolSelect, downVars
<1>2. utool \in ToolSelecting /\ RowsLocked = {} /\ utool.target = uring.active
  BY Zenon, <1>1, SelectFacts
<1>3. CASE utool' = Idle /\ ulock' = ulock
  <2>1. RowsLocked' = {}
    BY Zenon, <1>2, <1>3 DEF RowsLocked
  <2>2. ToolSound'
    BY Zenon, <1>3, <2>1, IdleFacts DEF ToolSound
  <2>3. ulock' \in [Files -> Stores \cup {"tool", Absent}]
    BY Zenon, <1>3 DEF UploadsInv, UploadsTypeOK
  <2> QED BY Zenon, <1>1, <1>3, <2>2, <2>3, ToolMoves
<1>4. CASE /\ B # {} /\ \A u \in B : ulock[u] = Absent
           /\ ulock' = [u \in Files |-> IF u \in B THEN "tool" ELSE ulock[u]]
           /\ utool' = t
  <2>1. B \subseteq Rows /\ B \subseteq Files
    BY Zenon DEF NextBatch, Rows
  <2> HIDE DEF B
  <2>2. /\ ulock' \in [Files -> Stores \cup {"tool", Absent}]
        /\ \A v \in Files : ulock[v] \in Stores => ulock'[v] = ulock[v]
    BY Zenon, <1>4, <2>1, UploadsConstants DEF UploadsInv, UploadsTypeOK
  <2>3. RowsLocked' = B
    BY Zenon, <1>2, <1>4, <2>1 DEF RowsLocked
  <2>4. ASSUME NEW u \in B PROVE rows[u] \in ToolRead /\ rows[u].version = urow[u].version /\ rows[u].key = urow[u].key
    BY Zenon, <2>1, RowFacts DEF ToolRead, UploadRow
  <2>5. rows \in [B -> ToolRead]
    BY Zenon, <2>4
  <2> HIDE DEF rows
  <2>6. /\ t.pc = "batch" /\ t.todo = B /\ t.rows = rows /\ t.target = uring.active
        /\ t \in [pc : {"batch"}, rotate : BOOLEAN, target : {OldKey, NewKey}, cursor : Nat, todo : SUBSET Files,
                  rows : [B -> ToolRead]]
    BY Zenon, <1>2, <2>1, <2>5 DEF ToolSelecting
  <2> HIDE DEF t
  <2>7. (utool \in ToolBatch)'
    BY Zenon, <1>4, <2>3, <2>6 DEF ToolBatch
  <2>8. ASSUME NEW u \in B PROVE BatchSound(u)'
    <3>1. u \in Rows /\ u \in Rows' /\ u \in Files
      BY Zenon, <1>1, <2>1 DEF Rows
    <3>2. RowSound(u)
      BY Zenon, <3>1 DEF UploadsInv
    <3> QED BY Zenon, <1>1, <1>4, <2>4, <2>6, <3>1, <3>2 DEF BatchSound, RowSound
  <2>9. ToolSound'
    BY Zenon, <1>1, <1>4, <2>3, <2>6, <2>8 DEF ToolSound
  <2> QED BY Zenon, <1>1, <2>2, <2>7, <2>9, ToolMoves
<1> QED BY Zenon, <1>3, <1>4 DEF ToolSelect

\* What is known of the rows of a batch.
LEMMA BatchFacts ==
  ASSUME UploadsInv, utool.pc = "batch"
  PROVE  /\ utool \in ToolBatch /\ utool.target = uring.active /\ RowsLocked # {}
         /\ utool.todo \subseteq RowsLocked /\ RowsLocked \subseteq Rows
         /\ \A u \in RowsLocked : BatchSound(u) /\ utool.rows[u] \in ToolRead
<1>1. utool \in ToolBatch
  BY Zenon, IdleFacts DEF UploadsInv, UploadsTypeOK, ToolSelecting
<1>2. /\ utool.target = uring.active /\ RowsLocked # {}
      /\ utool.todo \subseteq RowsLocked /\ \A u \in RowsLocked : BatchSound(u)
  BY Zenon, IdleFacts DEF UploadsInv, ToolSound
<1> QED BY Zenon, <1>1, <1>2 DEF BatchSound, ToolBatch

\* One file of the batch: it may be written under the active key, and the row
\* the tool will commit then agrees with it.
LEMMA ToolVisits ==
  ASSUME UploadsInv, utool.pc = "batch", NEW u \in utool.todo,
         UNCHANGED <<urow, ulock, ustore, ustat, uring, uallow, udown, ualarm, ushown, ulost>>,
         ufile' \in [Files -> StoredFile \cup {Absent}], \A v \in Files \ {u} : ufile'[v] = ufile[v],
         \/ ufile' = ufile /\ uswapped' = uswapped
         \/ ufile[u] # Absent /\ ufile'[u] # Absent /\ ufile'[u].key = uring.active /\ uswapped' = uswapped \cup {u},
         NEW row \in ToolRead, utool' = [utool EXCEPT !.todo = @ \ {u}, !.rows[u] = row],
         row.version = 1 => /\ row.key # Absent
                            /\ ufile'[u] # Absent /\ row.key = ufile'[u].key
  PROVE  UploadsInv'
<1>1. /\ utool \in ToolBatch /\ utool.target = uring.active /\ RowsLocked # {} /\ u \in RowsLocked /\ u \in Rows /\ u \in Files
      /\ utool.todo \subseteq RowsLocked /\ RowsLocked \subseteq Rows /\ RowsLocked \subseteq Files
      /\ \A v \in RowsLocked : BatchSound(v) /\ utool.rows[v] \in ToolRead
  BY Zenon, BatchFacts DEF RowsLocked
<1>2. Rows' = Rows /\ RowsLocked' = RowsLocked
  BY Zenon DEF Rows, RowsLocked
<1>3. /\ utool'.pc = "batch" /\ utool'.todo = utool.todo \ {u} /\ utool'.target = utool.target
      /\ utool'.rows = [utool.rows EXCEPT ![u] = row] /\ utool.rows \in [RowsLocked -> ToolRead]
      /\ utool' \in ToolBatch
  BY Zenon, <1>1 DEF ToolBatch
<1>4. utool'.rows[u] = row /\ \A v \in RowsLocked \ {u} : utool'.rows[v] = utool.rows[v]
  BY Zenon, <1>1, <1>3
<1>5. ASSUME NEW v \in RowsLocked PROVE BatchSound(v)'
  <2>1. CASE v = u
    BY Zenon, <1>1, <1>2, <1>3, <1>4, <2>1 DEF BatchSound
  <2>2. CASE v # u
    BY <1>1, <1>2, <1>3, <1>4, <2>2 DEF BatchSound
  <2> QED BY Zenon, <2>1, <2>2
<1>6. ToolSound'
  BY Zenon, <1>1, <1>2, <1>3, <1>5 DEF ToolSound
<1>7. (utool \in ToolBatch)'
  BY Zenon, <1>2, <1>3 DEF ToolBatch
<1>8. ufile' = [v \in Files |-> ufile'[v]] /\ FilesMove
  BY Zenon DEF FilesMove
<1>9. ScanSound' /\ KeyRemovalSafe' /\ \A d \in Downs : DownSound(d)'
  BY Zenon, <1>8, FilesMoved
<1>10. UploadsTypeOK'
  BY Zenon, <1>7 DEF UploadsInv, UploadsTypeOK
<1>11. ASSUME NEW v \in Files PROVE RowSound(v)'
  <2>1. RowSound(v)
    BY Zenon DEF UploadsInv
  <2>2. CASE v = u
    BY Zenon, <1>1, <1>2, <2>1, <2>2 DEF RowSound
  <2>3. CASE v # u
    BY Zenon, <1>2, <2>1, <2>3 DEF RowSound
  <2> QED BY Zenon, <2>2, <2>3
<1>12. ASSUME NEW q \in Stores PROVE StoreSound(q)'
  <2>1. ustore[q].pc = "linked" => ustore[q].file \in Files \ {u}
    BY Zenon, <1>1, StoreFacts
  <2> QED BY <1>2, <2>1 DEF UploadsInv, StoreSound
<1> QED BY Zenon, <1>2, <1>6, <1>9, <1>10, <1>11, <1>12 DEF UploadsInv

\* Replacing one file of the batch keeps the invariant.
LEMMA ToolFiles == ASSUME UploadsInv, NEW u \in Files, ToolFile(u) PROVE UploadsInv'
<1>1. /\ utool.pc = "batch" /\ utool.todo # {} /\ u = Min(utool.todo)
      /\ UNCHANGED <<urow, ustore, ustat, uring, uallow, udown, ualarm, ushown, ulost>>
  BY Zenon DEF ToolFile, downVars
<1>2. /\ utool \in ToolBatch /\ utool.target = uring.active /\ utool.todo \subseteq RowsLocked /\ RowsLocked \subseteq Rows
      /\ \A v \in RowsLocked : BatchSound(v) /\ utool.rows[v] \in ToolRead
  BY Zenon, <1>1, BatchFacts
<1>3. u \in utool.todo
  <2>1. utool.todo \in SUBSET Nat
    BY <1>2 DEF ToolBatch, Files
  <2>2. PICK m \in utool.todo : \A k \in utool.todo : m <= k
    BY Zenon, <1>1, <2>1, LeastNatural
  <2> QED BY Zenon, <1>1, <2>2 DEF Min
<1>4. u \in Rows /\ BatchSound(u) /\ RowSound(u) /\ ufile[u] \in StoredFile \cup {Absent}
  BY Zenon, <1>2, <1>3 DEF UploadsInv, UploadsTypeOK
<1>5. CASE ToolEnd /\ UNCHANGED <<ufile, uswapped>>
  BY Zenon, <1>1, <1>5, ToolEnds
<1>6. CASE /\ ufile[u] = Absent /\ ~urow[u].public /\ utool' = [utool EXCEPT !.todo = @ \ {u}]
           /\ UNCHANGED <<ufile, ulock, uswapped>>
  <2>1. utool.rows[u] \in ToolRead /\ utool.rows[u].version # 1
    BY Zenon, <1>2, <1>3, <1>4, <1>6 DEF BatchSound, RowSound
  <2>2. utool' = [utool EXCEPT !.todo = @ \ {u}, !.rows[u] = utool.rows[u]]
    <3>1. [utool.rows EXCEPT ![u] = utool.rows[u]] = utool.rows
      BY Zenon, <1>2, <1>3 DEF ToolBatch
    <3> QED BY Zenon, <1>2, <1>6, <3>1 DEF ToolBatch
  <2>3. ufile' \in [Files -> StoredFile \cup {Absent}]
    BY Zenon, <1>6 DEF UploadsInv, UploadsTypeOK
  <2> QED BY Zenon, <1>1, <1>3, <1>6, <2>1, <2>2, <2>3, ToolVisits
<1>7. CASE /\ ufile[u] # Absent /\ ufile[u].key # Absent /\ ToolRow(u, ufile[u].key)
           /\ UNCHANGED <<ufile, uswapped, ulock>>
  <2> DEFINE row == [version |-> 1, key |-> ufile[u].key]
  <2>1. row \in ToolRead /\ row.key = ufile[u].key
    BY Zenon, <1>4, <1>7 DEF ToolRead, StoredFile
  <2>2. utool' = [utool EXCEPT !.todo = @ \ {u}, !.rows[u] = row]
    BY Zenon, <1>7 DEF ToolRow
  <2>3. ufile' \in [Files -> StoredFile \cup {Absent}]
    BY Zenon, <1>7 DEF UploadsInv, UploadsTypeOK
  <2> HIDE DEF row
  <2> QED BY Zenon, <1>1, <1>3, <1>7, <2>1, <2>2, <2>3, ToolVisits
<1>8. CASE /\ ufile[u] # Absent /\ ufile' = [ufile EXCEPT ![u].key = utool.target] /\ uswapped' = uswapped \cup {u}
           /\ ToolRow(u, utool.target) /\ ulock' = ulock
  <2> DEFINE row == [version |-> 1, key |-> utool.target]
  <2>1. utool.target \in {OldKey, NewKey}
    BY Zenon, <1>2 DEF ToolBatch
  <2>2. row \in ToolRead /\ row.key = uring.active /\ row.key # Absent
    BY Zenon, <1>2, <2>1, UploadsConstants DEF ToolRead
  <2>3. utool' = [utool EXCEPT !.todo = @ \ {u}, !.rows[u] = row]
    BY Zenon, <1>8 DEF ToolRow
  <2>4. ufile[u] \in StoredFile
    BY Zenon, <1>4, <1>8
  <2>5. /\ ufile' \in [Files -> StoredFile \cup {Absent}] /\ ufile'[u] \in StoredFile
        /\ ufile'[u].key = uring.active /\ \A v \in Files \ {u} : ufile'[v] = ufile[v]
    BY Zenon, <1>2, <1>8, <2>1, <2>4 DEF UploadsInv, UploadsTypeOK, StoredFile
  <2> HIDE DEF row
  <2> QED BY Zenon, <1>1, <1>3, <1>8, <2>2, <2>3, <2>5, UploadsConstants, ToolVisits
<1> QED BY Zenon, <1>5, <1>6, <1>7, <1>8 DEF ToolFile

\* Its commit brings the rows up to the files.
LEMMA ToolCommits == ASSUME UploadsInv, ToolCommit PROVE UploadsInv'
<1> DEFINE t == [pc |-> "select", rotate |-> utool.rotate, target |-> utool.target, cursor |-> Max(RowsLocked)]
           Row(u) == [public |-> urow[u].public, version |-> utool.rows[u].version, key |-> utool.rows[u].key]
<1>1. /\ utool.pc = "batch" /\ utool.todo = {} /\ utool' = t /\ uswapped' = uswapped \ RowsLocked
      /\ urow' = [u \in Files |-> IF u \in RowsLocked THEN Row(u) ELSE urow[u]]
      /\ ulock' = [u \in Files |-> IF u \in RowsLocked THEN Absent ELSE ulock[u]]
      /\ UNCHANGED <<ufile, ustore, ustat, uring, uallow, udown, ualarm, ushown, ulost>>
  BY Zenon DEF ToolCommit, downVars
<1>2. /\ utool \in ToolBatch /\ utool.target = uring.active /\ RowsLocked # {}
      /\ RowsLocked \subseteq Rows /\ RowsLocked \subseteq Files
      /\ \A u \in RowsLocked : BatchSound(u) /\ utool.rows[u] \in ToolRead
  BY Zenon, <1>1, BatchFacts DEF RowsLocked
<1>3. Max(RowsLocked) \in Nat
  <2>1. RowsLocked \in SUBSET Nat /\ NFiles \in Nat /\ \A u \in RowsLocked : u <= NFiles
    BY <1>2, UploadsConstants DEF Files
  <2>2. PICK m \in RowsLocked : \A k \in RowsLocked : k <= m
    BY Zenon, <1>2, <2>1, GreatestNatural
  <2>3. m \in RowsLocked /\ \A k \in RowsLocked : m >= k
    BY Zenon, <2>1, <2>2
  <2>4. Max(RowsLocked) \in RowsLocked
    BY Zenon, <2>3 DEF Max
  <2> QED BY Zenon, <2>1, <2>4
<1>4. t \in ToolSelecting /\ t.pc = "select" /\ t.target = uring.active
  BY Zenon, <1>2, <1>3 DEF ToolSelecting, ToolBatch
<1>5. ASSUME NEW u \in RowsLocked
      PROVE  /\ Row(u) \in UploadRow /\ Row(u).public = urow[u].public
             /\ Row(u).version = utool.rows[u].version /\ Row(u).key = utool.rows[u].key
  <2>1. urow[u].public \in BOOLEAN /\ utool.rows[u] \in ToolRead
    BY Zenon, <1>2, RowFacts
  <2> QED BY Zenon, <2>1 DEF UploadRow, ToolRead
<1> HIDE DEF t, Row
<1>6. /\ urow' \in [Files -> UploadRow \cup {Absent}]
      /\ \A u \in Files : urow'[u] = IF u \in RowsLocked THEN Row(u) ELSE urow[u]
  BY Zenon, <1>1, <1>2, <1>5 DEF UploadsInv, UploadsTypeOK
<1>7. Rows' = Rows /\ \A u \in Rows : urow'[u].public = urow[u].public
  <2>1. \A u \in RowsLocked : Row(u) # Absent
    BY Zenon, <1>5, UploadsConstants
  <2> QED BY ZenonT(30), <1>2, <1>5, <1>6, <2>1 DEF Rows
<1>8. /\ ulock' \in [Files -> Stores \cup {"tool", Absent}]
      /\ \A u \in Files : ulock'[u] # "tool" /\ (ulock[u] \in Stores => ulock'[u] = ulock[u])
  BY Zenon, <1>1, UploadsConstants DEF UploadsInv, UploadsTypeOK, RowsLocked
<1>9. RowsLocked' = {}
  BY Zenon, <1>8 DEF RowsLocked
<1>10. ToolSound'
  BY Zenon, <1>1, <1>4, <1>9 DEF ToolSound
<1>11. UploadsTypeOK'
  BY Zenon, <1>1, <1>4, <1>6, <1>8 DEF UploadsInv, UploadsTypeOK
<1>12. ASSUME NEW u \in Files PROVE RowSound(u)'
  <2>1. RowSound(u)
    BY Zenon DEF UploadsInv
  <2>2. CASE u \in RowsLocked
    <3>1. /\ urow'[u].public = urow[u].public /\ urow'[u].version = utool.rows[u].version
          /\ urow'[u].key = utool.rows[u].key
      BY Zenon, <1>5, <1>6, <2>2
    <3>2. BatchSound(u) /\ u \notin utool.todo
      BY Zenon, <1>1, <1>2, <2>2
    <3> QED BY Zenon, <1>1, <1>7, <2>1, <3>1, <3>2 DEF RowSound, BatchSound
  <2>3. CASE u \notin RowsLocked
    BY Zenon, <1>1, <1>6, <1>7, <2>1, <2>3 DEF RowSound
  <2> QED BY Zenon, <2>2, <2>3
<1>13. ASSUME NEW r \in Stores PROVE StoreSound(r)'
  <2>1. StoreSound(r)
    BY Zenon DEF UploadsInv
  <2>2. CASE ustore[r].pc \in {"streaming", "linked"}
    <3>1. ustore[r].file \in Files /\ ustore[r].file \notin RowsLocked /\ ulock[ustore[r].file] = r
      BY Zenon, <2>1, <2>2, StoreFacts DEF StoreSound
    <3>2. urow'[ustore[r].file] = urow[ustore[r].file] /\ ulock'[ustore[r].file] = r
      BY Zenon, <1>6, <1>8, <3>1
    <3> QED BY Zenon, <1>1, <1>7, <2>1, <2>2, <3>2 DEF StoreSound
  <2>3. CASE ustore[r].pc \notin {"streaming", "linked"}
    BY Zenon, <1>1, <1>7, <2>1, <2>3 DEF StoreSound
  <2> QED BY Zenon, <2>2, <2>3
<1>14. ScanSound' /\ KeyRemovalSafe' /\ \A d \in Downs : DownSound(d)'
  BY Zenon, <1>1 DEF UploadsInv, ScanSound, OldFree, KeyRemovalSafe, DownSound
<1>15. ushown' \subseteq {u \in Rows : urow[u].public}'
  BY Zenon, <1>1, <1>7 DEF UploadsInv
<1> QED BY Zenon, <1>1, <1>10, <1>11, <1>12, <1>13, <1>14, <1>15 DEF UploadsInv

\* The status command only changes what it has seen.
LEMMA StatusMoves ==
  ASSUME UploadsInv, UNCHANGED <<urow, ufile, ulock, ustore, utool, uring, uallow, uswapped, udown, ualarm, ushown, ulost>>,
         (ustat = Idle \/ ustat = [pc |-> "clean"] \/ ustat \in StatusScan)', ScanSound'
  PROVE  UploadsInv'
<1>1. Rows' = Rows /\ RowsLocked' = RowsLocked
  BY Zenon DEF Rows, RowsLocked
<1>2. UploadsTypeOK'
  BY Zenon, <1>1 DEF UploadsInv, UploadsTypeOK, ToolSelecting, ToolBatch
<1>3. (\A v \in Files : RowSound(v)') /\ \A r \in Stores : StoreSound(r)'
  BY Zenon, <1>1 DEF UploadsInv, RowSound, StoreSound
<1>4. ToolSound' /\ KeyRemovalSafe'
  BY Zenon, <1>1 DEF UploadsInv, ToolSound, BatchSound, KeyRemovalSafe
<1>5. \A d \in Downs : DownSound(d)'
  BY Zenon DEF UploadsInv, DownSound
<1> QED BY Zenon, <1>1, <1>2, <1>3, <1>4, <1>5 DEF UploadsInv

\* Starting the status command keeps the invariant.
LEMMA StatusStarts == ASSUME UploadsInv, StatusStart PROVE UploadsInv'
<1> DEFINE c == [pc |-> "scan", rows |-> urow, todo |-> Rows, clean |-> TRUE]
<1>1. /\ uring = BothKeys /\ ustat' = c
      /\ UNCHANGED <<urow, ufile, ulock, ustore, utool, uring, uallow, uswapped, udown, ualarm, ushown, ulost>>
  BY Zenon DEF StatusStart, BothKeys, storeVars, downVars
<1>2. c \in StatusScan /\ c.pc = "scan" /\ c.todo = Rows
  BY Zenon DEF StatusScan, UploadsInv, UploadsTypeOK, Rows
<1> HIDE DEF c
<1>3. \A u \in Files \ Rows : OldFree(u)'
  BY Zenon, <1>1 DEF UploadsInv, RowSound, OldFree
<1>4. ScanSound'
  BY Zenon, <1>1, <1>2, <1>3 DEF ScanSound
<1> QED BY Zenon, <1>1, <1>2, <1>4, StatusMoves

\* What the scan has passed stays free of the old key.
LEMMA StatusFiles == ASSUME UploadsInv, NEW u \in Files, StatusFile(u) PROVE UploadsInv'
<1>1. /\ ustat.pc = "scan" /\ u \in ustat.todo
      /\ UNCHANGED <<urow, ufile, ulock, ustore, utool, uring, uallow, uswapped, udown, ualarm, ushown, ulost>>
  BY Zenon DEF StatusFile, storeVars, downVars
<1>2. ustat \in StatusScan
  BY <1>1, IdleFacts DEF UploadsInv, UploadsTypeOK
<1>3. PICK ok \in BOOLEAN : /\ ustat' = [ustat EXCEPT !.todo = @ \ {u}, !.clean = @ /\ ok]
                            /\ ok /\ ufile[u] # Absent => ufile[u].key = uring.active
  BY Zenon DEF StatusFile
<1>4. ustat' \in StatusScan /\ ustat'.todo = ustat.todo \ {u} /\ (ustat'.clean => ustat.clean /\ ok) /\ ustat'.pc = "scan"
  BY Zenon, <1>2, <1>3 DEF StatusScan
<1>5. uring = BothKeys /\ (ustat.clean => \A v \in Files \ ustat.todo : OldFree(v))
  BY Zenon, <1>1, <1>2, IdleFacts DEF UploadsInv, ScanSound
<1>6. ok => OldFree(u)
  BY Zenon, <1>3, <1>5, RingUp DEF OldFree, UploadsInv
<1>7. \A v \in Files : OldFree(v) => OldFree(v)'
  BY Zenon, <1>1 DEF OldFree
<1>8. ScanSound'
  BY Zenon, <1>1, <1>4, <1>5, <1>6, <1>7 DEF ScanSound
<1> QED BY Zenon, <1>1, <1>4, <1>8, StatusMoves

\* A clean scan allows the key to be removed.
LEMMA StatusEnds == ASSUME UploadsInv, StatusDone PROVE UploadsInv'
<1>1. /\ ustat.pc = "scan" /\ ustat.todo = {} /\ ustat' = [pc |-> IF ustat.clean THEN "clean" ELSE "idle"]
      /\ UNCHANGED <<urow, ufile, ulock, ustore, utool, uring, uallow, uswapped, udown, ualarm, ushown, ulost>>
  BY Zenon DEF StatusDone, storeVars, downVars
<1>2. uring = BothKeys /\ (ustat.clean => \A v \in Files : OldFree(v))
  BY Zenon, <1>1, IdleFacts DEF UploadsInv, ScanSound
<1>3. \A v \in Files : OldFree(v) => OldFree(v)'
  BY Zenon, <1>1 DEF OldFree
<1>4. \/ ustat' = Idle
      \/ ustat' = [pc |-> "clean"] /\ ustat.clean
  BY Zenon, <1>1 DEF Idle
<1>5. ScanSound'
  BY Zenon, <1>1, <1>2, <1>3, <1>4, IdleFacts DEF ScanSound
<1> QED BY Zenon, <1>1, <1>4, <1>5, StatusMoves

\* A restart: only rows, files and the configuration are left.
LEMMA Restarts ==
  ASSUME UploadsInv, Restart, UNCHANGED <<urow, ufile, uallow, uswapped, ualarm, ushown, ulost>>,
         uring' = BothKeys \/ uring' = [keys |-> {NewKey}, active |-> NewKey], KeyRemovalSafe'
  PROVE  UploadsInv'
<1>1. Rows' = Rows /\ RowsLocked' = {}
  BY Zenon, UploadsConstants DEF Rows, RowsLocked, Restart
<1>2. UploadsTypeOK'
  BY Zenon DEF UploadsInv, UploadsTypeOK, Restart
<1>3. \A u \in Files : RowSound(u)'
  BY Zenon, <1>1 DEF UploadsInv, RowSound
<1>4. (\A r \in Stores : StoreSound(r)') /\ \A d \in Downs : DownSound(d)'
  BY Zenon, IdleFacts DEF StoreSound, DownSound, Restart
<1>5. ToolSound' /\ ScanSound'
  BY Zenon, <1>1, IdleFacts DEF ToolSound, ScanSound, Restart
<1> QED BY Zenon, <1>1, <1>2, <1>3, <1>4, <1>5 DEF UploadsInv

\* Activating the new key keeps the invariant.
LEMMA Switches == ASSUME UploadsInv, SwitchKey PROVE UploadsInv'
<1>1. /\ Restart /\ UNCHANGED <<urow, ufile, uallow, uswapped, ualarm, ushown, ulost>>
      /\ uring.active = OldKey /\ uring' = [uring EXCEPT !.active = NewKey]
  BY Zenon DEF SwitchKey
<1>2. uring = [keys |-> {OldKey, NewKey}, active |-> OldKey]
  BY <1>1 DEF UploadsInv, UploadsTypeOK, BothKeys, OldKey, NewKey
<1>3. uring' = BothKeys /\ uring'.keys = uring.keys
  BY <1>1, <1>2 DEF BothKeys
<1>4. KeyRemovalSafe'
  BY Zenon, <1>1, <1>3 DEF UploadsInv, KeyRemovalSafe
<1> QED BY Zenon, <1>1, <1>3, <1>4, Restarts

\* Removing the old key after a clean scan keeps it.
LEMMA Removes == ASSUME UploadsInv, RemoveKey PROVE UploadsInv'
<1>1. /\ Restart /\ UNCHANGED <<urow, ufile, uallow, uswapped, ualarm, ushown, ulost>>
      /\ ustat.pc = "clean" /\ uring' = [uring EXCEPT !.keys = {NewKey}]
  BY Zenon DEF RemoveKey
<1>2. uring = BothKeys /\ \A u \in Files : OldFree(u)
  BY Zenon, <1>1, IdleFacts DEF UploadsInv, ScanSound
<1>3. uring' = [keys |-> {NewKey}, active |-> NewKey] /\ uring'.keys = {NewKey} /\ uring.keys = {OldKey, NewKey}
  BY Zenon, <1>1, <1>2 DEF BothKeys
<1>4. KeyRemovalSafe'
  BY Zenon, <1>1, <1>2, <1>3 DEF UploadsInv, KeyRemovalSafe, OldFree
<1> QED BY Zenon, <1>1, <1>3, <1>4, Restarts

\* A download that moves on disturbs nothing else.
LEMMA DownMoves ==
  ASSUME UploadsInv, UNCHANGED <<urow, ufile, ulock, ustore, utool, ustat, uring, uallow, uswapped, ushown, ulost>>,
         NEW d \in Downs, NEW c \in Download \cup {Idle}, udown' = [udown EXCEPT ![d] = c], DownSound(d)', ualarm' = {}
  PROVE  UploadsInv'
<1>1. Rows' = Rows /\ RowsLocked' = RowsLocked
  BY Zenon DEF Rows, RowsLocked
<1>2. udown' \in [Downs -> Download \cup {Idle}] /\ \A e \in Downs \ {d} : udown'[e] = udown[e]
  BY Zenon DEF UploadsInv, UploadsTypeOK
<1>3. UploadsTypeOK'
  BY Zenon, <1>1, <1>2 DEF UploadsInv, UploadsTypeOK, ToolSelecting, ToolBatch
<1>4. (\A v \in Files : RowSound(v)') /\ \A r \in Stores : StoreSound(r)'
  BY Zenon, <1>1 DEF UploadsInv, RowSound, StoreSound
<1>5. ToolSound' /\ KeyRemovalSafe' /\ ScanSound'
  BY Zenon, <1>1 DEF UploadsInv, ToolSound, BatchSound, KeyRemovalSafe, ScanSound, OldFree
<1>6. ASSUME NEW e \in Downs PROVE DownSound(e)'
  <2>1. CASE e = d
    BY Zenon, <2>1
  <2>2. CASE e # d
    BY Zenon, <1>2, <2>2 DEF UploadsInv, DownSound
  <2> QED BY Zenon, <2>1, <2>2
<1> QED BY Zenon, <1>1, <1>3, <1>4, <1>5, <1>6 DEF UploadsInv

\* A download that ends disturbs nothing.
LEMMA DownEnds ==
  ASSUME UploadsInv, UNCHANGED <<urow, ufile, ulock, ustore, utool, ustat, uring, uallow, uswapped, ushown, ulost>>,
         NEW d \in Downs, udown' = [udown EXCEPT ![d] = Idle], ualarm' = {}
  PROVE  UploadsInv'
<1>1. udown'[d] = Idle
  BY Zenon DEF UploadsInv, UploadsTypeOK
<1>2. DownSound(d)'
  BY Zenon, <1>1 DEF DownSound
<1> QED BY Zenon, <1>2, DownMoves

\* Starting a download keeps the invariant.
LEMMA DownBegins == ASSUME UploadsInv, NEW d \in Downs, NEW u \in Files, DownBegin(d, u) PROVE UploadsInv'
<1> DEFINE c == [pc |-> "header", file |-> u, version |-> urow[u].version,
                 key |-> urow[u].key, seen |-> ufile[u], swapped |-> u \in uswapped]
<1>1. /\ u \in Rows /\ ufile[u] # Absent /\ udown' = [udown EXCEPT ![d] = c]
      /\ UNCHANGED <<urow, ufile, ulock, ustore, utool, ustat, uring, uallow, uswapped, ualarm, ushown, ulost>>
  BY Zenon DEF DownBegin, storeVars, toolVars
<1>2. urow[u] \in UploadRow /\ ufile[u] \in StoredFile /\ RowSound(u)
  BY Zenon, <1>1, RowFacts DEF UploadsInv, UploadsTypeOK
<1>3. (u \in uswapped) \in BOOLEAN
  OBVIOUS
<1>4. c \in Download
  BY Zenon, <1>2, <1>3 DEF Download, UploadRow
<1>5. /\ c.pc = "header" /\ c.file = u /\ c.version = urow[u].version /\ c.key = urow[u].key /\ c.seen = ufile[u]
      /\ c.swapped = (u \in uswapped)
  BY Zenon
<1> HIDE DEF c
<1>6. udown'[d] = c
  BY Zenon, <1>1 DEF UploadsInv, UploadsTypeOK
<1>7. ~c.swapped /\ c.version = 1 => c.key = c.seen.key /\ c.key # Absent
  BY Zenon, <1>1, <1>2, <1>5 DEF RowSound
<1>8. DownSound(d)'
  BY Zenon, <1>1, <1>5, <1>6, <1>7 DEF DownSound
<1> QED BY Zenon, <1>1, <1>4, <1>8, DownMoves DEF UploadsInv

\* What is known of the file of a download under way.
LEMMA DownFacts ==
  ASSUME UploadsInv, NEW d \in Downs, udown[d].pc \in {"header", "stream"}
  PROVE  /\ udown[d] \in Download /\ udown[d] # Idle /\ DownSound(d) /\ udown[d].file \in Files
         /\ udown[d].seen \in StoredFile /\ udown[d].seen # Absent
         /\ ufile[udown[d].file] \in StoredFile \cup {Absent}
         /\ ufile[udown[d].file] # Absent => ufile[udown[d].file].key \in uring.keys \cup {Absent}
<1>1. udown[d] \in Download /\ udown[d] # Idle /\ DownSound(d)
  BY Zenon, IdleFacts DEF UploadsInv, UploadsTypeOK
<1>2. udown[d].file \in Files /\ udown[d].seen \in StoredFile
  BY Zenon, <1>1 DEF Download
<1> QED BY Zenon, <1>1, <1>2, UploadsConstants DEF UploadsInv, UploadsTypeOK, KeyRemovalSafe

\* Reading the header keeps the invariant.
LEMMA DownHeaders == ASSUME UploadsInv, NEW d \in Downs, DownHeader(d) PROVE UploadsInv'
<1> DEFINE c == udown[d]
           f == ufile[c.file]
           ok == /\ f # Absent
                 /\ IF c.version = 1 THEN f.key = c.key /\ f.key \in uring.keys
                    ELSE IF f.key = Absent THEN uallow ELSE f.key \in uring.keys
           explained == f # c.seen \/ c.swapped \/ (c.seen.key = Absent /\ ~uallow)
<1>1. /\ c.pc = "header"
      /\ UNCHANGED <<urow, ufile, ulock, ustore, utool, ustat, uring, uallow, uswapped, ushown, ulost>>
  BY Zenon DEF DownHeader, storeVars, toolVars
<1>2. /\ c \in Download /\ c # Idle /\ DownSound(d) /\ c.seen \in StoredFile /\ c.seen # Absent
      /\ f \in StoredFile \cup {Absent} /\ (f # Absent => f.key \in uring.keys \cup {Absent})
  BY Zenon, <1>1, DownFacts
<1>3. /\ f = c.seen \/ f = Absent \/ f.key = uring.active
      /\ ~c.swapped /\ c.version = 1 => c.key = c.seen.key /\ c.key # Absent
  BY Zenon, <1>1, <1>2 DEF DownSound
<1>4. CASE ok /\ try_acquire(d) /\ UNCHANGED ualarm
  <2>1. CASE udown' = [udown EXCEPT ![d] = Idle]
    BY Zenon, <1>1, <1>4, <2>1, DownEnds DEF UploadsInv
  <2>2. CASE udown' = [udown EXCEPT ![d].pc = "stream", ![d].key = f.key]
    <3> DEFINE e == [c EXCEPT !.pc = "stream", !.key = f.key]
    <3>1. udown' = [udown EXCEPT ![d] = e]
      BY Zenon, <2>2 DEF UploadsInv, UploadsTypeOK
    <3>2. f \in StoredFile /\ f.key \in {OldKey, NewKey, Absent}
      BY Zenon, <1>2, <1>4 DEF StoredFile
    <3>3. e \in Download /\ e.pc = "stream" /\ e.key = f.key /\ e.file = c.file /\ e.seen = c.seen
      BY Zenon, <1>2, <3>2 DEF Download
    <3> HIDE DEF e
    <3>4. udown'[d] = e
      BY Zenon, <3>1 DEF UploadsInv, UploadsTypeOK
    <3>5. ufile'[e.file] = f /\ uring' = uring
      BY Zenon, <1>1, <3>3
    <3> HIDE DEF c, f
    <3>6. DownSound(d)'
      BY Zenon, <1>3, <1>4, <3>3, <3>4, <3>5 DEF DownSound
    <3> QED BY Zenon, <1>1, <1>4, <3>1, <3>3, <3>6, DownMoves DEF UploadsInv
  <2> QED BY Zenon, <1>4, <2>1, <2>2 DEF try_acquire
<1>5. CASE ~ok /\ Alarm(d) /\ udown' = [udown EXCEPT ![d] = Idle]
  <2>1. ~ok => explained
    <3> HIDE DEF c, f
    <3> QED BY Zenon, <1>2, <1>3
  <2>2. ualarm' = {}
    BY Zenon, <1>5, <2>1 DEF Alarm, UploadsInv
  <2> QED BY Zenon, <1>1, <1>5, <2>2, DownEnds
<1> QED BY Zenon, <1>4, <1>5 DEF DownHeader

\* Streaming keeps it, and an alarm has a cause.
LEMMA DownStreams == ASSUME UploadsInv, NEW d \in Downs, DownStream(d) PROVE UploadsInv'
<1> DEFINE c == udown[d]
           f == ufile[c.file]
           explained == f # c.seen \/ c.swapped \/ (c.seen.key = Absent /\ ~uallow)
<1>1. /\ c.pc = "stream" /\ udown' = [udown EXCEPT ![d] = Idle]
      /\ UNCHANGED <<urow, ufile, ulock, ustore, utool, ustat, uring, uallow, uswapped, ushown, ulost>>
      /\ \/ UNCHANGED ualarm
         \/ f = Absent /\ Alarm(d)
         \/ f # Absent /\ f.key # c.key /\ Alarm(d)
  BY Zenon DEF DownStream, storeVars, toolVars
<1>2. c # Idle /\ DownSound(d) /\ c.seen # Absent
  BY Zenon, <1>1, DownFacts
<1>3. c.key = c.seen.key \/ (c.key = uring.active /\ (f = Absent \/ f.key = uring.active))
  BY Zenon, <1>1, <1>2 DEF DownSound
<1>4. f = Absent \/ f.key # c.key => explained
  <2> HIDE DEF c, f
  <2> QED BY Zenon, <1>2, <1>3
<1>5. ualarm' = {}
  BY Zenon, <1>1, <1>4 DEF Alarm, UploadsInv
<1> QED BY Zenon, <1>1, <1>5, DownEnds

\* Every step keeps the invariant.
LEMMA UploadsInductive == UploadsInv /\ [UploadsNext]_uploadVars => UploadsInv'
<1> SUFFICES ASSUME UploadsInv, [UploadsNext]_uploadVars PROVE UploadsInv'
  BY Zenon
<1>1. CASE UNCHANGED uploadVars
  <2>1. /\ UNCHANGED <<urow, ufile, ulock, ustore, utool, uring, uallow, uswapped, udown, ualarm, ushown, ulost, ustat>>
    BY Zenon, <1>1 DEF uploadVars, storeVars, toolVars, downVars
  <2>2. (ustat = Idle \/ ustat = [pc |-> "clean"] \/ ustat \in StatusScan)' /\ ScanSound'
    BY Zenon, <2>1 DEF UploadsInv, UploadsTypeOK, ScanSound, OldFree
  <2> QED BY Zenon, <2>1, <2>2, StatusMoves
<1>2. CASE ToolDies
  BY Zenon, <1>2, ToolEnds DEF ToolDies, downVars
<1> QED BY Zenon, <1>1, <1>2, CreateStep, ShownStep, StoreSteps, BeginStep, ToolStarts, ToolSelects, ToolFiles, ToolCommits,
           StatusStarts, StatusFiles, StatusEnds, Switches, Removes, DownHeaders, DownStreams, DownBegins
        DEF UploadsNext, ToolStep

-----------------------------------------------------------------------------
(* The leases of DownloadConcurrencyLimiter *)

Leases == [user : [Range(DownUser) -> Nat], ip : [Range(DownIP) -> Nat], process : Nat]
LeaseInv == ulease \in Leases /\ LeasesExact

Streaming == {d \in Downs : udown[d].pc = "stream"}
Count(S, F, x) == Cardinality({d \in S : F[d] = x})

\* One download more adds one to the counters of its user and address.
LEMMA CountUp ==
  ASSUME NEW S \in SUBSET Downs, NEW d \in Downs \ S, NEW F, NEW x
  PROVE  /\ Count(S, F, x) \in Nat
         /\ Count(S \cup {d}, F, x) = IF F[d] = x THEN Count(S, F, x) + 1 ELSE Count(S, F, x)
<1> DEFINE T == {e \in S : F[e] = x}
           U == {e \in S \cup {d} : F[e] = x}
<1>1. IsFiniteSet(T) /\ Cardinality(T) \in Nat /\ d \notin T
  BY Zenon, UploadsConstants, FS_Subset, FS_CardinalityType
<1>2. U = IF F[d] = x THEN T \cup {d} ELSE T
  BY Zenon
<1>3. Count(S, F, x) = Cardinality(T) /\ Count(S \cup {d}, F, x) = Cardinality(U)
  BY Zenon DEF Count
<1> HIDE DEF T, U
<1>4. Cardinality(U) = IF F[d] = x THEN Cardinality(T) + 1 ELSE Cardinality(T)
  BY Zenon, <1>1, <1>2, FS_AddElement
<1> QED BY Zenon, <1>1, <1>3, <1>4

\* One download less takes one off.
LEMMA CountDown ==
  ASSUME NEW S \in SUBSET Downs, NEW d \in S, NEW F, NEW x
  PROVE  /\ Count(S, F, x) \in Nat /\ Count(S \ {d}, F, x) \in Nat
         /\ Count(S \ {d}, F, x) = IF F[d] = x THEN OneLess(Count(S, F, x)) ELSE Count(S, F, x)
<1> DEFINE T == S \ {d}
<1>1. T \in SUBSET Downs /\ d \in Downs \ T /\ T \cup {d} = S
  BY Zenon
<1> HIDE DEF T
<1>2. Count(T, F, x) \in Nat /\ Count(S, F, x) = IF F[d] = x THEN Count(T, F, x) + 1 ELSE Count(T, F, x)
  BY <1>1, CountUp
<1>3. Count(S, F, x) \in Nat /\ Count(T, F, x) = IF F[d] = x THEN OneLess(Count(S, F, x)) ELSE Count(S, F, x)
  BY <1>2 DEF OneLess
<1> QED BY Zenon, <1>2, <1>3 DEF T

\* LeasesExact, over the set of streaming downloads.
LEMMA LeasesCount ==
  LeasesExact <=>
    /\ \A x \in Range(DownUser) : ulease.user[x] = Count(Streaming, DownUser, x) /\ ulease.user[x] <= PerUser
    /\ \A a \in Range(DownIP) : ulease.ip[a] = Count(Streaming, DownIP, a) /\ ulease.ip[a] <= PerIP
    /\ ulease.process = Cardinality(Streaming) /\ ulease.process <= PerProcess
BY Zenon DEF LeasesExact, Streaming, Count

\* No download, no count.
LEMMA NoneCounted == Cardinality({}) = 0 /\ \A F, x : Count({}, F, x) = 0
<1>1. ASSUME NEW F, NEW x PROVE Count({}, F, x) = 0
  <2>1. {d \in {} : F[d] = x} = {}
    BY Zenon
  <2> QED BY Zenon, <2>1, FS_EmptySet DEF Count
<1> QED BY Zenon, <1>1, FS_EmptySet

\* Counters of an idle service are exact.
LEMMA NoLeasesExact ==
  ASSUME udown = [d \in Downs |-> Idle], ulease = NoLeases PROVE LeaseInv
<1>1. Streaming = {}
  BY Zenon, IdleFacts DEF Streaming
<1>2. /\ ulease \in Leases /\ ulease.process = 0
      /\ \A x \in Range(DownUser) : ulease.user[x] = 0
      /\ \A a \in Range(DownIP) : ulease.ip[a] = 0
  BY Zenon DEF NoLeases, Leases
<1>3. 0 <= PerUser /\ 0 <= PerIP /\ 0 <= PerProcess
  BY UploadsConstants
<1>4. LeasesExact
  BY Zenon, <1>1, <1>2, <1>3, NoneCounted, LeasesCount
<1> QED BY Zenon, <1>2, <1>4 DEF LeaseInv

\* One download more or less.
LEMMA Acquired ==
  ASSUME LeaseInv, NEW d \in Downs \ Streaming, Streaming' = Streaming \cup {d},
         ulease.user[DownUser[d]] < PerUser, ulease.ip[DownIP[d]] < PerIP, ulease.process < PerProcess,
         ulease' = [ulease EXCEPT !.user[DownUser[d]] = @ + 1, !.ip[DownIP[d]] = @ + 1, !.process = @ + 1]
  PROVE  LeaseInv'
<1>1. DownUser[d] \in Range(DownUser) /\ DownIP[d] \in Range(DownIP) /\ Streaming \in SUBSET Downs
  BY Zenon, UploadsConstants DEF Range, Streaming
<1>2. /\ ulease \in Leases /\ ulease'.process = ulease.process + 1 /\ ulease' \in Leases
      /\ ulease'.user = [ulease.user EXCEPT ![DownUser[d]] = @ + 1]
      /\ ulease'.ip = [ulease.ip EXCEPT ![DownIP[d]] = @ + 1]
      /\ ulease.user \in [Range(DownUser) -> Nat] /\ ulease.ip \in [Range(DownIP) -> Nat] /\ ulease.process \in Nat
  <2>1. /\ ulease \in Leases /\ ulease.user \in [Range(DownUser) -> Nat] /\ ulease.ip \in [Range(DownIP) -> Nat]
        /\ ulease.process \in Nat
    BY Zenon DEF LeaseInv, Leases
  <2>2. /\ ulease'.user = [ulease.user EXCEPT ![DownUser[d]] = @ + 1]
        /\ ulease'.ip = [ulease.ip EXCEPT ![DownIP[d]] = @ + 1]
        /\ ulease'.process = ulease.process + 1
        /\ ulease' = [user |-> ulease'.user, ip |-> ulease'.ip, process |-> ulease'.process]
    BY Zenon, <2>1 DEF Leases
  <2>3. /\ ulease'.user \in [Range(DownUser) -> Nat] /\ ulease'.ip \in [Range(DownIP) -> Nat]
        /\ ulease'.process \in Nat
    BY <1>1, <2>1, <2>2
  <2>4. ulease' \in Leases
    BY Zenon, <2>2, <2>3 DEF Leases
  <2> QED BY Zenon, <2>1, <2>2, <2>4
<1>3. ASSUME NEW x \in Range(DownUser)
      PROVE  ulease'.user[x] = Count(Streaming', DownUser, x) /\ ulease'.user[x] <= PerUser
  <2>1. Count(Streaming', DownUser, x)
          = IF DownUser[d] = x THEN Count(Streaming, DownUser, x) + 1 ELSE Count(Streaming, DownUser, x)
    BY <1>1, CountUp
  <2>2. ulease.user[x] = Count(Streaming, DownUser, x) /\ ulease.user[x] <= PerUser
    BY Zenon, LeasesCount DEF LeaseInv
  <2>3. ulease'.user[x] = IF DownUser[d] = x THEN ulease.user[x] + 1 ELSE ulease.user[x]
    BY <1>1, <1>2
  <2>4. ulease.user[x] \in Nat /\ PerUser \in Nat
    BY Zenon, <1>2, UploadsConstants
  <2> QED BY <2>1, <2>2, <2>3, <2>4
<1>4. ASSUME NEW a \in Range(DownIP)
      PROVE  ulease'.ip[a] = Count(Streaming', DownIP, a) /\ ulease'.ip[a] <= PerIP
  <2>1. Count(Streaming', DownIP, a)
          = IF DownIP[d] = a THEN Count(Streaming, DownIP, a) + 1 ELSE Count(Streaming, DownIP, a)
    BY <1>1, CountUp
  <2>2. ulease.ip[a] = Count(Streaming, DownIP, a) /\ ulease.ip[a] <= PerIP
    BY Zenon, LeasesCount DEF LeaseInv
  <2>3. ulease'.ip[a] = IF DownIP[d] = a THEN ulease.ip[a] + 1 ELSE ulease.ip[a]
    BY Zenon, <1>1, <1>2
  <2>4. ulease.ip[a] \in Nat /\ PerIP \in Nat
    BY Zenon, <1>2, UploadsConstants
  <2> QED BY <2>1, <2>2, <2>3, <2>4
<1>5. ulease'.process = Cardinality(Streaming') /\ ulease'.process <= PerProcess
  <2>1. IsFiniteSet(Streaming)
    BY Zenon, <1>1, UploadsConstants, FS_Subset
  <2>2. Cardinality(Streaming') = Cardinality(Streaming) + 1
    BY Zenon, <2>1, FS_AddElement
  <2>3. ulease.process = Cardinality(Streaming) /\ PerProcess \in Nat
    BY Zenon, LeasesCount, UploadsConstants DEF LeaseInv
  <2> QED BY <1>2, <2>2, <2>3
<1>6. LeasesExact'
  BY Zenon, <1>3, <1>4, <1>5 DEF LeasesExact, Streaming, Count
<1> QED BY Zenon, <1>2, <1>6 DEF LeaseInv

\* So are those of a restarted one.
LEMMA NoLeasesAfter ==
  ASSUME udown' = [d \in Downs |-> Idle], ulease' = NoLeases PROVE LeaseInv'
<1>1. Streaming' = {}
  BY Zenon, IdleFacts DEF Streaming
<1>2. /\ ulease' \in Leases /\ ulease'.process = 0
      /\ \A x \in Range(DownUser) : ulease'.user[x] = 0
      /\ \A a \in Range(DownIP) : ulease'.ip[a] = 0
  BY Zenon DEF NoLeases, Leases
<1>3. 0 <= PerUser /\ 0 <= PerIP /\ 0 <= PerProcess
  BY UploadsConstants
<1>4. LeasesExact'
  BY Zenon, <1>1, <1>2, <1>3, NoneCounted DEF LeasesExact, Streaming, Count
<1> QED BY Zenon, <1>2, <1>4 DEF LeaseInv

\* Releasing a lease takes exactly that download off.
LEMMA Released ==
  ASSUME LeaseInv, NEW d \in Streaming, Streaming' = Streaming \ {d}, _release(d) PROVE LeaseInv'
<1>1. /\ DownUser[d] \in Range(DownUser) /\ DownIP[d] \in Range(DownIP) /\ Streaming \in SUBSET Downs
  BY Zenon, UploadsConstants DEF Range, Streaming
<1>2. \A n \in Nat : OneLess(n) \in Nat /\ OneLess(n) <= n
  BY DEF OneLess
<1>3. /\ ulease \in Leases /\ ulease'.process = OneLess(ulease.process) /\ ulease' \in Leases
      /\ ulease'.user = [ulease.user EXCEPT ![DownUser[d]] = OneLess(@)]
      /\ ulease'.ip = [ulease.ip EXCEPT ![DownIP[d]] = OneLess(@)]
      /\ ulease.user \in [Range(DownUser) -> Nat] /\ ulease.ip \in [Range(DownIP) -> Nat] /\ ulease.process \in Nat
  <2>1. /\ ulease \in Leases /\ ulease.user \in [Range(DownUser) -> Nat] /\ ulease.ip \in [Range(DownIP) -> Nat]
        /\ ulease.process \in Nat
    BY Zenon DEF LeaseInv, Leases
  <2>2. /\ ulease'.user = [ulease.user EXCEPT ![DownUser[d]] = OneLess(@)]
        /\ ulease'.ip = [ulease.ip EXCEPT ![DownIP[d]] = OneLess(@)]
        /\ ulease'.process = OneLess(ulease.process)
        /\ ulease' = [user |-> ulease'.user, ip |-> ulease'.ip, process |-> ulease'.process]
    BY Zenon, <2>1 DEF Leases, _release
  <2>3. /\ ulease'.user \in [Range(DownUser) -> Nat] /\ ulease'.ip \in [Range(DownIP) -> Nat]
        /\ ulease'.process \in Nat
    BY <1>1, <1>2, <2>1, <2>2
  <2>4. ulease' \in Leases
    BY Zenon, <2>2, <2>3 DEF Leases
  <2> QED BY Zenon, <2>1, <2>2, <2>4
<1>4. ASSUME NEW x \in Range(DownUser)
      PROVE  ulease'.user[x] = Count(Streaming', DownUser, x) /\ ulease'.user[x] <= PerUser
  <2>1. Count(Streaming', DownUser, x)
          = IF DownUser[d] = x THEN OneLess(Count(Streaming, DownUser, x)) ELSE Count(Streaming, DownUser, x)
    BY <1>1, CountDown
  <2>2. ulease.user[x] = Count(Streaming, DownUser, x) /\ ulease.user[x] <= PerUser
    BY Zenon, LeasesCount DEF LeaseInv
  <2>3. ulease'.user[x] = IF DownUser[d] = x THEN OneLess(ulease.user[x]) ELSE ulease.user[x]
    BY Zenon, <1>1, <1>3
  <2>4. ulease.user[x] \in Nat /\ PerUser \in Nat
    BY Zenon, <1>3, UploadsConstants
  <2> QED BY <1>2, <2>1, <2>2, <2>3, <2>4
<1>5. ASSUME NEW a \in Range(DownIP)
      PROVE  ulease'.ip[a] = Count(Streaming', DownIP, a) /\ ulease'.ip[a] <= PerIP
  <2>1. Count(Streaming', DownIP, a)
          = IF DownIP[d] = a THEN OneLess(Count(Streaming, DownIP, a)) ELSE Count(Streaming, DownIP, a)
    BY <1>1, CountDown
  <2>2. ulease.ip[a] = Count(Streaming, DownIP, a) /\ ulease.ip[a] <= PerIP
    BY Zenon, LeasesCount DEF LeaseInv
  <2>3. ulease'.ip[a] = IF DownIP[d] = a THEN OneLess(ulease.ip[a]) ELSE ulease.ip[a]
    BY Zenon, <1>1, <1>3
  <2>4. ulease.ip[a] \in Nat /\ PerIP \in Nat
    BY Zenon, <1>3, UploadsConstants
  <2> QED BY <1>2, <2>1, <2>2, <2>3, <2>4
<1>6. ulease'.process = Cardinality(Streaming') /\ ulease'.process <= PerProcess
  <2>1. IsFiniteSet(Streaming)
    BY Zenon, <1>1, UploadsConstants, FS_Subset
  <2>2. Cardinality(Streaming') = Cardinality(Streaming) - 1 /\ Cardinality(Streaming') \in Nat
    BY Zenon, <2>1, FS_RemoveElement, FS_CardinalityType, FS_Subset
  <2>3. ulease.process = Cardinality(Streaming) /\ PerProcess \in Nat /\ ulease.process <= PerProcess
    BY Zenon, LeasesCount, UploadsConstants DEF LeaseInv
  <2> QED BY <1>3, <2>2, <2>3 DEF OneLess
<1>7. LeasesExact'
  BY Zenon, <1>4, <1>5, <1>6 DEF LeasesExact, Streaming, Count
<1> QED BY Zenon, <1>3, <1>7 DEF LeaseInv

\* A download that starts or ends without a lease.
LEMMA Unleased ==
  ASSUME LeaseInv, Streaming' = Streaming, ulease' = ulease PROVE LeaseInv'
BY Zenon DEF LeaseInv, LeasesExact, Streaming

\* Every step keeps the counters exact.
LEMMA LeaseInductive ==
  UploadsInv /\ LeaseInv /\ [UploadsNext]_uploadVars => LeaseInv'
<1> SUFFICES ASSUME UploadsInv, LeaseInv, [UploadsNext]_uploadVars PROVE LeaseInv'
  BY Zenon
<1>1. udown \in [Downs -> Download \cup {Idle}]
  BY Zenon DEF UploadsInv, UploadsTypeOK
<1>2. CASE UNCHANGED <<udown, ulease>>
  <2>1. Streaming' = Streaming
    BY Zenon, <1>2 DEF Streaming
  <2> QED BY Zenon, <1>2, <2>1, Unleased
<1>3. CASE Restart
  BY Zenon, <1>3, NoLeasesAfter DEF Restart
<1>4. ASSUME NEW d \in Downs, NEW u \in Files, DownBegin(d, u) PROVE LeaseInv'
  <2>1. /\ udown[d] = Idle /\ udown'[d].pc = "header" /\ ulease' = ulease
        /\ \A e \in Downs \ {d} : udown'[e] = udown[e]
    BY Zenon, <1>1, <1>4 DEF DownBegin
  <2>2. Streaming' = Streaming
    BY Zenon, <2>1, IdleFacts DEF Streaming
  <2> QED BY Zenon, <2>1, <2>2, Unleased
<1>5. ASSUME NEW d \in Downs, DownHeader(d) PROVE LeaseInv'
  <2>1. udown[d].pc = "header" /\ udown[d] \in Download /\ d \notin Streaming
    BY Zenon, <1>5, DownFacts DEF DownHeader, Streaming
  <2>2. CASE udown' = [udown EXCEPT ![d] = Idle] /\ ulease' = ulease
    <3>1. Streaming' = Streaming
      BY Zenon, <1>1, <2>1, <2>2, IdleFacts DEF Streaming
    <3> QED BY Zenon, <2>2, <3>1, Unleased
  <2>3. CASE /\ udown' = [udown EXCEPT ![d].pc = "stream", ![d].key = ufile[udown[d].file].key]
             /\ ulease.user[DownUser[d]] < PerUser /\ ulease.ip[DownIP[d]] < PerIP /\ ulease.process < PerProcess
             /\ ulease' = [ulease EXCEPT !.user[DownUser[d]] = @ + 1, !.ip[DownIP[d]] = @ + 1, !.process = @ + 1]
    <3>1. udown'[d].pc = "stream" /\ \A e \in Downs \ {d} : udown'[e] = udown[e]
      BY Zenon, <1>1, <2>1, <2>3 DEF Download
    <3>2. Streaming' = Streaming \cup {d}
      BY Zenon, <3>1 DEF Streaming
    <3> QED BY Zenon, <2>1, <2>3, <3>2, Acquired
  <2> QED BY Zenon, <1>5, <2>2, <2>3 DEF DownHeader, try_acquire
<1>6. ASSUME NEW d \in Downs, DownStream(d) PROVE LeaseInv'
  <2>1. d \in Streaming /\ _release(d) /\ udown' = [udown EXCEPT ![d] = Idle]
    BY Zenon, <1>6 DEF DownStream, Streaming
  <2>2. Streaming' = Streaming \ {d}
    BY Zenon, <1>1, <2>1, IdleFacts DEF Streaming
  <2> QED BY Zenon, <2>1, <2>2, Released
<1>7. CASE \E u \in Files : create_upload(u) \/ _normalize_attachments(u) \/ Hide(u)
  BY Zenon, <1>2, <1>7 DEF create_upload, _normalize_attachments, Hide, downVars
<1>8. CASE \E r \in Stores : StoreStep(r) \/ StoreDies(r) \/ \E u \in Files : StoreBegin(r, u)
  BY Zenon, <1>2, <1>8 DEF StoreStep, StoreRefused, StoreLink, StoreCommit, StoreCommitFails, StoreCommitUnacknowledged,
                    StoreUnlink, StoreDies, StoreBegin, downVars
<1>9. CASE (\E rotate \in BOOLEAN : ToolStart(rotate)) \/ ToolSelect \/ ToolStep \/ ToolDies
  BY Zenon, <1>2, <1>9 DEF ToolStart, ToolSelect, ToolStep, ToolFile, ToolCommit, ToolDies, downVars
<1>10. CASE StatusStart \/ StatusDone \/ \E u \in Files : StatusFile(u)
  BY Zenon, <1>2, <1>10 DEF StatusStart, StatusDone, StatusFile, downVars
<1>11. CASE SwitchKey \/ RemoveKey
  BY Zenon, <1>3, <1>11 DEF SwitchKey, RemoveKey
<1>12. CASE UNCHANGED uploadVars
  BY Zenon, <1>2, <1>12 DEF uploadVars, downVars
<1> QED BY Zenon, <1>4, <1>5, <1>6, <1>7, <1>8, <1>9, <1>10, <1>11, <1>12 DEF UploadsNext

\* store_upload_content and migrate_uploads: for any number of uploads, requests
\* and faults and any batch size, a finalized upload keeps its file unless the
\* answer of its own commit was lost, and messages only refer to finalized ones.
THEOREM FinalizedContentStays == UploadsSpec => []FinalizedContentKept
<1>1. UploadsInv => FinalizedContentKept
  <2> SUFFICES ASSUME UploadsInv PROVE FinalizedContentKept
    BY Zenon
  <2>1. \A u \in Rows : urow[u].public => ufile[u] # Absent \/ u \in ulost
    BY Zenon DEF UploadsInv, RowSound, Rows
  <2> QED BY Zenon, <2>1 DEF UploadsInv, FinalizedContentKept
<1> QED BY InitUploads, UploadsInductive, <1>1, PTL DEF UploadsSpec

\* migrate_uploads and collect_status: whatever the tool, the requests and the
\* crashes do, the old key that leaves the ring after a clean status was the key
\* of no file, and every file is under a key of the ring.
THEOREM KeyRemovalStaysSafe == UploadsSpec => []KeyRemovalSafe
<1>1. UploadsInv => KeyRemovalSafe
  BY Zenon DEF UploadsInv
<1> QED BY InitUploads, UploadsInductive, <1>1, PTL DEF UploadsSpec

\* get_upload_content: row, header and body are read one after the other, and
\* still a download only fails its integrity checks when the file changed
\* meanwhile, its row was behind it, or it is plaintext that is not allowed.
THEOREM AlarmsHaveCauses == UploadsSpec => []AlarmsExplained
<1>1. UploadsInv => AlarmsExplained
  BY Zenon DEF UploadsInv, AlarmsExplained
<1> QED BY InitUploads, UploadsInductive, <1>1, PTL DEF UploadsSpec

\* The counters of DownloadConcurrencyLimiter are the numbers of downloads now
\* streaming, per user, per address and in all, and within their limits, however
\* downloads start, are refused, fail, end or die with their process.
THEOREM LeasesStayExact == UploadsSpec => []LeasesExact
<1>1. UploadsInit => LeaseInv
  BY Zenon, NoLeasesExact DEF UploadsInit
<1>2. LeaseInv => LeasesExact
  BY Zenon DEF LeaseInv
<1> QED BY InitUploads, UploadsInductive, LeaseInductive, <1>1, <1>2, PTL DEF UploadsSpec
=============================================================================
