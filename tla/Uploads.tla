------------------------------- MODULE Uploads -------------------------------
(***************************************************************************)
(* The life of uploads: the database rows and the files beside them        *)
(* (services/message_service.py, db/crypto_tool.py, api/routes/messages.py, *)
(* services/download_service.py).                                          *)
(*                                                                         *)
(* Row and file are changed by separate steps and nothing commits them     *)
(* together, so the model has a step for each, a crash between any two,    *)
(* a commit whose answer is lost, concurrent store requests, the           *)
(* maintenance tool, and downloads that read row, header and body one      *)
(* after the other.  The bytes of a file are those of UploadContainer:     *)
(* here a file is its key and the request that wrote its body.             *)
(***************************************************************************)
EXTENDS Integers, FiniteSets, FiniteSetsExt, Functions

CONSTANTS
  NFiles,        \* upload ids are 1 .. NFiles, in the order of the tool's cursor
  Stores,        \* store_upload_content requests
  Downs,         \* download requests
  DownUser,      \* who sends each: "owner" or "reader"
  DownIP,        \* and from which address
  MaxPending,    \* max_pending_uploads_per_user
  MaxStored,     \* max_stored_upload_bytes_per_user, in uploads
  PerUser, PerIP, PerProcess,   \* concurrent download limits
  BatchSize,     \* --batch-size of the tool
  MaxFaults,     \* crashes, cancellations and lost answers explored
  Absent

Files == 1 .. NFiles
OldKey == "old"
NewKey == "new"

\* A row of the uploads table, and the file at its storage_path.
UploadRow == [public : BOOLEAN, version : {0, 1}, key : {OldKey, NewKey, Absent}]
StoredFile == [key : {OldKey, NewKey, Absent}, body : Stores \cup {"earlier"}]

ASSUME UploadsConstants ==
  /\ NFiles \in Nat \ {0} /\ {PerUser, PerIP, PerProcess} \subseteq Nat
  /\ IsFiniteSet(Downs) /\ DownUser \in [Downs -> {"owner", "reader"}] /\ DOMAIN DownIP = Downs
  /\ "tool" \notin Stores /\ Absent \notin Stores \cup {"tool", OldKey, NewKey}
  /\ Absent \notin UploadRow /\ Absent \notin StoredFile

VARIABLES
  urow,      \* uploads table: public (public_url set), version, key
  ufile,     \* the file at storage_path: its key (Absent: plaintext), its body
  ulock,     \* holder of the row lock taken by SELECT ... FOR UPDATE
  ushown,    \* uploads a message of a channel the reader belongs to refers to
  ustore,    \* store requests: pc, file, key
  utool,     \* crypto_tool migrate-uploads / rotate-uploads
  ustat,     \* crypto_tool status: pc, rows read, files to visit, clean so far
  udown,     \* downloads: pc, file, row as read, key of the header
  ulease,    \* DownloadConcurrencyLimiter: counters
  uring,     \* DATA_ENCRYPTION_KEYS and the active id
  uallow,    \* ALLOW_LEGACY_PLAINTEXT_UPLOADS
  ufaults,   \* faults so far
  ulost,     \* history: uploads whose commit answer was lost
  uswapped,  \* history: files replaced whose row the tool has not committed
  ualarm     \* history: integrity failures with no such cause

storeVars == <<urow, ufile, ulock, ustore>>
toolVars == <<utool, ustat, uring, uallow, uswapped>>
downVars == <<udown, ulease, ualarm>>
uploadVars == <<storeVars, toolVars, downVars, ushown, ufaults, ulost>>

Idle == [pc |-> "idle"]

NoLeases ==
  [user |-> [x \in Range(DownUser) |-> 0], ip |-> [a \in Range(DownIP) |-> 0], process |-> 0]

Rows == {u \in Files : urow[u] # Absent}
Pending == {u \in Rows : ~urow[u].public}

-----------------------------------------------------------------------------
\* Uploads of an older release: plaintext, or encrypted under the old key.
UploadsInit ==
  /\ urow \in [Files -> {Absent, [public |-> TRUE, version |-> 0, key |-> Absent],
                         [public |-> TRUE, version |-> 1, key |-> OldKey]}]
  /\ urow[NFiles] = Absent
  /\ ufile = [u \in Files |-> IF urow[u] = Absent THEN Absent
                              ELSE [key |-> urow[u].key, body |-> "earlier"]]
  /\ ulock = [u \in Files |-> Absent]
  /\ ushown = {}
  /\ ustore = [r \in Stores |-> Idle]
  /\ utool = Idle
  /\ ustat = Idle
  /\ udown = [d \in Downs |-> Idle]
  /\ ulease = NoLeases
  /\ uring = [keys |-> {OldKey, NewKey}, active |-> OldKey]
  /\ uallow \in BOOLEAN
  /\ ufaults = 0 /\ ulost = {} /\ uswapped = {} /\ ualarm = {}

\* The user row is locked from the counts to the commit, so one step. The daily
\* quota, which only refuses more, is left out.
create_upload(u) ==
  /\ urow[u] = Absent
  /\ Cardinality(Pending) < MaxPending
  /\ Cardinality(Rows) + 1 <= MaxStored
  /\ urow' = [urow EXCEPT ![u] = [public |-> FALSE, version |-> 0, key |-> Absent]]
  /\ UNCHANGED <<ufile, ulock, ustore, toolVars, downVars, ushown, ufaults, ulost>>

\* A message is published with the upload attached: only finalized ones.
_normalize_attachments(u) ==
  /\ u \in Rows /\ urow[u].public
  /\ u \notin ushown
  /\ ushown' = ushown \cup {u}
  /\ UNCHANGED <<storeVars, toolVars, downVars, ufaults, ulost>>

-----------------------------------------------------------------------------
(* store_upload_content *)

Fault == ufaults < MaxFaults /\ ufaults' = ufaults + 1

\* The request ends and its transaction with it.
StoreEnd(r) ==
  /\ ustore' = [ustore EXCEPT ![r] = Idle]
  /\ ulock' = [ulock EXCEPT ![ustore[r].file] = Absent]

\* Mutant of StoreBegin: a refused request cleans up as if it had linked the file.
StoreBeginCleansUp(r, u) ==
  /\ ustore[r] = Idle
  /\ ulock[u] = Absent
  /\ u \in Rows
  /\ IF urow[u].public \/ ufile[u] # Absent
     THEN ufile' = [ufile EXCEPT ![u] = Absent] /\ UNCHANGED <<ulock, ustore>>
     ELSE /\ ulock' = [ulock EXCEPT ![u] = r]
          /\ ustore' = [ustore EXCEPT ![r] = [pc |-> "streaming", file |-> u, key |-> uring.active]]
          /\ UNCHANGED ufile
  /\ UNCHANGED <<urow, toolVars, downVars, ushown, ufaults, ulost>>

\* The row is locked, read, and refused when its content is already there.
StoreBegin(r, u) ==
  /\ ustore[r] = Idle
  /\ ulock[u] = Absent
  /\ u \in Rows
  /\ ~urow[u].public /\ ufile[u] = Absent
  /\ ulock' = [ulock EXCEPT ![u] = r]
  /\ ustore' = [ustore EXCEPT ![r] = [pc |-> "streaming", file |-> u, key |-> uring.active]]
  /\ UNCHANGED <<urow, ufile, toolVars, downVars, ushown, ufaults, ulost>>

\* The stream is cut off, or its size or checksum is wrong.
StoreRefused(r) ==
  /\ ustore[r].pc = "streaming"
  /\ StoreEnd(r)
  /\ UNCHANGED <<urow, ufile, toolVars, downVars, ushown, ufaults, ulost>>

\* The complete file is fsynced and linked; an existing path is a refusal.
StoreLink(r) ==
  LET u == ustore[r].file IN
  /\ ustore[r].pc = "streaming"
  /\ \/ /\ ufile[u] = Absent
        /\ ufile' = [ufile EXCEPT ![u] = [key |-> ustore[r].key, body |-> r]]
        /\ ustore' = [ustore EXCEPT ![r].pc = "linked"]
        /\ UNCHANGED ulock
     \/ /\ ufile[u] # Absent
        /\ StoreEnd(r)
        /\ UNCHANGED ufile
  /\ UNCHANGED <<urow, toolVars, downVars, ushown, ufaults, ulost>>

Finalized(r) ==
  [urow EXCEPT ![ustore[r].file] = [public |-> TRUE, version |-> 1, key |-> ustore[r].key]]

StoreCommit(r) ==
  /\ ustore[r].pc = "linked"
  /\ urow' = Finalized(r)
  /\ StoreEnd(r)
  /\ UNCHANGED <<ufile, toolVars, downVars, ushown, ufaults, ulost>>

\* The audit event or the commit raises: the link is undone.
StoreCommitFails(r) ==
  /\ ustore[r].pc = "linked"
  /\ Fault
  /\ ufile' = [ufile EXCEPT ![ustore[r].file] = Absent]
  /\ StoreEnd(r)
  /\ UNCHANGED <<urow, toolVars, downVars, ushown, ulost>>

\* PostgreSQL commits and the connection breaks before the answer arrives.
StoreCommitUnacknowledged(r) ==
  /\ ustore[r].pc = "linked"
  /\ Fault
  /\ urow' = Finalized(r)
  /\ ulock' = [ulock EXCEPT ![ustore[r].file] = Absent]
  /\ ustore' = [ustore EXCEPT ![r].pc = "unlinking"]
  /\ ulost' = ulost \cup {ustore[r].file}
  /\ UNCHANGED <<ufile, toolVars, downVars, ushown>>

\* The except branch: finalized_here, so the file is removed.
StoreUnlink(r) ==
  /\ ustore[r].pc = "unlinking"
  /\ ufile' = [ufile EXCEPT ![ustore[r].file] = Absent]
  /\ ustore' = [ustore EXCEPT ![r] = Idle]
  /\ UNCHANGED <<urow, ulock, toolVars, downVars, ushown, ufaults, ulost>>

\* The process dies, or the handler is cancelled (CancelledError is no Exception,
\* so only the finally runs): the transaction is rolled back, the file stays.
StoreDies(r) ==
  /\ ustore[r].pc \in {"streaming", "linked"}
  /\ Fault
  /\ ustore' = [ustore EXCEPT ![r] = Idle]
  /\ ulock' = [ulock EXCEPT ![ustore[r].file] = Absent]
  /\ UNCHANGED <<urow, ufile, toolVars, downVars, ushown, ulost>>

-----------------------------------------------------------------------------
(* crypto_tool: migrate_uploads, with rotate_v1 for rotate-uploads *)

RowsLocked == {u \in Files : ulock[u] = "tool"}

\* Unlocked rows after the cursor, at most a batch, in id order.
NextBatch ==
  {u \in Rows : u > utool.cursor /\ Cardinality({v \in Rows : utool.cursor < v /\ v < u}) < BatchSize}

ToolStart(rotate) ==
  /\ utool = Idle
  /\ utool' = [pc |-> "select", rotate |-> rotate, target |-> uring.active, cursor |-> 0]
  /\ UNCHANGED <<storeVars, ustat, uring, uallow, uswapped, downVars, ushown, ufaults, ulost>>

\* SELECT ... FOR UPDATE waits for the rows of the batch; no rows ends the run.
ToolSelect ==
  /\ utool.pc = "select"
  /\ IF NextBatch = {}
     THEN /\ utool' = Idle
          /\ UNCHANGED ulock
     ELSE /\ \A u \in NextBatch : ulock[u] = Absent
          /\ ulock' = [u \in Files |-> IF u \in NextBatch THEN "tool" ELSE ulock[u]]
          /\ utool' = [pc |-> "batch", rotate |-> utool.rotate, target |-> utool.target, cursor |-> utool.cursor,
                       todo |-> NextBatch,
                       rows |-> [u \in NextBatch |-> [version |-> urow[u].version, key |-> urow[u].key]]]
  /\ UNCHANGED <<urow, ufile, ustore, ustat, uring, uallow, uswapped, downVars, ushown, ufaults, ulost>>

\* The run ends; what it has not committed is rolled back.
ToolEnd ==
  /\ utool' = Idle
  /\ ulock' = [u \in Files |-> IF u \in RowsLocked THEN Absent ELSE ulock[u]]

\* The row as the session will write it when the batch commits.
ToolRow(u, key) ==
  utool' = [utool EXCEPT !.todo = @ \ {u}, !.rows[u] = [version |-> 1, key |-> key]]

\* A file that stops the run: finalized and missing, plaintext behind encrypted
\* metadata, or plaintext when it is not allowed.
Unreadable(u) ==
  \/ ufile[u] = Absent /\ urow[u].public
  \/ ufile[u] # Absent /\ ufile[u].key = Absent /\ (urow[u].version = 1 \/ ~uallow)
  \/ ufile[u] # Absent /\ ufile[u].key # Absent /\ ufile[u].key \notin uring.keys

\* A tool that trusts the row: only version-0 rows and rows of another key are
\* looked at, so metadata left behind by a crash is not repaired.
ToolFileByRow(u) ==
  /\ utool.pc = "batch" /\ utool.todo # {} /\ u = Min(utool.todo)
  /\ \/ /\ Unreadable(u)
        /\ ToolEnd
        /\ UNCHANGED <<ufile, uswapped>>
     \/ /\ ufile[u] = Absent /\ ~urow[u].public
        /\ utool' = [utool EXCEPT !.todo = @ \ {u}]
        /\ UNCHANGED <<ufile, ulock, uswapped>>
     \/ /\ ~Unreadable(u) /\ ufile[u] # Absent
        /\ IF ufile[u].key = Absent \/ (utool.rotate /\ ufile[u].key # utool.target)
           THEN /\ ufile' = [ufile EXCEPT ![u].key = utool.target]
                /\ uswapped' = uswapped \cup {u}
                /\ ToolRow(u, utool.target)
           ELSE /\ utool' = [utool EXCEPT !.todo = @ \ {u}]
                /\ UNCHANGED <<ufile, uswapped>>
        /\ UNCHANGED ulock
  /\ UNCHANGED <<urow, ustore, ustat, uring, uallow, downVars, ushown, ufaults, ulost>>

\* One turn of the loop over the batch: os.replace happens here, the row waits.
ToolFile(u) ==
  /\ utool.pc = "batch" /\ utool.todo # {} /\ u = Min(utool.todo)
  /\ \/ /\ Unreadable(u)
        /\ ToolEnd
        /\ UNCHANGED <<ufile, uswapped>>
     \/ /\ ufile[u] = Absent /\ ~urow[u].public
        /\ utool' = [utool EXCEPT !.todo = @ \ {u}]
        /\ UNCHANGED <<ufile, ulock, uswapped>>
     \/ /\ ~Unreadable(u) /\ ufile[u] # Absent
        /\ IF ufile[u].key = Absent \/ (utool.rotate /\ ufile[u].key # utool.target)
           THEN /\ ufile' = [ufile EXCEPT ![u].key = utool.target]
                /\ uswapped' = uswapped \cup {u}
                /\ ToolRow(u, utool.target)
           ELSE /\ ToolRow(u, ufile[u].key)
                /\ UNCHANGED <<ufile, uswapped>>
        /\ UNCHANGED ulock
  /\ UNCHANGED <<urow, ustore, ustat, uring, uallow, downVars, ushown, ufaults, ulost>>

\* The batch commits and the cursor moves past it.
ToolCommit ==
  /\ utool.pc = "batch" /\ utool.todo = {}
  /\ urow' = [u \in Files |-> IF u \in RowsLocked
                THEN [public |-> urow[u].public, version |-> utool.rows[u].version, key |-> utool.rows[u].key]
                ELSE urow[u]]
  /\ ulock' = [u \in Files |-> IF u \in RowsLocked THEN Absent ELSE ulock[u]]
  /\ uswapped' = uswapped \ RowsLocked
  /\ utool' = [pc |-> "select", rotate |-> utool.rotate, target |-> utool.target, cursor |-> Max(RowsLocked)]
  /\ UNCHANGED <<ufile, ustore, ustat, uring, uallow, downVars, ushown, ufaults, ulost>>

\* The tool is killed.
ToolDies ==
  /\ utool # Idle
  /\ Fault
  /\ ToolEnd
  /\ UNCHANGED <<urow, ufile, ustore, ustat, uring, uallow, uswapped, downVars, ushown, ulost>>

-----------------------------------------------------------------------------
(* crypto_tool: collect_status, and the documented order of a rotation *)

\* Rows are read in a batch without locks, the files one by one afterwards.
\* Only the status after the switch decides anything.
StatusStart ==
  /\ ustat.pc # "scan"
  /\ uring = [keys |-> {OldKey, NewKey}, active |-> NewKey]
  /\ ustat' = [pc |-> "scan", rows |-> urow, todo |-> Rows, clean |-> TRUE]
  /\ UNCHANGED <<storeVars, utool, uring, uallow, uswapped, downVars, ushown, ufaults, ulost>>

\* A status that counts keys by the rows alone.
StatusFileByRow(u) ==
  /\ ustat.pc = "scan" /\ u \in ustat.todo
  /\ LET row == ustat.rows[u]
         ok  == row.version = 1 => row.key = uring.active
     IN ustat' = [ustat EXCEPT !.todo = @ \ {u}, !.clean = @ /\ ok]
  /\ UNCHANGED <<storeVars, utool, uring, uallow, uswapped, downVars, ushown, ufaults, ulost>>

\* clean: no file missing, none plaintext or invalid, no metadata mismatch, and
\* none under a key other than the active one.
StatusFile(u) ==
  /\ ustat.pc = "scan" /\ u \in ustat.todo
  /\ LET row == ustat.rows[u]
         ok  == IF ufile[u] = Absent THEN ~row.public
                ELSE /\ ufile[u].key = uring.active
                     /\ row.version = 1 /\ row.key = ufile[u].key
     IN ustat' = [ustat EXCEPT !.todo = @ \ {u}, !.clean = @ /\ ok]
  /\ UNCHANGED <<storeVars, utool, uring, uallow, uswapped, downVars, ushown, ufaults, ulost>>

StatusDone ==
  /\ ustat.pc = "scan" /\ ustat.todo = {}
  /\ ustat' = [pc |-> IF ustat.clean THEN "clean" ELSE "idle"]
  /\ UNCHANGED <<storeVars, utool, uring, uallow, uswapped, downVars, ushown, ufaults, ulost>>

\* Changing the configuration restarts every process: requests die as in
\* StoreDies, the tool rolls back, downloads end, the limiter starts at zero.
Restart ==
  /\ ustore' = [r \in Stores |-> Idle]
  /\ ulock' = [u \in Files |-> Absent]
  /\ utool' = Idle
  /\ ustat' = Idle
  /\ udown' = [d \in Downs |-> Idle]
  /\ ulease' = NoLeases

\* The new key becomes the active one.
SwitchKey ==
  /\ uring.active = OldKey
  /\ uring' = [uring EXCEPT !.active = NewKey]
  /\ Restart
  /\ UNCHANGED <<urow, ufile, uallow, uswapped, ualarm, ushown, ufaults, ulost>>

\* The old key is removed, after a status without a reference to it.
RemoveKey ==
  /\ uring.active = NewKey /\ OldKey \in uring.keys
  /\ ustat.pc = "clean"
  /\ uring' = [uring EXCEPT !.keys = {NewKey}]
  /\ Restart
  /\ UNCHANGED <<urow, ufile, uallow, uswapped, ualarm, ushown, ufaults, ulost>>
-----------------------------------------------------------------------------
(* get_upload_content and the leases of DownloadConcurrencyLimiter *)

\* Avatars, readable without a message, are left out.
can_access_upload(d, u) == DownUser[d] = "owner" \/ u \in ushown

\* The message is deleted, or the reader leaves the channel.
Hide(u) ==
  /\ u \in ushown
  /\ ushown' = ushown \ {u}
  /\ UNCHANGED <<storeVars, toolVars, downVars, ufaults, ulost>>

\* Row and access are read; seen and swapped are history.
DownBegin(d, u) ==
  /\ udown[d] = Idle
  /\ u \in Rows /\ can_access_upload(d, u)
  /\ ufile[u] # Absent
  /\ udown' = [udown EXCEPT ![d] = [pc |-> "header", file |-> u, version |-> urow[u].version,
                 key |-> urow[u].key, seen |-> ufile[u], swapped |-> u \in uswapped]]
  /\ UNCHANGED <<storeVars, toolVars, ulease, ualarm, ushown, ufaults, ulost>>

try_acquire(d) ==
  LET x == DownUser[d]
      a == DownIP[d]
  IN  IF ulease.user[x] < PerUser /\ ulease.ip[a] < PerIP /\ ulease.process < PerProcess
      THEN /\ ulease' = [ulease EXCEPT !.user[x] = @ + 1, !.ip[a] = @ + 1, !.process = @ + 1]
           /\ udown' = [udown EXCEPT ![d].pc = "stream", ![d].key = ufile[udown[d].file].key]
      ELSE /\ udown' = [udown EXCEPT ![d] = Idle]
           /\ UNCHANGED ulease

OneLess(n) == IF n <= 1 THEN 0 ELSE n - 1

_release(d) ==
  ulease' = [ulease EXCEPT !.user[DownUser[d]] = OneLess(@), !.ip[DownIP[d]] = OneLess(@),
                           !.process = OneLess(@)]

\* An integrity failure: recorded here unless the file changed under the
\* download, the row was behind the file, or plaintext is not allowed.
Alarm(d) ==
  LET c == udown[d]
      explained == ufile[c.file] # c.seen \/ c.swapped \/ (c.seen.key = Absent /\ ~uallow)
  IN  ualarm' = IF explained THEN ualarm ELSE ualarm \cup {c.file}

\* The header as it is now against the row as it was read; then admission.
DownHeader(d) ==
  LET c  == udown[d]
      f  == ufile[c.file]
      ok == /\ f # Absent
            /\ IF c.version = 1 THEN f.key = c.key /\ f.key \in uring.keys
               ELSE IF f.key = Absent THEN uallow ELSE f.key \in uring.keys
  IN  /\ c.pc = "header"
      /\ \/ /\ ok
            /\ try_acquire(d)
            /\ UNCHANGED ualarm
         \/ /\ ~ok
            /\ Alarm(d)
            /\ udown' = [udown EXCEPT ![d] = Idle]
            /\ UNCHANGED ulease
      /\ UNCHANGED <<storeVars, toolVars, ushown, ufaults, ulost>>

\* A response that releases its lease only when the transfer succeeds.
DownStreamLeaks(d) ==
  /\ udown[d].pc = "stream"
  /\ \/ _release(d)
     \/ UNCHANGED ulease
  /\ udown' = [udown EXCEPT ![d] = Idle]
  /\ UNCHANGED <<storeVars, toolVars, ualarm, ushown, ufaults, ulost>>

\* The response opens the path again; it ends, fails or is cancelled, and the
\* lease is released in every case.
DownStream(d) ==
  LET c == udown[d]
      f == ufile[c.file]
  IN  /\ c.pc = "stream"
      /\ \/ UNCHANGED ualarm
         \/ f = Absent /\ Alarm(d)
         \/ f # Absent /\ c.key # Absent /\ f.key # c.key /\ Alarm(d)
      /\ _release(d)
      /\ udown' = [udown EXCEPT ![d] = Idle]
      /\ UNCHANGED <<storeVars, toolVars, ushown, ufaults, ulost>>

-----------------------------------------------------------------------------
StoreStep(r) ==
  \/ StoreRefused(r) \/ StoreLink(r) \/ StoreCommit(r) \/ StoreCommitFails(r)
  \/ StoreCommitUnacknowledged(r) \/ StoreUnlink(r)

ToolStep == (\E u \in Files : ToolFile(u)) \/ ToolCommit

UploadsNext ==
  \/ \E u \in Files : create_upload(u) \/ _normalize_attachments(u) \/ Hide(u)
  \/ \E r \in Stores : StoreStep(r) \/ StoreDies(r) \/ \E u \in Files : StoreBegin(r, u)
  \/ \E rotate \in BOOLEAN : ToolStart(rotate)
  \/ ToolSelect \/ ToolStep \/ ToolDies
  \/ StatusStart \/ StatusDone \/ \E u \in Files : StatusFile(u)
  \/ SwitchKey \/ RemoveKey
  \/ \E d \in Downs : DownHeader(d) \/ DownStream(d) \/ \E u \in Files : DownBegin(d, u)

UploadsSpec == UploadsInit /\ [][UploadsNext]_uploadVars

-----------------------------------------------------------------------------
\* Finalized content stays (store_upload_content, migrate_uploads). An upload
\* that is finalized keeps a file, whatever the other requests, the tool and the
\* crashes do, and messages only refer to finalized uploads. The one exception
\* is the upload whose own commit answer was lost.  The converse is not claimed: a
\* request that dies after os.link leaves a file whose row is still pending.
FinalizedContentKept ==
  /\ \A u \in Rows : urow[u].public => ufile[u] # Absent \/ u \in ulost
  /\ ushown \subseteq {u \in Rows : urow[u].public}

\* Removing a key loses nothing (collect_status, migrate_uploads): after the
\* documented sequence, every file is still under a key of the ring.
KeyRemovalSafe ==
  \A u \in Files : ufile[u] # Absent => ufile[u].key \in uring.keys \cup {Absent}

\* Integrity failures have a cause (get_upload_content): a download only fails
\* its integrity checks when the file changed meanwhile (a maintenance run replaced
\* it, or a request that lost its commit answer removed it), when a run had replaced
\* it before without committing its row, or when it is plaintext and plaintext is
\* not allowed.
AlarmsExplained == ualarm = {}

\* Leases are exact (DownloadConcurrencyLimiter): each counter is the number of
\* downloads now streaming, so none leaks and the limits hold.
LeasesExact ==
  LET Streaming == {d \in Downs : udown[d].pc = "stream"} IN
  /\ \A x \in Range(DownUser) :
       ulease.user[x] = Cardinality({d \in Streaming : DownUser[d] = x}) /\ ulease.user[x] <= PerUser
  /\ \A a \in Range(DownIP) :
       ulease.ip[a] = Cardinality({d \in Streaming : DownIP[d] = a}) /\ ulease.ip[a] <= PerIP
  /\ ulease.process = Cardinality(Streaming) /\ ulease.process <= PerProcess

\* Every file and every row is at the active key, or a file stops the rotation.
UploadsRotated ==
  \/ \A u \in Rows : ufile[u] # Absent =>
       ufile[u].key = NewKey /\ urow[u].version = 1 /\ urow[u].key = NewKey
  \/ \E u \in Rows : Unreadable(u)
=============================================================================
