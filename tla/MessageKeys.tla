----------------------------- MODULE MessageKeys -----------------------------
(***************************************************************************)
(* Message bodies at rest: the storage formats of core/encryption.py, the   *)
(* requests that write them, and crypto_tool's migrate-messages,           *)
(* rotate-messages and status running beside those requests.               *)
(*                                                                         *)
(* A body is its content type, its form (v2, legacy, plain, or null for a  *)
(* tombstone and for a message of attachments alone), the key of a v2      *)
(* envelope, and the text, abstracted to the number of its write.          *)
(***************************************************************************)
EXTENDS Integers, FiniteSets, FiniteSetsExt

CONSTANTS
  NMessages,       \* message ids are 1 .. NMessages, the order of the cursor
  MessageBatch,    \* --batch-size
  WriteTypes,      \* content types of the writes explored
  MaxWrites,       \* bound on the writes explored
  MaxToolFaults,   \* bound on the crashes of the tool explored
  Nobody

Ids == 1 .. NMessages
FormerKey == "former"
LatestKey == "latest"

ASSUME MessageKeysAssumption ==
  /\ NMessages \in Nat \ {0} /\ MessageBatch \in Nat \ {0}
  /\ Nobody \notin Ids /\ Nobody \notin {"request", "tool", FormerKey, LatestKey}

VARIABLES
  kbody,     \* content_type, content_text, content_json; form "none": no row
  kgone,     \* rows with deleted_at
  ktruth,    \* history: the text each row should hold
  klock,     \* holder of each row lock
  kedit,     \* row of the edit or delete in progress
  ktool,     \* the maintenance run
  kstat,     \* the status command
  kring,     \* key ring and active key
  kallow,    \* old forms that are read: "legacy" with MESSAGE_ENCRYPTION_KEY set,
             \* "plain" with ALLOW_LEGACY_PLAINTEXT_MESSAGES
  kwrites, kfaults

keyVars == <<kbody, kgone, ktruth, klock, kedit, ktool, kstat, kring, kallow, kwrites, kfaults>>

StoredRows == {m \in Ids : kbody[m].form # "none"}
AtRest == [pc |-> "idle"]
Body(type, form, key, text) == [type |-> type, form |-> form, key |-> key, text |-> text]

-----------------------------------------------------------------------------
(* core/encryption.py *)

\* Told from the value alone; NULL is unknown.
inspect_text_message_format(body) ==
  IF body.form = "null" THEN [kind |-> "unknown", key |-> Nobody] ELSE [kind |-> body.form, key |-> body.key]

\* The same four answers, told from the only field of the object.
inspect_json_message_format(body) ==
  IF body.form = "null" THEN [kind |-> "unknown", key |-> Nobody] ELSE [kind |-> body.form, key |-> body.key]

_message_format(body) ==
  IF body.type = "text" THEN inspect_text_message_format(body) ELSE inspect_json_message_format(body)

\* decrypt_message and decrypt_json_payload succeed: exactly the declared key is
\* tried, and the old forms depend on the settings.
decrypt_message(body) ==
  \/ body.form = "v2" /\ body.key \in kring.keys
  \/ body.form \in kallow

_decrypt_message_storage(body) == body.form # "null" /\ decrypt_message(body)

encrypt_message_with_key(type, text, key) == Body(type, "v2", key, text)

-----------------------------------------------------------------------------
(* The requests that write a body *)

NewWrite == kwrites < MaxWrites /\ kwrites' = kwrites + 1

\* A new row, anywhere in the order of the ids, which are random UUIDs.
PublishBody(m, body) ==
  /\ m \notin StoredRows
  /\ NewWrite
  /\ kbody' = [kbody EXCEPT ![m] = body]
  /\ ktruth' = [ktruth EXCEPT ![m] = kwrites']
  /\ UNCHANGED <<kgone, klock, kedit, ktool, kstat, kring, kallow, kfaults>>

\* _encrypt_payload: text, JSON, or attachments alone, which store no body.
_encrypt_payload(type) ==
  {encrypt_message_with_key(type, kwrites + 1, kring.active)} \cup {Body("text", "null", Nobody, kwrites + 1)}

\* edit_message and delete_message lock the row ...
LockRow(m) ==
  /\ kedit = Nobody
  /\ m \in StoredRows \ kgone
  /\ klock[m] = Nobody
  /\ klock' = [klock EXCEPT ![m] = "request"]
  /\ kedit' = m
  /\ UNCHANGED <<kbody, kgone, ktruth, ktool, kstat, kring, kallow, kwrites, kfaults>>

UnlockRow ==
  /\ kedit # Nobody
  /\ klock' = [klock EXCEPT ![kedit] = Nobody]
  /\ kedit' = Nobody

\* ... and replace the body, whatever key the old one was under, ...
EditBody(type) ==
  /\ UnlockRow
  /\ NewWrite
  /\ kbody' = [kbody EXCEPT ![kedit] = encrypt_message_with_key(type, kwrites', kring.active)]
  /\ ktruth' = [ktruth EXCEPT ![kedit] = kwrites']
  /\ UNCHANGED <<kgone, ktool, kstat, kring, kallow, kfaults>>

\* ... or leave a tombstone, ...
DeleteBody ==
  /\ UnlockRow
  /\ kbody' = [kbody EXCEPT ![kedit].form = "null", ![kedit].key = Nobody]
  /\ kgone' = kgone \cup {kedit}
  /\ UNCHANGED <<ktruth, ktool, kstat, kring, kallow, kwrites, kfaults>>

\* ... or fail.
AbandonEdit ==
  /\ UnlockRow
  /\ UNCHANGED <<kbody, kgone, ktruth, ktool, kstat, kring, kallow, kwrites, kfaults>>

-----------------------------------------------------------------------------
(* crypto_tool: migrate_messages, with rotate_v2 for rotate-messages *)

BatchAfter(cursor) ==
  {m \in StoredRows : m > cursor
     /\ Cardinality({n \in StoredRows : cursor < n /\ n < m}) < MessageBatch}

ToolLocks == {m \in Ids : klock[m] = "tool"}

MaintainStart(rotate) ==
  /\ ktool = AtRest
  /\ ktool' = [pc |-> "select", rotate |-> rotate, target |-> kring.active, cursor |-> 0]
  /\ UNCHANGED <<kbody, kgone, ktruth, klock, kedit, kstat, kring, kallow, kwrites, kfaults>>

BatchRead(batch) ==
  [pc |-> "batch", rotate |-> ktool.rotate, target |-> ktool.target, cursor |-> ktool.cursor,
   read |-> [m \in batch |-> kbody[m]]]

\* A select without FOR UPDATE.
MaintainSelectUnlocked ==
  /\ ktool.pc = "select"
  /\ LET batch == BatchAfter(ktool.cursor)
     IN  IF batch = {}
         THEN ktool' = AtRest
         ELSE ktool' = BatchRead(batch)
  /\ UNCHANGED <<kbody, kgone, ktruth, klock, kedit, kstat, kring, kallow, kwrites, kfaults>>

\* SELECT ... FOR UPDATE waits for locked rows and reads them; no rows: done.
MaintainSelect ==
  /\ ktool.pc = "select"
  /\ LET batch == BatchAfter(ktool.cursor)
     IN  IF batch = {}
         THEN ktool' = AtRest /\ UNCHANGED klock
         ELSE /\ \A m \in batch : klock[m] = Nobody
              /\ klock' = [m \in Ids |-> IF m \in batch THEN "tool" ELSE klock[m]]
              /\ ktool' = BatchRead(batch)
  /\ UNCHANGED <<kbody, kgone, ktruth, kedit, kstat, kring, kallow, kwrites, kfaults>>

ReleaseBatch == klock' = [m \in Ids |-> IF m \in ToolLocks THEN Nobody ELSE klock[m]]

\* What the loop does to one row: refuse it, keep it, or re-encrypt it.
Kept(body) ==
  LET f == _message_format(body)
  IN  f.kind = "v2" /\ (~ktool.rotate \/ f.key = ktool.target)

Unconvertible(body) ==
  \/ _message_format(body).kind = "unknown"
  \/ ~Kept(body) /\ ~_decrypt_message_storage(body)

Reencrypted(body) == encrypt_message_with_key(body.type, body.text, ktool.target)

\* A tool that selects the same batch again.
MaintainCommitInPlace ==
  /\ ktool.pc = "batch"
  /\ LET batch == DOMAIN ktool.read
     IN  /\ \A m \in batch : ~Unconvertible(ktool.read[m])
         /\ kbody' = [m \in Ids |-> IF m \in batch /\ ~Kept(ktool.read[m])
                                      THEN Reencrypted(ktool.read[m]) ELSE kbody[m]]
         /\ ktool' = [pc |-> "select", rotate |-> ktool.rotate, target |-> ktool.target, cursor |-> ktool.cursor]
  /\ ReleaseBatch
  /\ UNCHANGED <<kgone, ktruth, kedit, kstat, kring, kallow, kwrites, kfaults>>

\* The batch is re-encrypted, committed, and the cursor moves past it.
MaintainCommit ==
  /\ ktool.pc = "batch"
  /\ LET batch == DOMAIN ktool.read
     IN  /\ \A m \in batch : ~Unconvertible(ktool.read[m])
         /\ kbody' = [m \in Ids |-> IF m \in batch /\ ~Kept(ktool.read[m])
                                      THEN Reencrypted(ktool.read[m]) ELSE kbody[m]]
         /\ ktool' = [pc |-> "select", rotate |-> ktool.rotate, target |-> ktool.target, cursor |-> Max(batch)]
  /\ ReleaseBatch
  /\ UNCHANGED <<kgone, ktruth, kedit, kstat, kring, kallow, kwrites, kfaults>>

\* One refused row raises: the whole batch is rolled back and the command ends.
MaintainRaise ==
  /\ ktool.pc = "batch"
  /\ \E m \in DOMAIN ktool.read : Unconvertible(ktool.read[m])
  /\ ktool' = AtRest
  /\ ReleaseBatch
  /\ UNCHANGED <<kbody, kgone, ktruth, kedit, kstat, kring, kallow, kwrites, kfaults>>

MaintainDies ==
  /\ ktool # AtRest
  /\ kfaults < MaxToolFaults /\ kfaults' = kfaults + 1
  /\ ktool' = AtRest
  /\ ReleaseBatch
  /\ UNCHANGED <<kbody, kgone, ktruth, kedit, kstat, kring, kallow, kwrites>>

-----------------------------------------------------------------------------
(* crypto_tool: the message half of collect_status, and the rotation procedure *)

\* Only a status after the change of the active key decides anything.
StatusBegin ==
  /\ kstat.pc # "scan" /\ kring = [keys |-> {FormerKey, LatestKey}, active |-> LatestKey]
  /\ kstat' = [pc |-> "scan", cursor |-> 0, former |-> FALSE]
  /\ UNCHANGED <<kbody, kgone, ktruth, klock, kedit, ktool, kring, kallow, kwrites, kfaults>>

\* A batch is read without locks, and its formats are counted; former: a body
\* labelled with the former key was counted.
StatusBatch ==
  /\ kstat.pc = "scan"
  /\ LET batch == BatchAfter(kstat.cursor)
     IN  kstat' = IF batch = {}
                  THEN [pc |-> IF kstat.former THEN "idle" ELSE "clean"]
                  ELSE [kstat EXCEPT !.cursor = Max(batch), !.former = @ \/
                          \E m \in batch : _message_format(kbody[m]) = [kind |-> "v2", key |-> FormerKey]]
  /\ UNCHANGED <<kbody, kgone, ktruth, klock, kedit, ktool, kring, kallow, kwrites, kfaults>>

\* The ring is read once per process (lru_cache), so a change restarts them all:
\* requests and the tool roll back.
RestartAll ==
  /\ klock' = [m \in Ids |-> Nobody]
  /\ kedit' = Nobody
  /\ ktool' = AtRest
  /\ kstat' = AtRest

\* "Change the active ID first", ...
ActivateLatest ==
  /\ kring.active = FormerKey
  /\ kring' = [kring EXCEPT !.active = LatestKey]
  /\ RestartAll
  /\ UNCHANGED <<kbody, kgone, ktruth, kallow, kwrites, kfaults>>

\* ... and "remove an old key only after no data references it".
RemoveFormer ==
  /\ kring.active = LatestKey /\ FormerKey \in kring.keys
  /\ kstat.pc = "clean"
  /\ kring' = [kring EXCEPT !.keys = {LatestKey}]
  /\ RestartAll
  /\ UNCHANGED <<kbody, kgone, ktruth, kallow, kwrites, kfaults>>

-----------------------------------------------------------------------------
EarlierBodies ==
  {Body("text", "none", Nobody, 0), Body("text", "v2", FormerKey, 0),
   Body("json", "legacy", Nobody, 0), Body("text", "plain", Nobody, 0)}

KeysInit ==
  /\ kbody \in [Ids -> EarlierBodies]
  /\ kgone = {}
  /\ ktruth = [m \in Ids |-> 0]
  /\ klock = [m \in Ids |-> Nobody]
  /\ kedit = Nobody
  /\ ktool = AtRest /\ kstat = AtRest
  /\ kring = [keys |-> {FormerKey, LatestKey}, active |-> FormerKey]
  /\ kallow \in SUBSET {"legacy", "plain"}
  /\ kwrites = 0 /\ kfaults = 0

EndEdit == (\E type \in WriteTypes : EditBody(type)) \/ DeleteBody \/ AbandonEdit
MaintainStep == MaintainCommit \/ MaintainRaise

KeysNext ==
  \/ \E m \in Ids, type \in WriteTypes : \E body \in _encrypt_payload(type) : PublishBody(m, body)
  \/ \E m \in Ids : LockRow(m)
  \/ EndEdit
  \/ \E rotate \in BOOLEAN : MaintainStart(rotate)
  \/ MaintainSelect \/ MaintainStep \/ MaintainDies
  \/ StatusBegin \/ StatusBatch
  \/ ActivateLatest \/ RemoveFormer

KeysSpec == KeysInit /\ [][KeysNext]_keyVars

-----------------------------------------------------------------------------
(* Properties *)

\* Key rotation loses nothing: whatever edits, deletions, maintenance runs,
\* crashes and key changes went before, a live message still has the text last
\* written to it, and no v2 envelope names a key that has left the ring (the FOR
\* UPDATE of migrate_messages, the cursor of collect_status and the order of
\* the rotation).
BodiesIntact ==
  \A m \in StoredRows \ kgone :
    /\ kbody[m].text = ktruth[m]
    /\ kbody[m].form = "v2" => kbody[m].key \in kring.keys

\* No body is under the former key.
Rotated == \A m \in StoredRows : kbody[m].key # FormerKey

\* A body rotate-messages refuses: NULL, a legacy body without its key, or plaintext
\* that is not allowed.
Blocked == \E m \in StoredRows : kbody[m].form \notin {"v2"} \cup kallow

\* "All commands are bounded and restartable": rotate-messages, run again and
\* again, leaves no body under the old key where the settings let it read every
\* stored form. A tombstone has a NULL body, whose
\* format is unknown, so every run raises at its batch and never gets past it.
RotationCompletes ==
  (kring.active = LatestKey /\ \A m \in StoredRows : kbody[m].form \in {"v2", "null"} \cup kallow) ~> Rotated
=============================================================================
