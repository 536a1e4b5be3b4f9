------------------------------ MODULE MCStorage ------------------------------
(***************************************************************************)
(* The storage components for TLC: the encrypted file format, uploads with *)
(* maintenance, uploads with downloads, and message bodies.  They share no *)
(* state, so each behaviour moves one of them: part says which.            *)
(***************************************************************************)
EXTENDS UploadContainer, Uploads, MessageKeys

CONSTANT Parts   \* the parts this run explores

VARIABLE part

\* Two downloads of the owner from two addresses, one of a reader who shares the
\* first: while one streams, the limit of its user or of its address refuses
\* another, and two of them fill the process.
MCDownUser == [d \in Downs |-> IF d = "d2" THEN "reader" ELSE "owner"]
MCDownIP == [d \in Downs |-> IF d = "d3" THEN "far" ELSE "near"]

storageVars == <<part, containerVars, uploadVars, keyVars>>

\* The parts that do not move start in one arbitrary initial state.
Still ==
  /\ part # "container" => csize = 1 /\ ~csum /\ cphase = "receiving"
  /\ part \notin {"maintenance", "downloads"} => (\A u \in Files : urow[u] = Absent) /\ uallow
  /\ part # "messages" => (\A m \in Ids : kbody[m].form = "none") /\ kallow = {"legacy", "plain"}

MCInit == part \in Parts /\ ContainerInit /\ UploadsInit /\ KeysInit /\ Still

MCNext ==
  \/ part = "container" /\ ContainerNext /\ UNCHANGED <<part, uploadVars, keyVars>>
  \/ part = "maintenance" /\ UploadsNext /\ udown' = udown /\ UNCHANGED <<part, containerVars, keyVars>>
  \/ part = "downloads" /\ UploadsNext /\ UNCHANGED <<ustat, ustore, part, containerVars, keyVars>>
  \/ part = "messages" /\ KeysNext /\ UNCHANGED <<part, containerVars, uploadVars>>

UploadsOnly == part = "maintenance" /\ UNCHANGED <<part, containerVars, keyVars>>
MessagesOnly == part = "messages" /\ UNCHANGED <<part, containerVars, uploadVars>>

RequestEnds == (UploadsOnly /\ \E r \in Stores : StoreStep(r)) \/ (MessagesOnly /\ EndEdit)
OperatorRuns == (UploadsOnly /\ ToolStart(TRUE)) \/ (MessagesOnly /\ MaintainStart(TRUE))
LocksGranted == (UploadsOnly /\ ToolSelect) \/ (MessagesOnly /\ MaintainSelect)
ToolRuns == (UploadsOnly /\ ToolStep) \/ (MessagesOnly /\ MaintainStep)

\* A request ends; a waiter for row locks gets them in its turn; the operator runs
\* the rotation again after every end.
MCFair ==
  /\ WF_storageVars(RequestEnds)
  /\ SF_storageVars(OperatorRuns)
  /\ SF_storageVars(LocksGranted)
  /\ WF_storageVars(ToolRuns)

MCSpec == MCInit /\ [][MCNext]_storageVars /\ MCFair

\* Rotation makes progress in both stores (migrate_uploads, migrate_messages):
\* once the new key is active, runs repeated after every crash and refusal
\* bring every file, row and envelope to it in spite of concurrent requests,
\* unless a file cannot be read or a body is one the tool refuses.
StorageRotates ==
  \/ part = "maintenance" /\ uring.active = NewKey
  \/ part = "messages" /\ kring.active = LatestKey
  ~>
  \/ part = "maintenance" /\ UploadsRotated
  \/ part = "messages" /\ (Rotated \/ Blocked)
=============================================================================
