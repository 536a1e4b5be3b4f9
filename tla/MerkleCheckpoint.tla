--------------------------- MODULE MerkleCheckpoint ---------------------------
(***************************************************************************)
(* The Merkle checkpointer beside the writers of the audit events.         *)
(*                                                                         *)
(* A periodic process and an operator's command line may checkpoint at the *)
(* same time.  Each takes the checkpoint lock, selects the oldest visible  *)
(* events that are in no batch, links a new batch to the latest one, and   *)
(* commits batch and leaves together.  It takes no scope lock: writers go  *)
(* on, and what commits meanwhile is left for a later batch.               *)
(***************************************************************************)
EXTENDS EventChain, FiniteSets

CONSTANTS
  Checkpointers,
  max_leaves,    \* audit_merkle_batch_size
  MaxFaults      \* bound: cycles lost to the database or a crash

ASSUME CheckpointAssumption ==
  /\ None \notin Checkpointers
  /\ max_leaves \in Nat \ {0}

VARIABLES
  batches,   \* audit_merkle_batches with their audit_merkle_leaves
  ck_lock,   \* holder of the checkpoint advisory lock
  ckpc,      \* where each checkpointer is
  chosen,    \* the events it has selected
  faults

ck_vars == <<batches, ck_lock, ckpc, chosen, faults>>
vars == <<events, lock, pending, writing, batches, ck_lock, ckpc, chosen, faults>>

\* A leaf row.  leaf_hash and the Merkle root are injective, so the set of indexed
\* leaves stands for the root (module Merkle has the tree itself).
Leaf(e, C) == [event_id |-> e.id, event_hash |-> e.event_hash,
               leaf_index |-> Cardinality({f \in C : Before(f, e)})]
compute_checkpoint_hash(n, leaves, previous) == <<n, leaves, previous>>

Checkpointed(e) == \E b \in batches : \E l \in b.leaves : l.event_id = e.id

\* The events without a leaf.
Unchecked == {e \in events : ~Checkpointed(e)}

CheckpointInit ==
  /\ Init
  /\ batches = {}
  /\ ck_lock = None
  /\ ckpc = [c \in Checkpointers |-> "waiting"]
  /\ chosen = [c \in Checkpointers |-> {}]
  /\ faults = 0

\* Mutant: overlapping cycles are not serialised.
lock_checkpoint_unlocked(c) ==
  /\ ckpc[c] = "waiting"
  /\ ckpc' = [ckpc EXCEPT ![c] = "locked"]
  /\ UNCHANGED <<batches, ck_lock, chosen, faults>>

\* pg_advisory_xact_lock on the checkpoint name.
lock_checkpoint(c) ==
  /\ ckpc[c] = "waiting"
  /\ ck_lock = None
  /\ ck_lock' = c
  /\ ckpc' = [ckpc EXCEPT ![c] = "locked"]
  /\ UNCHANGED <<batches, chosen, faults>>

\* ORDER BY created_at, id LIMIT max_leaves.
First(P, C) ==
  /\ C \subseteq P
  /\ C = P \/ Cardinality(C) = max_leaves
  /\ Cardinality(C) <= max_leaves
  /\ \A e \in C, f \in P \ C : Before(e, f)

\* The pending events are read and their hashes recomputed; a mismatch stops the
\* process, and nothing pending ends the cycle.
SelectEvents(c) ==
  /\ ckpc[c] = "locked"
  /\ \E C \in SUBSET Unchecked :
       /\ First(Unchecked, C)
       /\ chosen' = [chosen EXCEPT ![c] = C]
       /\ ckpc' = [ckpc EXCEPT ![c] =
            IF C = {} THEN "waiting"
            ELSE IF \A e \in C : e.event_hash = compute_event_hash(e) THEN "selected"
            ELSE "stopped"]
       /\ ck_lock' = IF ckpc'[c] = "selected" THEN c ELSE None
  /\ UNCHANGED <<batches, faults>>

\* The new batch, linked to the one with the highest sequence number.
Batch(C) ==
  LET latest == CHOOSE b \in batches : \A a \in batches : a.sequence_no <= b.sequence_no
      n == IF batches = {} THEN 1 ELSE latest.sequence_no + 1
      leaves == {Leaf(e, C) : e \in C}
      previous == IF batches = {} THEN None ELSE latest.checkpoint_hash
  IN [sequence_no |-> n, leaves |-> leaves, previous_checkpoint_hash |-> previous,
      checkpoint_hash |-> compute_checkpoint_hash(n, leaves, previous)]

\* The batch and its leaves are inserted and committed; the loop goes on with the
\* next batch.
CommitCheckpoint(c) ==
  /\ ckpc[c] = "selected"
  /\ batches' = batches \cup {Batch(chosen[c])}
  /\ ck_lock' = None
  /\ ckpc' = [ckpc EXCEPT ![c] = "waiting"]
  /\ chosen' = [chosen EXCEPT ![c] = {}]
  /\ UNCHANGED faults

\* Mutant: the failed transaction is not rolled back.
FailCheckpointOpen(c) ==
  /\ ckpc[c] \in {"locked", "selected"}
  /\ faults < MaxFaults
  /\ faults' = faults + 1
  /\ ckpc' = [ckpc EXCEPT ![c] = "waiting"]
  /\ chosen' = [chosen EXCEPT ![c] = {}]
  /\ UNCHANGED <<batches, ck_lock>>

\* A database error or a crash: rolled back, and tried again at the next interval.
FailCheckpoint(c) ==
  /\ ckpc[c] \in {"locked", "selected"}
  /\ faults < MaxFaults
  /\ faults' = faults + 1
  /\ ck_lock' = IF ck_lock = c THEN None ELSE ck_lock
  /\ ckpc' = [ckpc EXCEPT ![c] = "waiting"]
  /\ chosen' = [chosen EXCEPT ![c] = {}]
  /\ UNCHANGED batches

checkpoint_pending_events(c) == lock_checkpoint(c) \/ SelectEvents(c) \/ CommitCheckpoint(c)

CheckpointNext ==
  \/ Next /\ UNCHANGED ck_vars
  \/ \E c \in Checkpointers :
       (checkpoint_pending_events(c) \/ FailCheckpoint(c)) /\ UNCHANGED chain_vars

CheckpointSpec == CheckpointInit /\ [][CheckpointNext]_vars

-----------------------------------------------------------------------------
(* Properties *)

CheckpointTypeOK ==
  /\ TypeOK
  /\ \A b \in batches : b.sequence_no \in Nat /\ b.leaves # {}
  /\ ck_lock \in Checkpointers \cup {None}
  /\ ckpc \in [Checkpointers -> {"waiting", "locked", "selected", "stopped"}]
  /\ chosen \in [Checkpointers -> SUBSET events]
  /\ faults \in Nat

\* verify_database: numbered 1, 2, ..., each batch linked to the one before, every leaf
\* the snapshot of an existing event.
verify_database ==
  \A b \in batches :
    /\ IF b.sequence_no = 1
         THEN b.previous_checkpoint_hash = None
         ELSE \E a \in batches : /\ a.sequence_no = b.sequence_no - 1
                                 /\ b.previous_checkpoint_hash = a.checkpoint_hash
    /\ \A a \in batches : a.sequence_no = b.sequence_no => a = b
    /\ b.checkpoint_hash =
         compute_checkpoint_hash(b.sequence_no, b.leaves, b.previous_checkpoint_hash)
    /\ \A l \in b.leaves : \E e \in events :
         e.id = l.event_id /\ e.event_hash = l.event_hash /\ compute_event_hash(e) = e.event_hash

\* The checkpoint chain verifies at every moment, whatever cycles overlap and fail,
\* and no checkpointer ever stops on an integrity error.
CheckpointsVerify ==
  /\ verify_database
  /\ \A c \in Checkpointers : ckpc[c] # "stopped"

\* No event is in two batches: the unique constraint on audit_merkle_leaves.event_id
\* never makes a cycle fail.
CheckpointedOnce ==
  \A a, b \in batches : \A k \in a.leaves, l \in b.leaves :
    k.event_id = l.event_id => a = b /\ k = l

\* A checkpoint never skips: where an event is in a batch, so are all the earlier
\* events of its scope, even those another writer committed late.
CheckpointPrefix ==
  \A e, f \in events :
    e.scope = f.scope /\ Before(f, e) /\ Checkpointed(e) => Checkpointed(f)

\* The batches form a chain that verifies, partition the events they cover and
\* cover a prefix of every scope.
CheckpointsSound == CheckpointsVerify /\ CheckpointedOnce /\ CheckpointPrefix

\* "draining all eligible pending events" (ARCHITECTURE.md): every committed event is
\* in a batch in the end.
EventuallyCheckpointed ==
  \A id \in EventIds :
    (\E e \in events : e.id = id) ~> (\E e \in events : e.id = id /\ Checkpointed(e))

=============================================================================
