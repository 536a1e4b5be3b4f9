------------------------------- MODULE MCAudit --------------------------------
(***************************************************************************)
(* The audit trail for TLC, in two parts: two writers with two overlapping  *)
(* checkpointers; and the tree and proofs of every batch up to a size, for  *)
(* every leaf and every claim.                                              *)
(***************************************************************************)
EXTENDS MerkleCheckpoint, Merkle

VARIABLE part

auditVars == <<part, vars, merkleVars>>

MCInit ==
  /\ part \in {"chain", "tree"}
  /\ CheckpointInit
  /\ MerkleInit
  /\ part = "chain" => leaf_count = 1 /\ leaf_index = 0

ChainPart == part = "chain" /\ UNCHANGED <<part, merkleVars>>
TreePart == part = "tree" /\ UNCHANGED <<part, vars>>

MCNext ==
  \/ ChainPart /\ CheckpointNext
  \/ TreePart /\ MerkleNext
  \/ TreePart /\ pc = "done" /\ UNCHANGED merkleVars   \* a claim was judged

\* The checkpointer runs for ever; writers promise nothing.
MCSpec ==
  /\ MCInit
  /\ [][MCNext]_auditVars
  /\ \A c \in Checkpointers :
       WF_auditVars(ChainPart /\ checkpoint_pending_events(c) /\ UNCHANGED chain_vars)
=============================================================================
