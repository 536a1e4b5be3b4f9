-------------------------------- MODULE Merkle --------------------------------
(***************************************************************************)
(* The Merkle tree of one checkpoint batch: building the root and the      *)
(* inclusion proof of a leaf, level by level, and verifying a claimed      *)
(* proof against the root.  Hashes are terms: SHA-256 with separate leaf   *)
(* and node domains is taken to be injective.                              *)
(*                                                                         *)
(* The batch size in a claim is the signed checkpoint's (verify_proof_     *)
(* bundle compares them), the rest of the claim may be anything.           *)
(***************************************************************************)
EXTENDS Naturals, Sequences

CONSTANT MaxLeaves   \* bound: leaves of a batch

ASSUME LeavesAssumption == MaxLeaves \in Nat

VARIABLES
  pc,
  leaf_count, leaf_index,   \* the batch and the event the proof is for
  level, index, siblings,   \* build_merkle_proof's loop
  root,
  trail,                    \* history: level, position and path length of each pass
  claim,                    \* what the verifier is given
  current, width, proof_index, result   \* verify_merkle_proof's loop

merkleVars == <<pc, leaf_count, leaf_index, level, index, siblings, root, trail, claim,
          current, width, proof_index, result>>

leaf_hash(k) == <<"leaf", k>>
parent_hash(l, r) == <<"node", l, r>>
Node(side, hash) == [side |-> side, hash |-> hash]

Leaves(n) == [k \in 1..n |-> leaf_hash(k - 1)]

\* The next level up; an unpaired last node is promoted unchanged.
NextLevel(lv) ==
  [k \in 1..((Len(lv) + 1) \div 2) |->
     IF 2 * k > Len(lv) THEN lv[2 * k - 1] ELSE parent_hash(lv[2 * k - 1], lv[2 * k])]

\* The sibling of a position on a level of a given width, if it has one.
Side(k, w) == IF k % 2 = 1 THEN "left" ELSE IF k + 1 < w THEN "right" ELSE "none"

\* A batch and the position of one of its leaves.
MerkleInit ==
  /\ pc = "build"
  /\ leaf_count \in 1..MaxLeaves
  /\ leaf_index \in 0..(leaf_count - 1)
  /\ level = Leaves(leaf_count)
  /\ index = leaf_index
  /\ siblings = <<>>
  /\ root = <<>>
  /\ trail = <<[level |-> level, index |-> index, noted |-> 0]>>
  /\ claim = <<>>
  /\ current = <<>> /\ width = 0 /\ proof_index = 0
  /\ result = FALSE

\* One pass of the loop: note the sibling, go up one level.  Positions count from 0.
BuildLevel ==
  /\ pc = "build" /\ Len(level) > 1
  /\ siblings' =
       CASE index % 2 = 1 -> Append(siblings, Node("left", level[index]))
         [] index % 2 = 0 /\ index + 1 < Len(level) -> Append(siblings, Node("right", level[index + 2]))
         [] OTHER -> siblings
  /\ level' = NextLevel(level)
  /\ index' = index \div 2
  /\ trail' = Append(trail, [level |-> level', index |-> index', noted |-> Len(siblings')])
  /\ UNCHANGED <<pc, leaf_count, leaf_index, root, claim, current, width, proof_index, result>>

BuildDone ==
  /\ pc = "build" /\ Len(level) = 1
  /\ root' = level[1]
  /\ pc' = "built"
  /\ UNCHANGED <<leaf_count, leaf_index, level, index, siblings, trail, claim, current, width,
                 proof_index, result>>

\* The genuine proof, or one with a node missing, added, replaced or on the wrong side.
Paths ==
  LET Flip(side) == IF side = "left" THEN "right" ELSE "left" IN
  {siblings}
  \cup (IF siblings = <<>> THEN {} ELSE {SubSeq(siblings, 1, Len(siblings) - 1), Tail(siblings)})
  \cup {Append(siblings, Node("left", root))}
  \cup {[siblings EXCEPT ![k].side = Flip(@)] : k \in DOMAIN siblings}
  \cup {[siblings EXCEPT ![k].hash = leaf_hash(leaf_index)] : k \in DOMAIN siblings}

\* A proof is presented for some leaf at some position of the batch.
Present(leaf, position, path) ==
  /\ pc = "built"
  /\ claim' = [leaf |-> leaf, index |-> position, siblings |-> path]
  /\ current' = leaf
  /\ index' = position
  /\ width' = leaf_count
  /\ proof_index' = 0
  /\ pc' = "verify"
  /\ UNCHANGED <<leaf_count, leaf_index, level, siblings, root, trail, result>>

Return(value) ==
  /\ pc' = "done"
  /\ result' = value
  /\ UNCHANGED <<leaf_count, leaf_index, level, index, siblings, root, trail, claim, current, width,
                 proof_index>>

\* One pass of the verifier's loop.
VerifyLevel ==
  LET side == Side(index, width)
      given == claim.siblings
      node == given[proof_index + 1]
  IN
  /\ pc = "verify" /\ width > 1
  /\ IF side # "none" /\ (proof_index >= Len(given) \/ node.side # side)
       THEN Return(FALSE)
       ELSE /\ current' = CASE side = "left" -> parent_hash(node.hash, current)
                            [] side = "right" -> parent_hash(current, node.hash)
                            [] OTHER -> current
            /\ proof_index' = IF side = "none" THEN proof_index ELSE proof_index + 1
            /\ index' = index \div 2
            /\ width' = (width + 1) \div 2
            /\ UNCHANGED <<pc, leaf_count, leaf_index, level, siblings, root, trail, claim, result>>

\* Mutant: left-over siblings are not noticed.
VerifyDoneLoose ==
  /\ pc = "verify" /\ width <= 1
  /\ Return(current = root)

VerifyDone ==
  /\ pc = "verify" /\ width <= 1
  /\ Return(proof_index = Len(claim.siblings) /\ current = root)

MerkleNext ==
  \/ BuildLevel \/ BuildDone \/ VerifyLevel \/ VerifyDone
  \/ \E k, j \in 0..(leaf_count - 1) : \E path \in Paths : Present(leaf_hash(k), j, path)

MerkleSpec == MerkleInit /\ [][MerkleNext]_merkleVars

-----------------------------------------------------------------------------
(* Properties *)

\* 2^x, and the largest power of two of m leaves that leaves something for the right.
Power[x \in Nat] == IF x = 0 THEN 1 ELSE 2 * Power[x - 1]

LeftSize(m) == CHOOSE p \in {Power[x] : x \in 0..m} : p < m /\ m <= 2 * p

\* The tree over m leaves from a first one, by divide and conquer.
Tree[m \in Nat] ==
  [first \in Nat |->
     IF m <= 1 THEN leaf_hash(first)
     ELSE parent_hash(Tree[LeftSize(m)][first], Tree[m - LeftSize(m)][first + LeftSize(m)])]

Genuine == [leaf |-> leaf_hash(leaf_index), index |-> leaf_index, siblings |-> siblings]

\* verify_merkle_proof convinces only of what the root commits to: an accepted claim
\* names the leaf that is at the claimed position of the batch, whatever path came with
\* it.  For the position a proof was built for it accepts that proof and no other.
VerifierExact ==
  pc = "done" =>
    /\ result => claim.leaf = leaf_hash(claim.index)
    /\ claim.index = leaf_index => (result <=> claim = Genuine)

\* build_merkle_root promotes unpaired nodes level by level; what comes out is the
\* balanced divide-and-conquer tree over all the leaves, none lost and none doubled.
\* verify_merkle_proof accepts exactly the genuine leaf at the genuine position with
\* the genuine path, for every batch size; odd levels included.
ProofsExact ==
  /\ pc # "build" => root = Tree[leaf_count][0]
  /\ VerifierExact

=============================================================================
