-------------------------- MODULE Integrity_proofs --------------------------
(***************************************************************************)
(* Proofs about the audit log: the inclusion proofs of a checkpoint, the   *)
(* hash chains of the events and the Merkle checkpoints over them.  They   *)
(* hold for any number of scopes, writers, checkpointers and events, any   *)
(* clocks, batch size and failures.                                        *)
(***************************************************************************)
EXTENDS MerkleCheckpoint, Merkle, WellFoundedInduction, TLAPS

-----------------------------------------------------------------------------
(***************************************************************************)
(* Lists of anything, as hashes, paths, bytes and frames are.              *)
(***************************************************************************)

IsSeq(s) == \E S : s \in Seq(S)

\* Numbers and indices up to the next one, as the provers need them.
LEMMA NextNat == \A n \in Nat : n + 1 \in Nat
OBVIOUS

\* The indices of a list that is one longer.
LEMMA NextIndices == \A n \in Nat : \A q : q \in 1..(n + 1) <=> q \in 1..n \/ q = n + 1
OBVIOUS

\* The domain of a list, a list from its elements, equality, one element more.
LEMMA ListFacts ==
  ASSUME NEW s, IsSeq(s)
  PROVE  Len(s) \in Nat /\ DOMAIN s = 1..Len(s)
BY DEF IsSeq

\* A function on 1..n is a list of length n.
LEMMA ListOf ==
  ASSUME NEW n \in Nat, NEW s, s = [k \in 1..n |-> s[k]]
  PROVE  IsSeq(s) /\ Len(s) = n
<1>1. s \in [1..n -> {s[k] : k \in 1..n}]
  BY Zenon
<1>2. s \in Seq({s[k] : k \in 1..n}) /\ Len(s) = n
  BY <1>1
<1> QED BY Zenon, <1>2 DEF IsSeq

\* Lists with the same elements are equal.
LEMMA ListEqual ==
  ASSUME NEW s, NEW t, IsSeq(s), IsSeq(t), Len(s) = Len(t), \A q \in 1..Len(s) : s[q] = t[q]
  PROVE  s = t
BY DEF IsSeq

\* What appending does to a list of anything.
LEMMA ListAppend ==
  ASSUME NEW s, NEW e, IsSeq(s)
  PROVE  /\ IsSeq(Append(s, e))
         /\ Len(Append(s, e)) = Len(s) + 1
         /\ Append(s, e)[Len(s) + 1] = e
         /\ \A q \in 1..Len(s) : Append(s, e)[q] = s[q]
<1>1. PICK S : s \in Seq(S)
  BY DEF IsSeq
<1>2. s \in Seq(S \cup {e}) /\ e \in S \cup {e}
  BY <1>1
<1>3. Append(s, e) \in Seq(S \cup {e})
  BY <1>2
<1> QED BY <1>2, <1>3 DEF IsSeq

\* Lists over a set.
LEMMA SeqElement == \A S : \A s \in Seq(S) : \A q \in DOMAIN s : s[q] \in S
OBVIOUS

\* A sequence over a set is one over a larger set.
LEMMA SeqLarger ==
  ASSUME NEW S, NEW T, S \subseteq T, NEW s \in Seq(S)
  PROVE  s \in Seq(T)
OBVIOUS

\* Replacing an element leaves a sequence.
LEMMA SeqExcept ==
  ASSUME NEW S, NEW s \in Seq(S), NEW q \in DOMAIN s, NEW e \in S
  PROVE  [s EXCEPT ![q] = e] \in Seq(S)
OBVIOUS

-----------------------------------------------------------------------------
(***************************************************************************)
(* Inclusion proofs are judged exactly, for every batch size and every     *)
(* claim.                                                                  *)
(*                                                                         *)
(* The argument climbs the tree twice.  Building leaves a trail: each rung *)
(* of it is one level, with the position of the leaf and the length of the *)
(* path so far (Trail).  The verifier's loop climbs the same rungs: its    *)
(* width is the length of some level, and because a parent hash has one    *)
(* pair of children, holding the hash of that level at its position means  *)
(* having started from the leaf of the batch (At).                         *)
(***************************************************************************)

\* Any path a claim may carry: a list of nodes with a side and a hash.
AnyPath(path) ==
  /\ IsSeq(path)
  /\ \A q \in DOMAIN path : path[q] = Node(path[q].side, path[q].hash)

\* The proofs of a batch, presented with any leaf, position and path.
AnyClaimNext ==
  \/ BuildLevel \/ BuildDone \/ VerifyLevel \/ VerifyDone
  \/ \E leaf, path : \E j \in 0..(leaf_count - 1) : AnyPath(path) /\ Present(leaf, j, path)

AnyClaimSpec == MerkleInit /\ [][AnyClaimNext]_merkleVars

\* A level of the tree with the position of the leaf and the siblings noted below it.
RungOK(a, path) ==
  /\ IsSeq(a.level) /\ Len(a.level) > 0
  /\ a.index \in 0..(Len(a.level) - 1)
  /\ a.noted \in Nat /\ a.noted <= Len(path)

\* One pass of the building loop.
Above(a, b, path) ==
  /\ Len(a.level) > 1
  /\ b.level = NextLevel(a.level)
  /\ b.index = a.index \div 2
  /\ b.noted = IF Side(a.index, Len(a.level)) = "none" THEN a.noted ELSE a.noted + 1
  /\ Side(a.index, Len(a.level)) = "left" => path[b.noted] = Node("left", a.level[a.index])
  /\ Side(a.index, Len(a.level)) = "right" => path[b.noted] = Node("right", a.level[a.index + 2])

Trail ==
  /\ leaf_count \in Nat /\ leaf_index \in 0..(leaf_count - 1)
  /\ AnyPath(siblings) /\ IsSeq(trail) /\ Len(trail) > 0
  /\ \A d \in 1..Len(trail) : RungOK(trail[d], siblings)
  /\ \A d \in 1..(Len(trail) - 1) : Above(trail[d], trail[d + 1], siblings)
  /\ trail[1].level = Leaves(leaf_count) /\ trail[1].index = leaf_index /\ trail[1].noted = 0

\* What the builder holds, and what it returned.
Top ==
  /\ pc \in {"build", "built", "verify", "done"}
  /\ trail[Len(trail)].noted = Len(siblings)
  /\ pc = "build" => level = trail[Len(trail)].level /\ index = trail[Len(trail)].index
  /\ pc # "build" => Len(trail[Len(trail)].level) = 1 /\ root = trail[Len(trail)].level[1]

\* The part of the claim the verifier has read is the genuine one.
Agrees(m) ==
  /\ claim.leaf = leaf_hash(leaf_index)
  /\ \A q \in 1..m : claim.siblings[q] = siblings[q]

\* The verifier has climbed to the level d of the tree.
At(d) ==
  /\ width = Len(trail[d].level) /\ index \in 0..(width - 1)
  /\ proof_index \in Nat /\ proof_index <= Len(claim.siblings)
  /\ current = trail[d].level[index + 1] => claim.leaf = leaf_hash(claim.index)
  /\ claim.index = leaf_index =>
       /\ index = trail[d].index /\ proof_index = trail[d].noted
       /\ current = trail[d].level[index + 1] <=> Agrees(proof_index)

Claimed ==
  pc \in {"verify", "done"} =>
    /\ AnyPath(claim.siblings)
    /\ claim = [leaf |-> claim.leaf, index |-> claim.index, siblings |-> claim.siblings]

\* The inductive invariant.
MerkleInv ==
  /\ Trail
  /\ Top
  /\ Claimed
  /\ pc = "verify" => \E d \in 1..Len(trail) : At(d)
  /\ VerifierExact

\* A parent hash has one pair of children.
LEMMA ParentInjective ==
  \A a, b, c, d : parent_hash(a, b) = parent_hash(c, d) <=> a = c /\ b = d
BY DEF parent_hash

\* Two nodes of one side differ in their hash.
LEMMA NodeHash == \A s, g, h : Node(s, g) = Node(s, h) <=> g = h
BY DEF Node

\* A path is a list of records, and a path with one more node is a path.
LEMMA PathTyped ==
  ASSUME NEW path, AnyPath(path)
  PROVE  path \in Seq([side : {path[q].side : q \in DOMAIN path}, hash : {path[q].hash : q \in DOMAIN path}])
<1> DEFINE R == [side : {path[q].side : q \in DOMAIN path}, hash : {path[q].hash : q \in DOMAIN path}]
<1>1. ASSUME NEW q \in DOMAIN path PROVE path[q] \in R
  <2>1. path[q] = [side |-> path[q].side, hash |-> path[q].hash]
    BY Zenon DEF AnyPath, Node
  <2>2. [side |-> path[q].side, hash |-> path[q].hash] \in R
    BY Zenon
  <2> QED BY Zenon, <2>1, <2>2
<1>2. IsSeq(path) /\ Len(path) \in Nat /\ DOMAIN path = 1..Len(path)
  BY Zenon, ListFacts DEF AnyPath
<1> HIDE DEF R
<1>3. path \in Seq(R)
  BY <1>1, <1>2 DEF IsSeq
<1> QED BY Zenon, <1>3 DEF R

\* A sequence of nodes is a path.
LEMMA TypedPath ==
  ASSUME NEW S, NEW H, NEW path \in Seq([side : S, hash : H])
  PROVE  AnyPath(path)
<1>1. \A q \in DOMAIN path : path[q] \in [side : S, hash : H]
  BY Zenon, SeqElement
<1> QED BY Zenon, <1>1 DEF AnyPath, IsSeq, Node

\* A path grows by a node.
LEMMA PathAppend ==
  ASSUME NEW path, NEW s, NEW h, AnyPath(path)
  PROVE  AnyPath(Append(path, Node(s, h)))
<1>1. PICK S, H : path \in Seq([side : S, hash : H])
  BY Zenon, PathTyped
<1>2. path \in Seq([side : S \cup {s}, hash : H \cup {h}])
  <2>1. [side : S, hash : H] \subseteq [side : S \cup {s}, hash : H \cup {h}]
    BY Zenon
  <2> QED BY Zenon, <1>1, <2>1, SeqLarger
<1>3. Node(s, h) \in [side : S \cup {s}, hash : H \cup {h}]
  BY Zenon DEF Node
<1>4. Append(path, Node(s, h)) \in Seq([side : S \cup {s}, hash : H \cup {h}])
  BY <1>2, <1>3
<1> QED BY Zenon, <1>4, TypedPath

\* The next level up: half as long, and where the hash of a position goes.
LEMMA NextLevelFacts ==
  ASSUME NEW lv, IsSeq(lv), Len(lv) > 1, NEW i \in 0..(Len(lv) - 1)
  PROVE  /\ IsSeq(NextLevel(lv)) /\ Len(NextLevel(lv)) = (Len(lv) + 1) \div 2
         /\ Len(NextLevel(lv)) > 0 /\ i \div 2 \in 0..(Len(NextLevel(lv)) - 1)
         /\ Side(i, Len(lv)) \in {"left", "right", "none"}
         /\ Side(i, Len(lv)) = "left" =>
              NextLevel(lv)[(i \div 2) + 1] = parent_hash(lv[i], lv[i + 1])
         /\ Side(i, Len(lv)) = "right" =>
              NextLevel(lv)[(i \div 2) + 1] = parent_hash(lv[i + 1], lv[i + 2])
         /\ Side(i, Len(lv)) = "none" => NextLevel(lv)[(i \div 2) + 1] = lv[i + 1]
<1> DEFINE n == (Len(lv) + 1) \div 2
           up(k) == IF 2 * k > Len(lv) THEN lv[2 * k - 1] ELSE parent_hash(lv[2 * k - 1], lv[2 * k])
<1>1. Len(lv) \in Nat /\ i \in Nat /\ n \in Nat /\ n > 0 /\ i \div 2 \in 0..(n - 1)
  BY ListFacts
<1>2. NextLevel(lv) = [k \in 1..n |-> up(k)]
  BY Zenon DEF NextLevel
<1>3. (i \div 2) + 1 \in 1..n
  BY <1>1
<1>4. NextLevel(lv)[(i \div 2) + 1] = up((i \div 2) + 1)
  BY Zenon, <1>2, <1>3
<1>5. DOMAIN NextLevel(lv) = 1..n /\ NextLevel(lv) = [k \in 1..n |-> NextLevel(lv)[k]]
  BY Zenon, <1>2
<1>6. Len(NextLevel(lv)) = n /\ IsSeq(NextLevel(lv))
  <2> HIDE DEF n, up
  <2> QED BY Zenon, <1>1, <1>5, ListOf
<1>7. Side(i, Len(lv)) = "left" => 2 * ((i \div 2) + 1) = i + 1 /\ i + 1 <= Len(lv)
  BY <1>1 DEF Side
<1>8. Side(i, Len(lv)) = "right" => 2 * ((i \div 2) + 1) = i + 2 /\ i + 2 <= Len(lv)
  BY <1>1 DEF Side
<1>9. Side(i, Len(lv)) = "none" => 2 * ((i \div 2) + 1) = i + 2 /\ i + 2 > Len(lv)
  BY <1>1 DEF Side
<1>10. Side(i, Len(lv)) \in {"left", "right", "none"}
  BY Zenon DEF Side
<1> QED BY <1>1, <1>4, <1>6, <1>7, <1>8, <1>9, <1>10

\* The leaves of a batch are the lowest level.
LEMMA LeavesFacts ==
  ASSUME NEW n \in Nat
  PROVE  IsSeq(Leaves(n)) /\ Len(Leaves(n)) = n /\ \A i \in 0..(n - 1) : Leaves(n)[i + 1] = leaf_hash(i)
<1>1. Leaves(n) = [k \in 1..n |-> Leaves(n)[k]] /\ \A k \in 1..n : Leaves(n)[k] = leaf_hash(k - 1)
  BY Zenon DEF Leaves
<1>2. IsSeq(Leaves(n)) /\ Len(Leaves(n)) = n
  BY Zenon, <1>1, ListOf
<1>3. \A i \in 0..(n - 1) : i + 1 \in 1..n /\ (i + 1) - 1 = i
  OBVIOUS
<1>4. \A i \in 0..(n - 1) : Leaves(n)[i + 1] = leaf_hash(i)
  BY Zenon, <1>1, <1>3
<1> QED BY Zenon, <1>2, <1>4

\* The invariant holds of the leaves.
LEMMA InitMerkle == MerkleInit => MerkleInv
<1> SUFFICES ASSUME MerkleInit PROVE MerkleInv
  OBVIOUS
<1> DEFINE first == [level |-> level, index |-> index, noted |-> 0]
<1>1. /\ leaf_count \in Nat /\ leaf_count > 0 /\ leaf_index \in 0..(leaf_count - 1)
      /\ pc = "build" /\ level = Leaves(leaf_count) /\ index = leaf_index
      /\ siblings = <<>> /\ trail = <<first>>
  BY LeavesAssumption DEF MerkleInit
<1>2. /\ first.level = level /\ first.index = index /\ first.noted = 0
  BY Zenon
<1> HIDE DEF first
<1>3. AnyPath(siblings) /\ Len(siblings) = 0 /\ IsSeq(trail) /\ Len(trail) = 1 /\ trail[1] = first
  <2>1. siblings \in Seq({}) /\ Len(siblings) = 0
    BY <1>1
  <2>2. trail \in Seq({first}) /\ Len(trail) = 1 /\ trail[1] = first
    BY <1>1
  <2>3. AnyPath(siblings)
    <3>1. siblings \in Seq([side : {}, hash : {}])
      BY <1>1
    <3> QED BY Zenon, <3>1, TypedPath
  <2> QED BY Zenon, <2>1, <2>2, <2>3 DEF IsSeq
<1>4. IsSeq(level) /\ Len(level) = leaf_count
  BY Zenon, <1>1, LeavesFacts
<1>5. RungOK(first, siblings)
  BY <1>1, <1>2, <1>3, <1>4 DEF RungOK
<1>6. Trail
  BY <1>1, <1>2, <1>3, <1>5 DEF Trail
<1>7. Top
  BY Zenon, <1>1, <1>2, <1>3 DEF Top
<1> QED BY Zenon, <1>1, <1>6, <1>7 DEF MerkleInv, Claimed, VerifierExact

\* Building a level adds a rung to the trail and leaves the rungs below as they were.
LEMMA BuildLevelStep == MerkleInv /\ BuildLevel => MerkleInv'
<1> SUFFICES ASSUME MerkleInv, BuildLevel PROVE MerkleInv'
  BY Zenon
<1> DEFINE top == trail[Len(trail)]
           new == [level |-> level', index |-> index', noted |-> Len(siblings')]
           side == Side(index, Len(level))
<1>1. /\ pc = "build" /\ Len(level) > 1 /\ pc' = "build"
      /\ level' = NextLevel(level) /\ index' = index \div 2 /\ trail' = Append(trail, new)
      /\ leaf_count' = leaf_count /\ leaf_index' = leaf_index
  BY Zenon DEF BuildLevel
<1>2. /\ IsSeq(trail) /\ Len(trail) \in Nat /\ Len(trail) > 0 /\ Len(trail) \in 1..Len(trail)
      /\ IsSeq(siblings) /\ Len(siblings) \in Nat
  BY ListFacts DEF MerkleInv, Trail, AnyPath
<1>3. /\ level = top.level /\ index = top.index /\ top.noted = Len(siblings) /\ RungOK(top, siblings)
      /\ IsSeq(level) /\ index \in 0..(Len(level) - 1)
  BY Zenon, <1>1, <1>2 DEF MerkleInv, Trail, Top, RungOK
<1>4. /\ IsSeq(level') /\ Len(level') > 0 /\ index' \in 0..(Len(level') - 1)
      /\ side \in {"left", "right", "none"}
  BY Zenon, <1>1, <1>3, NextLevelFacts
<1>5. /\ side = "left" => siblings' = Append(siblings, Node("left", level[index]))
      /\ side = "right" => siblings' = Append(siblings, Node("right", level[index + 2]))
      /\ side = "none" => siblings' = siblings
  <2>1. index \in Nat /\ Len(level) \in Nat
    BY <1>3, ListFacts
  <2>2. index % 2 = 0 \/ index % 2 = 1
    BY <2>1
  <2>3. ~(index % 2 = 0 /\ index % 2 = 1)
    OBVIOUS
  <2> QED BY Zenon, <2>2, <2>3 DEF BuildLevel, Side
<1> HIDE DEF side
<1>6. /\ IsSeq(siblings') /\ \A q \in 1..Len(siblings) : siblings'[q] = siblings[q]
      /\ Len(siblings') = IF side = "none" THEN Len(siblings) ELSE Len(siblings) + 1
      /\ side = "left" => siblings'[Len(siblings) + 1] = Node("left", level[index])
      /\ side = "right" => siblings'[Len(siblings) + 1] = Node("right", level[index + 2])
  <2> DEFINE Noted(e) == /\ IsSeq(siblings') /\ Len(siblings') = Len(siblings) + 1
                         /\ siblings'[Len(siblings) + 1] = e
                         /\ \A q \in 1..Len(siblings) : siblings'[q] = siblings[q]
  <2>0. \A e : siblings' = Append(siblings, e) => Noted(e)
    BY <1>2, ListAppend
  <2> HIDE DEF Noted
  <2>1. CASE side = "left"
    <3>1. Noted(Node("left", level[index]))
      BY Zenon, <1>5, <2>0, <2>1
    <3> QED BY Zenon, <2>1, <3>1 DEF Noted
  <2>2. CASE side = "right"
    <3>1. Noted(Node("right", level[index + 2]))
      BY Zenon, <1>5, <2>0, <2>2
    <3> QED BY Zenon, <2>2, <3>1 DEF Noted
  <2>3. CASE side = "none"
    BY Zenon, <1>2, <1>5, <2>3
  <2> QED BY Zenon, <1>4, <2>1, <2>2, <2>3
<1>7. Len(siblings') \in Nat /\ Len(siblings) <= Len(siblings')
  BY <1>2, <1>6
<1>8. new.level = level' /\ new.index = index' /\ new.noted = Len(siblings')
  BY Zenon
<1> HIDE DEF new
<1>9. /\ IsSeq(trail') /\ Len(trail') = Len(trail) + 1 /\ trail'[Len(trail) + 1] = new
      /\ \A d \in 1..Len(trail) : trail'[d] = trail[d]
  BY Zenon, <1>1, <1>2, ListAppend
<1>10. \A a : RungOK(a, siblings) => RungOK(a, siblings')
  BY <1>2, <1>7 DEF RungOK
<1>11. RungOK(new, siblings')
  BY <1>4, <1>7, <1>8 DEF RungOK
<1>12. \A a, b : RungOK(a, siblings) /\ RungOK(b, siblings) /\ Above(a, b, siblings) => Above(a, b, siblings')
  <2> SUFFICES ASSUME NEW a, NEW b, RungOK(a, siblings), RungOK(b, siblings),
                      Above(a, b, siblings)
               PROVE  Above(a, b, siblings')
    BY Zenon
  <2>1. Side(a.index, Len(a.level)) # "none" => b.noted \in 1..Len(siblings)
    BY <1>2 DEF RungOK, Above
  <2>2. Side(a.index, Len(a.level)) # "none" => siblings'[b.noted] = siblings[b.noted]
    BY Zenon, <1>6, <2>1
  <2> QED BY Zenon, <2>2 DEF Above
<1>13. Above(top, new, siblings')
  <2>1. Side(top.index, Len(top.level)) = side
    BY Zenon, <1>3 DEF side
  <2>2. new.noted = IF side = "none" THEN top.noted ELSE top.noted + 1
    BY Zenon, <1>3, <1>6, <1>8
  <2>3. side = "left" => siblings'[new.noted] = Node("left", top.level[top.index])
    BY Zenon, <1>3, <1>6, <1>8
  <2>4. side = "right" => siblings'[new.noted] = Node("right", top.level[top.index + 2])
    BY Zenon, <1>3, <1>6, <1>8
  <2> QED BY Zenon, <1>1, <1>3, <1>8, <2>1, <2>2, <2>3, <2>4 DEF Above
<1> HIDE DEF top
<1>14. Trail'
  <2>1. \A d \in 1..Len(trail') : d \in 1..Len(trail) \/ d = Len(trail) + 1
    BY <1>2, <1>9
  <2>2. \A d \in 1..Len(trail') : RungOK(trail'[d], siblings')
    BY Zenon, <1>9, <1>10, <1>11, <2>1 DEF MerkleInv, Trail
  <2>3. \A d \in 1..(Len(trail') - 1) :
          d \in 1..Len(trail) /\ (d = Len(trail) \/ (d \in 1..(Len(trail) - 1) /\ d + 1 \in 1..Len(trail)))
    BY <1>2, <1>9
  <2>4. \A d \in 1..(Len(trail) - 1) : Above(trail[d], trail[d + 1], siblings')
    <3>1. \A d \in 1..(Len(trail) - 1) : d \in 1..Len(trail) /\ d + 1 \in 1..Len(trail)
      BY <1>2
    <3> QED BY Zenon, <1>12, <3>1 DEF MerkleInv, Trail
  <2>5. \A d \in 1..(Len(trail') - 1) : Above(trail'[d], trail'[d + 1], siblings')
    <3> SUFFICES ASSUME NEW d \in 1..(Len(trail') - 1) PROVE Above(trail'[d], trail'[d + 1], siblings')
      BY Zenon
    <3>1. CASE d = Len(trail)
      BY Zenon, <1>9, <1>13, <1>2, <3>1 DEF top
    <3>2. CASE d \in 1..(Len(trail) - 1) /\ d + 1 \in 1..Len(trail)
      BY Zenon, <1>9, <2>3, <2>4, <3>2
    <3> QED BY Zenon, <2>3, <3>1, <3>2
  <2>6. 1 \in 1..Len(trail) /\ Len(trail') > 0
    BY <1>2, <1>9
  <2>7. AnyPath(siblings')
    <3>1. AnyPath(siblings)
      BY Zenon DEF MerkleInv, Trail
    <3>2. \A s, h : AnyPath(Append(siblings, Node(s, h)))
      BY Zenon, <3>1, PathAppend
    <3> QED BY Zenon, <1>4, <1>5, <3>1, <3>2
  <2> QED BY Zenon, <1>1, <1>6, <1>9, <2>2, <2>5, <2>6, <2>7 DEF MerkleInv, Trail
<1>15. Top'
  BY Zenon, <1>1, <1>9, <1>8 DEF Top
<1> QED BY Zenon, <1>1, <1>14, <1>15 DEF MerkleInv, Claimed, VerifierExact

\* The last pass of the builder keeps the invariant.
LEMMA BuildDoneStep == MerkleInv /\ BuildDone => MerkleInv'
<1> SUFFICES ASSUME MerkleInv, BuildDone PROVE MerkleInv'
  OBVIOUS
<1>1. /\ pc = "build" /\ Len(level) = 1 /\ root' = level[1] /\ pc' = "built"
      /\ UNCHANGED <<leaf_count, leaf_index, siblings, trail>>
  BY Zenon DEF BuildDone
<1>2. Trail'
  BY Zenon, <1>1 DEF MerkleInv, Trail
<1>3. Top'
  BY Zenon, <1>1 DEF MerkleInv, Top
<1> QED BY Zenon, <1>1, <1>2, <1>3 DEF MerkleInv, Claimed, VerifierExact

\* The verifier starts on the lowest level, where every leaf is at its position.
LEMMA PresentStep ==
  ASSUME MerkleInv, NEW leaf, NEW path, NEW j \in 0..(leaf_count - 1), AnyPath(path),
         Present(leaf, j, path)
  PROVE  MerkleInv'
<1>1. /\ pc = "built" /\ pc' = "verify" /\ current' = leaf /\ index' = j
      /\ width' = leaf_count /\ proof_index' = 0
      /\ claim' = [leaf |-> leaf, index |-> j, siblings |-> path]
      /\ UNCHANGED <<leaf_count, leaf_index, siblings, trail, root>>
  BY Zenon DEF Present
<1>2. claim'.leaf = leaf /\ claim'.index = j /\ claim'.siblings = path
  BY Zenon, <1>1
<1>3. Trail'
  BY Zenon, <1>1 DEF MerkleInv, Trail
<1>4. Top'
  BY Zenon, <1>1 DEF MerkleInv, Top
<1>5. Claimed'
  BY Zenon, <1>1, <1>2 DEF Claimed
<1>6. /\ leaf_count \in Nat /\ trail[1].level = Leaves(leaf_count)
      /\ trail[1].index = leaf_index /\ trail[1].noted = 0
  BY Zenon DEF MerkleInv, Trail
<1>7. Len(trail[1].level) = leaf_count /\ trail[1].level[j + 1] = leaf_hash(j)
  BY Zenon, <1>6, LeavesFacts
<1>8. 1 \in 1..Len(trail) /\ 0 \in Nat /\ 0 <= Len(path) /\ \A q \in 1..0 : FALSE
  BY ListFacts DEF MerkleInv, Trail, AnyPath
<1>9. At(1)'
  <2>1. Agrees(0)' <=> claim'.leaf = leaf_hash(leaf_index)
    BY Zenon, <1>1, <1>8 DEF Agrees
  <2> QED BY Zenon, <1>1, <1>2, <1>6, <1>7, <1>8, <2>1 DEF At
<1> QED BY Zenon, <1>1, <1>3, <1>4, <1>5, <1>8, <1>9 DEF MerkleInv, VerifierExact

\* A pass that fails ends with a claim that is not the genuine one.
LEMMA RefuseStep ==
  ASSUME MerkleInv, pc = "verify", width > 1, Return(FALSE),
         Side(index, width) # "none",
         \/ proof_index >= Len(claim.siblings)
         \/ claim.siblings[proof_index + 1].side # Side(index, width)
  PROVE  MerkleInv'
<1>1. /\ pc' = "done" /\ result' = FALSE
      /\ UNCHANGED <<leaf_count, leaf_index, siblings, trail, root, claim>>
  BY Zenon DEF Return
<1>2. Trail'
  BY Zenon, <1>1 DEF MerkleInv, Trail
<1>3. Top'
  BY Zenon, <1>1 DEF MerkleInv, Top
<1>4. Claimed'
  BY Zenon, <1>1 DEF MerkleInv, Claimed
<1>5. ASSUME claim.index = leaf_index, claim = Genuine PROVE FALSE
  <2>1. PICK d \in 1..Len(trail) : At(d)
    BY Zenon DEF MerkleInv
  <2>2. claim.siblings = siblings
    <3>1. Genuine.siblings = siblings
      BY Zenon DEF Genuine
    <3> QED BY Zenon, <1>5, <3>1
  <2>3. /\ width = Len(trail[d].level) /\ index = trail[d].index /\ proof_index = trail[d].noted
        /\ proof_index \in Nat
    BY Zenon, <1>5, <2>1 DEF At
  <2>4. d \in 1..(Len(trail) - 1) /\ d + 1 \in 1..Len(trail)
    <3>1. Len(trail[Len(trail)].level) = 1
      BY Zenon DEF MerkleInv, Top
    <3>2. ~(1 > 1)
      OBVIOUS
    <3>3. d # Len(trail)
      BY Zenon, <2>3, <3>1, <3>2
    <3> QED BY <2>1, <3>3, ListFacts DEF MerkleInv, Trail
  <2>5. Above(trail[d], trail[d + 1], siblings) /\ RungOK(trail[d], siblings) /\ RungOK(trail[d + 1], siblings)
    BY Zenon, <2>1, <2>4 DEF MerkleInv, Trail
  <2>6. trail[d + 1].noted = proof_index + 1 /\ proof_index + 1 <= Len(siblings)
    BY Zenon, <2>3, <2>5 DEF Above, RungOK
  <2>7. Side(index, width) \in {"left", "right"}
    BY Zenon DEF Side
  <2>8. siblings[proof_index + 1].side = Side(index, width)
    <3>1. \A s, h : Node(s, h).side = s
      BY Zenon DEF Node
    <3>2. \E h : siblings[proof_index + 1] = Node(Side(index, width), h)
      BY Zenon, <2>3, <2>5, <2>6, <2>7 DEF Above
    <3> QED BY Zenon, <3>1, <3>2
  <2>9. Len(siblings) \in Nat
    BY Zenon, ListFacts DEF MerkleInv, Trail, AnyPath
  <2> QED BY <2>2, <2>3, <2>6, <2>8, <2>9
<1> QED BY Zenon, <1>1, <1>2, <1>3, <1>4, <1>5 DEF MerkleInv, VerifierExact, Genuine

\* A pass that goes on climbs one rung of the trail.
LEMMA ClimbStep ==
  ASSUME MerkleInv, VerifyLevel,
         ~(/\ Side(index, width) # "none"
           /\ \/ proof_index >= Len(claim.siblings)
              \/ claim.siblings[proof_index + 1].side # Side(index, width))
  PROVE  MerkleInv'
<1> DEFINE side == Side(index, width)
           given == claim.siblings
           node == given[proof_index + 1]
<1>1. /\ pc = "verify" /\ width > 1 /\ pc' = "verify"
      /\ index' = index \div 2 /\ width' = (width + 1) \div 2
      /\ proof_index' = IF side = "none" THEN proof_index ELSE proof_index + 1
      /\ UNCHANGED <<leaf_count, leaf_index, siblings, trail, root, claim>>
  BY Zenon DEF VerifyLevel
<1>2. Trail'
  BY Zenon, <1>1 DEF MerkleInv, Trail
<1>3. Top'
  BY Zenon, <1>1 DEF MerkleInv, Top
<1>4. Claimed'
  BY Zenon, <1>1 DEF MerkleInv, Claimed
<1>5. PICK d \in 1..Len(trail) : At(d)
  BY Zenon, <1>1 DEF MerkleInv
<1>6. d \in 1..(Len(trail) - 1) /\ d + 1 \in 1..Len(trail)
  <2>1. Len(trail[Len(trail)].level) = 1
    BY Zenon, <1>1 DEF MerkleInv, Top
  <2>2. ~(1 > 1)
    OBVIOUS
  <2>3. d # Len(trail)
    BY Zenon, <1>1, <1>5, <2>1, <2>2 DEF At
  <2> QED BY <1>5, <2>3, ListFacts DEF MerkleInv, Trail
<1> DEFINE lv == trail[d].level
           up == trail[d + 1].level
<1>7. /\ Above(trail[d], trail[d + 1], siblings) /\ RungOK(trail[d], siblings)
      /\ up = NextLevel(lv)
  BY Zenon, <1>5, <1>6 DEF MerkleInv, Trail, Above
<1>8. /\ width = Len(lv) /\ index \in 0..(Len(lv) - 1) /\ IsSeq(lv) /\ Len(lv) > 1
      /\ proof_index \in Nat /\ proof_index <= Len(given)
      /\ current = lv[index + 1] => claim.leaf = leaf_hash(claim.index)
  BY Zenon, <1>1, <1>5, <1>7 DEF At, RungOK
<1>9. /\ width' = Len(up) /\ index' \in 0..(width' - 1) /\ side \in {"left", "right", "none"}
      /\ side = "left" => up[index' + 1] = parent_hash(lv[index], lv[index + 1])
      /\ side = "right" => up[index' + 1] = parent_hash(lv[index + 1], lv[index + 2])
      /\ side = "none" => up[index' + 1] = lv[index + 1]
  BY Zenon, <1>1, <1>7, <1>8, NextLevelFacts
<1>10. /\ side = "left" => current' = parent_hash(node.hash, current)
       /\ side = "right" => current' = parent_hash(current, node.hash)
       /\ side = "none" => current' = current
  <2>1. current' = CASE side = "left" -> parent_hash(node.hash, current)
                     [] side = "right" -> parent_hash(current, node.hash)
                     [] OTHER -> current
    BY Zenon DEF VerifyLevel
  <2> HIDE DEF side, node, given
  <2> QED BY Zenon, <2>1
<1> DEFINE other == IF side = "left" THEN lv[index] ELSE lv[index + 2]
<1>11. side # "none" => (current' = up[index' + 1] <=> current = lv[index + 1] /\ node.hash = other)
  <2>1. CASE side = "left"
    <3>1. other = lv[index]
      BY Zenon, <2>1
    <3>2. current' = up[index' + 1]
            <=> parent_hash(node.hash, current) = parent_hash(lv[index], lv[index + 1])
      BY Zenon, <1>9, <1>10, <2>1
    <3> HIDE DEF other, node, lv, up, side
    <3>3. parent_hash(node.hash, current) = parent_hash(lv[index], lv[index + 1])
            <=> node.hash = lv[index] /\ current = lv[index + 1]
      BY ParentInjective
    <3> QED BY Zenon, <3>1, <3>2, <3>3
  <2>2. CASE side = "right"
    <3>1. other = lv[index + 2]
      BY Zenon, <2>2
    <3>2. current' = up[index' + 1]
            <=> parent_hash(current, node.hash) = parent_hash(lv[index + 1], lv[index + 2])
      BY Zenon, <1>9, <1>10, <2>2
    <3> HIDE DEF other, node, lv, up, side
    <3>3. parent_hash(current, node.hash) = parent_hash(lv[index + 1], lv[index + 2])
            <=> current = lv[index + 1] /\ node.hash = lv[index + 2]
      BY ParentInjective
    <3> QED BY Zenon, <3>1, <3>2, <3>3
  <2> QED BY Zenon, <1>9, <2>1, <2>2
<1>12. side # "none" => /\ proof_index + 1 <= Len(given) /\ proof_index + 1 \in DOMAIN given
                        /\ node = Node(side, node.hash)
  <2>1. AnyPath(given)
    BY Zenon, <1>1 DEF MerkleInv, Claimed
  <2>2. Len(given) \in Nat /\ DOMAIN given = 1..Len(given)
    BY Zenon, <2>1, ListFacts DEF AnyPath
  <2>3. proof_index < Len(given) => proof_index + 1 <= Len(given) /\ proof_index + 1 \in DOMAIN given
    BY <1>8, <2>2
  <2>4. ~(proof_index >= Len(given)) => proof_index < Len(given)
    BY <1>8, <2>2
  <2> QED BY Zenon, <2>1, <2>3, <2>4 DEF AnyPath
<1>13. proof_index' \in Nat /\ proof_index' <= Len(given)
  BY Zenon, <1>1, <1>8, <1>12, NextNat
<1>14. current' = up[index' + 1] => claim.leaf = leaf_hash(claim.index)
  BY Zenon, <1>8, <1>9, <1>10, <1>11
<1>15. ASSUME claim.index = leaf_index
       PROVE  /\ index' = trail[d + 1].index /\ proof_index' = trail[d + 1].noted
              /\ current' = up[index' + 1] <=> Agrees(proof_index')
  <2>1. /\ index = trail[d].index /\ proof_index = trail[d].noted
        /\ current = lv[index + 1] <=> Agrees(proof_index)
    BY Zenon, <1>5, <1>15 DEF At
  <2>2. Side(trail[d].index, Len(lv)) = side
    BY Zenon, <1>8, <2>1
  <2>3. index' = trail[d + 1].index /\ proof_index' = trail[d + 1].noted
    BY Zenon, <1>1, <1>7, <2>1, <2>2 DEF Above
  <2>4. CASE side = "none"
    BY Zenon, <1>1, <1>9, <1>10, <2>1, <2>3, <2>4
  <2>5. CASE side # "none"
    <3>1. siblings[proof_index + 1] = Node(side, other)
      <4>1. trail[d + 1].noted = proof_index + 1
        BY Zenon, <1>1, <2>3, <2>5
      <4>2. side = "left" => siblings[proof_index + 1] = Node("left", lv[index])
        BY Zenon, <1>7, <2>1, <2>2, <4>1 DEF Above
      <4>3. side = "right" => siblings[proof_index + 1] = Node("right", lv[index + 2])
        BY Zenon, <1>7, <2>1, <2>2, <4>1 DEF Above
      <4>4. side = "left" \/ (side = "right" /\ side # "left")
        BY Zenon, <1>9, <2>5
      <4> QED BY Zenon, <4>2, <4>3, <4>4
    <3>2. node = siblings[proof_index + 1] <=> node.hash = other
      <4>1. PICK h : h = node.hash
        BY Zenon
      <4>2. node = Node(side, h)
        BY Zenon, <1>12, <2>5, <4>1
      <4>3. node = siblings[proof_index + 1] <=> Node(side, h) = Node(side, other)
        BY Zenon, <3>1, <4>2
      <4> HIDE DEF other, node, side
      <4>4. Node(side, h) = Node(side, other) <=> h = other
        BY Zenon, NodeHash
      <4> QED BY Zenon, <4>1, <4>3, <4>4
    <3>3. Agrees(proof_index + 1) <=> Agrees(proof_index) /\ node = siblings[proof_index + 1]
      BY Zenon, <1>8, NextIndices DEF Agrees
    <3> QED BY Zenon, <1>1, <1>11, <2>1, <2>3, <2>5, <3>2, <3>3
  <2> QED BY Zenon, <2>3, <2>4, <2>5
<1>16. \E e \in 1..Len(trail') : At(e)'
  <2>1. PICK e \in 1..Len(trail) : e = d + 1
    BY Zenon, <1>6
  <2>2. Agrees(proof_index)' <=> Agrees(proof_index')
    BY Zenon, <1>1 DEF Agrees
  <2>3. At(e)'
    BY Zenon, <1>1, <1>9, <1>13, <1>14, <1>15, <2>1, <2>2 DEF At
  <2> QED BY Zenon, <1>1, <2>1, <2>3
<1> QED BY Zenon, <1>1, <1>2, <1>3, <1>4, <1>16 DEF MerkleInv, VerifierExact

\* At the top the verifier holds the root exactly when it has climbed from the leaf.
LEMMA VerifyDoneStep == MerkleInv /\ VerifyDone => MerkleInv'
<1> SUFFICES ASSUME MerkleInv, VerifyDone PROVE MerkleInv'
  OBVIOUS
<1>1. /\ pc = "verify" /\ width <= 1 /\ pc' = "done"
      /\ result' = (proof_index = Len(claim.siblings) /\ current = root)
      /\ UNCHANGED <<leaf_count, leaf_index, siblings, trail, root, claim>>
  BY Zenon DEF VerifyDone, Return
<1>2. Trail'
  BY Zenon, <1>1 DEF MerkleInv, Trail
<1>3. Top'
  BY Zenon, <1>1 DEF MerkleInv, Top
<1>4. Claimed'
  BY Zenon, <1>1 DEF MerkleInv, Claimed
<1>5. PICK d \in 1..Len(trail) : At(d)
  BY Zenon, <1>1 DEF MerkleInv
<1>6. width \in Nat /\ width = 1 /\ index = 0 /\ index + 1 = 1
  <2>1. /\ width = Len(trail[d].level) /\ index \in 0..(width - 1) /\ IsSeq(trail[d].level)
        /\ Len(trail[d].level) > 0
    BY Zenon, <1>5 DEF At, MerkleInv, Trail, RungOK
  <2>2. width \in Nat /\ width > 0
    BY Zenon, <2>1, ListFacts
  <2>3. width = 1
    BY <1>1, <2>2
  <2>4. index \in 0..(1 - 1)
    BY Zenon, <2>1, <2>3
  <2>5. index = 0 /\ index + 1 = 1
    BY <2>4
  <2> QED BY Zenon, <2>2, <2>3, <2>5
<1>7. d = Len(trail)
  <2>1. d \in 1..(Len(trail) - 1) => Len(trail[d].level) > 1
    BY Zenon DEF MerkleInv, Trail, Above
  <2>2. ~(1 > 1)
    OBVIOUS
  <2>3. d \notin 1..(Len(trail) - 1)
    BY Zenon, <1>5, <1>6, <2>1, <2>2 DEF At
  <2> QED BY <1>5, <2>3, ListFacts DEF MerkleInv, Trail
<1>8. root = trail[d].level[index + 1] /\ trail[d].noted = Len(siblings)
  BY Zenon, <1>1, <1>6, <1>7 DEF MerkleInv, Top
<1>9. result' => claim.leaf = leaf_hash(claim.index)
  BY Zenon, <1>1, <1>5, <1>8 DEF At
<1>10. ASSUME claim.index = leaf_index
       PROVE  result' <=> claim = Genuine
  <2>1. proof_index = Len(siblings) /\ (current = root <=> Agrees(Len(siblings)))
    BY Zenon, <1>5, <1>8, <1>10 DEF At
  <2>2. IsSeq(siblings) /\ IsSeq(claim.siblings)
        /\ claim = [leaf |-> claim.leaf, index |-> claim.index, siblings |-> claim.siblings]
    BY Zenon, <1>1 DEF MerkleInv, Trail, Claimed, AnyPath
  <2>3. ASSUME Len(siblings) = Len(claim.siblings), Agrees(Len(siblings))
        PROVE  claim = Genuine
    <3>1. claim.siblings = siblings
      BY Zenon, <2>2, <2>3, ListEqual DEF Agrees
    <3> QED BY Zenon, <1>10, <2>2, <2>3, <3>1 DEF Genuine, Agrees
  <2>4. ASSUME claim = Genuine
        PROVE  Len(siblings) = Len(claim.siblings) /\ Agrees(Len(siblings))
    <3>1. Genuine.siblings = siblings /\ Genuine.leaf = leaf_hash(leaf_index)
      BY Zenon DEF Genuine
    <3>2. claim.siblings = siblings /\ claim.leaf = leaf_hash(leaf_index)
      BY Zenon, <2>4, <3>1
    <3> QED BY Zenon, <3>2 DEF Agrees
  <2> QED BY Zenon, <1>1, <2>1, <2>3, <2>4
<1>11. VerifierExact'
  BY Zenon, <1>1, <1>9, <1>10 DEF VerifierExact, Genuine
<1> QED BY Zenon, <1>1, <1>2, <1>3, <1>4, <1>11 DEF MerkleInv

\* Every step keeps the invariant, whatever is claimed.
LEMMA MerkleInductiveStep == MerkleInv /\ [AnyClaimNext]_merkleVars => MerkleInv'
<1> SUFFICES ASSUME MerkleInv, [AnyClaimNext]_merkleVars PROVE MerkleInv'
  OBVIOUS
<1>1. CASE BuildLevel
  BY Zenon, <1>1, BuildLevelStep
<1>2. CASE BuildDone
  BY Zenon, <1>2, BuildDoneStep
<1>3. CASE VerifyLevel
  <2>1. pc = "verify" /\ width > 1
    BY Zenon, <1>3 DEF VerifyLevel
  <2>2. CASE /\ Side(index, width) # "none"
             /\ \/ proof_index >= Len(claim.siblings)
                \/ claim.siblings[proof_index + 1].side # Side(index, width)
    <3>1. Return(FALSE)
      BY Zenon, <1>3, <2>2 DEF VerifyLevel
    <3> QED BY Zenon, <2>1, <2>2, <3>1, RefuseStep
  <2> QED BY Zenon, <1>3, <2>2, ClimbStep
<1>4. CASE VerifyDone
  BY Zenon, <1>4, VerifyDoneStep
<1>5. ASSUME NEW leaf, NEW path, NEW j \in 0..(leaf_count - 1), AnyPath(path), Present(leaf, j, path)
      PROVE  MerkleInv'
  BY Zenon, <1>5, PresentStep
<1>6. CASE UNCHANGED merkleVars
  <2>1. /\ UNCHANGED <<pc, leaf_count, leaf_index, level, index, siblings, root, trail>>
        /\ UNCHANGED <<claim, current, width, proof_index, result>>
    BY Zenon, <1>6 DEF merkleVars
  <2>2. Trail' /\ Top' /\ Claimed'
    BY Zenon, <2>1 DEF MerkleInv, Trail, Top, Claimed
  <2>3. pc' = "verify" => \E d \in 1..Len(trail') : At(d)'
    BY Zenon, <2>1 DEF MerkleInv, At, Agrees
  <2>4. VerifierExact'
    BY Zenon, <2>1 DEF MerkleInv, VerifierExact, Genuine
  <2> QED BY Zenon, <2>2, <2>3, <2>4 DEF MerkleInv
<1> QED BY Zenon, <1>1, <1>2, <1>3, <1>4, <1>5, <1>6 DEF AnyClaimNext

\* The altered paths the model checker tries are paths.
LEMMA PathsAreAny ==
  ASSUME AnyPath(siblings), NEW path \in Paths
  PROVE  AnyPath(path)
<1>1. PICK S, H : siblings \in Seq([side : S, hash : H])
  BY Zenon, PathTyped
<1> DEFINE R == [side : S \cup {"left", "right"}, hash : H \cup {leaf_hash(leaf_index)}]
<1>2. siblings \in Seq(R)
  <2>1. [side : S, hash : H] \subseteq R
    BY Zenon
  <2> QED BY Zenon, <1>1, <2>1, SeqLarger
<1>3. CASE path = siblings
  BY Zenon, <1>3
<1>4. CASE siblings # <<>> /\ path \in {SubSeq(siblings, 1, Len(siblings) - 1), Tail(siblings)}
  <2> HIDE DEF R
  <2>1. path \in Seq(R)
    BY <1>2, <1>4
  <2> QED BY Zenon, <2>1, TypedPath DEF R
<1>5. CASE path = Append(siblings, Node("left", root))
  BY Zenon, <1>5, PathAppend
<1>6. ASSUME NEW k \in DOMAIN siblings, NEW s \in {"left", "right"},
             path = [siblings EXCEPT ![k].side = s]
      PROVE  AnyPath(path)
  <2>1. siblings[k] \in R
    BY Zenon, <1>2, SeqElement
  <2>2. [siblings[k] EXCEPT !.side = s] \in R
    BY <2>1
  <2> HIDE DEF R
  <2>3. path \in Seq(R)
    BY Zenon, <1>2, <1>6, <2>2, SeqExcept
  <2> QED BY Zenon, <2>3, TypedPath DEF R
<1>7. ASSUME NEW k \in DOMAIN siblings, path = [siblings EXCEPT ![k].hash = leaf_hash(leaf_index)]
      PROVE  AnyPath(path)
  <2>1. siblings[k] \in R
    BY Zenon, <1>2, SeqElement
  <2>2. [siblings[k] EXCEPT !.hash = leaf_hash(leaf_index)] \in R
    BY <2>1
  <2> HIDE DEF R
  <2>3. path \in Seq(R)
    BY Zenon, <1>2, <1>7, <2>2, SeqExcept
  <2> QED BY Zenon, <2>3, TypedPath DEF R
<1>8. CASE path \in {[siblings EXCEPT ![k].side = IF @ = "left" THEN "right" ELSE "left"] : k \in DOMAIN siblings}
  <2>1. PICK k \in DOMAIN siblings :
          path = [siblings EXCEPT ![k].side = IF siblings[k].side = "left" THEN "right" ELSE "left"]
    BY Zenon, <1>8
  <2>2. PICK s \in {"left", "right"} : s = IF siblings[k].side = "left" THEN "right" ELSE "left"
    BY Zenon
  <2> QED BY Zenon, <1>6, <2>1, <2>2
<1> QED BY Zenon, <1>3, <1>4, <1>5, <1>7, <1>8 DEF Paths

\* The claims of the model are among those.
LEMMA ModelClaims ==
  ASSUME MerkleInv, [MerkleNext]_merkleVars
  PROVE  [AnyClaimNext]_merkleVars
<1> SUFFICES ASSUME MerkleNext PROVE AnyClaimNext
  BY Zenon
<1>1. ASSUME NEW k, NEW j \in 0..(leaf_count - 1), NEW path \in Paths, Present(leaf_hash(k), j, path)
      PROVE  AnyClaimNext
  <2>1. AnyPath(path)
    BY Zenon, PathsAreAny DEF MerkleInv, Trail
  <2> QED BY Zenon, <1>1, <2>1 DEF AnyClaimNext
<1> QED BY Zenon, <1>1 DEF MerkleNext, AnyClaimNext

-----------------------------------------------------------------------------
(***************************************************************************)
(* The root is the divide-and-conquer tree.                                *)
(*                                                                         *)
(* Power and Tree are recursive functions; that they satisfy their own     *)
(* equations is proved from the least element of a set of numbers: partial *)
(* solutions exist and agree, and their diagonal is a solution.  Then each *)
(* pass of the building loop doubles the size of the subtrees whose roots  *)
(* are on the level (Subtrees).                                            *)
(***************************************************************************)

\* A set of numbers that is not empty has a least element.
LEMMA LeastNat ==
  ASSUME NEW T, T \subseteq Nat, T # {}
  PROVE  \E x \in T : \A y \in T : x <= y
<1> DEFINE R == {ss \in Nat \X Nat : ss[1] < ss[2]}
<1>1. IsWellFoundedOn(R, Nat)
  BY Zenon, NatLessThanWellFounded DEF OpToRel
<1>2. \A x, y \in Nat : x < y => <<x, y>> \in R
  OBVIOUS
<1> HIDE DEF R
<1>3. PICK x \in T : \A y \in T : ~ (<<y, x>> \in R)
  BY Zenon, <1>1, WFMin
<1>4. \A y \in T : ~(y < x)
  BY Zenon, <1>2, <1>3
<1> QED BY <1>4

\* A solution of Power's equation up to n, and the value the equation gives at x.
PowerAt(f, x) == IF x = 0 THEN 1 ELSE 2 * f[x - 1]
PowerUpTo(f, n) == f = [x \in 0..n |-> PowerAt(f, x)]

\* The body of Power looks only at smaller numbers.
LEMMA PowerCongruence ==
  ASSUME NEW f, NEW g, NEW x \in Nat, \A y \in Nat : y < x => f[y] = g[y]
  PROVE  PowerAt(f, x) = PowerAt(g, x)
<1>1. CASE x = 0
  BY Zenon, <1>1 DEF PowerAt
<1>2. CASE x # 0
  <2>1. x - 1 \in Nat /\ x - 1 < x
    BY <1>2
  <2>2. f[x - 1] = g[x - 1]
    BY Zenon, <2>1
  <2> QED BY Zenon, <1>2, <2>2 DEF PowerAt
<1> QED BY Zenon, <1>1, <1>2

\* So some function solves its equation.
LEMMA PowerSolution == \E f : f = [x \in Nat |-> PowerAt(f, x)]
<1>1. ASSUME NEW n \in Nat, NEW k \in Nat, NEW f, NEW g, PowerUpTo(f, n), PowerUpTo(g, k)
      PROVE  \A x \in Nat : x <= n /\ x <= k => f[x] = g[x]
  <2> DEFINE Bad == {x \in Nat : x <= n /\ x <= k /\ f[x] # g[x]}
  <2> SUFFICES ASSUME Bad # {} PROVE FALSE
    BY Zenon
  <2>1. PICK x \in Bad : \A y \in Bad : x <= y
    <3>1. Bad \subseteq Nat
      BY Zenon
    <3> HIDE DEF Bad
    <3> QED BY Zenon, <3>1, LeastNat
  <2>2. x \in Nat /\ x \in 0..n /\ x \in 0..k /\ f[x] # g[x]
    OBVIOUS
  <2>3. \A y \in Nat : y < x => f[y] = g[y]
    <3>1. \A y \in Nat : y < x => y <= n /\ y <= k /\ ~(x <= y)
      BY <2>2
    <3> QED BY Zenon, <2>1, <3>1
  <2>4. f[x] = PowerAt(f, x) /\ g[x] = PowerAt(g, x)
    <3> HIDE DEF Bad
    <3>1. ASSUME NEW h, NEW m, PowerUpTo(h, m), x \in 0..m PROVE h[x] = PowerAt(h, x)
      <4>1. \A v : h = [z \in 0..m |-> PowerAt(v, z)] => h[x] = PowerAt(v, x)
        BY Zenon, <3>1
      <4> QED BY Zenon, <3>1, <4>1 DEF PowerUpTo
    <3> QED BY Zenon, <1>1, <2>2, <3>1
  <2> QED BY Zenon, <2>2, <2>3, <2>4, PowerCongruence
<1>2. ASSUME NEW n \in Nat PROVE \E f : PowerUpTo(f, n)
  <2> DEFINE Bad == {x \in Nat : ~ \E f : PowerUpTo(f, x)}
  <2> SUFFICES ASSUME Bad # {} PROVE FALSE
    BY Zenon
  <2>1. PICK x \in Bad : \A y \in Bad : x <= y
    <3>1. Bad \subseteq Nat
      BY Zenon
    <3> HIDE DEF Bad
    <3> QED BY Zenon, <3>1, LeastNat
  <2>2. PICK g : x # 0 => PowerUpTo(g, x - 1)
    <3>1. x # 0 => x - 1 \in Nat /\ ~(x <= x - 1)
      OBVIOUS
    <3> QED BY Zenon, <2>1, <3>1
  <2> DEFINE f == [z \in 0..x |-> PowerAt(g, z)]
  <2>3. ASSUME NEW y \in Nat, y < x PROVE f[y] = g[y]
    <3>1. x # 0 /\ y \in 0..x /\ y \in 0..(x - 1)
      BY <2>3
    <3>2. f[y] = PowerAt(g, y)
      BY Zenon, <3>1
    <3>3. \A v : g = [z \in 0..(x - 1) |-> PowerAt(v, z)] => g[y] = PowerAt(v, y)
      BY Zenon, <3>1
    <3>4. g = [z \in 0..(x - 1) |-> PowerAt(g, z)]
      BY Zenon, <2>2, <3>1 DEF PowerUpTo
    <3> QED BY Zenon, <3>2, <3>3, <3>4
  <2>4. ASSUME NEW z \in 0..x PROVE PowerAt(g, z) = PowerAt(f, z)
    <3> HIDE DEF f
    <3>1. z \in Nat /\ \A y \in Nat : y < z => y < x
      OBVIOUS
    <3>2. \A y \in Nat : y < z => g[y] = f[y]
      BY Zenon, <2>3, <3>1
    <3> QED BY Zenon, <3>1, <3>2, PowerCongruence
  <2>5. f = [z \in 0..x |-> PowerAt(f, z)]
    BY Zenon, <2>4
  <2>6. x \in Nat /\ ~ \E h : PowerUpTo(h, x)
    BY Zenon
  <2> HIDE DEF f, Bad
  <2> QED BY Zenon, <2>5, <2>6 DEF PowerUpTo
<1> DEFINE Part(n) == CHOOSE f : PowerUpTo(f, n)
           F == [n \in Nat |-> Part(n)[n]]
<1>3. \A n \in Nat : PowerUpTo(Part(n), n)
  BY Zenon, <1>2
<1>4. \A n \in Nat : F[n] = Part(n)[n]
  BY Zenon
<1> HIDE DEF Part
<1>5. ASSUME NEW n \in Nat PROVE F[n] = PowerAt(F, n)
  <2> HIDE DEF F
  <2>1. \A y \in Nat : y < n => Part(n)[y] = F[y]
    <3>1. \A y \in Nat : y < n => y <= n /\ y <= y
      OBVIOUS
    <3>2. ASSUME NEW y \in Nat PROVE y <= n /\ y <= y => Part(n)[y] = Part(y)[y]
      <4>1. PowerUpTo(Part(n), n) /\ PowerUpTo(Part(y), y)
        BY Zenon, <1>3
      <4>2. PICK f, g : f = Part(n) /\ g = Part(y)
        BY Zenon
      <4>3. PowerUpTo(f, n) /\ PowerUpTo(g, y)
        BY Zenon, <4>1, <4>2
      <4>4. \A x \in Nat : x <= n /\ x <= y => f[x] = g[x]
        BY <1>1, <4>3
      <4> QED BY Zenon, <4>2, <4>4
    <3> QED BY Zenon, <1>4, <3>1, <3>2
  <2>2. n \in 0..n
    OBVIOUS
  <2>3. \A h, v : h = [z \in 0..n |-> PowerAt(v, z)] => h[n] = PowerAt(v, n)
    BY Zenon, <2>2
  <2>4. Part(n)[n] = PowerAt(Part(n), n)
    BY Zenon, <1>3, <2>3 DEF PowerUpTo
  <2>5. PowerAt(Part(n), n) = PowerAt(F, n)
    BY Zenon, <2>1, PowerCongruence
  <2> QED BY Zenon, <1>4, <2>4, <2>5
<1>6. F = [n \in Nat |-> F[n]]
  BY Zenon
<1> HIDE DEF F
<1>7. F = [n \in Nat |-> PowerAt(F, n)]
  BY Zenon, <1>5, <1>6
<1> QED BY Zenon, <1>7

\* Power satisfies its equation; powers of two are spread out and unbounded.
LEMMA PowerEquation ==
  /\ Power[0] = 1
  /\ \A x \in Nat : Power[x + 1] = 2 * Power[x]
<1>1. Power = [x \in Nat |-> PowerAt(Power, x)]
  BY Zenon, PowerSolution DEF Power, PowerAt
<1>2. \A x \in Nat : Power[x] = PowerAt(Power, x)
  <2>1. \A v : Power = [x \in Nat |-> PowerAt(v, x)] => \A x \in Nat : Power[x] = PowerAt(v, x)
    BY Zenon
  <2> QED BY Zenon, <1>1, <2>1
<1>3. 0 \in Nat /\ \A x \in Nat : x + 1 \in Nat /\ x + 1 # 0 /\ (x + 1) - 1 = x
  OBVIOUS
<1> QED BY Zenon, <1>2, <1>3 DEF PowerAt

\* Powers of two grow.
LEMMA PowerFacts ==
  /\ \A x \in Nat : Power[x] \in Nat /\ x < Power[x]
  /\ \A x, y \in Nat : x < y => 2 * Power[x] <= Power[y]
<1>1. ASSUME NEW n \in Nat PROVE Power[n] \in Nat /\ n < Power[n]
  <2> DEFINE Bad == {x \in Nat : ~(Power[x] \in Nat /\ x < Power[x])}
  <2> SUFFICES ASSUME Bad # {} PROVE FALSE
    BY Zenon
  <2>1. PICK x \in Bad : \A y \in Bad : x <= y
    <3>1. Bad \subseteq Nat
      BY Zenon
    <3> HIDE DEF Bad
    <3> QED BY Zenon, <3>1, LeastNat
  <2>2. x \in Nat /\ ~(Power[x] \in Nat /\ x < Power[x])
    BY Zenon
  <2>3. \A y \in Nat : ~(x <= y) => Power[y] \in Nat /\ y < Power[y]
    BY Zenon, <2>1
  <2> HIDE DEF Bad
  <2>4. CASE x = 0
    BY <2>2, <2>4, PowerEquation
  <2>5. CASE x # 0
    <3>1. x - 1 \in Nat /\ (x - 1) + 1 = x /\ ~(x <= x - 1)
      BY <2>2, <2>5
    <3>2. Power[x] = 2 * Power[x - 1] /\ Power[x - 1] \in Nat /\ x - 1 < Power[x - 1]
      BY Zenon, <2>3, <3>1, PowerEquation
    <3> QED BY <2>2, <3>1, <3>2
  <2> QED BY Zenon, <2>4, <2>5
<1>2. ASSUME NEW a \in Nat, NEW n \in Nat, a < n PROVE 2 * Power[a] <= Power[n]
  <2> DEFINE Bad == {x \in Nat : a < x /\ ~(2 * Power[a] <= Power[x])}
  <2> SUFFICES ASSUME Bad # {} PROVE FALSE
    BY Zenon, <1>2
  <2>1. PICK x \in Bad : \A y \in Bad : x <= y
    <3>1. Bad \subseteq Nat
      BY Zenon
    <3> HIDE DEF Bad
    <3> QED BY Zenon, <3>1, LeastNat
  <2>2. x \in Nat /\ a < x /\ ~(2 * Power[a] <= Power[x])
    BY Zenon
  <2>3. \A y \in Nat : ~(x <= y) /\ a < y => 2 * Power[a] <= Power[y]
    BY Zenon, <2>1
  <2> HIDE DEF Bad
  <2>4. x - 1 \in Nat /\ (x - 1) + 1 = x /\ ~(x <= x - 1) /\ (a = x - 1 \/ a < x - 1)
    BY <2>2
  <2>5. Power[x] = 2 * Power[x - 1] /\ Power[x - 1] \in Nat /\ Power[a] \in Nat
    BY Zenon, <1>1, <2>4, PowerEquation
  <2>6. CASE a = x - 1
    BY <2>2, <2>5, <2>6
  <2>7. CASE a < x - 1
    <3>1. 2 * Power[a] <= Power[x - 1]
      BY Zenon, <2>3, <2>4, <2>7
    <3> QED BY <2>2, <2>5, <3>1
  <2> QED BY Zenon, <2>4, <2>6, <2>7
<1> QED BY Zenon, <1>1, <1>2

\* Every m > 1 has one power of two below it that is at least its half.
LEMMA LeftSizeIs ==
  ASSUME NEW m \in Nat, NEW x \in Nat, Power[x] < m, m <= 2 * Power[x]
  PROVE  LeftSize(m) = Power[x]
<1>1. x \in 0..m
  BY PowerFacts
<1>2. ASSUME NEW y \in 0..m, Power[y] < m, m <= 2 * Power[y] PROVE Power[y] = Power[x]
  <2>1. y \in Nat /\ Power[y] \in Nat /\ Power[x] \in Nat
    BY PowerFacts
  <2>2. CASE x < y
    BY <1>2, <2>1, <2>2, PowerFacts
  <2>3. CASE y < x
    BY <1>2, <2>1, <2>3, PowerFacts
  <2>4. CASE x = y
    BY Zenon, <2>4
  <2> QED BY <2>1, <2>2, <2>3, <2>4
<1> QED BY Zenon, <1>1, <1>2 DEF LeftSize

\* Both halves of a tree are smaller than the tree.
LEMMA LeftSizeFacts ==
  ASSUME NEW m \in Nat, m > 1
  PROVE  LeftSize(m) \in Nat /\ LeftSize(m) < m /\ m - LeftSize(m) \in Nat /\ m - LeftSize(m) < m
<1> DEFINE Big == {x \in Nat : m <= 2 * Power[x]}
<1>1. m \in Big
  BY PowerFacts
<1>2. PICK x \in Big : \A y \in Big : x <= y
  <2>1. Big \subseteq Nat /\ Big # {}
    BY Zenon, <1>1
  <2> HIDE DEF Big
  <2> QED BY Zenon, <2>1, LeastNat
<1>3. x \in Nat /\ m <= 2 * Power[x]
  BY Zenon
<1>4. \A y \in Nat : ~(x <= y) => ~(m <= 2 * Power[y])
  BY Zenon, <1>2
<1> HIDE DEF Big
<1>5. Power[x] < m
  <2>1. CASE x = 0
    BY Zenon, <2>1, PowerEquation
  <2>2. CASE x # 0
    <3>1. x - 1 \in Nat /\ (x - 1) + 1 = x /\ ~(x <= x - 1)
      BY <1>3, <2>2
    <3>2. Power[x] = 2 * Power[x - 1] /\ Power[x - 1] \in Nat /\ ~(m <= 2 * Power[x - 1])
      BY Zenon, <1>4, <3>1, PowerEquation, PowerFacts
    <3> QED BY <3>2
  <2> QED BY Zenon, <2>1, <2>2
<1>6. LeftSize(m) = Power[x]
  BY Zenon, <1>3, <1>5, LeftSizeIs
<1>7. Power[x] \in Nat /\ x < Power[x]
  BY Zenon, <1>3, PowerFacts
<1> QED BY <1>3, <1>5, <1>6, <1>7

\* The same for Tree.
TreeAt(f, m) ==
  [first \in Nat |->
     IF m <= 1 THEN leaf_hash(first)
     ELSE parent_hash(f[LeftSize(m)][first], f[m - LeftSize(m)][first + LeftSize(m)])]
TreeUpTo(f, n) == f = [x \in 0..n |-> TreeAt(f, x)]

\* The body of Tree looks only at smaller trees.
LEMMA TreeCongruence ==
  ASSUME NEW f, NEW g, NEW x \in Nat, \A y \in Nat : y < x => f[y] = g[y]
  PROVE  TreeAt(f, x) = TreeAt(g, x)
<1>1. CASE x <= 1
  BY Zenon, <1>1 DEF TreeAt
<1>2. CASE ~(x <= 1)
  <2>1. x > 1
    BY <1>2
  <2>2. f[LeftSize(x)] = g[LeftSize(x)] /\ f[x - LeftSize(x)] = g[x - LeftSize(x)]
    BY Zenon, <2>1, LeftSizeFacts
  <2> QED BY Zenon, <1>2, <2>2 DEF TreeAt
<1> QED BY Zenon, <1>1, <1>2

\* So some function solves its equation.
LEMMA TreeSolution == \E f : f = [x \in Nat |-> TreeAt(f, x)]
<1>1. ASSUME NEW n \in Nat, NEW k \in Nat, NEW f, NEW g, TreeUpTo(f, n), TreeUpTo(g, k)
      PROVE  \A x \in Nat : x <= n /\ x <= k => f[x] = g[x]
  <2> DEFINE Bad == {x \in Nat : x <= n /\ x <= k /\ f[x] # g[x]}
  <2> SUFFICES ASSUME Bad # {} PROVE FALSE
    BY Zenon
  <2>1. PICK x \in Bad : \A y \in Bad : x <= y
    <3>1. Bad \subseteq Nat
      BY Zenon
    <3> HIDE DEF Bad
    <3> QED BY Zenon, <3>1, LeastNat
  <2>2. x \in Nat /\ x \in 0..n /\ x \in 0..k /\ f[x] # g[x]
    OBVIOUS
  <2>3. \A y \in Nat : y < x => f[y] = g[y]
    <3>1. \A y \in Nat : y < x => y <= n /\ y <= k /\ ~(x <= y)
      BY <2>2
    <3> QED BY Zenon, <2>1, <3>1
  <2>4. f[x] = TreeAt(f, x) /\ g[x] = TreeAt(g, x)
    <3> HIDE DEF Bad
    <3>1. ASSUME NEW h, NEW m, TreeUpTo(h, m), x \in 0..m PROVE h[x] = TreeAt(h, x)
      <4>1. \A v : h = [z \in 0..m |-> TreeAt(v, z)] => h[x] = TreeAt(v, x)
        BY Zenon, <3>1
      <4> QED BY Zenon, <3>1, <4>1 DEF TreeUpTo
    <3> QED BY Zenon, <1>1, <2>2, <3>1
  <2> QED BY Zenon, <2>2, <2>3, <2>4, TreeCongruence
<1>2. ASSUME NEW n \in Nat PROVE \E f : TreeUpTo(f, n)
  <2> DEFINE Bad == {x \in Nat : ~ \E f : TreeUpTo(f, x)}
  <2> SUFFICES ASSUME Bad # {} PROVE FALSE
    BY Zenon
  <2>1. PICK x \in Bad : \A y \in Bad : x <= y
    <3>1. Bad \subseteq Nat
      BY Zenon
    <3> HIDE DEF Bad
    <3> QED BY Zenon, <3>1, LeastNat
  <2>2. PICK g : x # 0 => TreeUpTo(g, x - 1)
    <3>1. x # 0 => x - 1 \in Nat /\ ~(x <= x - 1)
      OBVIOUS
    <3> QED BY Zenon, <2>1, <3>1
  <2> DEFINE f == [z \in 0..x |-> TreeAt(g, z)]
  <2>3. ASSUME NEW y \in Nat, y < x PROVE f[y] = g[y]
    <3>1. x # 0 /\ y \in 0..x /\ y \in 0..(x - 1)
      BY <2>3
    <3>2. f[y] = TreeAt(g, y)
      BY Zenon, <3>1
    <3>3. \A v : g = [z \in 0..(x - 1) |-> TreeAt(v, z)] => g[y] = TreeAt(v, y)
      BY Zenon, <3>1
    <3>4. g = [z \in 0..(x - 1) |-> TreeAt(g, z)]
      BY Zenon, <2>2, <3>1 DEF TreeUpTo
    <3> QED BY Zenon, <3>2, <3>3, <3>4
  <2>4. ASSUME NEW z \in 0..x PROVE TreeAt(g, z) = TreeAt(f, z)
    <3> HIDE DEF f
    <3>1. z \in Nat /\ \A y \in Nat : y < z => y < x
      OBVIOUS
    <3>2. \A y \in Nat : y < z => g[y] = f[y]
      BY Zenon, <2>3, <3>1
    <3> QED BY Zenon, <3>1, <3>2, TreeCongruence
  <2>5. f = [z \in 0..x |-> TreeAt(f, z)]
    BY Zenon, <2>4
  <2>6. x \in Nat /\ ~ \E h : TreeUpTo(h, x)
    BY Zenon
  <2> HIDE DEF f, Bad
  <2> QED BY Zenon, <2>5, <2>6 DEF TreeUpTo
<1> DEFINE Part(n) == CHOOSE f : TreeUpTo(f, n)
           F == [n \in Nat |-> Part(n)[n]]
<1>3. \A n \in Nat : TreeUpTo(Part(n), n)
  BY Zenon, <1>2
<1>4. \A n \in Nat : F[n] = Part(n)[n]
  BY Zenon
<1> HIDE DEF Part
<1>5. ASSUME NEW n \in Nat PROVE F[n] = TreeAt(F, n)
  <2> HIDE DEF F
  <2>1. \A y \in Nat : y < n => Part(n)[y] = F[y]
    <3>1. \A y \in Nat : y < n => y <= n /\ y <= y
      OBVIOUS
    <3>2. ASSUME NEW y \in Nat PROVE y <= n /\ y <= y => Part(n)[y] = Part(y)[y]
      <4>1. TreeUpTo(Part(n), n) /\ TreeUpTo(Part(y), y)
        BY Zenon, <1>3
      <4>2. PICK f, g : f = Part(n) /\ g = Part(y)
        BY Zenon
      <4>3. TreeUpTo(f, n) /\ TreeUpTo(g, y)
        BY Zenon, <4>1, <4>2
      <4>4. \A x \in Nat : x <= n /\ x <= y => f[x] = g[x]
        BY <1>1, <4>3
      <4> QED BY Zenon, <4>2, <4>4
    <3> QED BY Zenon, <1>4, <3>1, <3>2
  <2>2. n \in 0..n
    OBVIOUS
  <2>3. \A h, v : h = [z \in 0..n |-> TreeAt(v, z)] => h[n] = TreeAt(v, n)
    BY Zenon, <2>2
  <2>4. Part(n)[n] = TreeAt(Part(n), n)
    BY Zenon, <1>3, <2>3 DEF TreeUpTo
  <2>5. TreeAt(Part(n), n) = TreeAt(F, n)
    BY Zenon, <2>1, TreeCongruence
  <2> QED BY Zenon, <1>4, <2>4, <2>5
<1>6. F = [n \in Nat |-> F[n]]
  BY Zenon
<1> HIDE DEF F
<1>7. F = [n \in Nat |-> TreeAt(F, n)]
  BY Zenon, <1>5, <1>6
<1> QED BY Zenon, <1>7

\* The reference tree is what its definition says.
LEMMA TreeEquation ==
  ASSUME NEW first \in Nat
  PROVE  /\ Tree[1][first] = leaf_hash(first)
         /\ \A m \in Nat : m > 1 =>
              Tree[m][first] = parent_hash(Tree[LeftSize(m)][first], Tree[m - LeftSize(m)][first + LeftSize(m)])
<1>1. Tree = [m \in Nat |-> TreeAt(Tree, m)]
  BY Zenon, TreeSolution DEF Tree, TreeAt
<1>2. \A m \in Nat : Tree[m] = TreeAt(Tree, m)
  <2>1. \A v : Tree = [m \in Nat |-> TreeAt(v, m)] => \A m \in Nat : Tree[m] = TreeAt(v, m)
    BY Zenon
  <2> QED BY Zenon, <1>1, <2>1
<1>3. 1 \in Nat /\ 1 <= 1 /\ \A m \in Nat : m > 1 => ~(m <= 1)
  OBVIOUS
<1>4. \A v, m : TreeAt(v, m)[first] =
        IF m <= 1 THEN leaf_hash(first)
        ELSE parent_hash(v[LeftSize(m)][first], v[m - LeftSize(m)][first + LeftSize(m)])
  BY Zenon DEF TreeAt
<1>5. \A m \in Nat : Tree[m][first] =
        IF m <= 1 THEN leaf_hash(first)
        ELSE parent_hash(Tree[LeftSize(m)][first], Tree[m - LeftSize(m)][first + LeftSize(m)])
  BY Zenon, <1>2, <1>4
<1> QED BY Zenon, <1>3, <1>5

\* The root of the subtree at position j of a level whose full subtrees have s leaves.
Least(a, b) == IF a < b THEN a ELSE b
Subtree(n, s, j) == Tree[Least(s, n - j * s)][j * s]

\* A level of the roots of all subtrees of s leaves, the last one perhaps smaller.
LevelOf(lv, n, s) ==
  /\ (Len(lv) - 1) * s < n /\ n <= Len(lv) * s
  /\ \A j \in 0..(Len(lv) - 1) : lv[j + 1] = Subtree(n, s, j)

Subtrees == pc = "build" => LevelOf(level, leaf_count, Power[Len(trail) - 1])

RootIsTree == pc # "build" => root = Tree[leaf_count][0]

\* Products of a number of leaves, as the provers need them.
LEMMA Products ==
  ASSUME NEW s \in Nat, NEW i \in Nat, NEW j \in Nat
  PROVE  /\ i * s \in Nat /\ (i + 1) * s = i * s + s /\ (2 * i) * s = i * (2 * s)
         /\ 1 * s = s /\ 0 * s = 0
         /\ i <= j => i * s <= j * s
<1>1. i * s \in Nat /\ j * s \in Nat
  OBVIOUS
<1>2. (i + 1) * s = i * s + s
  OBVIOUS
<1>3. (2 * i) * s = i * (2 * s)
  OBVIOUS
<1>4. ASSUME i <= j PROVE i * s <= j * s
  <2>1. PICK e \in Nat : j = i + e
    BY <1>4
  <2>2. j * s = i * s + e * s /\ e * s \in Nat
    BY <2>1
  <2> QED BY <1>1, <2>2
<1>5. 1 * s = s /\ 0 * s = 0
  OBVIOUS
<1> QED BY Zenon, <1>1, <1>2, <1>3, <1>4, <1>5

\* One leaf per subtree at the bottom.
LEMMA LeavesLevel ==
  ASSUME NEW n \in Nat, n > 0
  PROVE  LevelOf(Leaves(n), n, 1)
<1>1. Leaves(n) = [k \in 1..n |-> leaf_hash(k - 1)]
  BY Zenon DEF Leaves
<1>2. IsSeq(Leaves(n)) /\ Len(Leaves(n)) = n /\ \A k \in 1..n : Leaves(n)[k] = leaf_hash(k - 1)
  <2> DEFINE t == Leaves(n)
  <2>1. t = [k \in 1..n |-> t[k]] /\ \A k \in 1..n : t[k] = leaf_hash(k - 1)
    BY Zenon, <1>1
  <2> HIDE DEF t
  <2>2. IsSeq(t) /\ Len(t) = n
    BY Zenon, <2>1, ListOf
  <2> QED BY Zenon, <2>1, <2>2 DEF t
<1>3. (n - 1) * 1 < n /\ n <= n * 1
  OBVIOUS
<1>4. ASSUME NEW j \in 0..(n - 1) PROVE Leaves(n)[j + 1] = Subtree(n, 1, j)
  <2>1. /\ j \in Nat /\ j + 1 \in 1..n /\ (j + 1) - 1 = j /\ j * 1 = j
    OBVIOUS
  <2>2. Least(1, n - j) = 1
    BY DEF Least
  <2>3. Subtree(n, 1, j) = leaf_hash(j)
    BY Zenon, <2>1, <2>2, TreeEquation DEF Subtree
  <2> QED BY Zenon, <1>2, <2>1, <2>3
<1> QED BY Zenon, <1>2, <1>3, <1>4 DEF LevelOf

\* One pass of the loop doubles the subtrees.
LEMMA LevelDoubles ==
  ASSUME NEW n \in Nat, NEW x \in Nat, NEW lv, IsSeq(lv), Len(lv) > 1, LevelOf(lv, n, Power[x])
  PROVE  LevelOf(NextLevel(lv), n, Power[x + 1])
<1> DEFINE s == Power[x]
           w == Len(lv)
           up == NextLevel(lv)
           v == (w + 1) \div 2
<1>1. s \in Nat /\ s > 0 /\ w \in Nat /\ w > 1 /\ Power[x + 1] = 2 * s
  <2>1. s \in Nat /\ x < s /\ w \in Nat /\ Power[x + 1] = 2 * s
    BY Zenon, ListFacts, PowerFacts, PowerEquation
  <2> HIDE DEF s, w
  <2>2. s > 0
    BY <2>1
  <2> QED BY Zenon, <2>1, <2>2 DEF w
<1>2. /\ (w - 1) * s < n /\ n <= w * s
      /\ \A j \in 0..(w - 1) : lv[j + 1] = Subtree(n, s, j)
  BY Zenon DEF LevelOf
<1> HIDE DEF s, w
<1>3. v \in Nat /\ v > 0 /\ 2 * v >= w /\ 2 * (v - 1) <= w - 1
  BY <1>1
<1>4. up = [k \in 1..v |-> IF 2 * k > w THEN lv[2 * k - 1] ELSE parent_hash(lv[2 * k - 1], lv[2 * k])]
  BY Zenon DEF NextLevel, w
<1> HIDE DEF v, up
<1>5. Len(up) = v /\ \A k \in 1..v : up[k] = IF 2 * k > w THEN lv[2 * k - 1] ELSE parent_hash(lv[2 * k - 1], lv[2 * k])
  <2>1. up = [k \in 1..v |-> up[k]]
    BY Zenon, <1>4
  <2>2. Len(up) = v
    BY Zenon, <1>3, <2>1, ListOf
  <2> QED BY Zenon, <1>4, <2>2
<1>6. (v - 1) * (2 * s) < n
  <2>1. v - 1 \in Nat /\ 2 * (v - 1) \in Nat /\ w - 1 \in Nat
    BY <1>1, <1>3
  <2>2. (2 * (v - 1)) * s = (v - 1) * (2 * s) /\ (2 * (v - 1)) * s <= (w - 1) * s
    BY Zenon, <1>1, <1>3, <2>1, Products
  <2>3. (v - 1) * (2 * s) \in Nat /\ (w - 1) * s \in Nat
    BY Zenon, <1>1, <2>1, <2>2, Products
  <2> DEFINE a == (v - 1) * (2 * s)
             b == (w - 1) * s
  <2>4. a \in Nat /\ b \in Nat /\ a <= b /\ b < n
    BY Zenon, <1>2, <2>2, <2>3
  <2> HIDE DEF a, b
  <2>5. a < n
    BY <2>4
  <2> QED BY Zenon, <2>5 DEF a
<1>7. n <= v * (2 * s)
  <2>1. 2 * v \in Nat /\ w <= 2 * v
    BY <1>1, <1>3
  <2>2. (2 * v) * s = v * (2 * s) /\ w * s <= (2 * v) * s /\ w * s \in Nat /\ (2 * v) * s \in Nat
    BY Zenon, <1>1, <1>3, <2>1, Products
  <2> DEFINE a == v * (2 * s)
             b == w * s
  <2>3. a \in Nat /\ b \in Nat /\ b <= a /\ n <= b
    BY Zenon, <1>2, <2>2
  <2> HIDE DEF a, b
  <2>4. n <= a
    BY <2>3
  <2> QED BY Zenon, <2>4 DEF a
<1>8. ASSUME NEW j \in 0..(v - 1) PROVE up[j + 1] = Subtree(n, 2 * s, j)
  <2> DEFINE a == j * (2 * s)
  <2>1. /\ j \in Nat /\ j + 1 \in 1..v /\ 2 * j \in Nat /\ 2 * j + 1 \in Nat /\ 2 * j \in 0..(w - 1)
        /\ 2 * (j + 1) - 1 = 2 * j + 1 /\ 2 * (j + 1) = (2 * j + 1) + 1
    BY <1>1, <1>3
  <2>2. /\ (2 * j) * s = a /\ a \in Nat /\ (2 * j + 1) * s = a + s
    <3>1. (2 * j) * s = a
      BY Zenon, <1>1, <2>1, Products
    <3>2. (2 * j) * s \in Nat /\ (2 * j + 1) * s = (2 * j) * s + s
      BY Zenon, <1>1, <2>1, Products
    <3> HIDE DEF a
    <3> QED BY Zenon, <3>1, <3>2
  <2>3. lv[2 * j + 1] = Tree[Least(s, n - a)][a]
    BY Zenon, <1>2, <2>1, <2>2 DEF Subtree
  <2>4. CASE 2 * (j + 1) > w
    <3>1. 2 * j + 1 = w
      BY <1>1, <2>1, <2>4
    <3>2. w * s = a + s
      BY Zenon, <2>2, <3>1
    <3> HIDE DEF a
    <3>3. n - a <= s
      BY <1>1, <1>2, <2>2, <3>2
    <3>4. Least(s, n - a) = Least(2 * s, n - a)
      BY <1>1, <2>2, <3>3 DEF Least
    <3>5. up[j + 1] = lv[2 * j + 1]
      <4>1. up[j + 1] = lv[2 * (j + 1) - 1]
        BY Zenon, <1>5, <2>1, <2>4
      <4> QED BY Zenon, <2>1, <4>1
    <3> QED BY Zenon, <2>3, <3>4, <3>5 DEF Subtree, a
  <2>5. CASE ~(2 * (j + 1) > w)
    <3> DEFINE m == Least(2 * s, n - a)
    <3>1. 2 * j + 1 \in 0..(w - 1) /\ 2 * j + 1 <= w - 1 /\ w - 1 \in Nat
      BY <1>1, <2>1, <2>5
    <3>2. (2 * j + 1) * s <= (w - 1) * s /\ (w - 1) * s \in Nat
      BY Zenon, <1>1, <2>1, <3>1, Products
    <3> DEFINE b == (w - 1) * s
    <3>3. a + s <= b /\ b \in Nat /\ b < n
      BY Zenon, <1>2, <2>2, <3>2
    <3> HIDE DEF a, b
    <3>4. /\ m \in Nat /\ m > 1 /\ s < m /\ m <= 2 * s
          /\ Least(s, n - a) = s /\ Least(s, n - (a + s)) = m - s
      BY <1>1, <2>2, <3>3 DEF Least
    <3> HIDE DEF m
    <3>5. LeftSize(m) = s
      BY Zenon, <3>4, LeftSizeIs DEF s
    <3>6. Tree[m][a] = parent_hash(Tree[s][a], Tree[m - s][a + s])
      BY Zenon, <2>2, <3>4, <3>5, TreeEquation
    <3>7. lv[(2 * j + 1) + 1] = Tree[m - s][a + s]
      BY Zenon, <1>2, <2>2, <3>1, <3>4 DEF Subtree
    <3>8. up[j + 1] = parent_hash(lv[2 * j + 1], lv[(2 * j + 1) + 1])
      BY Zenon, <1>5, <2>1, <2>5
    <3>9. up[j + 1] = Tree[m][a]
      BY Zenon, <2>3, <3>4, <3>6, <3>7, <3>8
    <3> QED BY Zenon, <3>9 DEF Subtree, a, m
  <2> QED BY Zenon, <2>4, <2>5
<1> QED BY Zenon, <1>1, <1>5, <1>6, <1>7, <1>8 DEF LevelOf, up

\* Building, step by step.
LEMMA RootStep ==
  ASSUME MerkleInv, MerkleInv', Subtrees, RootIsTree, [AnyClaimNext]_merkleVars
  PROVE  Subtrees' /\ RootIsTree'
<1>1. /\ leaf_count \in Nat /\ leaf_index \in 0..(leaf_count - 1)
      /\ IsSeq(trail) /\ Len(trail) > 0 /\ Len(trail) \in Nat
      /\ pc = "build" => IsSeq(level)
  <2>1. /\ leaf_count \in Nat /\ leaf_index \in 0..(leaf_count - 1) /\ IsSeq(trail) /\ Len(trail) > 0
        /\ \A d \in 1..Len(trail) : IsSeq(trail[d].level)
        /\ pc = "build" => level = trail[Len(trail)].level
    BY Zenon DEF MerkleInv, Trail, Top, RungOK
  <2>2. Len(trail) \in Nat
    BY Zenon, <2>1, ListFacts
  <2>3. Len(trail) \in 1..Len(trail)
    BY <2>1, <2>2
  <2> QED BY Zenon, <2>1, <2>2, <2>3
<1>2. CASE BuildLevel
  <2>1. /\ pc = "build" /\ Len(level) > 1 /\ level' = NextLevel(level)
        /\ UNCHANGED <<pc, leaf_count>> /\ \E e : trail' = Append(trail, e)
    BY Zenon, <1>2 DEF BuildLevel
  <2>2. Len(trail') = Len(trail) + 1
    BY Zenon, <1>1, <2>1, ListAppend
  <2>3. Len(trail) - 1 \in Nat /\ (Len(trail) + 1) - 1 = (Len(trail) - 1) + 1
    BY <1>1
  <2>4. LevelOf(level, leaf_count, Power[Len(trail) - 1])
    BY Zenon, <2>1 DEF Subtrees
  <2>5. LevelOf(NextLevel(level), leaf_count, Power[(Len(trail) - 1) + 1])
    BY Zenon, <1>1, <2>1, <2>3, <2>4, LevelDoubles
  <2> QED BY Zenon, <2>1, <2>2, <2>3, <2>5 DEF Subtrees, RootIsTree
<1>3. CASE BuildDone
  <2>1. /\ pc = "build" /\ Len(level) = 1 /\ root' = level[1] /\ UNCHANGED leaf_count /\ pc' # "build"
    <3>1. /\ pc = "build" /\ Len(level) = 1 /\ root' = level[1] /\ UNCHANGED leaf_count /\ pc' = "built"
      BY Zenon, <1>3 DEF BuildDone
    <3>2. "built" # "build"
      BY Zenon
    <3> QED BY Zenon, <3>1, <3>2
  <2> DEFINE s == Power[Len(trail) - 1]
  <2>2. s \in Nat
    <3>1. Len(trail) - 1 \in Nat
      BY <1>1
    <3> QED BY Zenon, <3>1, PowerFacts
  <2>3. /\ leaf_count <= Len(level) * s /\ \A j \in 0..(Len(level) - 1) : level[j + 1] = Subtree(leaf_count, s, j)
    BY Zenon, <2>1 DEF Subtrees, LevelOf
  <2> HIDE DEF s
  <2>4. 0 \in 0..(Len(level) - 1) /\ 0 + 1 = 1 /\ Len(level) * s = s /\ 0 * s = 0
    BY <2>1, <2>2
  <2>5. Least(s, leaf_count - 0) = leaf_count
    BY <1>1, <2>2, <2>3, <2>4 DEF Least
  <2>6. Subtree(leaf_count, s, 0) = Tree[leaf_count][0]
    BY Zenon, <2>4, <2>5 DEF Subtree
  <2>7. level[1] = Tree[leaf_count][0]
    BY Zenon, <2>3, <2>4, <2>6
  <2> QED BY Zenon, <2>1, <2>7 DEF Subtrees, RootIsTree
<1>4. CASE UNCHANGED merkleVars
  BY Zenon, <1>4 DEF merkleVars, Subtrees, RootIsTree
<1>5. CASE \/ VerifyLevel \/ VerifyDone
           \/ \E leaf, path : \E j \in 0..(leaf_count - 1) : AnyPath(path) /\ Present(leaf, j, path)
  <2>1. /\ pc \in {"built", "verify"} /\ pc' \in {"verify", "done"}
        /\ UNCHANGED <<leaf_count, root>>
    <3>1. CASE VerifyLevel
      BY Zenon, <3>1 DEF VerifyLevel, Return
    <3>2. CASE VerifyDone
      BY Zenon, <3>2 DEF VerifyDone, Return
    <3>3. ASSUME NEW leaf, NEW path, NEW j, Present(leaf, j, path)
          PROVE  pc \in {"built", "verify"} /\ pc' \in {"verify", "done"} /\ UNCHANGED <<leaf_count, root>>
      BY Zenon, <3>3 DEF Present
    <3> QED BY Zenon, <1>5, <3>1, <3>2, <3>3
  <2>2. pc # "build" /\ pc' # "build"
    BY Zenon, <2>1
  <2> QED BY Zenon, <2>1, <2>2 DEF Subtrees, RootIsTree
<1> QED BY Zenon, <1>2, <1>3, <1>4, <1>5 DEF AnyClaimNext

\* The leaves are the subtrees of one leaf each.
LEMMA InitRoot == MerkleInit => Subtrees /\ RootIsTree
<1> SUFFICES ASSUME MerkleInit PROVE Subtrees /\ RootIsTree
  BY Zenon
<1>1. /\ pc = "build" /\ leaf_count \in 1..MaxLeaves /\ level = Leaves(leaf_count)
      /\ \E e : trail = <<e>>
  BY Zenon DEF MerkleInit
<1>2. leaf_count \in Nat /\ leaf_count > 0
  BY <1>1, LeavesAssumption
<1>3. Len(trail) - 1 = 0
  BY <1>1
<1>4. LevelOf(level, leaf_count, Power[Len(trail) - 1])
  BY Zenon, <1>1, <1>2, <1>3, LeavesLevel, PowerEquation
<1> QED BY Zenon, <1>1, <1>4 DEF Subtrees, RootIsTree

\* For every batch size the root that build_merkle_root computes by promoting unpaired
\* nodes is the divide-and-conquer tree over all the leaves, and verify_merkle_proof,
\* given any leaf, any position of the batch and any path whatever, accepts no leaf but
\* the one at that position, and for the position a proof was built for accepts that
\* proof alone.
THEOREM AnyClaimJudgedExactly == AnyClaimSpec => []ProofsExact
<1> DEFINE Inv == MerkleInv /\ Subtrees /\ RootIsTree
<1>1. MerkleInit => Inv
  BY Zenon, InitMerkle, InitRoot
<1>2. Inv /\ [AnyClaimNext]_merkleVars => Inv'
  BY Zenon, MerkleInductiveStep, RootStep
<1>3. Inv => ProofsExact
  BY Zenon DEF MerkleInv, RootIsTree, ProofsExact
<1> QED BY <1>1, <1>2, <1>3, PTL DEF AnyClaimSpec

\* In particular the behaviours TLC explores, for batches of any size.
THEOREM ProofsAlwaysExact == MerkleSpec => []ProofsExact
<1> DEFINE Inv == MerkleInv /\ Subtrees /\ RootIsTree
<1>1. MerkleInit => Inv
  BY Zenon, InitMerkle, InitRoot
<1>2. MerkleInv /\ [MerkleNext]_merkleVars => [AnyClaimNext]_merkleVars
  BY Zenon, ModelClaims
<1>3. Inv /\ [AnyClaimNext]_merkleVars => Inv'
  BY Zenon, MerkleInductiveStep, RootStep
<1>4. Inv => ProofsExact
  BY Zenon DEF MerkleInv, RootIsTree, ProofsExact
<1> QED BY <1>1, <1>2, <1>3, <1>4, PTL DEF MerkleSpec

-----------------------------------------------------------------------------
(***************************************************************************)
(* The hash chain of every scope verifies.                                 *)
(*                                                                         *)
(* The argument: the rows of a scope that a lock holder sees are a good    *)
(* chain (Good), appending to a good chain gives a good chain (Extend), and *)
(* nobody else's rows can appear in the scope meanwhile, because rows of an *)
(* open transaction are in scopes it has locked (Held).                    *)
(***************************************************************************)

\* Chain order is created_at order, and a non-empty scope has a latest row.
Good(S) ==
  /\ \A e \in S : Row(e)
  /\ \A e, f \in S : e = f \/ e.created_at # f.created_at
  /\ S # {} => \E m \in S : \A f \in S : f = m \/ Before(f, m)
  /\ verify_events(S)

\* Open transactions hold the locks of the scopes they write to.
Held ==
  /\ \A w \in Writers : writing[w] # None => lock[writing[w]] = w
  /\ \A w \in Writers : \A e \in pending[w] : lock[e.scope] = w

\* Uncommitted rows come after the committed ones of their scope.
After ==
  \A w \in Writers : \A e \in pending[w] : \A f \in events :
    e.scope = f.scope => f.created_at < e.created_at

\* The inductive invariant.
IInv ==
  /\ TypeOK /\ Held /\ After
  /\ \A s \in Scopes : Good(Scoped(events, s))
  /\ \A s \in Scopes, w \in Writers : lock[s] = w => Good(Seen(w, s))

USE EventChainAssumption

-----------------------------------------------------------------------------
(* Chains *)

\* The latest row of a good chain, which ORDER BY ... DESC LIMIT 1 returns.
LEMMA LatestRow ==
  ASSUME NEW S, S # {}, Good(S)
  PROVE  Latest(S) \in S /\ \A f \in S : f = Latest(S) \/ Before(f, Latest(S))
<1>1. \E m \in S : \A f \in S : f = m \/ Before(f, m)
  BY Zenon DEF Good
<1> QED BY <1>1, Zenon DEF Latest

\* A row that links to the latest one and is later than it extends the chain.
LEMMA Extend ==
  ASSUME NEW S, Good(S), NEW e, Row(e),
         \A f \in S : f.created_at < e.created_at,
         e.previous_hash = (IF S = {} THEN None ELSE Latest(S).event_hash),
         e.event_hash = compute_event_hash(e)
  PROVE  Good(S \cup {e})
<1> DEFINE T == S \cup {e}
<1>1. \A f \in S : Row(f) /\ Before(f, e) /\ ~Before(e, f) /\ f # e
  BY DEF Good, Row, Before
<1>2. ~Before(e, e)
  BY DEF Row, Before
<1>3. \A f \in T : Row(f)
  BY Zenon, <1>1
<1>4. \A f, g \in T : f = g \/ f.created_at # g.created_at
  BY DEF Good, Row
<1>5. \E m \in T : \A f \in T : f = m \/ Before(f, m)
  BY Zenon, <1>1
<1>6. {f \in T : Before(f, e)} = S
  BY Zenon, <1>1, <1>2
<1>7. ASSUME NEW g \in S PROVE {f \in T : Before(f, g)} = {f \in S : Before(f, g)}
  BY Zenon, <1>1
<1>8. verify_events(S)
  BY Zenon DEF Good
<1>9. verify_events(T)
  <2> SUFFICES ASSUME NEW g \in T
               PROVE  /\ g.previous_hash = IF {f \in T : Before(f, g)} = {} THEN None
                                           ELSE Latest({f \in T : Before(f, g)}).event_hash
                      /\ g.event_hash = compute_event_hash(g)
    BY Zenon DEF verify_events
  <2>1. CASE g = e
    BY Zenon, <1>6, <2>1
  <2>2. CASE g \in S
    BY Zenon, <1>7, <1>8, <2>2 DEF verify_events
  <2> QED BY Zenon, <2>1, <2>2
<1> QED BY Zenon, <1>3, <1>4, <1>5, <1>9 DEF Good

\* The empty scope.
LEMMA GoodEmpty == Good({})
  BY Zenon DEF Good, verify_events

\* The row attach_integrity builds is later than all the rows it has seen.
LEMMA NewEventExtends ==
  ASSUME NEW w, NEW s \in Scopes, NEW id \in EventIds, NEW now \in Times, Good(Seen(w, s))
  PROVE  LET e == NewEvent(w, s, id, now) IN
         /\ Row(e) /\ e.scope = s
         /\ \A f \in Seen(w, s) : f.created_at < e.created_at
         /\ Good(Seen(w, s) \cup {e})
<1> DEFINE S == Seen(w, s)
           e == NewEvent(w, s, id, now)
           at == CreatedAt(now, S)
<1>1. /\ e.id = id /\ e.scope = s /\ e.created_at = at
      /\ e.previous_hash = IF S = {} THEN None ELSE Latest(S).event_hash
      /\ e.event_hash = compute_event_hash(e)
  BY Zenon DEF NewEvent, compute_event_hash
<1>2. at \in Nat /\ \A f \in S : f.created_at < at
  <2>1. CASE S = {}
    BY Zenon, <2>1 DEF CreatedAt
  <2>2. CASE S # {}
    <3>1. Latest(S) \in S /\ \A f \in S : f = Latest(S) \/ Before(f, Latest(S))
      BY Zenon, <2>2, LatestRow
    <3>2. \A f \in S : f.created_at \in Nat
      BY Zenon DEF Good, Row
    <3>3. \A f \in S : f.created_at <= Latest(S).created_at
      BY <3>1, <3>2 DEF Before
    <3>4. Latest(S).created_at \in Nat /\ now \in Nat
      BY Zenon, <3>1, <3>2
    <3> HIDE DEF S
    <3> QED BY <2>2, <3>2, <3>3, <3>4 DEF CreatedAt
  <2> QED BY Zenon, <2>1, <2>2
<1>3. Row(e)
  BY Zenon, <1>1, <1>2 DEF Row
<1> HIDE DEF S, e, at
<1>4. Good(S \cup {e})
  BY Zenon, <1>1, <1>2, <1>3, Extend DEF S
<1> QED BY Zenon, <1>1, <1>2, <1>3, <1>4 DEF S, e

-----------------------------------------------------------------------------
(* Transactions *)

\* A transaction has no rows in a scope it has not locked.
LEMMA NoRows ==
  ASSUME Held, NEW w \in Writers, NEW s \in Scopes, lock[s] # w
  PROVE  Scoped(pending[w], s) = {} /\ Seen(w, s) = Scoped(events, s)
  BY DEF Held, Scoped, Seen

\* The invariant holds of an empty log.
LEMMA InitIInv == Init => IInv
<1> SUFFICES ASSUME Init PROVE IInv
  BY Zenon
<1>1. TypeOK /\ Held /\ After
  BY Zenon DEF Init, TypeOK, Held, After
<1>2. \A s \in Scopes : Scoped(events, s) = {}
  BY Zenon DEF Init, Scoped
<1>3. \A s \in Scopes, w \in Writers : lock[s] # w
  BY Zenon DEF Init
<1> QED BY Zenon, <1>1, <1>2, <1>3, GoodEmpty DEF IInv

\* Taking a scope's lock keeps the invariant.
LEMMA LockStep ==
  ASSUME IInv, NEW w \in Writers, NEW s \in Scopes, lock_scope(w, s)
  PROVE  IInv'
<1>1. TypeOK'
  BY Zenon DEF IInv, TypeOK, lock_scope
<1>2. Held'
  <2>1. \A v \in Writers, r \in Scopes : lock[r] = v => lock'[r] = v
    BY Zenon DEF IInv, TypeOK, lock_scope
  <2>2. \A v \in Writers : \A e \in pending[v] : e.scope \in Scopes
    BY Zenon DEF IInv, TypeOK, Row
  <2>3. lock'[s] = w
    BY Zenon DEF IInv, TypeOK, lock_scope
  <2> QED BY <2>1, <2>2, <2>3 DEF IInv, TypeOK, Held, lock_scope
<1>3. After'
  BY Zenon DEF IInv, After, lock_scope
<1>4. \A r \in Scopes : Good(Scoped(events, r))'
  <2>1. \A r \in Scopes : Scoped(events, r)' = Scoped(events, r)
    BY Zenon DEF lock_scope, Scoped
  <2> QED BY Zenon, <2>1 DEF IInv
<1>5. ASSUME NEW r \in Scopes, NEW v \in Writers, lock'[r] = v PROVE Good(Seen(v, r))'
  <2>1. Seen(v, r)' = Seen(v, r)
    BY Zenon DEF lock_scope, Seen, Scoped
  <2>2. CASE lock[r] = v
    BY Zenon, <2>1, <2>2 DEF IInv
  <2>3. CASE lock[r] # v
    BY Zenon, <2>1, <2>3, NoRows DEF IInv
  <2> QED BY Zenon, <2>2, <2>3
<1> QED BY Zenon, <1>1, <1>2, <1>3, <1>4, <1>5 DEF IInv

\* Adding an event under the lock keeps it.
LEMMA AttachStep ==
  ASSUME IInv, NEW w \in Writers, NEW id \in EventIds, NEW now \in Times,
         attach_integrity(w, id, now)
  PROVE  IInv'
<1> DEFINE s == writing[w]
           e == NewEvent(w, s, id, now)
<1>1. s \in Scopes /\ lock[s] = w
  BY Zenon DEF IInv, TypeOK, Held, attach_integrity
<1>2. /\ Row(e) /\ e.scope = s
      /\ \A f \in Seen(w, s) : f.created_at < e.created_at
      /\ Good(Seen(w, s) \cup {e})
  BY Zenon, <1>1, NewEventExtends DEF IInv
<1>3. /\ events' = events /\ lock' = lock
      /\ pending' = [pending EXCEPT ![w] = @ \cup {e}]
      /\ writing' = [writing EXCEPT ![w] = None]
  BY Zenon DEF attach_integrity
<1> HIDE DEF e
<1>4. /\ pending'[w] = pending[w] \cup {e}
      /\ \A v \in Writers \ {w} : pending'[v] = pending[v]
      /\ DOMAIN pending' = Writers
  BY Zenon, <1>3 DEF IInv, TypeOK
<1>5. TypeOK'
  BY Zenon, <1>2, <1>3, <1>4 DEF IInv, TypeOK, Row
<1>6. Held'
  BY Zenon, <1>1, <1>2, <1>3, <1>4 DEF IInv, TypeOK, Held
<1>7. After'
  <2>1. \A f \in events : f.scope = s => f \in Seen(w, s)
    BY Zenon DEF Seen, Scoped
  <2> QED BY <1>2, <1>3, <1>4, <2>1 DEF IInv, After
<1>8. \A r \in Scopes : Good(Scoped(events, r))'
  <2>1. \A r \in Scopes : Scoped(events, r)' = Scoped(events, r)
    BY Zenon, <1>3 DEF Scoped
  <2> QED BY Zenon, <2>1 DEF IInv
<1>9. ASSUME NEW r \in Scopes, NEW v \in Writers, lock'[r] = v PROVE Good(Seen(v, r))'
  <2>1. CASE r = s
    <3>1. v = w
      BY Zenon, <1>1, <1>3, <1>9, <2>1
    <3>2. Seen(v, r)' = Seen(w, s) \cup {e}
      BY Zenon, <1>2, <1>3, <1>4, <2>1, <3>1 DEF Seen, Scoped
    <3> QED BY Zenon, <1>2, <3>2
  <2>2. CASE r # s
    <3>1. Seen(v, r)' = Seen(v, r)
      BY Zenon, <1>2, <1>3, <1>4, <2>2 DEF Seen, Scoped
    <3> QED BY Zenon, <1>3, <1>9, <3>1 DEF IInv
  <2> QED BY Zenon, <2>1, <2>2
<1> QED BY Zenon, <1>5, <1>6, <1>7, <1>8, <1>9 DEF IInv

\* A transaction ends: it keeps no lock and no row, the others keep theirs.
LEMMA EndStep ==
  ASSUME IInv, NEW w \in Writers, Release(w),
         pending' = [pending EXCEPT ![w] = {}],
         writing' = [writing EXCEPT ![w] = None]
  PROVE  /\ Held'
         /\ \A s \in Scopes, v \in Writers : lock'[s] = v => lock[s] = v /\ v # w
         /\ \A v \in Writers \ {w} : pending'[v] = pending[v]
         /\ pending'[w] = {} /\ DOMAIN pending' = Writers
         /\ lock' \in [Scopes -> Writers \cup {None}]
         /\ writing' \in [Writers -> Scopes \cup {None}]
<1>1. /\ \A s \in Scopes, v \in Writers : lock'[s] = v <=> lock[s] = v /\ v # w
      /\ lock' \in [Scopes -> Writers \cup {None}]
  BY Zenon DEF IInv, TypeOK, Release
<1>2. /\ \A v \in Writers \ {w} : pending'[v] = pending[v]
      /\ pending'[w] = {} /\ DOMAIN pending' = Writers
      /\ writing' \in [Writers -> Scopes \cup {None}]
      /\ writing'[w] = None
      /\ \A v \in Writers \ {w} : writing'[v] = writing[v]
  BY Zenon DEF IInv, TypeOK
<1>3. \A v \in Writers : \A e \in pending[v] : e.scope \in Scopes
  BY Zenon DEF IInv, TypeOK, Row
<1>4. Held'
  BY <1>1, <1>2, <1>3 DEF IInv, TypeOK, Held
<1> QED BY <1>1, <1>2, <1>4

\* A commit makes the chain the holder saw the committed one.
LEMMA CommitStep ==
  ASSUME IInv, NEW w \in Writers, Commit(w)
  PROVE  IInv'
<1>1. /\ Held'
      /\ \A s \in Scopes, v \in Writers : lock'[s] = v => lock[s] = v /\ v # w
      /\ \A v \in Writers \ {w} : pending'[v] = pending[v]
      /\ pending'[w] = {} /\ DOMAIN pending' = Writers
      /\ lock' \in [Scopes -> Writers \cup {None}]
      /\ writing' \in [Writers -> Scopes \cup {None}]
  <2>1. writing' = [writing EXCEPT ![w] = None]
    BY Zenon DEF Commit, IInv, TypeOK
  <2> QED BY Zenon, <2>1, EndStep DEF Commit
<1>2. events' = events \cup pending[w]
  BY Zenon DEF Commit
<1>3. TypeOK'
  BY Zenon, <1>1, <1>2 DEF IInv, TypeOK, Row
<1>4. \A s \in Scopes : lock[s] # w => Scoped(events, s)' = Scoped(events, s)
  BY Zenon, <1>2, NoRows DEF IInv, Scoped
<1>5. \A s \in Scopes : lock[s] = w => Scoped(events, s)' = Seen(w, s)
  BY Zenon, <1>2 DEF Seen, Scoped
<1>6. \A s \in Scopes : Good(Scoped(events, s))'
  BY Zenon, <1>4, <1>5 DEF IInv
<1>7. ASSUME NEW s \in Scopes, NEW v \in Writers, lock'[s] = v PROVE Good(Seen(v, s))'
  <2>1. lock[s] = v /\ v # w /\ pending'[v] = pending[v]
    BY Zenon, <1>1, <1>7
  <2>2. Scoped(events, s)' = Scoped(events, s)
    BY Zenon, <1>4, <2>1
  <2>3. Seen(v, s)' = Seen(v, s)
    BY Zenon, <2>1, <2>2 DEF Seen, Scoped
  <2> QED BY Zenon, <2>1, <2>3 DEF IInv
<1>8. After'
  <2> SUFFICES ASSUME NEW v \in Writers, NEW e \in pending'[v], NEW f \in events',
                      e.scope = f.scope
               PROVE  f.created_at < e.created_at
    BY Zenon DEF After
  <2>1. v # w /\ e \in pending[v] /\ lock[e.scope] = v /\ e.scope \in Scopes
    BY Zenon, <1>1 DEF IInv, Held, TypeOK, Row
  <2>2. f \in events
    BY <1>2, <2>1 DEF IInv, Held
  <2> QED BY Zenon, <2>1, <2>2 DEF IInv, After
<1> QED BY Zenon, <1>1, <1>3, <1>6, <1>7, <1>8 DEF IInv

\* A rollback returns to the committed chain.
LEMMA RollbackStep ==
  ASSUME IInv, NEW w \in Writers, Rollback(w)
  PROVE  IInv'
<1>1. /\ Held'
      /\ \A s \in Scopes, v \in Writers : lock'[s] = v => lock[s] = v /\ v # w
      /\ \A v \in Writers \ {w} : pending'[v] = pending[v]
      /\ pending'[w] = {} /\ DOMAIN pending' = Writers
      /\ lock' \in [Scopes -> Writers \cup {None}]
      /\ writing' \in [Writers -> Scopes \cup {None}]
  BY Zenon, EndStep DEF Rollback
<1>2. events' = events
  BY Zenon DEF Rollback
<1>3. TypeOK'
  BY Zenon, <1>1, <1>2 DEF IInv, TypeOK, Row
<1>4. After'
  BY Zenon, <1>1, <1>2 DEF IInv, After
<1>5. \A s \in Scopes : Good(Scoped(events, s))'
  <2>1. \A s \in Scopes : Scoped(events, s)' = Scoped(events, s)
    BY Zenon, <1>2 DEF Scoped
  <2> QED BY Zenon, <2>1 DEF IInv
<1>6. ASSUME NEW s \in Scopes, NEW v \in Writers, lock'[s] = v PROVE Good(Seen(v, s))'
  <2>1. lock[s] = v /\ Seen(v, s)' = Seen(v, s)
    BY Zenon, <1>1, <1>2, <1>6 DEF Seen, Scoped
  <2> QED BY Zenon, <2>1 DEF IInv
<1> QED BY Zenon, <1>1, <1>3, <1>4, <1>5, <1>6 DEF IInv

\* Every step of a writer keeps the invariant.
LEMMA Inductive == IInv /\ [Next]_chain_vars => IInv'
<1> SUFFICES ASSUME IInv, [Next]_chain_vars PROVE IInv'
  BY Zenon
<1>1. CASE Next
  BY Zenon, <1>1, LockStep, AttachStep, CommitStep, RollbackStep DEF Next
<1>2. CASE UNCHANGED chain_vars
  <2>1. TypeOK' /\ Held' /\ After'
    BY Zenon, <1>2 DEF chain_vars, IInv, TypeOK, Held, After
  <2>2. /\ \A s \in Scopes : Scoped(events, s)' = Scoped(events, s)
        /\ \A s \in Scopes, w \in Writers : Seen(w, s)' = Seen(w, s)
    BY Zenon, <1>2 DEF chain_vars, Scoped, Seen
  <2> QED BY Zenon, <1>2, <2>1, <2>2 DEF chain_vars, IInv
<1> QED BY Zenon, <1>1, <1>2

\* A commit extends the chains of the scopes it wrote to at their ends.
LEMMA CommitAppends ==
  ASSUME IInv, [Next]_chain_vars
  PROVE  [/\ events \subseteq events'
          /\ \A e \in events' \ events : \A f \in events :
               e.scope = f.scope => Before(f, e)]_chain_vars
<1>1. ASSUME NEW w \in Writers, Commit(w)
      PROVE  /\ events \subseteq events'
             /\ \A e \in events' \ events : \A f \in events :
                  e.scope = f.scope => Before(f, e)
  BY Zenon, <1>1 DEF Commit, IInv, After, Before
<1>2. CASE events' = events
  BY Zenon, <1>2
<1> QED BY Zenon, <1>1, <1>2 DEF Next, lock_scope, attach_integrity, Rollback, chain_vars

-----------------------------------------------------------------------------
(* Theorems *)

\* The committed chain of every scope verifies at every moment, and so does the chain
\* a lock holder extends: verify_events never reports a fault nobody introduced.
THEOREM ChainAlwaysVerifies == Spec => []ChainVerifies
<1>1. IInv => ChainVerifies
  BY Zenon DEF IInv, ChainVerifies, Good
<1> QED BY InitIInv, Inductive, <1>1, PTL DEF Spec

\* No commit inserts a row before one that was already committed in its scope, whatever
\* the clocks of the hosts show.
THEOREM ChainAppendOnly == Spec => AppendOnly
<1> QED BY InitIInv, Inductive, CommitAppends, PTL DEF Spec, AppendOnly

-----------------------------------------------------------------------------
(***************************************************************************)
(* Checkpoints verify, contain every event at most once and skip none.     *)
(*                                                                         *)
(* The argument builds on the chains: a commit only appends to a scope, so *)
(* what commits between the selection of a batch and its commit comes after *)
(* the selected events of the scope; and the checkpoint lock keeps the     *)
(* selected events without a leaf until then.                              *)
(***************************************************************************)

\* uuid4 values are not drawn twice.
AllRows == events \cup UNION {pending[w] : w \in Writers}
UniqueIds == \A e, f \in AllRows : e.id = f.id => e = f

\* The checkpoint lock is held from the first statement to the commit.
CkHeld == \A c \in Checkpointers : ckpc[c] \in {"locked", "selected"} <=> ck_lock = c

\* A selection has no leaf yet, and misses no earlier event of its scopes.
Selection(C) ==
  /\ C \subseteq events /\ C # {}
  /\ \A e \in C : ~Checkpointed(e)
  /\ \A e \in C, f \in events :
       e.scope = f.scope /\ Before(f, e) => f \in C \/ Checkpointed(f)
Selected == \A c \in Checkpointers : IF ckpc[c] = "selected" THEN Selection(chosen[c])
                                                             ELSE chosen[c] = {}

\* Batches are numbered without gaps and the latest one is well defined.
Numbered ==
  /\ \A b \in batches : b.sequence_no \in Nat \ {0}
  /\ batches # {} => \E m \in batches : \A a \in batches : a.sequence_no <= m.sequence_no

\* The inductive invariant.
CInv ==
  /\ IInv /\ UniqueIds
  /\ CheckpointTypeOK /\ CkHeld /\ Selected /\ Numbered
  /\ CheckpointsVerify /\ CheckpointedOnce /\ CheckpointPrefix

USE CheckpointAssumption

-----------------------------------------------------------------------------
(* Facts about rows *)

\* Rows are as they were hashed, and the order of events is one.
LEMMA RowFacts ==
  ASSUME IInv
  PROVE  /\ \A e \in events : Row(e) /\ e.event_hash = compute_event_hash(e)
         /\ \A e, f \in events : ~(Before(e, f) /\ Before(f, e))
<1>1. \A e \in events : Row(e)
  BY Zenon DEF IInv, TypeOK
<1>2. ASSUME NEW e \in events PROVE e.event_hash = compute_event_hash(e)
  <2>1. e.scope \in Scopes /\ e \in Scoped(events, e.scope)
    BY Zenon, <1>1 DEF Row, Scoped
  <2>2. verify_events(Scoped(events, e.scope))
    BY Zenon, <2>1 DEF IInv, Good
  <2> QED BY Zenon, <2>1, <2>2 DEF verify_events
<1>3. \A e, f \in events : ~(Before(e, f) /\ Before(f, e))
  BY <1>1 DEF Row, Before
<1> QED BY Zenon, <1>1, <1>2, <1>3

\* Leaves belong to committed events.
LEMMA LeafEvents ==
  ASSUME CInv, NEW b \in batches, NEW l \in b.leaves
  PROVE  \E e \in events : e.id = l.event_id /\ e.event_hash = l.event_hash
  BY Zenon DEF CInv, CheckpointsVerify, verify_database

\* The invariant holds before the first checkpoint.
LEMMA CInit == CheckpointInit => CInv
<1> SUFFICES ASSUME CheckpointInit PROVE CInv
  BY Zenon
<1>1. IInv
  BY Zenon, InitIInv DEF CheckpointInit
<1>2. UniqueIds
  BY Zenon DEF CheckpointInit, Init, UniqueIds, AllRows
<1>3. CheckpointTypeOK /\ CkHeld /\ Selected /\ Numbered
  BY Zenon, <1>1 DEF CheckpointInit, Init, CheckpointTypeOK, CkHeld, Selected, Numbered, IInv
<1>4. CheckpointsVerify /\ CheckpointedOnce /\ CheckpointPrefix
  BY Zenon DEF CheckpointInit, Init, CheckpointsVerify, verify_database, CheckpointedOnce,
         CheckpointPrefix
<1> QED BY Zenon, <1>1, <1>2, <1>3, <1>4 DEF CInv

-----------------------------------------------------------------------------
(* Writers *)

\* A new row has an id of its own, and no transaction changes a row.
LEMMA UniqueIdsStep ==
  ASSUME IInv, UniqueIds, [Next]_chain_vars
  PROVE  UniqueIds'
<1>1. ASSUME NEW w \in Writers, NEW id \in EventIds, NEW now \in Times,
             attach_integrity(w, id, now)
      PROVE  UniqueIds'
  <2>1. AllRows' \subseteq AllRows \cup {NewEvent(w, writing[w], id, now)}
    BY <1>1 DEF attach_integrity, AllRows, IInv, TypeOK
  <2>2. NewEvent(w, writing[w], id, now).id = id /\ \A e \in AllRows : e.id # id
    BY Zenon, <1>1 DEF attach_integrity, NewEvent, AllRows
  <2> QED BY Zenon, <2>1, <2>2 DEF UniqueIds
<1>2. CASE AllRows' \subseteq AllRows
  BY Zenon, <1>2 DEF UniqueIds
<1>3. ASSUME NEW w \in Writers, NEW s \in Scopes, lock_scope(w, s)
      PROVE  AllRows' \subseteq AllRows
  BY Zenon, <1>3 DEF lock_scope, AllRows
<1>4. ASSUME NEW w \in Writers, Commit(w) \/ Rollback(w) PROVE AllRows' \subseteq AllRows
  BY <1>4 DEF Commit, Rollback, AllRows, IInv, TypeOK
<1>5. CASE UNCHANGED chain_vars
  BY Zenon, <1>5, <1>2 DEF chain_vars, AllRows
<1> QED BY Zenon, <1>1, <1>2, <1>3, <1>4, <1>5 DEF Next

\* Writers disturb no checkpoint and no selection.
LEMMA WriterStep ==
  ASSUME CInv, [Next]_chain_vars, UNCHANGED ck_vars
  PROVE  CInv'
<1>1. IInv' /\ UniqueIds'
  BY Zenon, Inductive, UniqueIdsStep DEF CInv
<1>2. /\ events \subseteq events'
      /\ \A e \in events' \ events : \A f \in events : e.scope = f.scope => Before(f, e)
  BY Zenon, CommitAppends DEF CInv, chain_vars
<1>3. /\ batches' = batches /\ ck_lock' = ck_lock /\ ckpc' = ckpc
      /\ chosen' = chosen /\ faults' = faults
  BY Zenon DEF ck_vars
<1>4. \A e, f \in events' : e.id = f.id => e = f
  BY Zenon, <1>1 DEF UniqueIds, AllRows
<1>5. \A e : Checkpointed(e)' <=> Checkpointed(e)
  BY Zenon, <1>3 DEF Checkpointed
<1>6. \A e \in events' \ events : ~Checkpointed(e)
  BY Zenon, <1>2, <1>4, LeafEvents DEF Checkpointed
<1>7. \A e, f \in events' : ~(Before(e, f) /\ Before(f, e))
  BY <1>1 DEF IInv, TypeOK, Row, Before
<1>8. CheckpointTypeOK' /\ CkHeld' /\ Numbered'
  BY Zenon, <1>1, <1>2, <1>3 DEF CInv, CheckpointTypeOK, CkHeld, Numbered, IInv
<1>9. Selected'
  BY Zenon, <1>2, <1>3, <1>5, <1>7 DEF CInv, Selected, Selection
<1>10. CheckpointsVerify' /\ CheckpointedOnce'
  <2>1. CheckpointsVerify'
    BY <1>2, <1>3 DEF CInv, CheckpointsVerify, verify_database
  <2> QED BY Zenon, <1>3, <2>1 DEF CInv, CheckpointedOnce
<1>11. CheckpointPrefix'
  BY Zenon, <1>2, <1>5, <1>6, <1>7 DEF CInv, CheckpointPrefix
<1> QED BY Zenon, <1>1, <1>8, <1>9, <1>10, <1>11 DEF CInv

-----------------------------------------------------------------------------
(* Checkpointers *)

\* A checkpointer changes nothing of the writers' state.
LEMMA ChainFrame ==
  ASSUME CInv, UNCHANGED chain_vars
  PROVE  IInv' /\ UniqueIds' /\ TypeOK'
<1>1. IInv'
  BY Zenon, Inductive DEF CInv
<1>2. UniqueIds'
  BY Zenon, UniqueIdsStep DEF CInv
<1> QED BY Zenon, <1>1, <1>2 DEF IInv

\* Taking the advisory lock keeps the invariant.
LEMMA LockCheckpointStep ==
  ASSUME CInv, UNCHANGED chain_vars, NEW c \in Checkpointers, lock_checkpoint(c)
  PROVE  CInv'
<1>1. IInv' /\ UniqueIds' /\ TypeOK' /\ events' = events
  BY Zenon, ChainFrame DEF chain_vars
<1>2. \A e : Checkpointed(e)' <=> Checkpointed(e)
  BY Zenon DEF Checkpointed, lock_checkpoint
<1>3. CheckpointTypeOK' /\ CkHeld' /\ Numbered'
  BY Zenon, <1>1 DEF CInv, CheckpointTypeOK, CkHeld, Numbered, lock_checkpoint
<1>4. Selected'
  BY Zenon, <1>1, <1>2 DEF CInv, CheckpointTypeOK, Selected, Selection, lock_checkpoint
<1>5. CheckpointsVerify' /\ CheckpointedOnce' /\ CheckpointPrefix'
  <2>1. batches' = batches /\ \A d \in Checkpointers : ckpc'[d] # "stopped"
    BY Zenon DEF CInv, CheckpointTypeOK, CheckpointsVerify, lock_checkpoint
  <2> QED BY Zenon, <1>1, <1>2, <2>1 DEF CInv, CheckpointsVerify, verify_database, CheckpointedOnce, CheckpointPrefix
<1> QED BY Zenon, <1>1, <1>3, <1>4, <1>5 DEF CInv

\* Selecting events under it keeps the invariant.
LEMMA SelectStep ==
  ASSUME CInv, UNCHANGED chain_vars, NEW c \in Checkpointers, SelectEvents(c)
  PROVE  CInv'
<1>1. IInv' /\ UniqueIds' /\ TypeOK' /\ events' = events /\ batches' = batches
  BY Zenon, ChainFrame DEF chain_vars, SelectEvents
<1>2. \A e : Checkpointed(e)' <=> Checkpointed(e)
  BY Zenon, <1>1 DEF Checkpointed
<1>3. PICK C \in SUBSET Unchecked :
        /\ First(Unchecked, C)
        /\ chosen' = [chosen EXCEPT ![c] = C]
        /\ ckpc' = [ckpc EXCEPT ![c] =
             IF C = {} THEN "waiting"
             ELSE IF \A e \in C : e.event_hash = compute_event_hash(e) THEN "selected"
             ELSE "stopped"]
        /\ ck_lock' = IF ckpc'[c] = "selected" THEN c ELSE None
  BY Zenon DEF SelectEvents
<1>4. C \subseteq events /\ \A e \in C : ~Checkpointed(e)
  BY Zenon, <1>3 DEF Unchecked
<1>5. ckpc' = [ckpc EXCEPT ![c] = IF C = {} THEN "waiting" ELSE "selected"]
  BY Zenon, <1>3, <1>4, RowFacts DEF CInv
<1>6. C # {} => Selection(C)
  <2>1. \A e, f \in events : ~(Before(e, f) /\ Before(f, e))
    BY Zenon, RowFacts DEF CInv
  <2> QED BY Zenon, <1>3, <1>4, <2>1 DEF First, Unchecked, Selection
<1>7. ck_lock = c /\ ckpc \in [Checkpointers -> {"waiting", "locked", "selected", "stopped"}]
  BY Zenon DEF CInv, CkHeld, CheckpointTypeOK, SelectEvents
<1>8. CkHeld'
  <2>1. ck_lock' = IF C = {} THEN None ELSE c
    BY Zenon, <1>3, <1>5, <1>7
  <2> QED BY Zenon, <1>5, <1>7, <2>1 DEF CInv, CkHeld
<1>9. CheckpointTypeOK' /\ Numbered'
  BY Zenon, <1>1, <1>3, <1>4, <1>5, <1>7 DEF CInv, CheckpointTypeOK, Numbered, SelectEvents
<1>10. Selected'
  <2>1. \A D : Selection(D)' <=> Selection(D)
    BY Zenon, <1>1, <1>2 DEF Selection
  <2> QED BY Zenon, <1>3, <1>5, <1>6, <2>1 DEF CInv, CheckpointTypeOK, Selected
<1>11. CheckpointsVerify' /\ CheckpointedOnce' /\ CheckpointPrefix'
  BY Zenon, <1>1, <1>2, <1>5 DEF CInv, CheckpointTypeOK, CheckpointsVerify, verify_database,
     CheckpointedOnce, CheckpointPrefix
<1> QED BY Zenon, <1>1, <1>8, <1>9, <1>10, <1>11 DEF CInv

\* A failed checkpoint keeps it.
LEMMA FailStep ==
  ASSUME CInv, UNCHANGED chain_vars, NEW c \in Checkpointers, FailCheckpoint(c)
  PROVE  CInv'
<1>1. IInv' /\ UniqueIds' /\ TypeOK' /\ events' = events /\ batches' = batches
  BY Zenon, ChainFrame DEF chain_vars, FailCheckpoint
<1>2. \A e : Checkpointed(e)' <=> Checkpointed(e)
  BY Zenon, <1>1 DEF Checkpointed
<1>3. CheckpointTypeOK' /\ CkHeld' /\ Numbered'
  <2>1. CheckpointTypeOK' /\ Numbered'
    <3>1. faults' \in Nat
      BY DEF CInv, CheckpointTypeOK, FailCheckpoint
    <3> QED BY Zenon, <1>1, <3>1 DEF CInv, CheckpointTypeOK, Numbered, FailCheckpoint
  <2>2. ck_lock = c /\ ck_lock' = None
    BY Zenon DEF CInv, CkHeld, FailCheckpoint
  <2>3. \A d \in Checkpointers : ckpc'[d] = IF d = c THEN "waiting" ELSE ckpc[d]
    BY Zenon DEF CInv, CheckpointTypeOK, FailCheckpoint
  <2> QED BY Zenon, <2>1, <2>2, <2>3 DEF CInv, CkHeld
<1>4. Selected'
  <2>1. \A D : Selection(D)' <=> Selection(D)
    BY Zenon, <1>1, <1>2 DEF Selection
  <2> QED BY Zenon, <2>1 DEF CInv, CheckpointTypeOK, Selected, FailCheckpoint
<1>5. CheckpointsVerify' /\ CheckpointedOnce' /\ CheckpointPrefix'
  <2>1. batches' = batches /\ \A d \in Checkpointers : ckpc'[d] # "stopped"
    BY Zenon DEF CInv, CheckpointTypeOK, CheckpointsVerify, FailCheckpoint
  <2> QED BY Zenon, <1>1, <1>2, <2>1 DEF CInv, CheckpointsVerify, verify_database, CheckpointedOnce, CheckpointPrefix
<1> QED BY Zenon, <1>1, <1>3, <1>4, <1>5 DEF CInv

\* The new batch: its number, its link and its leaves.
LEMMA NewBatch ==
  ASSUME CInv, NEW C
  PROVE  LET b == Batch(C) IN
         /\ b.leaves = {Leaf(e, C) : e \in C}
         /\ b.checkpoint_hash =
              compute_checkpoint_hash(b.sequence_no, b.leaves, b.previous_checkpoint_hash)
         /\ b.sequence_no \in Nat \ {0}
         /\ \A a \in batches : a.sequence_no < b.sequence_no
         /\ IF b.sequence_no = 1 THEN b.previous_checkpoint_hash = None
            ELSE \E a \in batches : /\ a.sequence_no = b.sequence_no - 1
                                    /\ b.previous_checkpoint_hash = a.checkpoint_hash
<1> DEFINE b == Batch(C)
           latest == CHOOSE m \in batches : \A a \in batches : a.sequence_no <= m.sequence_no
<1>1. /\ b.leaves = {Leaf(e, C) : e \in C}
      /\ b.checkpoint_hash =
           compute_checkpoint_hash(b.sequence_no, b.leaves, b.previous_checkpoint_hash)
      /\ b.sequence_no = IF batches = {} THEN 1 ELSE latest.sequence_no + 1
      /\ b.previous_checkpoint_hash = IF batches = {} THEN None ELSE latest.checkpoint_hash
  BY DEF Batch
<1>2. batches # {} => latest \in batches /\ \A a \in batches : a.sequence_no <= latest.sequence_no
  <2>1. batches # {} => \E m \in batches : \A a \in batches : a.sequence_no <= m.sequence_no
    BY Zenon DEF CInv, Numbered
  <2> QED BY <2>1, Zenon
<1>3. \A a \in batches : a.sequence_no \in Nat \ {0}
  BY Zenon DEF CInv, Numbered
<1> HIDE DEF b, latest
<1>4. CASE batches = {}
  BY <1>1, <1>4 DEF b
<1>5. CASE batches # {}
  BY <1>1, <1>2, <1>3, <1>5 DEF b
<1> QED BY Zenon, <1>4, <1>5

\* A new batch follows the last one and skips no event of a scope.
LEMMA CommitCheckpointStep ==
  ASSUME CInv, UNCHANGED chain_vars, NEW c \in Checkpointers, CommitCheckpoint(c)
  PROVE  CInv'
<1> DEFINE C == chosen[c]
           b == Batch(C)
<1>1. IInv' /\ UniqueIds' /\ TypeOK' /\ events' = events
  BY Zenon, ChainFrame DEF chain_vars
<1>2. Selection(C)
  BY Zenon DEF CInv, Selected, CommitCheckpoint
<1>3. C \subseteq events /\ C # {} /\ \A e \in C : ~Checkpointed(e)
  BY Zenon, <1>2 DEF Selection
<1>4. /\ b.leaves = {Leaf(e, C) : e \in C}
      /\ b.checkpoint_hash =
           compute_checkpoint_hash(b.sequence_no, b.leaves, b.previous_checkpoint_hash)
      /\ b.sequence_no \in Nat \ {0}
      /\ \A a \in batches : a.sequence_no < b.sequence_no
      /\ IF b.sequence_no = 1 THEN b.previous_checkpoint_hash = None
         ELSE \E a \in batches : /\ a.sequence_no = b.sequence_no - 1
                                 /\ b.previous_checkpoint_hash = a.checkpoint_hash
  BY Zenon, NewBatch
<1>5. /\ batches' = batches \cup {b}
      /\ ck_lock' = None /\ faults' = faults
      /\ ckpc' = [ckpc EXCEPT ![c] = "waiting"]
      /\ chosen' = [chosen EXCEPT ![c] = {}]
  BY Zenon DEF CommitCheckpoint
<1>a. \A e : Leaf(e, C).event_id = e.id /\ Leaf(e, C).event_hash = e.event_hash
  BY Zenon DEF Leaf
<1>6. \A l \in b.leaves : \E e \in C :
        l = Leaf(e, C) /\ l.event_id = e.id /\ l.event_hash = e.event_hash
  BY Zenon, <1>4, <1>a
<1>7. \A e \in C : \E l \in b.leaves : l.event_id = e.id
  BY Zenon, <1>4, <1>a
<1>8. \A e, f \in events : e.id = f.id => e = f
  BY Zenon DEF CInv, UniqueIds, AllRows
<1> HIDE DEF b, C
<1>9. \A e \in events : Checkpointed(e)' <=> Checkpointed(e) \/ e \in C
  BY <1>3, <1>5, <1>6, <1>7, <1>8 DEF Checkpointed
<1>10. ck_lock = c /\ ckpc \in [Checkpointers -> {"waiting", "locked", "selected", "stopped"}]
  BY Zenon DEF CInv, CkHeld, CheckpointTypeOK, CommitCheckpoint
<1>11. CkHeld'
  BY Zenon, <1>5, <1>10 DEF CInv, CkHeld
<1>12. CheckpointTypeOK'
  <2>1. b.leaves # {}
    BY Zenon, <1>3, <1>7
  <2> QED BY Zenon, <1>1, <1>4, <1>5, <2>1 DEF CInv, CheckpointTypeOK
<1>13. Numbered'
  <2>1. \A a \in batches : a.sequence_no \in Nat \ {0}
    BY Zenon DEF CInv, Numbered
  <2> QED BY <1>4, <1>5, <2>1 DEF Numbered
<1>14. Selected'
  <2>1. \A d \in Checkpointers \ {c} : ckpc[d] # "selected"
    BY Zenon, <1>10 DEF CInv, CkHeld
  <2> QED BY Zenon, <1>5, <1>10, <2>1 DEF CInv, CheckpointTypeOK, Selected
<1>15. CheckpointsVerify'
  <2>1. \A d \in Checkpointers : ckpc'[d] # "stopped"
    BY Zenon, <1>5, <1>10 DEF CInv, CheckpointsVerify
  <2>2. \A l \in b.leaves : \E e \in events :
          e.id = l.event_id /\ e.event_hash = l.event_hash /\ compute_event_hash(e) = e.event_hash
    BY Zenon, <1>3, <1>6, RowFacts DEF CInv
  <2>3. \A a \in batches : a.sequence_no \in Nat \ {0}
    BY Zenon DEF CInv, Numbered
  <2>4. verify_database
    BY Zenon DEF CInv, CheckpointsVerify
  <2>5. verify_database'
    <3> SUFFICES ASSUME NEW a \in batches'
        PROVE
          /\ IF a.sequence_no = 1
               THEN a.previous_checkpoint_hash = None
               ELSE \E d \in batches' : /\ d.sequence_no = a.sequence_no - 1
                                        /\ a.previous_checkpoint_hash = d.checkpoint_hash
          /\ \A d \in batches' : d.sequence_no = a.sequence_no => d = a
          /\ a.checkpoint_hash =
               compute_checkpoint_hash(a.sequence_no, a.leaves, a.previous_checkpoint_hash)
          /\ \A l \in a.leaves : \E e \in events' :
               e.id = l.event_id /\ e.event_hash = l.event_hash
               /\ compute_event_hash(e) = e.event_hash
      BY Zenon DEF verify_database
    <3>1. CASE a = b
      <4>1. IF b.sequence_no = 1
              THEN b.previous_checkpoint_hash = None
              ELSE \E d \in batches' : /\ d.sequence_no = b.sequence_no - 1
                                       /\ b.previous_checkpoint_hash = d.checkpoint_hash
        BY Zenon, <1>4, <1>5
      <4>2. \A d \in batches' : d.sequence_no = b.sequence_no => d = b
        BY <1>4, <1>5, <2>3
      <4> QED BY Zenon, <1>1, <1>4, <2>2, <3>1, <4>1, <4>2
    <3>2. CASE a \in batches
      BY <1>1, <1>4, <1>5, <2>3, <2>4, <3>2 DEF verify_database
    <3> QED BY Zenon, <1>5, <3>1, <3>2
  <2> QED BY Zenon, <2>1, <2>5 DEF CheckpointsVerify
<1>16. CheckpointedOnce'
  <2>1. \A k, l \in b.leaves : k.event_id = l.event_id => k = l
    BY <1>3, <1>6, <1>8
  <2>2. \A a \in batches : \A k \in a.leaves, l \in b.leaves : k.event_id # l.event_id
    BY <1>3, <1>6 DEF Checkpointed
  <2> QED BY <1>5, <2>1, <2>2 DEF CInv, CheckpointedOnce
<1>17. CheckpointPrefix'
  BY Zenon, <1>1, <1>2, <1>9 DEF CInv, CheckpointPrefix, Selection
<1> QED BY Zenon, <1>1, <1>11, <1>12, <1>13, <1>14, <1>15, <1>16, <1>17 DEF CInv

\* Every step keeps the invariant.
LEMMA CInductive == CInv /\ [CheckpointNext]_vars => CInv'
<1> SUFFICES ASSUME CInv, [CheckpointNext]_vars PROVE CInv'
  BY Zenon
<1>1. CASE Next /\ UNCHANGED ck_vars
  BY Zenon, <1>1, WriterStep
<1>2. ASSUME NEW c \in Checkpointers, checkpoint_pending_events(c) \/ FailCheckpoint(c),
             UNCHANGED chain_vars
      PROVE  CInv'
  BY Zenon, <1>2, LockCheckpointStep, SelectStep, CommitCheckpointStep, FailStep
     DEF checkpoint_pending_events
<1>3. CASE UNCHANGED vars
  BY Zenon, <1>3, WriterStep DEF vars, chain_vars, ck_vars
<1> QED BY Zenon, <1>1, <1>2, <1>3 DEF CheckpointNext

-----------------------------------------------------------------------------
(* Theorems *)

\* Overlapping and failing checkpoint cycles leave a chain of batches that
\* verify_database accepts, and none ever stops on an integrity error; an event
\* is in at most one batch, and a batch that has an event has, together with the
\* batches before it, every earlier event of the scope.
THEOREM CheckpointsAlwaysSound == CheckpointSpec => []CheckpointsSound
<1>1. CInv => CheckpointsSound
  BY Zenon DEF CInv, CheckpointsSound
<1> QED BY CInit, CInductive, <1>1, PTL DEF CheckpointSpec

=============================================================================
