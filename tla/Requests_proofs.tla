-------------------------- MODULE Requests_proofs ---------------------------
(***************************************************************************)
(* Proofs about the answers to requests: the limiters and their hints, the *)
(* pages of the history of a channel, and the bodies those pages are read  *)
(* from while keys rotate, for any limits, keys, messages, batches and     *)
(* crashes.                                                                *)
(***************************************************************************)
EXTENDS RateLimit, History, MessageKeys, FiniteSetTheorems, TLAPS

\* Every set of naturals that is not empty has a least element.
LEMMA LeastNatural ==
    ASSUME NEW S \in SUBSET Nat, S # {}
    PROVE  \E m \in S : \A k \in S : m <= k
<1> DEFINE Less == OpToRel(<, Nat)
<1>1. IsWellFoundedOn(Less, Nat)
  BY Zenon, NatLessThanWellFounded
<1>2. \A j, k \in Nat : j < k => <<j, k>> \in Less
  BY Zenon DEF OpToRel
<1> HIDE DEF Less
<1>3. PICK m \in S : \A k \in S : <<k, m>> \notin Less
  BY Zenon, <1>1, WFMin
<1>4. ASSUME NEW k \in S PROVE m <= k
  <2>1. m \in Nat /\ k \in Nat
    BY Zenon
  <2>2. ~(k < m)
    BY Zenon, <1>2, <1>3, <2>1
  <2> QED BY <2>1, <2>2
<1> QED BY Zenon, <1>4

\* A set of naturals with a bound has a greatest element.
LEMMA GreatestNatural ==
    ASSUME NEW S \in SUBSET Nat, S # {}, NEW n \in Nat, \A s \in S : s <= n
    PROVE  \E m \in S : \A k \in S : k <= m
<1> DEFINE T == {n - s : s \in S}
<1>1. T \in SUBSET Nat /\ T # {}
  <2>1. \A s \in S : n - s \in Nat
    OBVIOUS
  <2> QED BY Zenon, <2>1
<1>2. PICK d \in T : \A e \in T : d <= e
  BY Zenon, <1>1, LeastNatural
<1>3. PICK m \in S : d = n - m
  BY Zenon
<1>4. ASSUME NEW k \in S PROVE k <= m
  <2>1. d <= n - k
    BY Zenon, <1>2
  <2> QED BY <1>3, <2>1
<1> QED BY Zenon, <1>3, <1>4

\* A part of a finite set has no more elements.
LEMMA Fewer ==
    ASSUME NEW S, NEW T, S \subseteq T, IsFiniteSet(T)
    PROVE  /\ IsFiniteSet(S) /\ Cardinality(S) \in Nat /\ Cardinality(T) \in Nat
           /\ Cardinality(S) <= Cardinality(T)
BY Zenon, FS_Subset, FS_CardinalityType

-----------------------------------------------------------------------------
(***************************************************************************)
(* The limiters.                                                           *)
(*                                                                         *)
(* The argument: the heap of the fallback has one entry per window (HeldKeys), *)
(* and a hint reaches the end of the window that refused the caller        *)
(* (RedisHints, LocalHints) or the refill that covers its cost (BucketHints). *)
(***************************************************************************)

Entry == [count : Nat, until : Nat]

\* The entries of the heap, and the ends of the windows.
Heap == DOMAIN expiries
Ends == {<<windows[k].until, k>> : k \in {j \in LimitKeys : windows[j].count > 0}}

RateTypeOK ==
    /\ clock \in Nat /\ flips \in Nat
    /\ counters \in [LimitKeys -> Entry]
    /\ windows \in [LimitKeys -> Entry]
    /\ hint \in [LimitKeys -> Nat \cup {NoHint}]
    /\ bucket \in [tokens : Nat, at : Nat]
    /\ bucketHint \in [cost : Nat, at : Nat]

\* A caller that Redis refused comes back, half a second later at most, when
\* the key is gone.
RedisHints ==
    redisAlive => \A k \in LimitKeys : hint[k] # NoHint => counters[k].until <= hint[k] + 2

\* When a caller that the fallback refused comes back, its own window is over
\* and so is one of those that filled the table.
LocalHints ==
    ~redisAlive => \A k \in LimitKeys : hint[k] # NoHint =>
        /\ windows[k].count > 0 => windows[k].until <= hint[k]
        /\ Cardinality({x \in Heap : x[1] > hint[k]}) < MaxKeys

\* What the bucket refills until the hint covers the cost.
BucketHints ==
    /\ bucket.at <= clock
    /\ bucketHint.cost <= Capacity
    /\ bucketHint.cost > 0 =>
        /\ bucket.at <= bucketHint.at
        /\ 4 * bucketHint.cost <= bucket.tokens + (bucketHint.at - bucket.at) * RefillRate

RateInv ==
    /\ RateTypeOK /\ IsFiniteSet(Heap) /\ LocalStateBounded
    /\ RedisHints /\ LocalHints /\ BucketHints

\* What is bounded, said of the entries and of their copies.
LEMMA HeapEntries ==
    LocalStateBounded <=> Heap = Ends /\ expiries = [x \in Heap |-> 1] /\ Cardinality(Heap) <= MaxKeys
<1>1. \A S : expiries = [x \in S |-> 1] => Heap = S
  BY Zenon DEF Heap
<1> QED BY Zenon, <1>1 DEF LocalStateBounded, Heap, Ends

\* The same after a step.
LEMMA HeapEntriesNext ==
    LocalStateBounded' <=> Heap' = Ends' /\ expiries' = [x \in Heap' |-> 1] /\ Cardinality(Heap') <= MaxKeys
<1>1. \A S : expiries' = [x \in S |-> 1] => Heap' = S
  BY Zenon DEF Heap
<1> QED BY Zenon, <1>1 DEF LocalStateBounded, Heap, Ends

\* A push of a new entry leaves one copy of each.
LEMMA PushNew ==
    ASSUME NEW S, NEW x, x \notin S PROVE HeapPush([y \in S |-> 1], x) = [y \in S \cup {x} |-> 1]
  BY DEF HeapPush

\* Rounding up loses nothing, for any divisor.
LEMMA CeilDivBound ==
    ASSUME NEW n \in Int, NEW d \in Nat \ {0}
    PROVE  CeilDiv(n, d) \in Int /\ n <= d * CeilDiv(n, d)
  BY DEF CeilDiv

\* A hint is at least one second, and no less than the time meant.
LEMMA AtLeast1Bound == ASSUME NEW n \in Int PROVE AtLeast1(n) \in Nat \ {0} /\ n <= AtLeast1(n)
  BY DEF AtLeast1

\* Multiplying by a natural number keeps the order.
LEMMA Monotone == ASSUME NEW a \in Int, NEW b \in Int, NEW c \in Nat, a <= b PROVE a * c <= b * c
  OBVIOUS

\* The invariant holds of empty limiters.
LEMMA InitRate == RateInit => RateInv
<1> SUFFICES ASSUME RateInit PROVE RateInv
  BY Zenon
<1> USE RateConstants DEF RateInit
<1>1. RateTypeOK
  BY DEF RateTypeOK, Entry, None0
<1>2. IsFiniteSet(Heap) /\ Cardinality(Heap) = 0
  BY Zenon, FS_EmptySet DEF Heap
<1>3. LocalStateBounded
  <2>1. Ends = {} /\ Heap = {}
    BY DEF Ends, Heap, None0
  <2>2. expiries = [x \in Heap |-> 1] /\ 0 <= MaxKeys
    BY DEF Heap
  <2> QED BY Zenon, <1>2, <2>1, <2>2, HeapEntries
<1>4. RedisHints /\ LocalHints /\ BucketHints
  BY DEF RedisHints, LocalHints, BucketHints
<1> QED BY Zenon, <1>1, <1>2, <1>3, <1>4 DEF RateInv

\* _purge_expired_local_windows leaves the windows that are not over, and the
\* heap has one entry for each.
LEMMA HeldKeys ==
    ASSUME RateInv, NEW kept, kept = Heap \ Due
    PROVE  /\ kept = {x \in Heap : x[1] > clock} /\ KeptEntries = [x \in kept |-> 1] /\ IsFiniteSet(kept) /\ IsFiniteSet(Held)
           /\ Held = {j \in LimitKeys : windows[j].count > 0 /\ windows[j].until > clock}
           /\ \A j \in Held : Purged(j) = windows[j]
           /\ \A j \in LimitKeys \ Held : Purged(j) = None0 \/ (Purged(j) = windows[j] /\ windows[j].count = 0)
           /\ kept = {<<windows[j].until, j>> : j \in Held}
           /\ Cardinality(Held) = Cardinality(kept) /\ Cardinality(kept) \in Nat
<1>1. /\ Heap = Ends /\ expiries = [x \in Heap |-> 1]
      /\ Heap = {<<windows[k].until, k>> : k \in {j \in LimitKeys : windows[j].count > 0}}
      /\ \A j \in LimitKeys : windows[j].count \in Nat /\ windows[j].until \in Nat
      /\ clock \in Nat
  BY Zenon, HeapEntries DEF RateInv, Ends, RateTypeOK, Entry
<1>2. \A x \in Heap : x[2] \in LimitKeys /\ x = <<windows[x[2]].until, x[2]>> /\ windows[x[2]].count > 0
                          /\ x[1] \in Nat
  BY <1>1
<1>3. kept = {x \in Heap : x[1] > clock}
  BY <1>1, <1>2 DEF Due, Heap
<1>4. \A j \in LimitKeys : <<windows[j].until, j>> \in Due <=> windows[j].count > 0 /\ windows[j].until <= clock
  BY Zenon, <1>1 DEF Due, Heap
<1>5. Held = {j \in LimitKeys : windows[j].count > 0 /\ windows[j].until > clock}
  BY <1>1, <1>4 DEF Held, Purged, None0
<1>6. \A j \in Held : Purged(j) = windows[j]
  BY <1>1, <1>4, <1>5 DEF Purged
<1>7. \A j \in LimitKeys \ Held : Purged(j) = None0 \/ (Purged(j) = windows[j] /\ windows[j].count = 0)
  BY <1>1, <1>4, <1>5 DEF Purged
<1>8. kept = {<<windows[j].until, j>> : j \in Held}
  BY <1>1, <1>3, <1>5
<1>9. IsFiniteSet(kept)
  BY Zenon, <1>3, FS_Subset DEF RateInv
<1>13. KeptEntries = [x \in kept |-> 1]
  <2>1. DOMAIN expiries \ Due = kept /\ \A x \in kept : expiries[x] = 1
    BY Zenon, <1>1 DEF Heap
  <2> QED BY Zenon, <2>1 DEF KeptEntries
<1> DEFINE f == [x \in kept |-> x[2]]
<1>10. f \in Surjection(kept, Held)
  <2>1. f \in [kept -> Held]
    BY <1>8
  <2>2. \A j \in Held : <<windows[j].until, j>> \in kept /\ f[<<windows[j].until, j>>] = j
    BY Zenon, <1>8
  <2> HIDE DEF f
  <2> QED BY Zenon, <2>1, <2>2 DEF Surjection
<1>11. f \in Injection(kept, Held)
  <2>1. f \in [kept -> Held] /\ \A x, y \in kept : f[x] = f[y] => x = y
    BY <1>8
  <2> QED BY Zenon, <2>1 DEF Injection, IsInjective
<1>12. IsFiniteSet(Held) /\ Cardinality(Held) = Cardinality(kept)
  BY Zenon, <1>9, <1>10, <1>11, FS_Surjection
<1> QED BY Zenon, <1>3, <1>5, <1>6, <1>7, <1>8, <1>9, <1>12, <1>13, FS_CardinalityType

\* _hit_local, the table being full: the hint reaches the end of a window.
LEMMA HitSaturatedStep ==
    ASSUME RateInv, NEW k \in LimitKeys, HitLocal(k), Saturated(k)
    PROVE  RateInv'
<1> DEFINE kept == Heap \ Due
           ends == {x[1] : x \in kept}
           n == AtLeast1(CeilDiv(Earliest(ends) - clock, 4))
<1>1. /\ windows' = [j \in LimitKeys |-> Purged(j)] /\ Heap' = kept /\ expiries' = [x \in kept |-> 1]
      /\ hint' = [hint EXCEPT ![k] = clock + 4 * n]
      /\ ~redisAlive /\ UNCHANGED <<clock, flips, counters, bucket, bucketHint>>
  <2>1. KeptEntries = [x \in kept |-> 1] /\ DOMAIN KeptEntries = kept
    BY Zenon, HeldKeys
  <2> HIDE DEF kept
  <2> QED BY Zenon, <2>1 DEF HitLocal, bucketVars, Heap
<1>2. RateTypeOK /\ clock \in Nat /\ MaxKeys \in Nat \ {0}
  BY Zenon, RateConstants DEF RateInv, RateTypeOK
<1>3. /\ kept = {x \in Heap : x[1] > clock} /\ IsFiniteSet(kept)
      /\ \A j \in Held : Purged(j) = windows[j]
      /\ \A j \in LimitKeys \ Held : Purged(j) = None0 \/ (Purged(j) = windows[j] /\ windows[j].count = 0)
      /\ kept = {<<windows[j].until, j>> : j \in Held}
      /\ Cardinality(Held) = Cardinality(kept) /\ Cardinality(kept) \in Nat
      /\ Held = {j \in LimitKeys : windows[j].count > 0 /\ windows[j].until > clock}
  BY Zenon, HeldKeys
<1> HIDE DEF kept
<1>4. PICK x \in kept : x[1] = Earliest(ends) /\ x[1] \in Nat
  <2>1. kept # {}
    <3>1. Cardinality(Held) >= MaxKeys /\ Cardinality(Held) = Cardinality(kept)
      BY Zenon, <1>3 DEF Saturated
    <3>2. kept = {} => Cardinality(kept) = 0
      BY Zenon, FS_EmptySet
    <3>3. Cardinality(kept) # 0
      BY <1>2, <3>1
    <3> QED BY Zenon, <3>2, <3>3
  <2>2. ends \in SUBSET Nat /\ ends # {}
    <3>1. \A j \in Held : windows[j].until \in Nat
      BY Zenon, <1>2, <1>3 DEF RateTypeOK, Entry
    <3>2. \A y \in kept : y[1] \in Nat
      BY <1>3, <3>1
    <3> QED BY Zenon, <2>1, <3>2
  <2> HIDE DEF ends
  <2>3. \E m \in ends : \A i \in ends : m <= i
    BY Zenon, <2>2, LeastNatural
  <2>4. Earliest(ends) \in ends
    BY Zenon, <2>3 DEF Earliest
  <2> QED BY Zenon, <2>2, <2>4 DEF ends
<1>5. n \in Nat /\ x[1] <= clock + 4 * n
  <2> DEFINE e == x[1] - clock
  <2>1. e \in Int
    BY <1>2, <1>4
  <2>2. CeilDiv(e, 4) \in Int /\ e <= 4 * CeilDiv(e, 4)
    BY <2>1, CeilDivBound
  <2>3. n = AtLeast1(CeilDiv(e, 4))
    BY Zenon, <1>4
  <2>4. n \in Nat /\ CeilDiv(e, 4) <= n
    BY Zenon, <2>2, <2>3, AtLeast1Bound
  <2> QED BY <1>2, <1>4, <2>2, <2>4
<1> HIDE DEF n
<1>6. hint' \in [LimitKeys -> Nat \cup {NoHint}] /\ hint'[k] = clock + 4 * n
      /\ \A j \in LimitKeys \ {k} : hint'[j] = hint[j]
  BY <1>1, <1>2, <1>5 DEF RateTypeOK
<1>7. \A j \in LimitKeys : Purged(j) \in Entry /\ windows'[j] = Purged(j)
  BY Zenon, <1>1, <1>2 DEF RateTypeOK, Purged, None0, Entry
<1>8. RateTypeOK'
  BY Zenon, <1>1, <1>2, <1>6, <1>7 DEF RateTypeOK
<1>9. \A j \in LimitKeys : windows'[j].count > 0 <=> j \in Held
  BY Zenon, <1>3, <1>7 DEF Held
<1>10. Heap' \subseteq Heap /\ Cardinality(Heap') <= MaxKeys
  <2>1. IsFiniteSet(Heap) /\ Cardinality(Heap) \in Nat /\ Cardinality(Heap) <= MaxKeys
    BY Zenon, FS_CardinalityType, HeapEntries DEF RateInv
  <2>2. kept \in SUBSET Heap
    BY Zenon, <1>3
  <2>3. Cardinality(kept) <= Cardinality(Heap)
    BY Zenon, <2>1, <2>2, FS_Subset
  <2> QED BY <1>1, <1>2, <1>3, <2>1, <2>2, <2>3
<1>11. LocalStateBounded'
  <2>1. Heap' = {<<windows'[j].until, j>> : j \in {i \in LimitKeys : windows'[i].count > 0}}
    <3>1. {i \in LimitKeys : windows'[i].count > 0} = Held
      BY Zenon, <1>9 DEF Held
    <3>2. \A j \in Held : j \in LimitKeys /\ windows'[j] = windows[j]
      BY Zenon, <1>3, <1>7
    <3>3. kept = {<<windows'[j].until, j>> : j \in Held}
      BY <1>3, <3>2
    <3> QED BY Zenon, <1>1, <3>1, <3>3
  <2> QED BY Zenon, <1>1, <1>10, <2>1, HeapEntriesNext DEF Ends
<1>12. LocalHints'
  <2> SUFFICES ASSUME NEW j \in LimitKeys, hint'[j] # NoHint
               PROVE  /\ windows'[j].count > 0 => windows'[j].until <= hint'[j]
                      /\ Cardinality({y \in Heap' : y[1] > hint'[j]}) < MaxKeys
    BY Zenon DEF LocalHints
  <2>1. CASE j = k
    <3>1. windows'[k].count = 0
      BY <1>3, <1>7, <1>9 DEF Saturated, None0
    <3>2. {y \in kept : y[1] > hint'[k]} \subseteq kept \ {x}
      BY <1>2, <1>4, <1>5, <1>6
    <3>3. Cardinality(kept \ {x}) = Cardinality(kept) - 1 /\ IsFiniteSet(kept \ {x})
      BY Zenon, <1>3, FS_RemoveElement
    <3>4. /\ Cardinality({y \in kept : y[1] > hint'[k]}) <= Cardinality(kept) - 1
          /\ Cardinality({y \in kept : y[1] > hint'[k]}) \in Nat
      BY <3>2, <3>3, FS_Subset, FS_CardinalityType
    <3>5. Cardinality(kept) <= MaxKeys
      BY Zenon, <1>1, <1>10
    <3>6. Cardinality({y \in kept : y[1] > hint'[k]}) < MaxKeys
      BY <1>2, <1>3, <3>4, <3>5
    <3> QED BY <1>1, <2>1, <3>1, <3>6
  <2>2. CASE j # k
    <3>1. /\ windows[j].count > 0 => windows[j].until <= hint[j]
          /\ Cardinality({y \in Heap : y[1] > hint[j]}) < MaxKeys
      BY Zenon, <1>1, <1>6, <2>2 DEF RateInv, LocalHints
    <3>2. windows'[j].count > 0 => windows'[j] = windows[j]
      BY Zenon, <1>3, <1>7, <1>9
    <3>3. /\ IsFiniteSet({y \in Heap : y[1] > hint[j]})
          /\ Cardinality({y \in Heap : y[1] > hint[j]}) \in Nat
      BY Zenon, FS_Subset, FS_CardinalityType DEF RateInv
    <3>4. /\ Cardinality({y \in Heap' : y[1] > hint[j]}) <= Cardinality({y \in Heap : y[1] > hint[j]})
          /\ Cardinality({y \in Heap' : y[1] > hint[j]}) \in Nat
      BY Zenon, <1>10, <3>3, FS_Subset, FS_CardinalityType
    <3>5. Cardinality({y \in Heap' : y[1] > hint[j]}) < MaxKeys
      BY <1>2, <3>1, <3>3, <3>4
    <3> QED BY Zenon, <1>6, <2>2, <3>1, <3>2, <3>5
  <2> QED BY Zenon, <2>1, <2>2
<1>13. redisAlive' = redisAlive
  BY Zenon, <1>1 DEF redisAlive
<1> QED BY Zenon, <1>1, <1>3, <1>8, <1>11, <1>12, <1>13 DEF RateInv, RedisHints, BucketHints

\* _hit_local, with an entry of its own or room for one: the heap entry of a new
\* window is the only one added, and the hint of a refusal reaches its end.
LEMMA HitAdmittedStep ==
    ASSUME RateInv, NEW k \in LimitKeys, HitLocal(k), ~Saturated(k)
    PROVE  RateInv'
<1> DEFINE kept == Heap \ Due
           e == LocalEntry(k)
           n == AtLeast1(CeilDiv(e.until - clock, 4))
<1>1. /\ windows' = [j \in LimitKeys |-> IF j = k THEN e ELSE Purged(j)]
      /\ Heap' = kept \cup {<<e.until, k>>} /\ expiries' = [x \in Heap' |-> 1]
      /\ hint' = [j \in LimitKeys |-> IF j = k THEN IF e.count > HitLimit THEN clock + 4 * n ELSE NoHint
                                      ELSE IF k \in Held THEN hint[j] ELSE NoHint]
      /\ ~redisAlive /\ UNCHANGED <<clock, flips, counters, bucket, bucketHint>>
  <2>1. /\ KeptEntries = [x \in kept |-> 1] /\ kept = {<<windows[j].until, j>> : j \in Held}
        /\ \A j \in Held : Purged(j) = windows[j]
    BY Zenon, HeldKeys
  <2> HIDE DEF kept
  <2>2. HeapAfter(k) = [x \in kept \cup {<<e.until, k>>} |-> 1]
    <3>1. CASE k \in Held
      <4>1. <<e.until, k>> \in kept
        BY Zenon, <2>1, <3>1 DEF LocalEntry
      <4>2. kept \cup {<<e.until, k>>} = kept
        BY Zenon, <4>1
      <4> QED BY Zenon, <2>1, <3>1, <4>2 DEF HeapAfter
    <3>2. CASE k \notin Held
      <4>1. <<e.until, k>> \notin kept
        BY Zenon, <2>1, <3>2
      <4>2. HeapPush(KeptEntries, <<e.until, k>>) = [x \in kept \cup {<<e.until, k>>} |-> 1]
        BY Zenon, <2>1, <4>1, PushNew
      <4> QED BY Zenon, <3>2, <4>2 DEF HeapAfter
    <3> QED BY Zenon, <3>1, <3>2
  <2>3. expiries' = [x \in kept \cup {<<e.until, k>>} |-> 1]
    BY Zenon, <2>2 DEF HitLocal
  <2>4. Heap' = kept \cup {<<e.until, k>>}
    BY Zenon, <2>3 DEF Heap
  <2> QED BY Zenon, <2>3, <2>4 DEF HitLocal, bucketVars
<1>2. /\ RateTypeOK /\ clock \in Nat /\ MaxKeys \in Nat \ {0} /\ Window \in Nat /\ HitLimit \in Nat
      /\ \A j \in LimitKeys : windows[j] \in Entry
  BY Zenon, RateConstants DEF RateInv, RateTypeOK
<1>3. /\ kept = {x \in Heap : x[1] > clock} /\ IsFiniteSet(kept)
      /\ \A j \in Held : Purged(j) = windows[j]
      /\ \A j \in LimitKeys \ Held : Purged(j) = None0 \/ (Purged(j) = windows[j] /\ windows[j].count = 0)
      /\ kept = {<<windows[j].until, j>> : j \in Held}
      /\ Cardinality(Held) = Cardinality(kept) /\ Cardinality(kept) \in Nat
      /\ Held = {j \in LimitKeys : windows[j].count > 0 /\ windows[j].until > clock}
  BY Zenon, HeldKeys
<1> HIDE DEF kept
<1>4. \A j \in LimitKeys : Purged(j) \in Entry
  BY Zenon, <1>2 DEF Purged, None0, Entry
<1>5. e \in Entry /\ e.count > 0 /\ e.until = IF k \in Held THEN windows[k].until ELSE clock + 4 * Window
  BY <1>2, <1>3, <1>4 DEF LocalEntry, Entry, Bump
<1>6. n \in Nat /\ e.until <= clock + 4 * n
  <2> DEFINE d == e.until - clock
  <2>1. d \in Int /\ e.until \in Nat
    BY <1>2, <1>5 DEF Entry
  <2>2. CeilDiv(d, 4) \in Int /\ d <= 4 * CeilDiv(d, 4)
    BY <2>1, CeilDivBound
  <2>3. n \in Nat /\ CeilDiv(d, 4) <= n
    BY Zenon, <2>2, AtLeast1Bound
  <2> QED BY <1>2, <2>1, <2>2, <2>3
<1> HIDE DEF n, e
<1>7. windows'[k] = e /\ \A j \in LimitKeys \ {k} : windows'[j] = Purged(j)
  BY Zenon, <1>1
<1>8. RateTypeOK'
  <2>1. windows' \in [LimitKeys -> Entry]
    BY Zenon, <1>1, <1>4, <1>5
  <2>2. hint' \in [LimitKeys -> Nat \cup {NoHint}]
    BY <1>1, <1>2, <1>6 DEF RateTypeOK
  <2> QED BY Zenon, <1>1, <1>2, <2>1, <2>2 DEF RateTypeOK
<1>9. {j \in LimitKeys : windows'[j].count > 0} = Held \cup {k} /\ \A j \in Held : windows'[j].until = windows[j].until
  BY Zenon, <1>3, <1>5, <1>7 DEF Held
<1>10. Heap' = {<<windows'[j].until, j>> : j \in {i \in LimitKeys : windows'[i].count > 0}}
  <2>1. kept = {<<windows'[j].until, j>> : j \in Held}
    BY <1>3, <1>9
  <2> QED BY Zenon, <1>1, <1>7, <1>9, <2>1
<1>11. IsFiniteSet(Heap') /\ Cardinality(Heap') \in Nat /\ Cardinality(Heap') <= MaxKeys
  <2>1. IsFiniteSet(Heap) /\ Cardinality(Heap) \in Nat /\ Cardinality(Heap) <= MaxKeys
    BY Zenon, FS_CardinalityType, HeapEntries DEF RateInv
  <2>2. Cardinality(kept) <= MaxKeys
    <3>1. kept \in SUBSET Heap
      BY Zenon, <1>3
    <3>2. Cardinality(kept) <= Cardinality(Heap)
      BY Zenon, <2>1, <3>1, FS_Subset
    <3> QED BY <1>2, <1>3, <2>1, <3>2
  <2>3. CASE k \in Held
    <3>1. Heap' = kept
      BY Zenon, <1>1, <1>3, <1>5, <2>3
    <3> QED BY Zenon, <1>3, <2>2, <3>1
  <2>4. CASE k \notin Held
    <3>1. Cardinality(kept) < MaxKeys
      <4>1. Cardinality(Held) = Cardinality(kept) /\ Cardinality(kept) \in Nat
        BY Zenon, <1>3
      <4>2. ~(Cardinality(Held) >= MaxKeys)
        BY Zenon, <2>4 DEF Saturated
      <4> QED BY <1>2, <4>1, <4>2
    <3>2. Cardinality(kept \cup {<<e.until, k>>}) <= Cardinality(kept) + 1 /\ IsFiniteSet(kept \cup {<<e.until, k>>})
          /\ Cardinality(kept \cup {<<e.until, k>>}) \in Nat
      <4> DEFINE x == <<e.until, k>>
      <4>1. IsFiniteSet(kept) /\ Cardinality(kept) \in Nat
        BY Zenon, <1>3
      <4> HIDE DEF x
      <4>2. /\ IsFiniteSet(kept \cup {x})
            /\ Cardinality(kept \cup {x}) = IF x \in kept THEN Cardinality(kept) ELSE Cardinality(kept) + 1
        BY Zenon, <4>1, FS_AddElement
      <4>3. Cardinality(kept \cup {x}) <= Cardinality(kept) + 1 /\ Cardinality(kept \cup {x}) \in Nat
        BY <4>1, <4>2
      <4> QED BY Zenon, <4>2, <4>3 DEF x
    <3>3. Cardinality(kept \cup {<<e.until, k>>}) <= MaxKeys
      BY <1>2, <1>3, <3>1, <3>2
    <3> QED BY Zenon, <1>1, <3>2, <3>3
  <2> QED BY Zenon, <2>3, <2>4
<1>12. LocalStateBounded'
  BY Zenon, <1>1, <1>10, <1>11, HeapEntriesNext DEF Ends
<1>13. LocalHints'
  <2> SUFFICES ASSUME NEW j \in LimitKeys, hint'[j] # NoHint
               PROVE  /\ windows'[j].count > 0 => windows'[j].until <= hint'[j]
                      /\ Cardinality({y \in Heap' : y[1] > hint'[j]}) < MaxKeys
    BY Zenon DEF LocalHints
  <2>1. CASE j = k
    <3> DEFINE x == <<e.until, k>>
    <3>1. hint'[k] = clock + 4 * n
      BY Zenon, <1>1, <2>1
    <3>2. {y \in Heap' : y[1] > hint'[k]} \subseteq Heap' \ {x} /\ x \in Heap'
      <4>1. x \in Heap' /\ x[1] = e.until
        BY Zenon, <1>1
      <4>2. e.until <= hint'[k] /\ e.until \in Nat /\ hint'[k] \in Nat
        BY <1>2, <1>5, <1>6, <3>1 DEF Entry
      <4>3. ~(x[1] > hint'[k])
        BY <4>1, <4>2
      <4> QED BY Zenon, <4>1, <4>3
    <3>3. Cardinality(Heap' \ {x}) = Cardinality(Heap') - 1 /\ IsFiniteSet(Heap' \ {x})
      BY Zenon, <1>11, <3>2, FS_RemoveElement
    <3>4. /\ Cardinality({y \in Heap' : y[1] > hint'[k]}) <= Cardinality(Heap') - 1
          /\ Cardinality({y \in Heap' : y[1] > hint'[k]}) \in Nat
      BY <3>2, <3>3, FS_Subset, FS_CardinalityType
    <3>5. Cardinality({y \in Heap' : y[1] > hint'[k]}) < MaxKeys
      BY <1>2, <1>11, <3>4
    <3>6. windows'[k].until <= hint'[k]
      BY Zenon, <1>6, <1>7, <3>1
    <3> QED BY Zenon, <2>1, <3>5, <3>6
  <2>2. CASE j # k
    <3>1. k \in Held /\ hint'[j] = hint[j]
      BY Zenon, <1>1, <2>2
    <3>2. /\ windows[j].count > 0 => windows[j].until <= hint[j]
          /\ Cardinality({y \in Heap : y[1] > hint[j]}) < MaxKeys
      BY Zenon, <1>1, <3>1 DEF RateInv, LocalHints
    <3>3. windows'[j].count > 0 => windows'[j] = windows[j]
      BY <1>3, <1>7, <2>2 DEF None0
    <3>4. /\ IsFiniteSet({y \in Heap : y[1] > hint[j]})
          /\ Cardinality({y \in Heap : y[1] > hint[j]}) \in Nat
      BY Zenon, FS_Subset, FS_CardinalityType DEF RateInv
    <3>5. Heap' \subseteq Heap
      BY Zenon, <1>1, <1>3, <1>5, <3>1
    <3>6. /\ Cardinality({y \in Heap' : y[1] > hint[j]}) <= Cardinality({y \in Heap : y[1] > hint[j]})
          /\ Cardinality({y \in Heap' : y[1] > hint[j]}) \in Nat
      BY Zenon, <3>4, <3>5, FS_Subset, FS_CardinalityType
    <3>7. Cardinality({y \in Heap' : y[1] > hint[j]}) < MaxKeys
      BY <1>2, <3>2, <3>4, <3>6
    <3> QED BY Zenon, <3>1, <3>2, <3>3, <3>7
  <2> QED BY Zenon, <2>1, <2>2
<1>14. redisAlive' = redisAlive
  BY Zenon, <1>1 DEF redisAlive
<1> QED BY Zenon, <1>1, <1>8, <1>11, <1>12, <1>13, <1>14 DEF RateInv, RedisHints, BucketHints

\* hit, answered by Redis.
LEMMA HitRedisStep == ASSUME RateInv, NEW k \in LimitKeys, HitRedis(k) PROVE RateInv'
<1> DEFINE c == Incremented(k)
           n == RedisRetry(k)
<1>1. /\ redisAlive /\ counters' = [counters EXCEPT ![k] = c]
      /\ hint' = [hint EXCEPT ![k] = IF c.count > HitLimit THEN clock + 4 * n ELSE NoHint]
      /\ UNCHANGED <<clock, flips, windows, expiries, bucket, bucketHint>>
  BY Zenon DEF HitRedis, bucketVars
<1>2. RateTypeOK /\ clock \in Nat /\ Window \in Nat /\ HitLimit \in Nat /\ counters[k] \in Entry
  BY Zenon, RateConstants DEF RateInv, RateTypeOK
<1>3. Counter(k) \in Entry
  BY Zenon, <1>2 DEF Counter, None0, Entry
<1>4. c \in Entry
  BY <1>2, <1>3 DEF Incremented, Bump, Entry
<1>5. n \in Nat /\ c.until <= clock + 4 * n + 2
  <2>1. c.until \in Nat
    BY Zenon, <1>4 DEF Entry
  <2>2. n = AtLeast1((c.until - clock + 2) \div 4) /\ (c.until - clock + 2) \div 4 \in Int
    BY <1>2, <2>1 DEF RedisRetry
  <2>3. n \in Nat /\ (c.until - clock + 2) \div 4 <= n
    BY Zenon, <2>2, AtLeast1Bound
  <2> HIDE DEF n, c
  <2> QED BY <1>2, <2>1, <2>3
<1> HIDE DEF n, c
<1>6. /\ counters'[k] = c /\ \A j \in LimitKeys \ {k} : counters'[j] = counters[j] /\ hint'[j] = hint[j]
      /\ hint'[k] \in {clock + 4 * n, NoHint}
  BY Zenon, <1>1, <1>2 DEF RateTypeOK
<1>7. RateTypeOK'
  <2>1. counters' \in [LimitKeys -> Entry]
    BY Zenon, <1>1, <1>2, <1>4 DEF RateTypeOK
  <2>2. hint' \in [LimitKeys -> Nat \cup {NoHint}]
    BY <1>1, <1>2, <1>5 DEF RateTypeOK
  <2> QED BY Zenon, <1>1, <1>2, <2>1, <2>2 DEF RateTypeOK
<1>8. redisAlive'
  BY Zenon, <1>1 DEF redisAlive
<1>9. RedisHints'
  BY Zenon, <1>1, <1>5, <1>6 DEF RedisHints, RateInv
<1>10. LocalHints'
  BY Zenon, <1>8 DEF LocalHints
<1> QED BY Zenon, <1>1, <1>7, <1>9, <1>10 DEF RateInv, BucketHints, LocalStateBounded, Heap

\* _TokenBucket.consume
LEMMA ChargeStep == ASSUME RateInv, NEW cost \in Costs, Charge(cost) PROVE RateInv'
<1>1. /\ RateTypeOK /\ clock \in Nat /\ Capacity \in Nat /\ RefillRate \in Nat \ {0}
      /\ cost \in 1..Capacity /\ bucket.tokens \in Nat /\ bucket.at \in Nat /\ bucket.at <= clock
  BY Zenon, RateConstants DEF RateInv, RateTypeOK, BucketHints
<1>2. Available \in Nat
  <2>1. clock - bucket.at \in Nat
    BY <1>1
  <2>2. (clock - bucket.at) * RefillRate \in Nat
    BY <1>1, <2>1
  <2> QED BY <1>1, <2>2 DEF Available
<1>3. UNCHANGED <<clock, flips, counters, windows, expiries, hint>>
  BY Zenon DEF Charge, limitVars
<1>4. /\ bucket' \in [tokens : Nat, at : Nat] /\ bucketHint' \in [cost : Nat, at : Nat] /\ BucketHints'
  <2>1. CASE Available >= 4 * cost
    <3>1. bucket' = [tokens |-> Available - 4 * cost, at |-> clock] /\ bucketHint' = [cost |-> 0, at |-> 0]
      BY Zenon, <2>1 DEF Charge
    <3>2. Available - 4 * cost \in Nat
      BY <1>1, <1>2, <2>1
    <3> QED BY <1>1, <1>3, <3>1, <3>2 DEF BucketHints
  <2>2. CASE ~(Available >= 4 * cost)
    <3> DEFINE m == 4 * cost - Available
               n == BucketRetry(cost)
    <3>1. bucket' = [tokens |-> Available, at |-> clock] /\ bucketHint' = [cost |-> cost, at |-> clock + 4 * n]
      BY Zenon, <2>2 DEF Charge
    <3>2. m \in Int /\ 4 * RefillRate \in Nat \ {0}
      BY <1>1, <1>2
    <3>3. CeilDiv(m, 4 * RefillRate) \in Int /\ m <= (4 * RefillRate) * CeilDiv(m, 4 * RefillRate)
      BY Zenon, <3>2, CeilDivBound
    <3>4. n \in Nat /\ CeilDiv(m, 4 * RefillRate) <= n
      BY Zenon, <3>3, AtLeast1Bound DEF BucketRetry
    <3> HIDE DEF m, n
    <3>5. CeilDiv(m, 4 * RefillRate) * (4 * RefillRate) <= n * (4 * RefillRate)
      BY <3>2, <3>3, <3>4, Monotone
    <3>6. m <= (4 * n) * RefillRate
      BY <1>1, <3>2, <3>3, <3>4, <3>5
    <3>7. 4 * cost <= Available + (4 * n) * RefillRate
      BY <1>1, <1>2, <3>2, <3>4, <3>6 DEF m
    <3>8. clock + 4 * n - clock = 4 * n /\ clock <= clock + 4 * n
      BY <1>1, <3>4
    <3>9. BucketHints'
      <4>1. /\ bucket'.tokens = Available /\ bucket'.at = clock
            /\ bucketHint'.cost = cost /\ bucketHint'.at = clock + 4 * n
        BY Zenon, <3>1
      <4>2. bucketHint'.at - bucket'.at = 4 * n
        BY <1>1, <3>4, <4>1
      <4> QED BY <1>1, <1>3, <3>7, <3>8, <4>1, <4>2 DEF BucketHints
    <3> QED BY <1>1, <1>2, <3>1, <3>4, <3>9
  <2> QED BY Zenon, <2>1, <2>2
<1>5. RateTypeOK'
  BY Zenon, <1>1, <1>3, <1>4 DEF RateTypeOK
<1> QED BY Zenon, <1>3, <1>4, <1>5 DEF RateInv, LocalStateBounded, Heap, RedisHints, LocalHints, redisAlive

\* Every step keeps the invariant.
LEMMA RateInductive == RateInv /\ [RateNext]_rateVars => RateInv'
<1> SUFFICES ASSUME RateInv, [RateNext]_rateVars PROVE RateInv'
  BY Zenon
<1>1. CASE Elapse
  <2>1. RateTypeOK' /\ BucketHints'
    BY <1>1 DEF Elapse, limitVars, bucketVars, RateInv, RateTypeOK, BucketHints
  <2> QED BY Zenon, <1>1, <2>1 DEF Elapse, limitVars, bucketVars, RateInv, LocalStateBounded, Heap, RedisHints, LocalHints, redisAlive
<1>2. ASSUME NEW k \in LimitKeys, HitRedis(k) PROVE RateInv'
  BY Zenon, <1>2, HitRedisStep
<1>3. ASSUME NEW k \in LimitKeys, HitLocal(k) PROVE RateInv'
  BY Zenon, <1>3, HitSaturatedStep, HitAdmittedStep
<1>4. CASE RedisFlips
  <2>1. \A k \in LimitKeys : hint'[k] = NoHint
    BY Zenon, <1>4 DEF RedisFlips
  <2>2. RateTypeOK'
    BY <1>4 DEF RedisFlips, bucketVars, RateInv, RateTypeOK
  <2> QED BY Zenon, <1>4, <2>1, <2>2
          DEF RedisFlips, bucketVars, RateInv, LocalStateBounded, Heap, RedisHints, LocalHints, BucketHints
<1>5. ASSUME NEW cost \in Costs, Charge(cost) PROVE RateInv'
  BY <1>5, ChargeStep
<1>6. CASE UNCHANGED rateVars
  BY Zenon, <1>6 DEF rateVars, limitVars, bucketVars, RateInv, RateTypeOK, LocalStateBounded, Heap, RedisHints, LocalHints,
              BucketHints, redisAlive
<1> QED BY Zenon, <1>1, <1>2, <1>3, <1>4, <1>5, <1>6 DEF RateNext, LimitNext, BucketNext

\* _hit_local and _purge_expired_local_windows: heap and windows stay in step and
\* within the configured number of keys, for every limit, window and number of
\* keys.
THEOREM LocalStateStaysBounded == RateSpec => []LocalStateBounded
<1>1. RateInv => LocalStateBounded
  BY Zenon DEF RateInv
<1> QED BY InitRate, RateInductive, <1>1, PTL DEF RateSpec

\* hit and _TokenBucket.consume: a caller that waits as long as it was told is
\* admitted, for every limit, window, capacity and refill rate.
THEOREM RetryHintsHold == RateSpec => []RetryAfterHonest
<1>1. RateInv => RetryAfterHonest
  <2> SUFFICES ASSUME RateInv PROVE RetryAfterHonest
    BY Zenon
  <2>1. RateTypeOK /\ clock \in Nat /\ HitLimit \in Nat \ {0} /\ MaxKeys \in Nat \ {0}
    BY Zenon, RateConstants DEF RateInv, RateTypeOK
  <2>2. ASSUME NEW k \in LimitKeys, hint[k] # NoHint, redisAlive, clock >= hint[k] + 2 PROVE Admits(k)
    <3>1. counters[k].until <= clock
      BY <2>1, <2>2 DEF RateInv, RedisHints, RateTypeOK, Entry
    <3>2. Incremented(k).count = 1
      BY <2>1, <3>1 DEF Incremented, Counter, None0, Bump
    <3> QED BY <2>1, <2>2, <3>2 DEF Admits
  <2>3. ASSUME NEW k \in LimitKeys, hint[k] # NoHint, ~redisAlive, clock >= hint[k] PROVE Admits(k)
    <3> DEFINE kept == Heap \ Due
    <3>1. /\ kept = {x \in Heap : x[1] > clock} /\ Cardinality(Held) = Cardinality(kept)
          /\ Held = {j \in LimitKeys : windows[j].count > 0 /\ windows[j].until > clock}
          /\ Cardinality(kept) \in Nat /\ kept = {<<windows[j].until, j>> : j \in Held}
      BY Zenon, HeldKeys
    <3>2. hint[k] \in Nat /\ (windows[k].count > 0 => windows[k].until <= hint[k]) /\ windows[k] \in Entry
          /\ Cardinality({x \in Heap : x[1] > hint[k]}) < MaxKeys
      BY Zenon, <2>1, <2>3 DEF RateInv, LocalHints, RateTypeOK
    <3>3. k \notin Held
      BY <2>1, <2>3, <3>1, <3>2 DEF Entry
    <3>4. kept \subseteq {x \in Heap : x[1] > hint[k]}
      <4>1. \A x \in kept : x[1] \in Nat
        BY <2>1, <3>1 DEF RateTypeOK, Entry
      <4> QED BY <2>1, <2>3, <3>1, <3>2, <4>1
    <3> HIDE DEF kept
    <3>5. /\ IsFiniteSet({x \in Heap : x[1] > hint[k]})
          /\ Cardinality({x \in Heap : x[1] > hint[k]}) \in Nat
      BY Zenon, FS_Subset, FS_CardinalityType DEF RateInv
    <3>6. Cardinality(kept) <= Cardinality({x \in Heap : x[1] > hint[k]})
      BY Zenon, <3>4, <3>5, FS_Subset
    <3>7. Cardinality(Held) < MaxKeys /\ Cardinality(Held) \in Nat
      BY <2>1, <3>1, <3>2, <3>5, <3>6
    <3>8. ~Saturated(k)
      BY <2>1, <3>7 DEF Saturated
    <3>9. LocalEntry(k).count = 1
      <4>1. Purged(k).count = 0
        BY <3>2, <3>3 DEF Held, Purged, None0, Entry
      <4> QED BY <2>1, <4>1 DEF LocalEntry, Bump
    <3> QED BY <2>1, <2>3, <3>8, <3>9 DEF Admits
  <2>4. ASSUME bucketHint.cost > 0, clock >= bucketHint.at PROVE Available >= 4 * bucketHint.cost
    <3> DEFINE R == RefillRate
    <3>1. /\ Capacity \in Nat /\ R \in Nat /\ bucket.tokens \in Nat /\ bucket.at \in Nat
          /\ bucketHint.cost \in Nat /\ bucketHint.at \in Nat
      BY Zenon, <2>1, RateConstants DEF RateTypeOK
    <3>2. /\ bucketHint.cost <= Capacity
          /\ 4 * bucketHint.cost <= bucket.tokens + (bucketHint.at - bucket.at) * R
      BY Zenon, <2>4 DEF RateInv, BucketHints
    <3>3. (bucketHint.at - bucket.at) * R <= (clock - bucket.at) * R
      BY <2>1, <2>4, <3>1, Monotone
    <3>4. (bucketHint.at - bucket.at) * R \in Int /\ (clock - bucket.at) * R \in Int
      BY <2>1, <3>1
    <3>5. 4 * bucketHint.cost <= bucket.tokens + (clock - bucket.at) * R
      BY <3>1, <3>2, <3>3, <3>4
    <3> DEFINE t == bucket.tokens + (clock - bucket.at) * R
    <3>6. t \in Int /\ 4 * bucketHint.cost <= t /\ Available = IF t > 4 * Capacity THEN 4 * Capacity ELSE t
      BY <3>1, <3>4, <3>5 DEF Available
    <3> HIDE DEF t
    <3> QED BY <3>1, <3>2, <3>6
  <2>5. ASSUME NEW k \in LimitKeys, hint[k] # NoHint, clock >= hint[k] + (IF redisAlive THEN 2 ELSE 0)
        PROVE  Admits(k)
    <3>1. hint[k] \in Nat
      BY Zenon, <2>1, <2>5 DEF RateTypeOK
    <3>2. CASE redisAlive
      BY Zenon, <2>2, <2>5, <3>2
    <3>3. CASE ~redisAlive
      BY <2>1, <2>3, <2>5, <3>1, <3>3
    <3> QED BY Zenon, <3>2, <3>3
  <2> QED BY Zenon, <2>4, <2>5 DEF RetryAfterHonest
<1> QED BY InitRate, RateInductive, <1>1, PTL DEF RateSpec

-----------------------------------------------------------------------------
(***************************************************************************)
(* The history of a channel.                                               *)
(*                                                                         *)
(* The argument: a page in either order has no hole (AscCut, DescCut), and one *)
(* that is not full is all there is (DescAll).                             *)
(***************************************************************************)

\* The least element of a set of numbers.
LEMMA LeastOfSet ==
    ASSUME NEW S \in SUBSET Nat, S # {}
    PROVE  LeastOf(S) \in S /\ \A t \in S : LeastOf(S) <= t
BY Zenon, LeastNatural DEF LeastOf

\* The greatest element of a bounded set.
LEMMA GreatestOfSet ==
    ASSUME NEW S \in SUBSET Nat, S # {}, NEW n \in Nat, \A s \in S : s <= n
    PROVE  GreatestOf(S) \in S /\ \A t \in S : GreatestOf(S) >= t
<1>1. \E m \in S : \A k \in S : m >= k
  <2>1. PICK m \in S : \A k \in S : k <= m
    BY Zenon, GreatestNatural
  <2> QED BY Zenon, <2>1
<1> QED BY Zenon, <1>1 DEF GreatestOf

\* A page in ascending order has no hole below any of its rows, and one in
\* descending order none above.
LEMMA AscCut ==
    ASSUME NEW S \in SUBSET Nat, IsFiniteSet(S), NEW n \in Nat,
           NEW s \in Asc(S, n), NEW t \in S, t <= s
    PROVE  t \in Asc(S, n)
<1>1. s \in S /\ Cardinality({u \in S : u < s}) < n
  BY Zenon DEF Asc
<1>2. {u \in S : u < t} \subseteq {u \in S : u < s} /\ {u \in S : u < s} \subseteq S
  <2>1. \A u \in S : u < t => u < s
    BY <1>1
  <2> QED BY Zenon, <2>1
<1>3. IsFiniteSet({u \in S : u < s})
  BY Zenon, <1>2, Fewer
<1>4. /\ Cardinality({u \in S : u < t}) \in Nat /\ Cardinality({u \in S : u < s}) \in Nat
      /\ Cardinality({u \in S : u < t}) <= Cardinality({u \in S : u < s})
  BY Zenon, <1>2, <1>3, Fewer
<1>5. Cardinality({u \in S : u < t}) < n
  BY <1>1, <1>4
<1> QED BY Zenon, <1>5 DEF Asc

\* A page of the newest messages holds all that are newer than one of its own.
LEMMA DescCut ==
    ASSUME NEW S \in SUBSET Nat, IsFiniteSet(S), NEW n \in Nat,
           NEW s \in Desc(S, n), NEW t \in S, t >= s
    PROVE  t \in Desc(S, n)
<1>1. s \in S /\ Cardinality({u \in S : u > s}) < n
  BY Zenon DEF Desc
<1>2. {u \in S : u > t} \subseteq {u \in S : u > s} /\ {u \in S : u > s} \subseteq S
  <2>1. \A u \in S : u > t => u > s
    BY <1>1
  <2> QED BY Zenon, <2>1
<1>3. IsFiniteSet({u \in S : u > s})
  BY Zenon, <1>2, Fewer
<1>4. /\ Cardinality({u \in S : u > t}) \in Nat /\ Cardinality({u \in S : u > s}) \in Nat
      /\ Cardinality({u \in S : u > t}) <= Cardinality({u \in S : u > s})
  BY Zenon, <1>2, <1>3, Fewer
<1>5. Cardinality({u \in S : u > t}) < n
  BY <1>1, <1>4
<1> QED BY Zenon, <1>5 DEF Desc

\* limit + 1 rows in descending order that are at most limit are all the rows,
\* and so is the page cut out of them.
LEMMA DescAll ==
    ASSUME NEW S \in SUBSET Nat, NEW b \in Nat, \A s \in S : s <= b, NEW n \in Nat,
           ~(Cardinality(Desc(S, n + 1)) > n)
    PROVE  Desc(Desc(S, n + 1), n) = S
<1> DEFINE V == Desc(S, n + 1)
<1>1. IsFiniteSet(S) /\ V \subseteq S
  BY Zenon, FS_BoundedSetOfNaturals DEF Desc
<1>2. IsFiniteSet(V) /\ Cardinality(V) \in Nat /\ Cardinality(V) <= n
  <2>1. IsFiniteSet(V) /\ Cardinality(V) \in Nat
    BY Zenon, <1>1, Fewer
  <2> QED BY <2>1
<1>3. V = S
  <2> SUFFICES ASSUME S \ V # {} PROVE FALSE
    BY Zenon, <1>1
  <2>1. PICK m \in S \ V : \A k \in S \ V : k <= m
    BY Zenon, GreatestNatural
  <2>2. {u \in S : u > m} \subseteq V
    <3> HIDE DEF V
    <3>1. \A u \in S : u > m => u \in V
      BY <2>1
    <3> QED BY Zenon, <3>1
  <2>3. Cardinality({u \in S : u > m}) \in Nat /\ Cardinality({u \in S : u > m}) <= Cardinality(V)
    BY Zenon, <1>2, <2>2, Fewer
  <2>4. Cardinality({u \in S : u > m}) < n + 1
    BY <1>2, <2>3
  <2> QED BY Zenon, <2>1, <2>4 DEF Desc
<1>4. ASSUME NEW s \in S PROVE Cardinality({u \in S : u > s}) < n
  <2>1. {u \in S : u > s} \subseteq S \ {s}
    OBVIOUS
  <2>2. IsFiniteSet(S \ {s}) /\ Cardinality(S \ {s}) = Cardinality(S) - 1
    BY Zenon, <1>1, FS_RemoveElement
  <2>3. /\ Cardinality({u \in S : u > s}) \in Nat /\ Cardinality(S \ {s}) \in Nat
        /\ Cardinality({u \in S : u > s}) <= Cardinality(S \ {s})
    BY Zenon, <2>1, <2>2, Fewer
  <2>4. Cardinality(S) <= n /\ Cardinality(S) \in Nat
    BY Zenon, <1>2, <1>3
  <2> QED BY <2>2, <2>3, <2>4
<1>5. Desc(S, n) = S
  BY Zenon, <1>4 DEF Desc
<1> QED BY Zenon, <1>3, <1>5

\* What list_messages promises of its answer over the rows S.
LEMMA ListDescAnswer ==
    ASSUME NEW S \in SUBSET Nat, NEW b \in Nat, \A s \in S : s <= b
    PROVE  /\ ListDesc(S).page \subseteq S
           /\ \A s \in ListDesc(S).page, t \in S : t >= s => t \in ListDesc(S).page
           /\ ListDesc(S).more \in BOOLEAN
           /\ ~ListDesc(S).more => ListDesc(S).page = S
<1> DEFINE V == Desc(S, PageLimit + 1)
<1>1. PageLimit \in Nat /\ PageLimit + 1 \in Nat
  BY HistoryConstants
<1>2. V \subseteq S /\ IsFiniteSet(S) /\ IsFiniteSet(V)
  BY Zenon, FS_BoundedSetOfNaturals, Fewer DEF Desc
<1>3. ListDesc(S).page = Desc(V, PageLimit) /\ ListDesc(S).more = (Cardinality(V) > PageLimit)
  BY Zenon DEF ListDesc
<1>4. Desc(V, PageLimit) \subseteq V
  BY Zenon DEF Desc
<1>5. ASSUME NEW s \in Desc(V, PageLimit), NEW t \in S, t >= s PROVE t \in Desc(V, PageLimit)
  <2> HIDE DEF V
  <2>1. t \in V
    BY Zenon, <1>1, <1>2, <1>4, <1>5, DescCut DEF V
  <2> QED BY Zenon, <1>1, <1>2, <1>5, <2>1, DescCut
<1>6. ~(Cardinality(V) > PageLimit) => Desc(V, PageLimit) = S
  BY Zenon, <1>1, DescAll
<1>7. (Cardinality(V) > PageLimit) \in BOOLEAN
  BY <1>1, <1>2, FS_CardinalityType
<1> HIDE DEF V
<1>8. ListDesc(S).more \in BOOLEAN
  BY Zenon, <1>3, <1>7
<1>9. ~ListDesc(S).more => ListDesc(S).page = S
  BY Zenon, <1>3, <1>6
<1>10. ListDesc(S).page \subseteq S /\ \A s \in ListDesc(S).page, t \in S : t >= s => t \in ListDesc(S).page
  BY Zenon, <1>2, <1>3, <1>4, <1>5
<1> QED BY Zenon, <1>8, <1>9, <1>10

\* An ascending page holds all that are older than one of its own.
LEMMA ListAscAnswer ==
    ASSUME NEW S \in SUBSET Nat, NEW b \in Nat, \A s \in S : s <= b
    PROVE  /\ ListAsc(S).page \subseteq S
           /\ \A s \in ListAsc(S).page, t \in S : t <= s => t \in ListAsc(S).page
<1> DEFINE V == Asc(S, PageLimit + 1)
<1>1. PageLimit \in Nat /\ PageLimit + 1 \in Nat
  BY HistoryConstants
<1>2. V \subseteq S /\ IsFiniteSet(S) /\ IsFiniteSet(V)
  BY Zenon, FS_BoundedSetOfNaturals, Fewer DEF Asc
<1>3. ListAsc(S).page = Asc(V, PageLimit)
  BY Zenon DEF ListAsc
<1>4. Asc(V, PageLimit) \subseteq V
  BY Zenon DEF Asc
<1>5. ASSUME NEW s \in Asc(V, PageLimit), NEW t \in S, t <= s PROVE t \in Asc(V, PageLimit)
  <2> HIDE DEF V
  <2>1. t \in V
    BY Zenon, <1>1, <1>2, <1>4, <1>5, AscCut DEF V
  <2> QED BY Zenon, <1>1, <1>2, <1>5, <2>1, AscCut
<1> QED BY Zenon, <1>2, <1>3, <1>4, <1>5

HistoryTypeOK ==
    /\ newest \in Nat /\ visible \subseteq 1..newest
    /\ window \in [lo : 0..newest, hi : 0..newest]
    /\ oldest \in BOOLEAN
    /\ jump \in [stage : {"none", "centre", "right"}, at : 0..newest, page : SUBSET (1..newest)]

\* What messages_around has read so far has no hole up to its centre.
JumpCovers ==
    /\ jump.stage = "centre" => \A p \in jump.page : p < jump.at
    /\ jump.stage = "right" =>
        /\ \A p \in jump.page : p <= jump.at
        /\ jump.at \in visible => jump.at \in jump.page
    /\ jump.stage # "none" =>
        \A s \in visible : s < jump.at /\ (\E p \in jump.page : p <= s) => s \in jump.page

HistoryInv == HistoryTypeOK /\ JumpCovers /\ HistoryWindow

\* The invariant holds before a page is read.
LEMMA InitHistory == HistoryInit => HistoryInv
<1> SUFFICES ASSUME HistoryInit PROVE HistoryInv
  OBVIOUS
<1> USE DEF HistoryInit
<1>1. newest = 0 /\ visible = {} /\ window.lo = 0 /\ window.hi = 0 /\ oldest = FALSE /\ jump.stage = "none"
  BY Zenon DEF NoJump
<1>2. window \in [lo : 0..newest, hi : 0..newest]
  BY <1>1
<1>3. jump \in [stage : {"none", "centre", "right"}, at : 0..newest, page : SUBSET (1..newest)]
  BY <1>1 DEF NoJump
<1>4. HistoryTypeOK
  <2>1. oldest \in BOOLEAN
    BY Zenon
  <2>2. newest \in Nat /\ visible \subseteq 1..newest
    BY <1>1
  <2> QED BY <1>2, <1>3, <2>1, <2>2, Zenon DEF HistoryTypeOK
<1>5. JumpCovers /\ HistoryWindow
  BY Zenon, <1>1 DEF JumpCovers, HistoryWindow
<1> QED BY Zenon, <1>4, <1>5 DEF HistoryInv

\* A part of the visible messages, as a statement reads them.
LEMMA VisiblePart ==
    ASSUME HistoryInv, NEW S, S \subseteq visible
    PROVE  S \in SUBSET Nat /\ newest \in Nat /\ IsFiniteSet(S) /\ \A s \in S : s <= newest /\ s >= 1
<1>1. S \in SUBSET Nat /\ newest \in Nat /\ \A s \in S : s <= newest /\ s >= 1
  BY DEF HistoryInv, HistoryTypeOK
<1> QED BY Zenon, <1>1, FS_BoundedSetOfNaturals

\* The ends of a page.
LEMMA PageEnds ==
    ASSUME HistoryInv, NEW P, P \subseteq 1..newest, P # {}
    PROVE  /\ LeastOf(P) \in P /\ GreatestOf(P) \in P
           /\ \A p \in P : LeastOf(P) <= p /\ p <= GreatestOf(P)
           /\ LeastOf(P) \in 1..newest /\ GreatestOf(P) \in 1..newest
<1>1. newest \in Nat /\ P \in SUBSET Nat /\ \A p \in P : p <= newest
  BY DEF HistoryInv, HistoryTypeOK
<1>2. LeastOf(P) \in P /\ \A p \in P : LeastOf(P) <= p
  BY Zenon, <1>1, LeastOfSet
<1>3. GreatestOf(P) \in P /\ \A p \in P : GreatestOf(P) >= p
  BY Zenon, <1>1, GreatestOfSet
<1> QED BY Zenon, <1>1, <1>2, <1>3

\* Opening at the end keeps the invariant.
LEMMA OpenNewestStep == ASSUME HistoryInv, OpenNewest PROVE HistoryInv'
<1> DEFINE P == ListDesc(visible).page
<1>1. visible \in SUBSET Nat /\ newest \in Nat /\ \A s \in visible : s <= newest
  BY Zenon, VisiblePart
<1>2. /\ P \subseteq visible /\ \A s \in P, t \in visible : t >= s => t \in P
      /\ ListDesc(visible).more \in BOOLEAN /\ (~ListDesc(visible).more => P = visible)
  BY Zenon, <1>1, ListDescAnswer
<1>3. /\ P # {} /\ window' = [lo |-> LeastOf(P), hi |-> GreatestOf(P)] /\ shown' = P
      /\ oldest' = ~ListDesc(visible).more /\ UNCHANGED <<newest, visible, jump>>
  BY Zenon DEF OpenNewest
<1> HIDE DEF P
<1>4. P \subseteq 1..newest
  BY Zenon, <1>2 DEF HistoryInv, HistoryTypeOK
<1>5. /\ LeastOf(P) \in P /\ \A p \in P : LeastOf(P) <= p /\ p <= GreatestOf(P)
      /\ LeastOf(P) \in 1..newest /\ GreatestOf(P) \in 1..newest
  BY Zenon, <1>3, <1>4, PageEnds
<1>6. window'.lo = LeastOf(P) /\ window'.hi = GreatestOf(P)
  BY Zenon, <1>3
<1>7. HistoryTypeOK'
  <2>1. oldest' \in BOOLEAN
    BY Zenon, <1>2, <1>3
  <2> QED BY <1>1, <1>3, <1>5, <2>1 DEF HistoryInv, HistoryTypeOK
<1>8. JumpCovers'
  BY Zenon, <1>3 DEF HistoryInv, JumpCovers
<1>9. HistoryWindow'
  <2>1. ASSUME NEW s \in visible, LeastOf(P) <= s PROVE s \in P
    BY Zenon, <1>1, <1>2, <1>5, <2>1
  <2>2. ASSUME oldest', NEW s \in visible PROVE s >= LeastOf(P)
    BY Zenon, <1>1, <1>2, <1>3, <1>5, <2>2
  <2> QED BY Zenon, <1>3, <1>6, <2>1, <2>2 DEF HistoryWindow
<1> QED BY Zenon, <1>7, <1>8, <1>9 DEF HistoryInv

\* An older page joins the window without a hole.
LEMMA ScrollOlderStep == ASSUME HistoryInv, ScrollOlder PROVE HistoryInv'
<1> DEFINE S == {s \in visible : s < window.lo}
           P == ListDesc(S).page
<1>1. S \subseteq visible
  BY Zenon
<1>2. S \in SUBSET Nat /\ newest \in Nat /\ visible \in SUBSET Nat /\ \A s \in S : s <= newest
  BY Zenon, <1>1, VisiblePart
<1>3. /\ P \subseteq S /\ \A s \in P, t \in S : t >= s => t \in P
      /\ ListDesc(S).more \in BOOLEAN /\ (~ListDesc(S).more => P = S)
  <2> HIDE DEF S
  <2> QED BY Zenon, <1>2, ListDescAnswer
<1>4. /\ window' = IF P = {} THEN window ELSE [window EXCEPT !.lo = LeastOf(P)]
      /\ shown' = shown \cup P /\ oldest' = ~ListDesc(S).more /\ UNCHANGED <<newest, visible, jump>>
  BY Zenon DEF ScrollOlder
<1>5. \A s \in visible : s < window.lo <=> s \in S
  BY Zenon
<1> HIDE DEF P, S
<1>6. window.lo \in Nat /\ window.hi \in Nat
  BY DEF HistoryInv, HistoryTypeOK
<1>7. oldest' \in BOOLEAN
  BY Zenon, <1>3, <1>4
<1>8. JumpCovers'
  BY Zenon, <1>4 DEF HistoryInv, JumpCovers
<1>9. CASE P = {}
  <2>1. HistoryTypeOK'
    BY Zenon, <1>4, <1>7, <1>9 DEF HistoryInv, HistoryTypeOK
  <2>2. ASSUME oldest', NEW s \in visible PROVE s >= window.lo
    <3>1. S = {}
      BY Zenon, <1>3, <1>4, <1>9, <2>2
    <3> QED BY <1>2, <1>5, <1>6, <3>1
  <2>3. HistoryWindow'
    BY Zenon, <1>4, <1>9, <2>2 DEF HistoryInv, HistoryWindow
  <2> QED BY Zenon, <1>8, <2>1, <2>3 DEF HistoryInv
<1>10. CASE P # {}
  <2>1. P \subseteq 1..newest
    BY Zenon, <1>1, <1>3 DEF HistoryInv, HistoryTypeOK
  <2>2. LeastOf(P) \in P /\ LeastOf(P) \in 1..newest /\ \A p \in P : LeastOf(P) <= p
    BY Zenon, <1>10, <2>1, PageEnds
  <2>3. window'.lo = LeastOf(P) /\ window'.hi = window.hi /\ window' \in [lo : 0..newest, hi : 0..newest]
    BY <1>4, <1>10, <2>2 DEF HistoryInv, HistoryTypeOK
  <2>4. HistoryTypeOK'
    BY Zenon, <1>4, <1>7, <2>3 DEF HistoryInv, HistoryTypeOK
  <2>5. ASSUME NEW s \in visible, LeastOf(P) <= s, s <= window.hi PROVE s \in shown'
    <3>1. CASE s \in S
      BY Zenon, <1>2, <1>3, <1>4, <2>2, <2>5, <3>1
    <3>2. CASE s \notin S
      BY <1>2, <1>4, <1>5, <1>6, <2>5, <3>2 DEF HistoryInv, HistoryWindow
    <3> QED BY Zenon, <3>1, <3>2
  <2>6. ASSUME oldest', NEW s \in visible PROVE s >= LeastOf(P)
    <3>1. P = S
      BY Zenon, <1>3, <1>4, <2>6
    <3>2. LeastOf(P) < window.lo /\ LeastOf(P) \in Nat /\ s \in Nat
      BY Zenon, <1>1, <1>2, <1>5, <2>2, <3>1
    <3> QED BY <1>5, <1>6, <2>2, <3>1, <3>2
  <2>7. HistoryWindow'
    BY Zenon, <1>4, <2>3, <2>5, <2>6 DEF HistoryWindow
  <2> QED BY <1>8, <2>4, <2>7 DEF HistoryInv
<1> QED BY Zenon, <1>9, <1>10

\* So does a newer page.
LEMMA ScrollNewerStep == ASSUME HistoryInv, ScrollNewer PROVE HistoryInv'
<1> DEFINE S == {s \in visible : s > window.hi}
           P == ListAsc(S).page
<1>1. S \subseteq visible
  BY Zenon
<1>2. S \in SUBSET Nat /\ newest \in Nat /\ visible \in SUBSET Nat /\ \A s \in S : s <= newest
  BY Zenon, <1>1, VisiblePart
<1>3. P \subseteq S /\ \A s \in P, t \in S : t <= s => t \in P
  <2> HIDE DEF S
  <2> QED BY Zenon, <1>2, ListAscAnswer
<1>4. /\ P # {} /\ window' = [window EXCEPT !.hi = GreatestOf(P)]
      /\ shown' = shown \cup P /\ UNCHANGED <<newest, visible, oldest, jump>>
  BY Zenon DEF ScrollNewer
<1>5. \A s \in visible : s > window.hi <=> s \in S
  BY Zenon
<1> HIDE DEF P, S
<1>6. window.lo \in Nat /\ window.hi \in Nat
  BY DEF HistoryInv, HistoryTypeOK
<1>7. P \subseteq 1..newest
  BY Zenon, <1>1, <1>3 DEF HistoryInv, HistoryTypeOK
<1>8. GreatestOf(P) \in P /\ GreatestOf(P) \in 1..newest
  BY Zenon, <1>4, <1>7, PageEnds
<1>9. window'.lo = window.lo /\ window'.hi = GreatestOf(P) /\ window' \in [lo : 0..newest, hi : 0..newest]
  BY <1>4, <1>8 DEF HistoryInv, HistoryTypeOK
<1>10. HistoryTypeOK' /\ JumpCovers'
  BY Zenon, <1>4, <1>9 DEF HistoryInv, HistoryTypeOK, JumpCovers
<1>11. ASSUME NEW s \in visible, window.lo <= s, s <= GreatestOf(P) PROVE s \in shown'
  <2>1. CASE s \in S
    BY Zenon, <1>2, <1>3, <1>4, <1>8, <1>11, <2>1
  <2>2. CASE s \notin S
    BY <1>2, <1>4, <1>5, <1>6, <1>11, <2>2 DEF HistoryInv, HistoryWindow
  <2> QED BY <2>1, <2>2
<1>12. HistoryWindow'
  BY Zenon, <1>4, <1>9, <1>11 DEF HistoryInv, HistoryWindow
<1> QED BY Zenon, <1>10, <1>12 DEF HistoryInv

\* The first statement of messages_around.
LEMMA AroundLeftStep == ASSUME HistoryInv, NEW s \in 1..newest, AroundLeft(s) PROVE HistoryInv'
<1> DEFINE S == {t \in visible : t < s}
           P == Desc(S, AroundLimit)
<1>1. S \subseteq visible /\ P \subseteq S
  BY Zenon DEF Desc
<1>2. S \in SUBSET Nat /\ IsFiniteSet(S)
  BY Zenon, <1>1, VisiblePart
<1>3. \A p \in P, t \in S : t >= p => t \in P
  <2> HIDE DEF S
  <2> QED BY Zenon, <1>2, HistoryConstants, DescCut
<1>4. jump' = [stage |-> "centre", at |-> s, page |-> P] /\ UNCHANGED <<newest, visible, window, shown, oldest>>
  BY Zenon DEF AroundLeft
<1>5. \A t \in visible : t < s <=> t \in S
  BY Zenon
<1> HIDE DEF P, S
<1>6. HistoryTypeOK' /\ HistoryWindow'
  BY <1>1, <1>4 DEF HistoryInv, HistoryTypeOK, HistoryWindow
<1>7. \A p \in P : p < s
  BY Zenon, <1>1, <1>5
<1>8. \A t \in visible, p \in P : t < s /\ p <= t => t \in P
  BY Zenon, <1>1, <1>2, <1>3, <1>5
<1>9. JumpCovers'
  BY Zenon, <1>4, <1>7, <1>8 DEF JumpCovers
<1> QED BY Zenon, <1>6, <1>9 DEF HistoryInv

\* The last one, after which the reader replaces its window.
LEMMA AroundRightStep == ASSUME HistoryInv, AroundRight PROVE HistoryInv'
<1> DEFINE S == {t \in visible : t > jump.at}
           A == Asc(S, AroundLimit)
           P == jump.page \cup A
<1>1. S \subseteq visible /\ A \subseteq S
  BY Zenon DEF Asc
<1>2. S \in SUBSET Nat /\ IsFiniteSet(S) /\ visible \in SUBSET Nat
  BY Zenon, <1>1, VisiblePart
<1>3. \A p \in A, t \in S : t <= p => t \in A
  <2> HIDE DEF S
  <2> QED BY Zenon, <1>2, HistoryConstants, AscCut
<1>4. /\ jump.stage = "right" /\ jump' = NoJump /\ UNCHANGED <<newest, visible>>
      /\ IF P = {} THEN UNCHANGED <<window, shown, oldest>>
         ELSE window' = [lo |-> LeastOf(P), hi |-> GreatestOf(P)] /\ shown' = P /\ oldest' = FALSE
  BY Zenon DEF AroundRight
<1>5. \A t \in visible : t > jump.at <=> t \in S
  BY Zenon
<1>6. P = jump.page \cup A
  BY Zenon
<1> HIDE DEF P, A, S
<1>7. JumpCovers' /\ jump' \in [stage : {"none", "centre", "right"}, at : 0..newest, page : SUBSET (1..newest)]
  BY <1>4 DEF HistoryInv, HistoryTypeOK, JumpCovers, NoJump
<1>8. CASE P = {}
  BY Zenon, <1>4, <1>7, <1>8 DEF HistoryInv, HistoryTypeOK, HistoryWindow
<1>9. CASE P # {}
  <2>1. P \subseteq 1..newest /\ jump.at \in Nat
    <3>1. visible \subseteq 1..newest /\ jump.page \subseteq 1..newest /\ jump.at \in Nat
      BY DEF HistoryInv, HistoryTypeOK
    <3> QED BY Zenon, <1>1, <1>6, <3>1
  <2>2. /\ LeastOf(P) \in P /\ GreatestOf(P) \in P
        /\ LeastOf(P) \in 1..newest /\ GreatestOf(P) \in 1..newest
    BY Zenon, <1>9, <2>1, PageEnds
  <2>3. HistoryTypeOK'
    <3>1. LeastOf(P) \in 0..newest /\ GreatestOf(P) \in 0..newest
      BY <2>2
    <3>2. window' \in [lo : 0..newest, hi : 0..newest]
      BY <1>4, <1>9, <3>1
    <3>3. oldest' \in BOOLEAN
      BY <1>4, <1>9, Zenon
    <3> QED BY Zenon, <1>4, <1>7, <3>2, <3>3 DEF HistoryInv, HistoryTypeOK
  <2>4. ASSUME NEW s \in visible, LeastOf(P) <= s, s <= GreatestOf(P) PROVE s \in P
    <3>1. s \in Nat /\ LeastOf(P) \in Nat /\ GreatestOf(P) \in Nat
      BY <1>2, <2>2
    <3>2. CASE s < jump.at
      <4>1. LeastOf(P) \in jump.page
        BY <1>1, <1>5, <1>6, <2>1, <2>2, <2>4, <3>1, <3>2
      <4> QED BY Zenon, <1>4, <1>6, <2>4, <3>2, <4>1 DEF HistoryInv, JumpCovers
    <3>3. CASE s = jump.at
      BY Zenon, <1>4, <1>6, <3>3 DEF HistoryInv, JumpCovers
    <3>4. CASE s > jump.at
      <4>1. GreatestOf(P) \in A
        BY <1>4, <1>6, <2>1, <2>2, <2>4, <3>1, <3>4 DEF HistoryInv, JumpCovers
      <4> QED BY Zenon, <1>3, <1>5, <1>6, <2>4, <3>4, <4>1
    <3> QED BY <2>1, <3>1, <3>2, <3>3, <3>4
  <2>5. window'.lo = LeastOf(P) /\ window'.hi = GreatestOf(P) /\ shown' = P /\ oldest' = FALSE
    BY <1>4, <1>9
  <2>6. HistoryWindow'
    BY Zenon, <1>4, <2>4, <2>5 DEF HistoryWindow
  <2> QED BY Zenon, <1>7, <2>3, <2>6 DEF HistoryInv
<1> QED BY <1>8, <1>9

\* Every step keeps the invariant.
LEMMA HistoryInductive == HistoryInv /\ [HistoryNext]_historyVars => HistoryInv'
<1> SUFFICES ASSUME HistoryInv, [HistoryNext]_historyVars PROVE HistoryInv'
  OBVIOUS
<1>1. CASE AppendMessage
  <2>1. newest \in Nat /\ newest' = newest + 1 /\ visible' = visible \cup {newest + 1}
        /\ UNCHANGED <<window, shown, oldest, jump>>
    BY Zenon, <1>1 DEF AppendMessage, HistoryInv, HistoryTypeOK
  <2>2. 0..newest \subseteq 0..newest' /\ 1..newest \subseteq 1..newest' /\ newest + 1 \in 1..newest'
    BY <2>1
  <2>3. window.lo \in 0..newest /\ window.hi \in 0..newest /\ jump.at \in 0..newest
    BY Zenon DEF HistoryInv, HistoryTypeOK
  <2>4. HistoryTypeOK'
    BY <2>1, <2>2 DEF HistoryInv, HistoryTypeOK
  <2>5. JumpCovers'
    BY <2>1, <2>3 DEF HistoryInv, JumpCovers
  <2>6. HistoryWindow'
    BY <2>1, <2>3 DEF HistoryInv, HistoryWindow
  <2> QED BY Zenon, <2>4, <2>5, <2>6 DEF HistoryInv
<1>2. ASSUME NEW s \in visible, RemoveMessage(s) PROVE HistoryInv'
  BY Zenon, <1>2 DEF RemoveMessage, HistoryInv, HistoryTypeOK, JumpCovers, HistoryWindow
<1>3. CASE AroundCentre
  <2>1. /\ jump.stage = "centre" /\ jump'.stage = "right" /\ jump'.at = jump.at
        /\ jump'.page = jump.page \cup (visible \cap {jump.at})
        /\ jump' \in [stage : {"none", "centre", "right"}, at : 0..newest, page : SUBSET (1..newest)]
        /\ UNCHANGED <<newest, visible, window, shown, oldest>>
    BY Zenon, <1>3 DEF AroundCentre, HistoryInv, HistoryTypeOK
  <2>2. jump.at \in Nat /\ visible \subseteq Nat /\ jump.page \subseteq Nat
    BY DEF HistoryInv, HistoryTypeOK
  <2>3. JumpCovers'
    BY <2>1, <2>2 DEF HistoryInv, JumpCovers
  <2> QED BY Zenon, <2>1, <2>3 DEF HistoryInv, HistoryTypeOK, HistoryWindow
<1>4. CASE UNCHANGED historyVars
  BY Zenon, <1>4 DEF historyVars, HistoryInv, HistoryTypeOK, JumpCovers, HistoryWindow
<1> QED
  BY Zenon, <1>1, <1>2, <1>3, <1>4, OpenNewestStep, ScrollOlderStep, ScrollNewerStep, AroundLeftStep, AroundRightStep
  DEF HistoryNext

\* list_messages and messages_around: for any limits and any number of messages
\* the reader's window has no hole, and has_more = FALSE means that nothing older
\* is left.
THEOREM HistoryHasNoHoles == HistorySpec => []HistoryWindow
<1>1. HistoryInv => HistoryWindow
  BY Zenon DEF HistoryInv
<1> QED BY InitHistory, HistoryInductive, <1>1, PTL DEF HistorySpec

-----------------------------------------------------------------------------
(***************************************************************************)
(* Message bodies.                                                         *)
(*                                                                         *)
(* The argument: the tool holds the rows of its batch as it has read them  *)
(* (LocksHeld), so it only ever writes back the text that is there; and what *)
(* the status command has found stays so (StatusSound), because nothing    *)
(* writes the former key once another is active.                           *)
(***************************************************************************)

Envelope ==
  [type : WriteTypes \cup {"text", "json"}, form : {"none", "v2", "legacy", "plain", "null"},
   key : {FormerKey, LatestKey, Nobody}, text : Nat]
Scanning == [pc : {"scan"}, cursor : Nat, former : BOOLEAN]
Overlap == [keys |-> {FormerKey, LatestKey}, active |-> LatestKey]

KeysTypeOK ==
  /\ kbody \in [Ids -> Envelope]
  /\ ktruth \in [Ids -> Nat] /\ kwrites \in Nat
  /\ klock \in [Ids -> {Nobody, "request", "tool"}]
  /\ kring \in {[keys |-> {FormerKey, LatestKey}, active |-> FormerKey], Overlap,
                 [keys |-> {LatestKey}, active |-> LatestKey]}

UnderFormer(m) == kbody[m].form = "v2" /\ kbody[m].key = FormerKey

\* The row locks: an edit holds its row, and the tool the rows of its batch,
\* which are still as it has read them.
LocksHeld ==
  /\ kedit # Nobody => kedit \in StoredRows /\ klock[kedit] = "request"
  /\ ktool # AtRest =>
       ktool.pc \in {"select", "batch"} /\ ktool.target = kring.active /\ ktool.cursor \in Nat
  /\ ktool.pc = "batch" =>
       /\ DOMAIN ktool.read \subseteq StoredRows /\ DOMAIN ktool.read # {}
       /\ \A m \in DOMAIN ktool.read : klock[m] = "tool" /\ ktool.read[m] = kbody[m]

\* What the status command has seen stays true: nothing writes the former key
\* once it is not the active one.
StatusSound ==
  /\ kstat.pc \in {"scan", "clean"} => kring = Overlap
  /\ kstat.pc = "scan" => kstat \in Scanning
  /\ kstat.pc = "scan" /\ ~kstat.former => \A m \in StoredRows : m <= kstat.cursor => ~UnderFormer(m)
  /\ kstat.pc = "clean" => \A m \in StoredRows : ~UnderFormer(m)

KeysKept == \A m \in StoredRows : kbody[m].form = "v2" => kbody[m].key \in kring.keys

TextsKept == \A m \in StoredRows \ kgone : kbody[m].text = ktruth[m]

KeysInv == KeysTypeOK /\ LocksHeld /\ StatusSound /\ KeysKept /\ TextsKept

\* The active key is one of the ring.
LEMMA RingActive == ASSUME KeysInv PROVE kring.active \in kring.keys /\ kring.active \in {FormerKey, LatestKey}
BY DEF KeysInv, KeysTypeOK, Overlap, FormerKey, LatestKey

\* The invariant holds before the rotation.
LEMMA InitKeys == KeysInit => KeysInv
<1> SUFFICES ASSUME KeysInit PROVE KeysInv
  OBVIOUS
<1>1. \A b \in EarlierBodies : b \in Envelope /\ b.text = 0 /\ (b.form = "v2" => b.key = FormerKey)
  BY DEF EarlierBodies, Body, Envelope
<1>2. KeysTypeOK
  BY Zenon, <1>1 DEF KeysInit, KeysTypeOK
<1>3. AtRest.pc = "idle"
  BY Zenon DEF AtRest
<1>4. LocksHeld /\ StatusSound
  BY Zenon, <1>3 DEF KeysInit, LocksHeld, StatusSound
<1>5. KeysKept /\ TextsKept
  BY Zenon, <1>1 DEF KeysInit, KeysKept, TextsKept, StoredRows
<1> QED BY Zenon, <1>2, <1>4, <1>5 DEF KeysInv

\* A batch of either command has no hole after the cursor, and there is one as
\* long as a row is left.
LEMMA BatchCut ==
  ASSUME NEW c \in Nat
  PROVE  /\ BatchAfter(c) \subseteq StoredRows /\ \A x \in BatchAfter(c) : x > c
         /\ \A x \in BatchAfter(c), m \in StoredRows : c < m /\ m <= x => m \in BatchAfter(c)
         /\ BatchAfter(c) = {} => \A m \in StoredRows : m <= c
         /\ BatchAfter(c) # {} =>
              Max(BatchAfter(c)) \in BatchAfter(c) /\ \A x \in BatchAfter(c) : x <= Max(BatchAfter(c))
<1> DEFINE B == BatchAfter(c)
           Between(m) == {n \in StoredRows : c < n /\ n < m}
<1>1. StoredRows \subseteq Nat /\ IsFiniteSet(StoredRows) /\ \A m \in StoredRows : m <= NMessages
  <2>1. StoredRows \subseteq Ids /\ NMessages \in Nat /\ Ids \subseteq Nat /\ \A m \in Ids : m <= NMessages
    BY MessageKeysAssumption DEF StoredRows, Ids
  <2>2. StoredRows \in SUBSET Nat
    BY Zenon, <2>1
  <2> QED BY Zenon, <2>1, <2>2, FS_BoundedSetOfNaturals
<1>2. B = {m \in StoredRows : m > c /\ Cardinality(Between(m)) < MessageBatch}
  BY Zenon DEF BatchAfter
<1>3. B \subseteq StoredRows /\ \A x \in B : x > c
  BY Zenon, <1>2
<1>4. ASSUME NEW x \in B, NEW m \in StoredRows, c < m, m <= x PROVE m \in B
  <2>1. Between(m) \subseteq Between(x) /\ Between(x) \subseteq StoredRows
    <3>1. x \in Nat /\ m \in Nat
      BY Zenon, <1>1, <1>3, <1>4
    <3>2. \A n \in StoredRows : n < m => n < x
      BY <1>1, <1>4, <3>1
    <3> QED BY Zenon, <3>2
  <2>2. IsFiniteSet(Between(x))
    BY Zenon, <1>1, <2>1, Fewer
  <2>3. Cardinality(Between(m)) \in Nat /\ Cardinality(Between(x)) \in Nat /\ Cardinality(Between(m)) <= Cardinality(Between(x))
    BY Zenon, <2>1, <2>2, Fewer
  <2>4. Cardinality(Between(x)) < MessageBatch
    BY Zenon, <1>2, <1>4
  <2>5. Cardinality(Between(m)) < MessageBatch /\ m > c
    <3> HIDE DEF Between
    <3> QED BY MessageKeysAssumption, <1>1, <1>4, <2>3, <2>4
  <2> QED BY Zenon, <1>2, <2>5
<1>5. ASSUME B = {}, NEW m \in StoredRows, ~(m <= c) PROVE FALSE
  <2> DEFINE R == {n \in StoredRows : n > c}
  <2>1. m \in R /\ R \in SUBSET Nat
    <3>1. m \in Nat /\ m > c
      BY <1>1, <1>5
    <3> QED BY Zenon, <1>1, <3>1
  <2>2. PICK n \in R : \A k \in R : n <= k
    <3> HIDE DEF R
    <3> QED BY Zenon, <2>1, LeastNatural
  <2>3. Between(n) = {}
    <3>1. \A k \in StoredRows : c < k => ~(k < n)
      BY <1>1, <2>2
    <3> QED BY Zenon, <3>1
  <2>4. Cardinality(Between(n)) < MessageBatch
    <3> HIDE DEF Between
    <3>1. Cardinality(Between(n)) = 0
      BY Zenon, <2>3, FS_EmptySet
    <3> QED BY MessageKeysAssumption, <3>1
  <2> QED BY Zenon, <1>2, <1>5, <2>2, <2>4
<1>6. ASSUME B # {} PROVE Max(B) \in B /\ \A x \in B : x <= Max(B)
  <2>1. PICK g \in B : \A k \in B : k <= g
    <3>1. B \in SUBSET Nat /\ NMessages \in Nat /\ \A k \in B : k <= NMessages
      BY Zenon, MessageKeysAssumption, <1>1, <1>3
    <3> HIDE DEF B
    <3> QED BY Zenon, <1>6, <3>1, GreatestNatural
  <2>2. \A k \in B : g >= k
    BY Zenon, <1>1, <1>3, <2>1
  <2>3. Max(B) \in B /\ \A k \in B : Max(B) >= k
    <3> HIDE DEF B
    <3> QED BY Zenon, <2>2 DEF Max
  <2> QED BY Zenon, <1>1, <1>3, <2>3
<1> HIDE DEF B, Between
<1> QED BY Zenon, <1>3, <1>4, <1>5, <1>6 DEF B

\* Bodies only change to one under the active key, or to none.
LEMMA BodyStep ==
  ASSUME KeysInv, UNCHANGED <<kring, kstat>>, kbody' \in [Ids -> Envelope],
         \A m \in Ids : kbody'[m] # kbody[m] => (kbody'[m].form = "v2" => kbody'[m].key = kring.active)
  PROVE  StatusSound' /\ KeysKept'
<1>1. \A m \in Ids : UnderFormer(m)' => (kbody'[m] = kbody[m] /\ m \in StoredRows /\ UnderFormer(m)) \/ kring.active = FormerKey
  BY Zenon DEF UnderFormer, StoredRows
<1>2. kring = Overlap => kring.active # FormerKey
  BY DEF Overlap, FormerKey, LatestKey
<1>3. StoredRows' \subseteq Ids
  BY Zenon DEF StoredRows
<1>4. StatusSound'
  BY Zenon, <1>1, <1>2, <1>3 DEF KeysInv, StatusSound
<1>5. KeysKept'
  BY Zenon, RingActive DEF KeysInv, KeysKept, StoredRows
<1> QED BY Zenon, <1>4, <1>5

\* A new body is written under the active key.
LEMMA PublishBodyStep ==
  ASSUME KeysInv, NEW m \in Ids, NEW type \in WriteTypes, NEW body \in _encrypt_payload(type), PublishBody(m, body)
  PROVE  KeysInv'
<1>1. kwrites + 1 \in Nat /\ kwrites' = kwrites + 1
  BY DEF PublishBody, NewWrite, KeysInv, KeysTypeOK
<1>2. body \in Envelope /\ body.form # "none" /\ body.text = kwrites' /\ (body.form = "v2" => body.key = kring.active)
  BY <1>1, RingActive DEF _encrypt_payload, encrypt_message_with_key, Body, Envelope
<1>3. /\ kbody' = [kbody EXCEPT ![m] = body] /\ ktruth' = [ktruth EXCEPT ![m] = kwrites'] /\ m \notin StoredRows
      /\ UNCHANGED <<kgone, klock, kedit, ktool, kstat, kring>>
  BY Zenon DEF PublishBody
<1>4. /\ kbody'[m] = body /\ ktruth'[m] = kwrites' /\ StoredRows' = StoredRows \cup {m}
      /\ \A n \in Ids \ {m} : kbody'[n] = kbody[n] /\ ktruth'[n] = ktruth[n]
  BY Zenon, <1>2, <1>3 DEF KeysInv, KeysTypeOK, StoredRows
<1>5. KeysTypeOK'
  BY Zenon, <1>1, <1>2, <1>3 DEF KeysInv, KeysTypeOK
<1>6. StatusSound' /\ KeysKept'
  BY Zenon, <1>2, <1>3, <1>4, <1>5, BodyStep DEF KeysTypeOK
<1>7. LocksHeld'
  <2>1. \A n \in StoredRows : n \in Ids \ {m}
    BY Zenon, <1>3 DEF StoredRows
  <2> QED BY Zenon, <1>3, <1>4, <2>1 DEF KeysInv, LocksHeld
<1>8. TextsKept'
  BY Zenon, <1>2, <1>3, <1>4 DEF KeysInv, TextsKept, StoredRows
<1> QED BY Zenon, <1>5, <1>6, <1>7, <1>8 DEF KeysInv

\* An edit or a delete that ends, with the body it leaves behind.
LEMMA EndEditStep ==
  ASSUME KeysInv, UnlockRow, NEW body \in Envelope, kbody' = [kbody EXCEPT ![kedit] = body],
         body.form # "none", body.form = "v2" => body.key = kring.active \/ body = kbody[kedit],
         ktruth' \in [Ids -> Nat], \A m \in Ids \ {kedit} : ktruth'[m] = ktruth[m],
         kgone \subseteq kgone', kedit \notin kgone' => body.text = ktruth'[kedit],
         kwrites' \in Nat, UNCHANGED <<ktool, kstat, kring>>
  PROVE  KeysInv'
<1>1. kedit \in Ids /\ kedit \in StoredRows /\ klock[kedit] = "request" /\ kedit # Nobody
  BY Zenon DEF UnlockRow, KeysInv, LocksHeld, StoredRows
<1>2. /\ kbody'[kedit] = body /\ \A m \in Ids \ {kedit} : kbody'[m] = kbody[m] /\ klock'[m] = klock[m]
      /\ klock' \in [Ids -> {Nobody, "request", "tool"}] /\ kbody' \in [Ids -> Envelope] /\ kedit' = Nobody
  BY Zenon, <1>1 DEF UnlockRow, KeysInv, KeysTypeOK
<1>3. KeysTypeOK'
  BY Zenon, <1>2 DEF KeysInv, KeysTypeOK
<1>4. StoredRows' = StoredRows
  BY Zenon, <1>1, <1>2 DEF StoredRows
<1>5. StatusSound' /\ KeysKept'
  BY Zenon, <1>1, <1>2, BodyStep
<1>6. LocksHeld'
  <2>1. \A m \in StoredRows : klock[m] = "tool" => m \in Ids \ {kedit}
    BY Zenon, <1>1 DEF StoredRows
  <2> QED BY Zenon, <1>2, <1>4, <2>1 DEF KeysInv, LocksHeld
<1>7. TextsKept'
  BY <1>1, <1>2, <1>4 DEF KeysInv, TextsKept, StoredRows
<1> QED BY Zenon, <1>3, <1>5, <1>6, <1>7 DEF KeysInv

\* Ending an edit keeps the invariant.
LEMMA EndEditKeeps == ASSUME KeysInv, EndEdit PROVE KeysInv'
<1>1. ASSUME NEW type \in WriteTypes, EditBody(type) PROVE KeysInv'
  <2> DEFINE b == encrypt_message_with_key(type, kwrites', kring.active)
  <2>1. kwrites' \in Nat
    BY <1>1 DEF EditBody, NewWrite, KeysInv, KeysTypeOK
  <2>2. b \in Envelope /\ b.form = "v2" /\ b.key = kring.active /\ b.text = kwrites'
    BY Zenon, <2>1, RingActive DEF encrypt_message_with_key, Body, Envelope
  <2>3. /\ UnlockRow /\ kbody' = [kbody EXCEPT ![kedit] = b] /\ ktruth' = [ktruth EXCEPT ![kedit] = kwrites']
        /\ UNCHANGED <<kgone, ktool, kstat, kring>>
    BY Zenon, <1>1 DEF EditBody
  <2> HIDE DEF b
  <2>4. kedit \in Ids
    BY Zenon, <2>3 DEF UnlockRow, KeysInv, LocksHeld, StoredRows
  <2>5. ktruth' \in [Ids -> Nat] /\ ktruth'[kedit] = kwrites' /\ \A m \in Ids \ {kedit} : ktruth'[m] = ktruth[m]
    BY Zenon, <2>1, <2>3, <2>4 DEF KeysInv, KeysTypeOK
  <2> QED BY Zenon, <2>1, <2>2, <2>3, <2>5, EndEditStep
<1>2. CASE DeleteBody
  <2>1. UnlockRow /\ kedit \in Ids /\ kbody[kedit] \in Envelope /\ UNCHANGED <<ktruth, ktool, kstat, kring, kwrites>>
        /\ kgone' = kgone \cup {kedit}
    BY Zenon, <1>2 DEF DeleteBody, UnlockRow, KeysInv, LocksHeld, StoredRows, KeysTypeOK
  <2> DEFINE b == [kbody[kedit] EXCEPT !.form = "null", !.key = Nobody]
  <2>2. b \in Envelope /\ b.form = "null"
    BY Zenon, <2>1 DEF Envelope
  <2>3. kbody' = [kbody EXCEPT ![kedit] = b]
    BY Zenon, <1>2, <2>1 DEF DeleteBody, Envelope, KeysInv, KeysTypeOK
  <2> HIDE DEF b
  <2>4. kwrites \in Nat /\ ktruth \in [Ids -> Nat]
    BY Zenon DEF KeysInv, KeysTypeOK
  <2> QED BY Zenon, <2>1, <2>2, <2>3, <2>4, EndEditStep
<1>3. CASE AbandonEdit
  <2>1. /\ UnlockRow /\ kedit \in Ids /\ kedit \in StoredRows /\ UNCHANGED <<kbody, kgone, ktruth, ktool, kstat, kring, kwrites>>
        /\ kwrites \in Nat /\ ktruth \in [Ids -> Nat] /\ kbody \in [Ids -> Envelope]
    BY Zenon, <1>3 DEF AbandonEdit, UnlockRow, KeysInv, LocksHeld, StoredRows, KeysTypeOK
  <2>2. kbody' = [kbody EXCEPT ![kedit] = kbody[kedit]] /\ kbody[kedit] \in Envelope /\ kbody[kedit].form # "none"
    BY Zenon, <2>1 DEF StoredRows
  <2>3. kedit \notin kgone' => kbody[kedit].text = ktruth'[kedit]
    BY Zenon, <2>1 DEF KeysInv, TextsKept
  <2> QED BY Zenon, <2>1, <2>2, <2>3, EndEditStep
<1> QED BY Zenon, <1>1, <1>2, <1>3 DEF EndEdit

\* The tool reads the rows it locks.
LEMMA MaintainSelectStep == ASSUME KeysInv, MaintainSelect PROVE KeysInv'
<1>1. /\ ktool.pc = "select" /\ ktool # AtRest /\ ktool.cursor \in Nat /\ ktool.target = kring.active
      /\ UNCHANGED <<kbody, kgone, ktruth, kedit, kstat, kring, kwrites>>
  BY DEF MaintainSelect, KeysInv, LocksHeld, AtRest
<1> DEFINE B == BatchAfter(ktool.cursor)
<1>2. StatusSound' /\ KeysKept' /\ TextsKept' /\ StoredRows' = StoredRows
  BY Zenon, <1>1 DEF KeysInv, StatusSound, KeysKept, TextsKept, StoredRows, UnderFormer
<1>3. B \subseteq StoredRows /\ StoredRows \subseteq Ids
  BY Zenon, <1>1, BatchCut DEF StoredRows
<1>4. CASE B = {}
  <2>1. ktool' = AtRest /\ UNCHANGED klock /\ AtRest.pc = "idle"
    BY Zenon, <1>4 DEF MaintainSelect, AtRest
  <2> QED BY Zenon, <1>1, <1>2, <2>1 DEF KeysInv, KeysTypeOK, LocksHeld
<1>5. CASE B # {}
  <2>1. /\ \A m \in B : klock[m] = Nobody
        /\ klock' = [m \in Ids |-> IF m \in B THEN "tool" ELSE klock[m]] /\ ktool' = BatchRead(B)
    BY Zenon, <1>5 DEF MaintainSelect
  <2> HIDE DEF B
  <2>2. /\ ktool'.pc = "batch" /\ ktool'.target = ktool.target /\ ktool'.cursor = ktool.cursor
        /\ DOMAIN ktool'.read = B /\ \A m \in B : ktool'.read[m] = kbody[m]
    BY Zenon, <2>1 DEF BatchRead
  <2>3. KeysTypeOK'
    BY Zenon, <1>1, <2>1 DEF KeysInv, KeysTypeOK
  <2>4. LocksHeld'
    <3>1. kedit # Nobody => kedit \in StoredRows' /\ klock'[kedit] = "request"
      BY Zenon, MessageKeysAssumption, <1>2, <1>3, <2>1 DEF KeysInv, LocksHeld
    <3>2. \A m \in B : klock'[m] = "tool"
      BY Zenon, <1>3, <2>1
    <3> QED BY Zenon, <1>1, <1>2, <1>3, <1>5, <2>2, <3>1, <3>2 DEF LocksHeld
  <2> QED BY Zenon, <1>2, <2>3, <2>4 DEF KeysInv
<1> QED BY Zenon, <1>4, <1>5

\* The end of a batch, whatever it leaves of the tool.
LEMMA ReleaseKeeps ==
  ASSUME KeysInv, ReleaseBatch, UNCHANGED <<kedit, kring>>, StoredRows' = StoredRows,
         \/ ktool' = AtRest
         \/ ktool'.pc = "select" /\ ktool'.target = kring.active /\ ktool'.cursor \in Nat
  PROVE  LocksHeld' /\ klock' \in [Ids -> {Nobody, "request", "tool"}]
<1>1. AtRest.pc = "idle"
  BY Zenon DEF AtRest
<1>2. klock' \in [Ids -> {Nobody, "request", "tool"}]
  BY Zenon DEF ReleaseBatch, KeysInv, KeysTypeOK
<1>3. kedit # Nobody => kedit \in StoredRows /\ klock'[kedit] = "request"
  BY Zenon DEF ReleaseBatch, ToolLocks, KeysInv, LocksHeld, StoredRows
<1> QED BY Zenon, <1>1, <1>2, <1>3 DEF LocksHeld

\* The rows of a batch are still as the tool read them.
LEMMA MaintainCommitStep == ASSUME KeysInv, MaintainCommit PROVE KeysInv'
<1> DEFINE R == ktool.read
           B == DOMAIN ktool.read
<1>1. /\ ktool.pc = "batch" /\ ktool # AtRest /\ ktool.target = kring.active
      /\ B \subseteq StoredRows /\ B # {} /\ StoredRows \subseteq Ids /\ \A m \in B : R[m] = kbody[m]
  <2>1. ktool.pc = "batch" /\ AtRest.pc = "idle"
    BY Zenon DEF MaintainCommit, AtRest
  <2>2. ktool # AtRest
    BY Zenon, <2>1
  <2> QED BY Zenon, <2>1, <2>2 DEF KeysInv, LocksHeld, StoredRows
<1>2. /\ kbody' = [m \in Ids |-> IF m \in B /\ ~Kept(R[m]) THEN Reencrypted(R[m]) ELSE kbody[m]]
      /\ ktool' = [pc |-> "select", rotate |-> ktool.rotate, target |-> ktool.target, cursor |-> Max(B)]
      /\ ReleaseBatch /\ UNCHANGED <<kgone, ktruth, kedit, kstat, kring, kwrites>>
  BY Zenon DEF MaintainCommit
<1> HIDE DEF R, B
<1>3. ASSUME NEW m \in B
      PROVE  /\ Reencrypted(R[m]) \in Envelope /\ Reencrypted(R[m]).form = "v2"
             /\ Reencrypted(R[m]).key = kring.active /\ Reencrypted(R[m]).text = kbody[m].text
  <2>1. R[m] = kbody[m] /\ kbody[m] \in Envelope
    BY Zenon, <1>1 DEF KeysInv, KeysTypeOK
  <2> QED BY Zenon, <1>1, <2>1, RingActive DEF Reencrypted, encrypt_message_with_key, Body, Envelope
<1>4. ASSUME NEW m \in Ids
      PROVE  /\ kbody'[m] \in Envelope /\ kbody'[m].text = kbody[m].text
             /\ (kbody'[m].form = "none" <=> kbody[m].form = "none")
             /\ kbody'[m] # kbody[m] => kbody'[m].key = kring.active
  <2>1. CASE m \in B /\ ~Kept(R[m])
    <3>1. kbody'[m] = Reencrypted(R[m]) /\ kbody[m].form # "none"
      BY Zenon, <1>1, <1>2, <2>1 DEF StoredRows
    <3> QED BY Zenon, <1>3, <2>1, <3>1
  <2>2. CASE ~(m \in B /\ ~Kept(R[m]))
    BY Zenon, <1>2, <2>2 DEF KeysInv, KeysTypeOK
  <2> QED BY Zenon, <2>1, <2>2
<1>5. kbody' \in [Ids -> Envelope] /\ StoredRows' = StoredRows
  <2>1. kbody' \in [Ids -> Envelope]
    BY Zenon, <1>2, <1>4
  <2> QED BY Zenon, <1>4, <2>1 DEF StoredRows
<1>6. Max(B) \in Nat
  <2>1. B \in SUBSET Nat /\ NMessages \in Nat /\ \A k \in B : k <= NMessages
    BY MessageKeysAssumption, <1>1 DEF Ids
  <2>2. PICK g \in B : \A k \in B : k <= g
    BY Zenon, <1>1, <2>1, GreatestNatural
  <2>3. \A k \in B : g >= k
    BY Zenon, <2>1, <2>2
  <2> QED BY Zenon, <2>1, <2>3 DEF Max
<1>7. LocksHeld' /\ klock' \in [Ids -> {Nobody, "request", "tool"}]
  <2>1. ktool'.pc = "select" /\ ktool'.target = kring.active /\ ktool'.cursor \in Nat
    BY Zenon, <1>1, <1>2, <1>6
  <2> QED BY Zenon, <1>2, <1>5, <2>1, ReleaseKeeps
<1>8. StatusSound' /\ KeysKept'
  BY Zenon, <1>2, <1>4, <1>5, BodyStep
<1>9. KeysTypeOK'
  BY Zenon, <1>2, <1>5, <1>7 DEF KeysInv, KeysTypeOK
<1>10. TextsKept'
  BY Zenon, <1>2, <1>4, <1>5 DEF KeysInv, TextsKept, StoredRows
<1> QED BY Zenon, <1>7, <1>8, <1>9, <1>10 DEF KeysInv

\* What the status command has passed is free of the former key.
LEMMA StatusBatchStep == ASSUME KeysInv, StatusBatch PROVE KeysInv'
<1>1. /\ kstat.pc = "scan" /\ kstat \in Scanning /\ kring = Overlap
      /\ UNCHANGED <<kbody, kgone, ktruth, klock, kedit, ktool, kring, kwrites>>
  BY Zenon DEF StatusBatch, KeysInv, StatusSound
<1> DEFINE B == BatchAfter(kstat.cursor)
<1>2. kstat.cursor \in Nat /\ kstat.former \in BOOLEAN
  BY Zenon, <1>1 DEF Scanning
<1>3. /\ B \subseteq StoredRows /\ \A x \in B : x > kstat.cursor
      /\ \A x \in B, m \in StoredRows : kstat.cursor < m /\ m <= x => m \in B
      /\ B = {} => \A m \in StoredRows : m <= kstat.cursor
      /\ B # {} => Max(B) \in B /\ \A x \in B : x <= Max(B)
  BY Zenon, <1>2, BatchCut
<1>4. KeysTypeOK' /\ LocksHeld' /\ KeysKept' /\ TextsKept' /\ StoredRows' = StoredRows /\ \A m \in Ids : UnderFormer(m)' = UnderFormer(m)
  BY Zenon, <1>1 DEF KeysInv, KeysTypeOK, LocksHeld, KeysKept, TextsKept, StoredRows, UnderFormer
<1>5. StoredRows \subseteq Nat /\ StoredRows \subseteq Ids
  BY DEF StoredRows, Ids
<1>6. CASE B = {}
  <2>1. kstat' = [pc |-> IF kstat.former THEN "idle" ELSE "clean"]
    BY Zenon, <1>6 DEF StatusBatch
  <2>2. CASE kstat.former
    <3>1. kstat'.pc = "idle"
      BY Zenon, <2>1, <2>2
    <3> QED BY Zenon, <1>4, <3>1 DEF KeysInv, StatusSound
  <2>3. CASE ~kstat.former
    <3>1. kstat'.pc = "clean"
      BY Zenon, <2>1, <2>3
    <3>2. \A m \in StoredRows : ~UnderFormer(m)
      BY Zenon, <1>1, <1>3, <1>6, <2>3 DEF KeysInv, StatusSound
    <3> QED BY Zenon, <1>1, <1>4, <1>5, <3>1, <3>2 DEF KeysInv, StatusSound
  <2> QED BY Zenon, <2>2, <2>3
<1>7. CASE B # {}
  <2> DEFINE hit == \E m \in B : _message_format(kbody[m]) = [kind |-> "v2", key |-> FormerKey]
             found == kstat.former \/ hit
  <2>1. kstat' = [kstat EXCEPT !.cursor = Max(B), !.former = found]
    BY Zenon, <1>1, <1>7 DEF StatusBatch, Scanning
  <2>2. \A m \in B : UnderFormer(m) => hit
    <3> SUFFICES ASSUME NEW m \in B, UnderFormer(m)
                 PROVE  _message_format(kbody[m]) = [kind |-> "v2", key |-> FormerKey]
      BY Zenon
    <3> QED BY Zenon DEF UnderFormer, _message_format, inspect_text_message_format, inspect_json_message_format
  <2>3. found \in BOOLEAN
    BY Zenon
  <2> HIDE DEF hit, B
  <2>4. ~found => ~kstat.former /\ ~hit
    BY Zenon
  <2> HIDE DEF found
  <2>5. Max(B) \in Nat /\ Max(B) \in B
    BY Zenon, <1>3, <1>5, <1>7
  <2>6. kstat' \in Scanning /\ kstat'.pc = "scan" /\ kstat'.cursor = Max(B) /\ kstat'.former = found
    BY Zenon, <1>1, <2>1, <2>3, <2>5 DEF Scanning
  <2>7. ASSUME ~found, NEW m \in StoredRows, m <= Max(B) PROVE ~UnderFormer(m)
    <3>1. CASE m <= kstat.cursor
      BY Zenon, <1>1, <2>4, <2>7, <3>1 DEF KeysInv, StatusSound
    <3>2. CASE ~(m <= kstat.cursor)
      <4>1. m \in B
        BY <1>2, <1>3, <1>5, <2>5, <2>7, <3>2
      <4> QED BY Zenon, <2>2, <2>4, <2>7, <4>1
    <3> QED BY Zenon, <3>1, <3>2
  <2>8. StatusSound'
    BY Zenon, <1>1, <1>4, <1>5, <2>6, <2>7 DEF StatusSound
  <2> QED BY Zenon, <1>4, <2>8 DEF KeysInv
<1> QED BY <1>6, <1>7

\* Every step keeps the invariant.
LEMMA KeysInductive == KeysInv /\ [KeysNext]_keyVars => KeysInv'
<1> SUFFICES ASSUME KeysInv, [KeysNext]_keyVars PROVE KeysInv'
  OBVIOUS
<1>1. AtRest.pc = "idle"
  BY Zenon DEF AtRest
<1>2. ASSUME UNCHANGED <<kbody, kgone, ktruth, kwrites>>
      PROVE  TextsKept' /\ StoredRows' = StoredRows /\ \A m \in Ids : UnderFormer(m)' = UnderFormer(m)
  BY Zenon, <1>2 DEF KeysInv, TextsKept, StoredRows, UnderFormer
<1>3. ASSUME NEW m \in Ids, LockRow(m) PROVE KeysInv'
  <2>1. /\ UNCHANGED <<kbody, kgone, ktruth, kwrites, ktool, kstat, kring>> /\ kedit' = m /\ m \in StoredRows
        /\ klock[m] = Nobody /\ klock'[m] = "request" /\ \A n \in Ids \ {m} : klock'[n] = klock[n]
        /\ klock' \in [Ids -> {Nobody, "request", "tool"}]
    BY Zenon, <1>3 DEF LockRow, KeysInv, KeysTypeOK
  <2>2. KeysTypeOK' /\ StatusSound' /\ KeysKept'
    BY Zenon, <1>2, <2>1 DEF KeysInv, KeysTypeOK, StatusSound, KeysKept, StoredRows
  <2>3. LocksHeld'
    BY Zenon, MessageKeysAssumption, <1>2, <2>1 DEF KeysInv, LocksHeld, StoredRows
  <2> QED BY Zenon, <1>2, <2>1, <2>2, <2>3 DEF KeysInv
<1>4. ASSUME NEW rotate \in BOOLEAN, MaintainStart(rotate) PROVE KeysInv'
  <2>1. /\ UNCHANGED <<kbody, kgone, ktruth, kwrites, klock, kedit, kstat, kring>>
        /\ ktool'.pc = "select" /\ ktool'.target = kring.active /\ ktool'.cursor = 0
    BY Zenon, <1>4 DEF MaintainStart
  <2>2. KeysTypeOK' /\ StatusSound' /\ KeysKept'
    BY Zenon, <1>2, <2>1 DEF KeysInv, KeysTypeOK, StatusSound, KeysKept, StoredRows
  <2>3. LocksHeld'
    BY <1>2, <2>1 DEF KeysInv, LocksHeld
  <2> QED BY Zenon, <1>2, <2>1, <2>2, <2>3 DEF KeysInv
<1>5. CASE MaintainRaise \/ MaintainDies
  <2>1. /\ UNCHANGED <<kbody, kgone, ktruth, kwrites, kedit, kstat, kring>> /\ ReleaseBatch /\ ktool' = AtRest
    BY Zenon, <1>5 DEF MaintainRaise, MaintainDies
  <2>2. LocksHeld' /\ klock' \in [Ids -> {Nobody, "request", "tool"}]
    BY Zenon, <1>2, <2>1, ReleaseKeeps
  <2>3. KeysTypeOK' /\ StatusSound' /\ KeysKept'
    BY Zenon, <1>2, <2>1, <2>2 DEF KeysInv, KeysTypeOK, StatusSound, KeysKept, StoredRows
  <2> QED BY Zenon, <1>2, <2>1, <2>2, <2>3 DEF KeysInv
<1>6. CASE StatusBegin
  <2>1. /\ UNCHANGED <<kbody, kgone, ktruth, kwrites, klock, kedit, ktool, kring>> /\ kring = Overlap
        /\ kstat'.pc = "scan" /\ kstat'.cursor = 0 /\ kstat' \in Scanning
    BY Zenon, <1>6 DEF StatusBegin, Overlap, Scanning
  <2>2. KeysTypeOK' /\ KeysKept' /\ LocksHeld'
    BY Zenon, <1>2, <2>1 DEF KeysInv, KeysTypeOK, KeysKept, StoredRows, LocksHeld
  <2>3. \A m \in StoredRows : ~(m <= 0)
    BY DEF StoredRows, Ids
  <2>4. StatusSound'
    BY Zenon, <1>2, <2>1, <2>3 DEF StatusSound
  <2> QED BY Zenon, <1>2, <2>1, <2>2, <2>4 DEF KeysInv
<1>7. CASE ActivateLatest \/ RemoveFormer
  <2>1. /\ UNCHANGED <<kbody, kgone, ktruth, kwrites>> /\ RestartAll
    BY Zenon, <1>7 DEF ActivateLatest, RemoveFormer
  <2>2. LocksHeld' /\ StatusSound'
    BY Zenon, <1>1, <2>1 DEF RestartAll, LocksHeld, StatusSound
  <2>3. CASE ActivateLatest
    <3>1. kring = [keys |-> {FormerKey, LatestKey}, active |-> FormerKey]
      BY <2>3 DEF ActivateLatest, KeysInv, KeysTypeOK, Overlap, FormerKey, LatestKey
    <3>2. kring' = Overlap /\ kring'.keys = kring.keys
      BY <2>3, <3>1 DEF ActivateLatest, Overlap
    <3>3. KeysTypeOK' /\ KeysKept'
      BY Zenon, <1>2, <2>1, <3>2 DEF KeysInv, KeysTypeOK, KeysKept, StoredRows, RestartAll
    <3> QED BY Zenon, <1>2, <2>1, <2>2, <3>3 DEF KeysInv
  <2>4. CASE RemoveFormer
    <3>1. kring = Overlap /\ \A m \in StoredRows : ~UnderFormer(m)
      BY Zenon, <2>4 DEF RemoveFormer, KeysInv, StatusSound
    <3>2. kring' = [keys |-> {LatestKey}, active |-> LatestKey] /\ kring'.keys = {LatestKey}
      BY Zenon, <2>4, <3>1 DEF RemoveFormer, Overlap
    <3>3. KeysTypeOK'
      BY Zenon, <2>1, <3>2 DEF KeysInv, KeysTypeOK, RestartAll
    <3>4. kring.keys = {FormerKey, LatestKey}
      BY Zenon, <3>1 DEF Overlap
    <3>5. KeysKept'
      BY Zenon, <1>2, <2>1, <3>1, <3>2, <3>4 DEF KeysInv, KeysKept, UnderFormer
    <3> QED BY Zenon, <1>2, <2>1, <2>2, <3>3, <3>5 DEF KeysInv
  <2> QED BY Zenon, <1>7, <2>3, <2>4
<1>8. CASE UNCHANGED keyVars
  BY Zenon, <1>8 DEF keyVars, KeysInv, KeysTypeOK, LocksHeld, StatusSound, KeysKept, TextsKept, StoredRows, UnderFormer
<1> QED
  BY Zenon, <1>3, <1>4, <1>5, <1>6, <1>7, <1>8, PublishBodyStep, EndEditKeeps, MaintainSelectStep, MaintainCommitStep, StatusBatchStep
  DEF KeysNext, MaintainStep

\* migrate_messages and collect_status beside the requests: for any number of
\* messages, any batch size and any crashes, a live message keeps its text, and
\* no envelope names a key that has left the ring.
THEOREM BodiesStayIntact == KeysSpec => []BodiesIntact
<1>1. KeysInv => BodiesIntact
  BY Zenon DEF KeysInv, KeysKept, TextsKept, BodiesIntact
<1> QED BY InitKeys, KeysInductive, <1>1, PTL DEF KeysSpec
=============================================================================
