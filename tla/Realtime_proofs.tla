-------------------------- MODULE Realtime_proofs ---------------------------
(***************************************************************************)
(* Proofs about what reaches a connected client: presence leases, the fan-out *)
(* of queued events, the registries of sockets and the catch-up after a    *)
(* reconnect, for any users, connections, clocks, queue bounds, channels,  *)
(* messages and limits.                                                    *)
(***************************************************************************)
EXTENDS Fanout, CatchUp, SocketLifecycle, FiniteSetTheorems, TLAPS

\* Every set of naturals that is not empty has a least element.
LEMMA LeastNatural ==
    ASSUME NEW S \in SUBSET Nat, S # {}
    PROVE  \E m \in S : \A k \in S : m <= k
<1> DEFINE Less == OpToRel(<, Nat)
<1>1. IsWellFoundedOn(Less, Nat)
  BY Zenon, NatLessThanWellFounded
<1>2. \A j, k \in Nat : j < k => <<j, k>> \in Less
  BY Zenon DEF OpToRel
<1> HIDE DEF Less
<1>3. PICK m \in S : \A k \in S : <<k, m>> \notin Less
  BY Zenon, <1>1, WFMin
<1>4. ASSUME NEW k \in S PROVE m <= k
  <2>1. m \in Nat /\ k \in Nat
    BY Zenon
  <2>2. ~(k < m)
    BY Zenon, <1>2, <1>3, <2>1
  <2> QED BY <2>1, <2>2
<1> QED BY Zenon, <1>4

\* A set of naturals with a bound has a greatest element.
LEMMA GreatestNatural ==
    ASSUME NEW S \in SUBSET Nat, S # {}, NEW n \in Nat, \A s \in S : s <= n
    PROVE  \E m \in S : \A k \in S : k <= m
<1> DEFINE T == {n - s : s \in S}
<1>1. T \in SUBSET Nat /\ T # {}
  <2>1. \A s \in S : n - s \in Nat
    OBVIOUS
  <2> QED BY Zenon, <2>1
<1>2. PICK d \in T : \A e \in T : d <= e
  BY Zenon, <1>1, LeastNatural
<1>3. PICK m \in S : d = n - m
  BY Zenon
<1>4. ASSUME NEW k \in S PROVE k <= m
  <2>1. d <= n - k
    BY Zenon, <1>2
  <2> QED BY <1>3, <2>1
<1> QED BY Zenon, <1>3, <1>4

\* A part of a finite set has no more elements.
LEMMA Fewer ==
    ASSUME NEW S, NEW T, S \subseteq T, IsFiniteSet(T)
    PROVE  /\ IsFiniteSet(S) /\ Cardinality(S) \in Nat /\ Cardinality(T) \in Nat
           /\ Cardinality(S) <= Cardinality(T)
BY Zenon, FS_Subset, FS_CardinalityType

-----------------------------------------------------------------------------
(***************************************************************************)
(* Presence.                                                               *)
(***************************************************************************)

\* The inductive invariant: a lease is always indexed, its user is online, and
\* the online users are those with a username and keep an index entry.
IInv ==
    /\ TypeOK
    /\ members \subseteq expirations
    /\ LeaseHolderOnline
    /\ OnlineReapable

\* The initial keys are empty.
LEMMA InitIInv == Init => IInv
BY PresenceConstants DEF Init, IInv, TypeOK, LeaseHolderOnline, OnlineReapable

\* The register script keeps the invariant, whatever its clock.
LEMMA RegisterStep ==
    ASSUME IInv, NEW c \in Conns, NEW d \in Drift, RegisterOrRefresh(c, d),
           conn' \in [Conns -> {"new", "live", "ended"}], beat' \subseteq Conns
    PROVE  IInv'
<1>a. Owner[c] \in Users
  BY Zenon, PresenceConstants
<1>1. TypeOK'
  <2>1. d + Lease \in (-Skew)..(Skew + Lease)
    BY PresenceConstants DEF Drift
  <2>2. members' \subseteq Conns /\ expirations' \subseteq Conns
    BY Zenon DEF RegisterOrRefresh, IInv, TypeOK, Expired
  <2>3. score' \in [Conns -> (-Skew)..(Skew + Lease)]
    BY Zenon, <2>1 DEF RegisterOrRefresh, IInv, TypeOK
  <2>4. usernames' \subseteq Users /\ online' \subseteq Users
    BY Zenon, <1>a DEF RegisterOrRefresh, IInv, TypeOK
  <2>5. QED
    BY Zenon, <2>2, <2>3, <2>4 DEF TypeOK
<1>2. (members \subseteq expirations)'
  BY Zenon DEF RegisterOrRefresh, IInv
<1>3. LeaseHolderOnline'
  BY Zenon DEF RegisterOrRefresh, IInv, LeaseHolderOnline
<1>4. OnlineReapable'
  <2>1. SUFFICES ASSUME NEW u \in online'
                 PROVE  u \in usernames' /\ expirations' \cap Of(u) # {}
    BY Zenon DEF OnlineReapable
  <2>2. CASE u = Owner[c]
    BY Zenon, <2>2 DEF RegisterOrRefresh, Of
  <2>3. CASE u # Owner[c]
    <3>1. u \in online
      BY Zenon, <2>3 DEF RegisterOrRefresh
    <3>2. PICK e \in expirations : e \in Of(u)
      BY Zenon, <3>1 DEF IInv, OnlineReapable
    <3>3. e \notin Expired(Owner[c], d)
      BY Zenon, <3>2, <2>3 DEF Expired, Of
    <3>4. u \in usernames
      BY Zenon, <3>1 DEF IInv, OnlineReapable
    <3>5. QED
      BY Zenon, <3>2, <3>3, <3>4 DEF RegisterOrRefresh
  <2>4. QED
    BY Zenon, <2>2, <2>3
<1>5. QED
  BY Zenon, <1>1, <1>2, <1>3, <1>4 DEF IInv

\* The disconnect script keeps the invariant.
LEMMA DisconnectStep ==
    ASSUME IInv, NEW c \in Conns, NEW d \in Drift, DisconnectScript(c, d),
           conn' \in [Conns -> {"new", "live", "ended"}], beat' \subseteq Conns
    PROVE  IInv'
<1> DEFINE u == Owner[c]
           left == members \ (Expired(u, d) \cup {c})
           gone == IF left \cap Of(u) = {} THEN {u} ELSE {}
<1>0. /\ members' = left
      /\ expirations' = expirations \ (Expired(u, d) \cup {c})
      /\ usernames' = usernames \ gone
      /\ online' = online \ gone
      /\ score' = score
  BY Zenon DEF DisconnectScript
<1>1. TypeOK'
  BY Zenon, <1>0 DEF IInv, TypeOK
<1>2. (members \subseteq expirations)'
  BY Zenon, <1>0 DEF IInv
<1>3. LeaseHolderOnline'
  <2>1. SUFFICES ASSUME NEW x \in left
                 PROVE  Owner[x] \in online \ gone
    BY Zenon, <1>0 DEF LeaseHolderOnline
  <2>2. Owner[x] \in online /\ x \in Conns
    BY Zenon DEF IInv, LeaseHolderOnline, TypeOK
  <2>3. Owner[x] = u => left \cap Of(u) # {}
    BY Zenon, <2>2 DEF Of
  <2>4. QED
    BY Zenon, <2>2, <2>3
<1>4. OnlineReapable'
  <2>1. SUFFICES ASSUME NEW v \in online \ gone
                 PROVE  v \in usernames \ gone /\ expirations' \cap Of(v) # {}
    BY Zenon, <1>0 DEF OnlineReapable
  <2>2. v \in usernames
    BY Zenon DEF IInv, OnlineReapable
  <2>3. CASE v = u
    <3>1. PICK e \in left : e \in Of(u)
      BY Zenon, <2>3
    <3>2. e \in expirations'
      BY Zenon, <3>1, <1>0 DEF IInv
    <3>3. QED
      BY Zenon, <3>1, <3>2, <2>2, <2>3
  <2>4. CASE v # u
    <3>1. PICK e \in expirations : e \in Of(v)
      BY Zenon DEF IInv, OnlineReapable
    <3>2. e \notin Expired(u, d) /\ e # c
      BY Zenon, <3>1, <2>4 DEF Expired, Of
    <3>3. QED
      BY Zenon, <3>1, <3>2, <2>2, <1>0
  <2>5. QED
    BY Zenon, <2>3, <2>4
<1>5. QED
  BY <1>1, <1>2, <1>3, <1>4 DEF IInv

\* The reaper's script keeps the invariant for every batch of due entries.
LEMMA ReapStep ==
    ASSUME IInv, NEW d \in Drift, NEW D \in SUBSET Due(d), ReapScript(d, D),
           UNCHANGED <<conn, beat>>
    PROVE  IInv'
<1> DEFINE touched == {Owner[c] : c \in D}
           left == {c \in members : ~(Owner[c] \in touched /\ score[c] <= d)}
           gone == {u \in touched : left \cap Of(u) = {}}
<1>0. /\ expirations' = expirations \ D
      /\ members' = left
      /\ usernames' = usernames \ gone
      /\ online' = online \ (gone \cap usernames)
      /\ score' = score
  BY Zenon DEF ReapScript
<1>1. TypeOK'
  BY Zenon, <1>0 DEF IInv, TypeOK
<1>2. (members \subseteq expirations)'
  <2>1. SUFFICES ASSUME NEW x \in left
                 PROVE  x \in expirations \ D
    BY Zenon, <1>0
  <2>2. x \in D => Owner[x] \in touched /\ score[x] <= d
    BY Zenon DEF Due
  <2>3. QED
    BY Zenon, <2>2 DEF IInv
<1>3. LeaseHolderOnline'
  <2>1. SUFFICES ASSUME NEW x \in left
                 PROVE  Owner[x] \in online \ (gone \cap usernames)
    BY Zenon, <1>0 DEF LeaseHolderOnline
  <2>2. Owner[x] \in online /\ x \in Of(Owner[x])
    BY Zenon DEF IInv, LeaseHolderOnline, TypeOK, Of
  <2>3. Owner[x] \notin gone
    BY Zenon, <2>2
  <2>4. QED
    BY Zenon, <2>2, <2>3
<1>4. OnlineReapable'
  <2>1. SUFFICES ASSUME NEW u \in online \ (gone \cap usernames)
                 PROVE  u \in usernames \ gone /\ expirations' \cap Of(u) # {}
    BY Zenon, <1>0 DEF OnlineReapable
  <2>2. u \in usernames /\ u \notin gone
    BY Zenon DEF IInv, OnlineReapable
  <2>3. CASE u \in touched
    <3>1. PICK e \in left : e \in Of(u)
      BY Zenon, <2>2, <2>3
    <3>2. e \in expirations'
      BY Zenon, <1>0, <1>2, <3>1
    <3>3. QED
      BY Zenon, <2>2, <3>1, <3>2
  <2>4. CASE u \notin touched
    <3>1. PICK e \in expirations : e \in Of(u)
      BY Zenon DEF IInv, OnlineReapable
    <3>2. e \notin D
      BY Zenon, <3>1, <2>4 DEF Of
    <3>3. QED
      BY Zenon, <1>0, <2>2, <3>1, <3>2
  <2>5. QED
    BY Zenon, <2>3, <2>4
<1>5. QED
  BY Zenon, <1>1, <1>2, <1>3, <1>4 DEF IInv

\* Every step keeps the invariant.
LEMMA Inductive == IInv /\ [Next]_vars => IInv'
<1> SUFFICES ASSUME IInv, [Next]_vars
             PROVE  IInv'
  BY Zenon
<1>a. TypeOK
  BY Zenon DEF IInv
<1>1. ASSUME NEW c \in Conns, Connect(c)
      PROVE  IInv'
  <2>1. conn' \in [Conns -> {"new", "live", "ended"}] /\ beat' \subseteq Conns
    BY Zenon, <1>1, <1>a DEF Connect, TypeOK
  <2>2. CASE UNCHANGED redisVars
    BY Zenon, <2>1, <2>2, <1>a DEF redisVars, IInv, TypeOK, LeaseHolderOnline, OnlineReapable
  <2>3. ASSUME NEW d \in Drift, RegisterOrRefresh(c, d)
        PROVE  IInv'
    BY Zenon, <2>1, <2>3, RegisterStep
  <2>4. QED
    BY Zenon, <1>1, <2>2, <2>3 DEF Connect
<1>2. ASSUME NEW c \in Conns, Beat(c) \/ BeatLost(c) \/ Vanish(c)
      PROVE  IInv'
  <2>1. conn' \in [Conns -> {"new", "live", "ended"}] /\ beat' \subseteq Conns
    BY Zenon, <1>2, <1>a DEF Beat, BeatLost, Vanish, TypeOK
  <2>2. UNCHANGED redisVars
    BY Zenon, <1>2 DEF Beat, BeatLost, Vanish, redisVars
  <2>3. QED
    BY Zenon, <2>1, <2>2, <1>a DEF redisVars, IInv, TypeOK, LeaseHolderOnline, OnlineReapable
<1>3. ASSUME NEW c \in Conns, BeatLands(c)
      PROVE  IInv'
  <2>1. conn' \in [Conns -> {"new", "live", "ended"}] /\ beat' \subseteq Conns
    BY Zenon, <1>3, <1>a DEF BeatLands, TypeOK
  <2>2. PICK d \in Drift : RegisterOrRefresh(c, d)
    BY Zenon, <1>3 DEF BeatLands
  <2>3. QED
    BY <2>1, <2>2, RegisterStep
<1>4. ASSUME NEW c \in Conns, Disconnect(c)
      PROVE  IInv'
  <2>1. conn' \in [Conns -> {"new", "live", "ended"}] /\ beat' \subseteq Conns
    BY Zenon, <1>4, <1>a DEF Disconnect, TypeOK
  <2>2. PICK d \in Drift : DisconnectScript(c, d)
    BY Zenon, <1>4 DEF Disconnect
  <2>3. QED
    BY <2>1, <2>2, DisconnectStep
<1>5. ASSUME NEW c \in Conns, Reap(c)
      PROVE  IInv'
  <2>1. PICK d \in Drift : \E D \in SUBSET Due(d) : ReapScript(d, D)
    BY Zenon, <1>5 DEF Reap, Batches
  <2>2. UNCHANGED <<conn, beat>>
    BY Zenon, <1>5 DEF Reap
  <2>3. QED
    BY Zenon, <2>1, <2>2, ReapStep
<1>6. ASSUME NEW u \in Users, KeyExpires(u)
      PROVE  IInv'
  BY Zenon, <1>6 DEF KeyExpires, IInv, TypeOK, LeaseHolderOnline, OnlineReapable
<1>7. CASE Tick
  <2>1. score' \in [Conns -> (-Skew)..(Skew + Lease)]
    BY <1>7, <1>a, PresenceConstants DEF Tick, TypeOK
  <2>2. QED
    BY Zenon, <2>1, <1>7 DEF Tick, IInv, TypeOK, LeaseHolderOnline, OnlineReapable
<1>8. CASE UNCHANGED vars
  BY Zenon, <1>8 DEF vars, IInv, TypeOK, LeaseHolderOnline, OnlineReapable
<1>9. QED
  BY Zenon, <1>1, <1>2, <1>3, <1>4, <1>5, <1>6, <1>7, <1>8 DEF Next

\* presence.py: the holder of a lease is online and every online user can be
\* reaped, in every reachable state.
THEOREM PresenceConsistent == Spec => [](TypeOK /\ OnlineTracked)
<1>1. IInv => TypeOK /\ OnlineTracked
  BY Zenon DEF IInv, OnlineTracked
<1>2. QED
  BY InitIInv, Inductive, <1>1, PTL DEF Spec

\* presence.py: nothing but its own disconnect takes away a lease that no
\* clock considers over.
THEOREM LeasesKept == Spec => LeaseKept
<1> DEFINE Kept == \A c \in members : score[c] > Skew /\ c \notin members' => conn'[c] # conn[c]
<1>1. IInv /\ [Next]_vars => [Kept]_vars
  <2>1. SUFFICES ASSUME IInv, Next, NEW c \in members, score[c] > Skew, c \notin members'
                 PROVE  conn'[c] # conn[c]
    BY Zenon DEF vars
  <2>a. /\ c \in Conns
        /\ conn \in [Conns -> {"new", "live", "ended"}]
        /\ score[c] \in (-Skew)..(Skew + Lease)
    BY Zenon, <2>1 DEF IInv, TypeOK
  <2>b. ASSUME NEW d \in Drift
        PROVE  ~(score[c] <= d)
    BY <2>1, <2>a, PresenceConstants DEF Drift
  <2>2. ASSUME NEW x \in Conns, NEW d \in Drift, RegisterOrRefresh(x, d)
        PROVE  FALSE
    <3>1. c \notin Expired(Owner[x], d)
      BY Zenon, <2>b DEF Expired
    <3>2. QED
      BY Zenon, <2>1, <2>2, <3>1 DEF RegisterOrRefresh
  <2>3. ASSUME NEW x \in Conns, Disconnect(x)
        PROVE  conn'[c] # conn[c]
    <3>1. PICK d \in Drift : DisconnectScript(x, d)
      BY Zenon, <2>3 DEF Disconnect
    <3>2. c \notin Expired(Owner[x], d)
      BY <2>b DEF Expired
    <3>3. c = x
      BY Zenon, <2>1, <3>1, <3>2 DEF DisconnectScript
    <3>4. QED
      BY Zenon, <2>3, <2>a, <3>3 DEF Disconnect
  <2>4. ASSUME NEW x \in Conns, Reap(x)
        PROVE  FALSE
    <3>1. PICK d \in Drift : \E D : ReapScript(d, D)
      BY Zenon, <2>4 DEF Reap
    <3>2. QED
      BY Zenon, <2>1, <2>b, <3>1 DEF ReapScript
  <2>5. ASSUME NEW u \in Users, KeyExpires(u)
        PROVE  FALSE
    <3>1. c \in Of(u)
      BY Zenon, <2>1, <2>5 DEF KeyExpires
    <3>2. score[c] = -Skew
      BY Zenon, <2>1, <2>5, <3>1 DEF KeyExpires
    <3>3. QED
      BY <2>1, <3>2, PresenceConstants
  <2>6. ASSUME NEW x \in Conns,
               Connect(x) \/ Beat(x) \/ BeatLands(x) \/ BeatLost(x) \/ Vanish(x)
        PROVE  FALSE
    <3>1. CASE UNCHANGED members
      BY Zenon, <3>1, <2>1
    <3>2. CASE \E d \in Drift : RegisterOrRefresh(x, d)
      BY Zenon, <3>2, <2>2
    <3>3. QED
      BY Zenon, <2>6, <3>1, <3>2 DEF Connect, Beat, BeatLands, BeatLost, Vanish, redisVars
  <2>7. ~Tick
    BY Zenon, <2>1 DEF Tick
  <2>8. QED
    BY Zenon, <2>1, <2>3, <2>4, <2>5, <2>6, <2>7 DEF Next
<1>2. QED
  BY InitIInv, Inductive, <1>1, PTL DEF Spec, LeaseKept

-----------------------------------------------------------------------------
(***************************************************************************)
(* The fan-out.                                                            *)
(***************************************************************************)

Consumer ==
    [st : {"none", "starting", "consuming", "acking", "dead"}, held : SUBSET Nat, cur : Nat, tries : Nat]

FanoutTypeOK ==
    /\ routed \in [Users -> Nat]
    /\ task \in [Users -> Consumer]
    /\ ready \in [Users -> SUBSET Nat] /\ dropped \in [Users -> SUBSET Nat]
    /\ cancelled \in [Users -> SUBSET Nat] /\ fanned \in [Users -> SUBSET Nat]

\* Where an event of u can be.
Places(u) == ready[u] \cup task[u].held \cup cancelled[u] \cup fanned[u] \cup dropped[u]

\* A consumer processes a delivery it holds, has published the one it is
\* acknowledging, and holds none before it consumes and after it died.
ConsumerSound(u) ==
    /\ task[u].st \in {"none", "starting", "dead"} => task[u].held = {}
    /\ task[u].cur # 0 => task[u].cur \in task[u].held
    /\ task[u].st = "acking" => task[u].cur \in fanned[u]

FanoutInv == FanoutTypeOK /\ \A u \in Users : 1..routed[u] = Places(u) /\ ConsumerSound(u)

\* The invariant holds before the worker starts.
LEMMA InitFanout == FanoutInit => FanoutInv
<1> SUFFICES ASSUME FanoutInit PROVE FanoutInv
  BY Zenon
<1>1. NoTask \in Consumer /\ NoTask.st = "none" /\ NoTask.held = {} /\ NoTask.cur = 0
  BY Zenon DEF NoTask, Consumer
<1>2. FanoutTypeOK
  BY Zenon, <1>1 DEF FanoutInit, FanoutTypeOK
<1>3. \A u \in Users : 1..routed[u] = Places(u) /\ ConsumerSound(u)
  BY <1>1 DEF FanoutInit, Places, ConsumerSound
<1> QED BY Zenon, <1>2, <1>3 DEF FanoutInv

\* A step that concerns one user.
LEMMA OneUserStep ==
    ASSUME FanoutInv, NEW u \in Users, FanoutTypeOK', 1..routed'[u] = Places(u)', ConsumerSound(u)',
           \A v \in Users \ {u} :
              /\ routed'[v] = routed[v] /\ ready'[v] = ready[v] /\ task'[v] = task[v]
              /\ cancelled'[v] = cancelled[v] /\ fanned'[v] = fanned[v] /\ dropped'[v] = dropped[v]
    PROVE  FanoutInv'
<1>1. \A v \in Users \ {u} : 1..routed'[v] = Places(v)' /\ ConsumerSound(v)'
  BY DEF FanoutInv, Places, ConsumerSound
<1> QED BY Zenon, <1>1 DEF FanoutInv

\* What overflows is discarded, nothing else.
LEMMA EnqueueKeeps ==
    ASSUME FanoutInv, NEW u \in Users, NEW S \in SUBSET Nat, Enqueue(u, S)
    PROVE  /\ ready' \in [Users -> SUBSET Nat] /\ dropped' \in [Users -> SUBSET Nat]
           /\ ready'[u] \cup dropped'[u] = ready[u] \cup S \cup dropped[u]
           /\ \A v \in Users \ {u} : ready'[v] = ready[v] /\ dropped'[v] = dropped[v]
<1> DEFINE over == Overflow(u, ready[u] \cup S)
<1>1. ready[u] \in SUBSET Nat /\ over \subseteq ready[u] \cup S
  BY Zenon DEF FanoutInv, FanoutTypeOK, Overflow
<1>2. ready' = [ready EXCEPT ![u] = (@ \cup S) \ over] /\ dropped' = [dropped EXCEPT ![u] = @ \cup over]
  BY Zenon DEF Enqueue
<1> HIDE DEF over
<1> QED BY Zenon, <1>1, <1>2 DEF FanoutInv, FanoutTypeOK

\* The consumer of u changes to t; the events move between the other places.
LEMMA ConsumerMoves ==
    ASSUME FanoutInv, NEW u \in Users, NEW t \in Consumer, task' = [task EXCEPT ![u] = t],
           UNCHANGED <<routed, cancelled, dropped>>,
           ready' \in [Users -> SUBSET Nat], fanned' \in [Users -> SUBSET Nat],
           \A v \in Users \ {u} : ready'[v] = ready[v] /\ fanned'[v] = fanned[v],
           ready'[u] \cup t.held \cup fanned'[u] = ready[u] \cup task[u].held \cup fanned[u],
           t.st \in {"none", "starting", "dead"} => t.held = {},
           t.cur # 0 => t.cur \in t.held,
           t.st = "acking" => t.cur \in fanned'[u]
    PROVE  FanoutInv'
<1>1. task'[u] = t /\ \A v \in Users \ {u} : task'[v] = task[v]
  BY Zenon DEF FanoutInv, FanoutTypeOK
<1>2. FanoutTypeOK'
  BY Zenon DEF FanoutInv, FanoutTypeOK
<1>3. ConsumerSound(u)'
  BY Zenon, <1>1 DEF ConsumerSound
<1>4. 1..routed'[u] = Places(u)'
  BY Zenon, <1>1 DEF FanoutInv, Places
<1> QED BY Zenon, <1>1, <1>2, <1>3, <1>4, OneUserStep

\* The steps of a consumer move an event from one place to another.
LEMMA ConsumerStepKeeps ==
    ASSUME FanoutInv, NEW u \in Users, Push(u) \/ ConsumeFails(u) \/ ConsumerStep(u)
    PROVE  FanoutInv'
<1>1. /\ task[u] \in Consumer /\ ConsumerSound(u) /\ ready[u] \in SUBSET Nat /\ fanned[u] \in SUBSET Nat
      /\ task \in [Users -> Consumer] /\ ready \in [Users -> SUBSET Nat] /\ fanned \in [Users -> SUBSET Nat]
      /\ 1..routed[u] = Places(u)
  BY Zenon DEF FanoutInv, FanoutTypeOK
<1>2. CASE Push(u)
  <2> DEFINE t == [task[u] EXCEPT !.held = @ \cup ready[u]]
  <2>1. t \in Consumer /\ t.held = task[u].held \cup ready[u] /\ t.st = task[u].st /\ t.cur = task[u].cur
    BY Zenon, <1>1 DEF Consumer
  <2>2. /\ task' = [task EXCEPT ![u] = t] /\ ready' = [ready EXCEPT ![u] = {}]
        /\ UNCHANGED <<routed, cancelled, dropped, fanned>> /\ task[u].st \in {"consuming", "acking"}
    BY Zenon, <1>1, <1>2 DEF Push, Consumer
  <2> HIDE DEF t
  <2>3. ready'[u] = {} /\ ready' \in [Users -> SUBSET Nat] /\ \A v \in Users \ {u} : ready'[v] = ready[v]
    BY Zenon, <1>1, <2>2
  <2> QED BY Zenon, <1>1, <2>1, <2>2, <2>3, ConsumerMoves DEF ConsumerSound
<1>3. CASE ConsumeFails(u)
  <2>1. DeadTask \in Consumer /\ DeadTask.st = "dead" /\ DeadTask.held = {} /\ DeadTask.cur = 0
    BY Zenon DEF DeadTask, NoTask, Consumer
  <2> QED BY Zenon, <1>1, <1>3, <2>1, ConsumerMoves DEF ConsumeFails, ConsumerSound
<1>4. CASE Consume(u)
  <2> DEFINE t == [task[u] EXCEPT !.st = "consuming"]
  <2>1. t \in Consumer /\ t.held = task[u].held /\ t.st = "consuming" /\ t.cur = task[u].cur
    BY Zenon, <1>1 DEF Consumer
  <2>2. task' = [task EXCEPT ![u] = t] /\ UNCHANGED <<routed, ready, cancelled, dropped, fanned>>
    BY Zenon, <1>1, <1>4 DEF Consume, Consumer
  <2> HIDE DEF t
  <2> QED BY Zenon, <1>1, <2>1, <2>2, ConsumerMoves DEF ConsumerSound
<1>5. CASE Take(u)
  <2>1. PICK e \in task[u].held : task' = [task EXCEPT ![u].cur = e, ![u].tries = 0]
    BY Zenon, <1>5 DEF Take
  <2> DEFINE t == [task[u] EXCEPT !.cur = e, !.tries = 0]
  <2>2. t \in Consumer /\ t.held = task[u].held /\ t.st = task[u].st /\ t.cur = e
    BY Zenon, <1>1 DEF Consumer
  <2>3. /\ task' = [task EXCEPT ![u] = t] /\ UNCHANGED <<routed, ready, cancelled, dropped, fanned>>
        /\ task[u].st = "consuming"
    BY Zenon, <1>1, <1>5, <2>1 DEF Take, Consumer
  <2> HIDE DEF t
  <2> QED BY Zenon, <1>1, <2>2, <2>3, ConsumerMoves DEF ConsumerSound
<1>6. CASE PublishRedis(u)
  <2> DEFINE t == [task[u] EXCEPT !.st = "acking"]
  <2>1. t \in Consumer /\ t.held = task[u].held /\ t.st = "acking" /\ t.cur = task[u].cur
    BY Zenon, <1>1 DEF Consumer
  <2>2. /\ task' = [task EXCEPT ![u] = t] /\ UNCHANGED <<routed, ready, cancelled, dropped>>
        /\ task[u].cur # 0 /\ fanned' = [fanned EXCEPT ![u] = @ \cup {task[u].cur}]
    BY Zenon, <1>1, <1>6 DEF PublishRedis, Consumer
  <2>3. /\ task[u].cur \in Nat /\ task[u].cur \in task[u].held
        /\ fanned'[u] = fanned[u] \cup {task[u].cur} /\ fanned' \in [Users -> SUBSET Nat]
        /\ \A v \in Users \ {u} : fanned'[v] = fanned[v]
    BY Zenon, <1>1, <2>2 DEF ConsumerSound, Consumer
  <2> HIDE DEF t
  <2>4. ready'[u] \cup t.held \cup fanned'[u] = ready[u] \cup task[u].held \cup fanned[u]
    BY Zenon, <2>1, <2>2, <2>3
  <2>5. t.cur \in t.held /\ t.cur \in fanned'[u]
    BY Zenon, <2>1, <2>3
  <2>6. ready' \in [Users -> SUBSET Nat] /\ \A v \in Users \ {u} : ready'[v] = ready[v] /\ fanned'[v] = fanned[v]
    BY Zenon, <1>1, <2>2, <2>3
  <2> QED BY Zenon, <2>1, <2>2, <2>3, <2>4, <2>5, <2>6, ConsumerMoves
<1>7. CASE PublishRetries(u)
  <2> DEFINE t == [task[u] EXCEPT !.tries = @ + 1]
  <2>1. t \in Consumer /\ t.held = task[u].held /\ t.st = task[u].st /\ t.cur = task[u].cur
    BY <1>1 DEF Consumer
  <2>2. task' = [task EXCEPT ![u] = t] /\ UNCHANGED <<routed, ready, cancelled, dropped, fanned>>
    BY Zenon, <1>1, <1>7 DEF PublishRetries, Consumer
  <2> HIDE DEF t
  <2> QED BY Zenon, <1>1, <2>1, <2>2, ConsumerMoves DEF ConsumerSound
<1>8. CASE Ack(u)
  <2> DEFINE t == [st |-> "consuming", held |-> task[u].held \ {task[u].cur}, cur |-> 0, tries |-> 0]
  <2>1. t \in Consumer /\ t.held = task[u].held \ {task[u].cur} /\ t.st = "consuming" /\ t.cur = 0
    BY Zenon, <1>1 DEF Consumer
  <2>2. /\ task' = [task EXCEPT ![u] = t] /\ UNCHANGED <<routed, ready, cancelled, dropped, fanned>>
        /\ task[u].st = "acking"
    BY Zenon, <1>1, <1>8 DEF Ack
  <2> HIDE DEF t
  <2> QED BY Zenon, <1>1, <2>1, <2>2, ConsumerMoves DEF ConsumerSound
<1>9. CASE GiveUp(u)
  <2>1. /\ DeadTask \in Consumer /\ DeadTask.st = "dead" /\ DeadTask.held = {} /\ DeadTask.cur = 0
        /\ task[u].held \in SUBSET Nat
    BY Zenon, <1>1 DEF DeadTask, NoTask, Consumer
  <2>2. /\ task' = [task EXCEPT ![u] = DeadTask] /\ Enqueue(u, task[u].held)
        /\ UNCHANGED <<routed, cancelled, fanned>>
    BY Zenon, <1>9 DEF GiveUp
  <2>3. task'[u] = DeadTask /\ task' \in [Users -> Consumer] /\ \A v \in Users \ {u} : task'[v] = task[v]
    BY Zenon, <1>1, <2>1, <2>2
  <2>4. /\ ready' \in [Users -> SUBSET Nat] /\ dropped' \in [Users -> SUBSET Nat]
        /\ ready'[u] \cup dropped'[u] = ready[u] \cup task[u].held \cup dropped[u]
        /\ \A v \in Users \ {u} : ready'[v] = ready[v] /\ dropped'[v] = dropped[v]
    BY Zenon, <2>1, <2>2, EnqueueKeeps
  <2>5. FanoutTypeOK'
    BY Zenon, <2>2, <2>3, <2>4 DEF FanoutInv, FanoutTypeOK
  <2>6. ConsumerSound(u)' /\ 1..routed'[u] = Places(u)'
    BY Zenon, <1>1, <2>1, <2>2, <2>3, <2>4 DEF ConsumerSound, Places
  <2> QED BY Zenon, <2>2, <2>3, <2>4, <2>5, <2>6, OneUserStep
<1> QED BY Zenon, <1>2, <1>3, <1>4, <1>5, <1>6, <1>7, <1>8, <1>9 DEF ConsumerStep

\* Every step of the fan-out keeps the invariant.
LEMMA FanoutInductive == FanoutInv /\ [FanoutNext]_fanoutVars => FanoutInv'
<1> SUFFICES ASSUME FanoutInv, [FanoutNext]_fanoutVars PROVE FanoutInv'
  OBVIOUS
<1>1. /\ routed \in [Users -> Nat] /\ ready \in [Users -> SUBSET Nat] /\ dropped \in [Users -> SUBSET Nat]
      /\ cancelled \in [Users -> SUBSET Nat] /\ fanned \in [Users -> SUBSET Nat] /\ task \in [Users -> Consumer]
      /\ \A u \in Users : 1..routed[u] = Places(u) /\ ConsumerSound(u) /\ task[u].held \in SUBSET Nat
  BY Zenon DEF FanoutInv, FanoutTypeOK, Consumer
<1>2. NoTask \in Consumer /\ NoTask.st = "none" /\ NoTask.held = {} /\ NoTask.cur = 0
  BY Zenon DEF NoTask, Consumer
<1>3. ASSUME NEW u \in Users, Route(u) PROVE FanoutInv'
  <2>1. /\ {routed[u] + 1} \in SUBSET Nat /\ Enqueue(u, {routed[u] + 1}) /\ routed'[u] = routed[u] + 1
        /\ routed' \in [Users -> Nat] /\ \A v \in Users \ {u} : routed'[v] = routed[v]
        /\ UNCHANGED <<task, cancelled, fanned>>
    BY <1>1, <1>3 DEF Route
  <2>2. /\ ready' \in [Users -> SUBSET Nat] /\ dropped' \in [Users -> SUBSET Nat]
        /\ ready'[u] \cup dropped'[u] = ready[u] \cup {routed[u] + 1} \cup dropped[u]
        /\ \A v \in Users \ {u} : ready'[v] = ready[v] /\ dropped'[v] = dropped[v]
    BY Zenon, <2>1, EnqueueKeeps
  <2>3. FanoutTypeOK' /\ ConsumerSound(u)'
    BY Zenon, <1>1, <2>1, <2>2 DEF FanoutTypeOK, ConsumerSound
  <2>4. 1..routed'[u] = Places(u)'
    <3>1. routed[u] \in Nat /\ 1..(routed[u] + 1) = 1..routed[u] \cup {routed[u] + 1}
      BY <1>1
    <3> QED BY Zenon, <1>1, <2>1, <2>2, <3>1 DEF Places
  <2> QED BY Zenon, <2>1, <2>2, <2>3, <2>4, OneUserStep
<1>4. ASSUME NEW u \in Users, TTLExpires(u) PROVE FanoutInv'
  <2> DEFINE e == Lowest(ready[u])
  <2>1. e \in ready[u]
    <3>1. ready[u] \in SUBSET Nat /\ ready[u] # {}
      BY Zenon, <1>1, <1>4 DEF TTLExpires
    <3>2. \E m \in ready[u] : \A k \in ready[u] : m <= k
      BY Zenon, <3>1, LeastNatural
    <3> QED BY Zenon, <3>2 DEF Lowest
  <2>2. /\ ready' = [ready EXCEPT ![u] = @ \ {e}] /\ dropped' = [dropped EXCEPT ![u] = @ \cup {e}]
        /\ UNCHANGED <<routed, task, cancelled, fanned>>
    BY Zenon, <1>1, <1>4 DEF TTLExpires
  <2> HIDE DEF e
  <2>3. FanoutTypeOK' /\ ConsumerSound(u)'
    BY Zenon, <1>1, <2>1, <2>2 DEF FanoutTypeOK, ConsumerSound
  <2>4. 1..routed'[u] = Places(u)'
    BY Zenon, <1>1, <2>1, <2>2 DEF Places
  <2> QED BY Zenon, <1>1, <2>2, <2>3, <2>4, OneUserStep
<1>5. ASSUME NEW u \in Users, Closed(u) PROVE FanoutInv'
  <2>1. /\ cancelled[u] \in SUBSET Nat /\ Enqueue(u, cancelled[u]) /\ cancelled'[u] = {}
        /\ cancelled' \in [Users -> SUBSET Nat] /\ \A v \in Users \ {u} : cancelled'[v] = cancelled[v]
        /\ UNCHANGED <<routed, task, fanned>>
    BY Zenon, <1>1, <1>5 DEF Closed
  <2>2. /\ ready' \in [Users -> SUBSET Nat] /\ dropped' \in [Users -> SUBSET Nat]
        /\ ready'[u] \cup dropped'[u] = ready[u] \cup cancelled[u] \cup dropped[u]
        /\ \A v \in Users \ {u} : ready'[v] = ready[v] /\ dropped'[v] = dropped[v]
    BY Zenon, <2>1, EnqueueKeeps
  <2>3. FanoutTypeOK' /\ ConsumerSound(u)'
    BY Zenon, <1>1, <2>1, <2>2 DEF FanoutTypeOK, ConsumerSound
  <2>4. 1..routed'[u] = Places(u)'
    BY Zenon, <1>1, <2>1, <2>2 DEF Places
  <2> QED BY Zenon, <2>1, <2>2, <2>3, <2>4, OneUserStep
<1>6. CASE Bootstrap
  <2>1. /\ \A u \in Users : ready'[u] \cup dropped'[u] = ready[u] \cup dropped[u]
        /\ ready' \in [Users -> SUBSET Nat] /\ dropped' \in [Users -> SUBSET Nat]
        /\ UNCHANGED <<routed, task, cancelled, fanned>>
    BY Zenon, <1>1, <1>6 DEF Bootstrap
  <2>2. \A u \in Users : Places(u)' = Places(u) /\ ConsumerSound(u)'
    BY <1>1, <2>1 DEF Places, ConsumerSound
  <2> QED BY Zenon, <1>1, <2>1, <2>2 DEF FanoutInv, FanoutTypeOK
<1>7. CASE Scan
  <2> DEFINE s == [NoTask EXCEPT !.st = "starting"]
  <2>1. s \in Consumer /\ s.st = "starting" /\ s.held = {} /\ s.cur = 0
    BY Zenon DEF NoTask, Consumer
  <2>2. /\ task' = [u \in Users |-> IF u \notin online THEN NoTask ELSE IF task[u].st = "none" THEN s ELSE task[u]]
        /\ cancelled' = [u \in Users |-> IF u \notin online THEN cancelled[u] \cup task[u].held ELSE cancelled[u]]
        /\ UNCHANGED <<routed, ready, dropped, fanned>>
    BY Zenon, <1>7 DEF Scan
  <2> HIDE DEF s
  <2>3. FanoutTypeOK'
    BY Zenon, <1>1, <1>2, <2>1, <2>2 DEF FanoutTypeOK
  <2>4. ASSUME NEW u \in Users PROVE Places(u)' = Places(u) /\ ConsumerSound(u)'
    <3>1. ConsumerSound(u)
      BY Zenon, <1>1
    <3> QED BY Zenon, <1>2, <2>1, <2>2, <3>1 DEF Places, ConsumerSound
  <2> QED BY Zenon, <1>1, <2>2, <2>3, <2>4 DEF FanoutInv
<1>8. CASE WorkerDies
  <2> DEFINE back(u) == cancelled[u] \cup task[u].held
             over(u) == Overflow(u, ready[u] \cup back(u))
  <2>1. \A u \in Users : over(u) \subseteq ready[u] \cup back(u)
    BY Zenon DEF Overflow
  <2>2. /\ ready' = [u \in Users |-> (ready[u] \cup back(u)) \ over(u)]
        /\ dropped' = [u \in Users |-> dropped[u] \cup over(u)]
        /\ task' = [u \in Users |-> NoTask] /\ cancelled' = [u \in Users |-> {}] /\ UNCHANGED <<routed, fanned>>
    BY Zenon, <1>8 DEF WorkerDies
  <2> HIDE DEF over
  <2>3. FanoutTypeOK'
    BY Zenon, <1>1, <1>2, <2>1, <2>2 DEF FanoutTypeOK
  <2>4. ASSUME NEW u \in Users PROVE Places(u)' = Places(u) /\ ConsumerSound(u)'
    BY Zenon, <1>2, <2>1, <2>2 DEF Places, ConsumerSound
  <2> QED BY Zenon, <1>1, <2>2, <2>3, <2>4 DEF FanoutInv
<1>9. CASE UNCHANGED <<routed, ready, dropped, task, cancelled, fanned>>
  BY Zenon, <1>9 DEF FanoutInv, FanoutTypeOK, Places, ConsumerSound
<1> QED BY Zenon, <1>3, <1>4, <1>5, <1>6, <1>7, <1>8, <1>9, ConsumerStepKeeps DEF FanoutNext, RedisLost, RedisBack, fanoutVars

\* amqp_consumer_runner.py beside presence.py: for any users and queue bounds an
\* event leaves RabbitMQ only published or discarded by the queue's own bounds,
\* and the leases stay consistent although Redis is at times out of reach.
THEOREM FanoutLosesNothing == FanoutSpec => [](FanoutLossless /\ OnlineTracked)
<1>1. FanoutInv => FanoutLossless
  BY Zenon DEF FanoutInv, FanoutLossless, Places
<1>2. IInv => OnlineTracked
  BY Zenon DEF IInv, OnlineTracked
<1>3. [(FanoutNext /\ UNCHANGED vars) \/ PresenceNext]_<<vars, fanoutVars>> => [Next]_vars /\ [FanoutNext]_fanoutVars
  BY Zenon DEF PresenceNext, PresenceCutOff, Next
<1> QED BY InitFanout, InitIInv, FanoutInductive, Inductive, <1>1, <1>2, <1>3, PTL DEF FanoutSpec

-----------------------------------------------------------------------------
(***************************************************************************)
(* Catching up.                                                            *)
(*                                                                         *)
(* The argument: a request starts no channel beyond its cursor and what it has *)
(* read has no hole (RequestCovers), so the reply moves no cursor over a   *)
(* message.                                                                *)
(***************************************************************************)

CatchUpRequest ==
    [kind : {"sync", "resume", "subscribe"}, from : [Rooms -> Nat], view : SUBSET Rooms, todo : SUBSET Rooms,
     left : Nat, page : SUBSET (Rooms \X Nat), sig : ((SUBSET Rooms) \X Nat) \cup {Idle}]

CatchUpTypeOK ==
    /\ lastSeq \in [Rooms -> Nat]
    /\ liveMsgs \subseteq Rooms \X Nat
    /\ joined \subseteq Rooms /\ known \subseteq Rooms
    /\ cursor \in [Rooms -> Nat]
    /\ request \in CatchUpRequest \cup {Idle}

\* No message, cursor or page is ahead of its channel.
NoneAhead ==
    /\ \A m \in liveMsgs : m[2] <= lastSeq[m[1]]
    /\ \A c \in Rooms : cursor[c] <= lastSeq[c]
    /\ request # Idle => \A p \in request.page : p[2] <= lastSeq[p[1]]

\* The request under way starts no channel it reads beyond the client's cursor,
\* and what it has read of a channel has no hole above where it started.
RequestCovers ==
    request # Idle =>
        /\ \A c \in request.todo : request.from[c] <= cursor[c]
        /\ \A p \in request.page : request.from[p[1]] <= cursor[p[1]]
        /\ \A m \in liveMsgs, p \in request.page :
            p[1] = m[1] /\ request.from[m[1]] < m[2] /\ m[2] <= p[2] => m \in request.page

CatchUpInv == CatchUpTypeOK /\ NoneAhead /\ RequestCovers /\ CursorCovers

\* The least element of a set of numbers.
LEMMA LowestOfSet ==
    ASSUME NEW S \in SUBSET Nat, S # {}
    PROVE  LowestOf(S) \in S /\ \A t \in S : LowestOf(S) <= t
BY Zenon, LeastNatural DEF LowestOf

\* The greatest element of a bounded set.
LEMMA HighestOfSet ==
    ASSUME NEW S \in SUBSET Nat, S # {}, NEW n \in Nat, \A s \in S : s <= n
    PROVE  HighestOf(S) \in S /\ \A t \in S : HighestOf(S) >= t
<1>1. \E m \in S : \A k \in S : m >= k
  <2>1. PICK m \in S : \A k \in S : k <= m
    BY Zenon, GreatestNatural
  <2> QED BY Zenon, <2>1
<1> QED BY Zenon, <1>1 DEF HighestOf

\* A page has live messages of its channel after its cursor, no more than the
\* limit, and no hole.
LEMMA PageCut ==
    ASSUME CatchUpInv, NEW c \in Rooms, NEW after \in Nat, NEW n \in Nat
    PROVE  /\ \A p \in PageOf(c, after, n) : p \in liveMsgs /\ p[1] = c
           /\ \A m \in liveMsgs, p \in PageOf(c, after, n) :
                m[1] = c /\ after < m[2] /\ m[2] <= p[2] => m \in PageOf(c, after, n)
           /\ Cardinality(PageOf(c, after, n)) \in Nat /\ Cardinality(PageOf(c, after, n)) <= n
<1> DEFINE L == {s \in LiveSeqs(c) : s > after}
           Q == {x \in L : Cardinality({y \in L : y < x}) < n}
<1>1. PageOf(c, after, n) = {<<c, s>> : s \in Q}
  BY Zenon DEF PageOf
<1>2. \A s \in LiveSeqs(c) : <<c, s>> \in liveMsgs /\ s \in Nat /\ s <= lastSeq[c]
  <2> SUFFICES ASSUME NEW m \in liveMsgs, m[1] = c PROVE <<c, m[2]>> \in liveMsgs /\ m[2] \in Nat /\ m[2] <= lastSeq[c]
    BY Zenon DEF LiveSeqs
  <2>1. m = <<c, m[2]>> /\ m[2] \in Nat
    BY DEF CatchUpInv, CatchUpTypeOK
  <2> QED BY Zenon, <2>1 DEF CatchUpInv, NoneAhead
<1>3. lastSeq[c] \in Nat
  BY Zenon DEF CatchUpInv, CatchUpTypeOK
<1>4. L \in SUBSET Nat /\ \A s \in L : s <= lastSeq[c]
  BY Zenon, <1>2
<1>5. IsFiniteSet(L)
  <2> HIDE DEF L
  <2> QED BY Zenon, <1>3, <1>4, FS_BoundedSetOfNaturals
<1>6. \A s \in L : <<c, s>> \in liveMsgs
  BY Zenon, <1>2
<1>7. ASSUME NEW m \in liveMsgs, m[1] = c, after < m[2] PROVE m = <<c, m[2]>> /\ m[2] \in L
  <2>1. m = <<c, m[2]>> /\ m[2] \in Nat
    BY <1>7 DEF CatchUpInv, CatchUpTypeOK
  <2> QED BY Zenon, <1>7, <2>1 DEF LiveSeqs
<1> HIDE DEF L
<1>8. ASSUME NEW x \in Q, NEW t \in L, t <= x PROVE t \in Q
  <2>1. x \in L /\ Cardinality({u \in L : u < x}) < n
    BY Zenon
  <2>2. {u \in L : u < t} \subseteq {u \in L : u < x} /\ {u \in L : u < x} \subseteq L
    <3>1. \A u \in L : u < t => u < x
      BY <1>4, <1>8, <2>1
    <3> QED BY Zenon, <3>1
  <2>3. IsFiniteSet({u \in L : u < x})
    BY Zenon, <1>5, <2>2, Fewer
  <2>4. /\ Cardinality({u \in L : u < t}) \in Nat /\ Cardinality({u \in L : u < x}) \in Nat
        /\ Cardinality({u \in L : u < t}) <= Cardinality({u \in L : u < x})
    BY Zenon, <2>2, <2>3, Fewer
  <2> QED BY <2>1, <2>4
<1>9. Q \subseteq L
  BY Zenon
<1>10. Cardinality(Q) <= n
  <2>1. CASE Q = {}
    <3> HIDE DEF Q
    <3>1. Cardinality(Q) = 0
      BY Zenon, <2>1, FS_EmptySet
    <3> QED BY <3>1
  <2>2. CASE Q # {}
    <3>1. PICK g \in Q : \A k \in Q : k <= g
      <4> HIDE DEF Q
      <4> QED BY Zenon, <1>3, <1>4, <1>9, <2>2, GreatestNatural
    <3>2. g \in L /\ Cardinality({u \in L : u < g}) < n
      BY Zenon
    <3>3. Q \subseteq {u \in L : u < g} \cup {g}
      <4>1. \A k \in Q : k < g \/ k = g
        BY <1>4, <1>9, <3>1
      <4> QED BY Zenon, <1>9, <4>1
    <3>4. IsFiniteSet({u \in L : u < g}) /\ Cardinality({u \in L : u < g}) \in Nat
      BY Zenon, <1>5, Fewer
    <3>5. IsFiniteSet({u \in L : u < g} \cup {g}) /\ Cardinality({u \in L : u < g} \cup {g}) = Cardinality({u \in L : u < g}) + 1
      <4>1. g \notin {u \in L : u < g}
        BY <1>4, <3>2
      <4> QED BY Zenon, <3>4, <4>1, FS_AddElement
    <3>6. Cardinality(Q) \in Nat /\ Cardinality(Q) <= Cardinality({u \in L : u < g} \cup {g})
      BY Zenon, <3>3, <3>5, Fewer
    <3> QED BY <3>2, <3>4, <3>5, <3>6
  <2> QED BY Zenon, <2>1, <2>2
<1> HIDE DEF Q
<1>11. \A p \in PageOf(c, after, n) : p \in liveMsgs /\ p[1] = c /\ p[2] \in Q
  BY <1>1, <1>6, <1>9
<1>12. ASSUME NEW m \in liveMsgs, NEW p \in PageOf(c, after, n), m[1] = c, after < m[2], m[2] <= p[2]
       PROVE  m \in PageOf(c, after, n)
  <2>1. m[2] \in Q /\ m = <<c, m[2]>>
    BY Zenon, <1>7, <1>8, <1>11, <1>12
  <2> QED BY Zenon, <1>1, <2>1
<1>13. Cardinality(PageOf(c, after, n)) \in Nat /\ Cardinality(PageOf(c, after, n)) <= n
  <2> DEFINE P == PageOf(c, after, n)
             f == [p \in P |-> p[2]]
  <2>1. f \in [P -> Q] /\ \A p, q \in P : f[p] = f[q] => p = q
    <3>1. \A p \in P : p[2] \in Q /\ p = <<c, p[2]>>
      BY <1>1
    <3> HIDE DEF P
    <3>2. f \in [P -> Q]
      BY Zenon, <3>1
    <3>3. ASSUME NEW p \in P, NEW q \in P, f[p] = f[q] PROVE p = q
      <4>1. p[2] = q[2]
        BY Zenon, <3>3
      <4> QED BY Zenon, <3>1, <4>1
    <3> QED BY Zenon, <3>2, <3>3
  <2>2. f \in Injection(P, Q)
    BY Zenon, <2>1 DEF Injection, IsInjective
  <2>3. IsFiniteSet(Q) /\ Cardinality(Q) \in Nat
    BY Zenon, <1>5, <1>9, Fewer
  <2>4. IsFiniteSet(P) /\ Cardinality(P) <= Cardinality(Q)
    BY Zenon, <2>2, <2>3, FS_Injection
  <2>5. Cardinality(P) \in Nat
    BY Zenon, <2>4, FS_CardinalityType
  <2> QED BY <1>10, <2>3, <2>4, <2>5
<1> QED BY Zenon, <1>11, <1>12, <1>13

\* The invariant holds of a new client.
LEMMA InitCatchUp == CatchUpInit => CatchUpInv
BY DEF CatchUpInit, CatchUpInv, CatchUpTypeOK, NoneAhead, RequestCovers, CursorCovers

\* Any new request that starts nowhere beyond the cursors.
LEMMA NewRequest ==
    ASSUME CatchUpInv, UNCHANGED <<lastSeq, liveMsgs, joined, known, cursor, got>>,
           request' \in CatchUpRequest, request'.page = {},
           \A c \in request'.todo : request'.from[c] <= cursor[c]
    PROVE  CatchUpInv'
BY Zenon DEF CatchUpInv, CatchUpTypeOK, NoneAhead, RequestCovers, CursorCovers

\* Giving a request up keeps the invariant.
LEMMA RequestEnds ==
    ASSUME CatchUpInv, UNCHANGED <<lastSeq, liveMsgs, joined, known, cursor, got>>, request' = Idle
    PROVE  CatchUpInv'
BY Zenon DEF CatchUpInv, CatchUpTypeOK, NoneAhead, RequestCovers, CursorCovers

\* Starting a sync no further than the cursors keeps it.
LEMMA SyncOfStep ==
    ASSUME CatchUpInv, NEW selected \in SUBSET Rooms, NEW from \in [Rooms -> Nat], SyncOf(selected, from),
           \A c \in Rooms : from[c] <= cursor[c]
    PROVE  CatchUpInv'
<1> DEFINE r == [kind |-> "sync", from |-> from, view |-> selected, todo |-> selected,
                 left |-> SyncLimit, page |-> {}, sig |-> Idle]
<1>1. r \in CatchUpRequest /\ r.page = {} /\ r.todo = selected /\ r.from = from
  BY Zenon, CatchUpConstants DEF CatchUpRequest
<1>2. request' = r /\ UNCHANGED <<lastSeq, liveMsgs, joined, known, cursor, got>>
  BY Zenon DEF SyncOf, serverVars, clientVars
<1> HIDE DEF r
<1> QED BY Zenon, <1>1, <1>2, NewRequest

\* Resuming keeps it.
LEMMA ResumeStep == ASSUME CatchUpInv, Resume PROVE CatchUpInv'
<1> DEFINE r == [kind |-> "resume", from |-> cursor, view |-> {}, todo |-> known \cap Allowed,
                 left |-> HistoryBatch, page |-> {}, sig |-> Idle]
<1>1. r \in CatchUpRequest /\ r.page = {} /\ r.from = cursor /\ r.todo \subseteq Rooms
  BY Zenon, CatchUpConstants DEF CatchUpRequest, CatchUpInv, CatchUpTypeOK
<1>2. request' = r /\ UNCHANGED <<lastSeq, liveMsgs, joined, known, cursor, got>>
  BY Zenon DEF Resume, serverVars, clientVars
<1> HIDE DEF r
<1>3. \A c \in Rooms : cursor[c] <= cursor[c]
  BY DEF CatchUpInv, CatchUpTypeOK
<1> QED BY Zenon, <1>1, <1>2, <1>3, NewRequest

\* Subscribing keeps it.
LEMMA SubscribeStep == ASSUME CatchUpInv, NEW wanted \in (SUBSET Rooms) \ {{}}, Subscribe(wanted) PROVE CatchUpInv'
<1> DEFINE n == LowestOf({cursor[c] : c \in wanted})
           granted == wanted \cap Allowed
           r == [kind |-> "subscribe", from |-> [c \in Rooms |-> n], view |-> {}, todo |-> granted,
                 left |-> HistoryBatch, page |-> {}, sig |-> IF granted = wanted THEN <<wanted, n>> ELSE Idle]
<1>1. n \in Nat /\ \A c \in wanted : n <= cursor[c]
  <2>1. {cursor[c] : c \in wanted} \in SUBSET Nat /\ {cursor[c] : c \in wanted} # {}
    BY Zenon DEF CatchUpInv, CatchUpTypeOK
  <2> QED BY <2>1, LowestOfSet
<1>2. request' = r /\ UNCHANGED <<lastSeq, liveMsgs, joined, known, cursor, got>>
  BY Zenon DEF Subscribe, serverVars, clientVars
<1> HIDE DEF n
<1>3. r \in CatchUpRequest /\ r.page = {} /\ r.todo \subseteq wanted /\ \A c \in Rooms : r.from[c] = n
  BY Zenon, <1>1, CatchUpConstants DEF CatchUpRequest
<1> HIDE DEF r
<1> QED BY Zenon, <1>1, <1>2, <1>3, NewRequest

\* Reading one channel leaves no hole above where it began.
LEMMA ReadPageStep == ASSUME CatchUpInv, ReadPage PROVE CatchUpInv'
<1>1. PICK c \in request.todo : NextPage(c)
  BY Zenon DEF ReadPage
<1>2. request # Idle /\ request \in CatchUpRequest /\ request.left > 0
      /\ UNCHANGED <<lastSeq, liveMsgs, joined, known, cursor, got>>
  BY Zenon DEF ReadPage, serverVars, clientVars, CatchUpInv, CatchUpTypeOK
<1>3. c \in Rooms /\ request.from[c] \in Nat /\ request.left \in Nat
  BY Zenon, <1>2 DEF CatchUpRequest
<1> DEFINE P == PageOf(c, request.from[c], request.left)
<1>4. /\ \A p \in P : p \in liveMsgs /\ p[1] = c
      /\ \A m \in liveMsgs, p \in P : m[1] = c /\ request.from[c] < m[2] /\ m[2] <= p[2] => m \in P
      /\ Cardinality(P) \in Nat /\ Cardinality(P) <= request.left
  BY Zenon, <1>3, PageCut
<1>5. request' = [request EXCEPT !.todo = @ \ {c}, !.left = @ - Cardinality(P), !.page = @ \cup P]
  BY Zenon, <1>1 DEF NextPage
<1> HIDE DEF P
<1>6. request.left - Cardinality(P) \in Nat /\ P \subseteq Rooms \X Nat
  BY <1>3, <1>4 DEF CatchUpInv, CatchUpTypeOK
<1>7. request' \in CatchUpRequest
  BY Zenon, <1>2, <1>5, <1>6 DEF CatchUpRequest
<1>8. request'.todo \subseteq request.todo /\ request'.from = request.from /\ request'.page = request.page \cup P
  BY Zenon, <1>2, <1>5 DEF CatchUpRequest
<1>9. CatchUpTypeOK' /\ CursorCovers'
  BY Zenon, <1>2, <1>7 DEF CatchUpInv, CatchUpTypeOK, CursorCovers
<1>10. NoneAhead'
  BY Zenon, <1>2, <1>4, <1>8 DEF CatchUpInv, NoneAhead
<1>11. RequestCovers'
  BY Zenon, <1>1, <1>2, <1>4, <1>8 DEF CatchUpInv, RequestCovers
<1> QED BY Zenon, <1>9, <1>10, <1>11 DEF CatchUpInv

\* A cursor moves over messages the client received.
LEMMA ReceiveStep == ASSUME CatchUpInv, Receive PROVE CatchUpInv'
<1>1. /\ request # Idle /\ request \in CatchUpRequest /\ request' = Idle /\ got' = got \cup request.page
      /\ UNCHANGED <<lastSeq, liveMsgs, joined, known>>
  BY Zenon DEF Receive, Answered, serverVars, CatchUpInv, CatchUpTypeOK
<1> DEFINE T(c) == {cursor[c]} \cup {m[2] : m \in {x \in request.page : x[1] = c}}
<1>2. cursor' = [c \in Rooms |-> HighestOf(T(c))]
  BY Zenon DEF Receive
<1>3. ASSUME NEW c \in Rooms
      PROVE  /\ cursor'[c] \in Nat /\ cursor'[c] <= lastSeq[c]
             /\ cursor'[c] = cursor[c] \/ \E p \in request.page : p[1] = c /\ p[2] = cursor'[c]
  <2>1. lastSeq[c] \in Nat /\ T(c) \in SUBSET Nat /\ cursor[c] \in T(c) /\ \A s \in T(c) : s <= lastSeq[c]
    <3>1. lastSeq[c] \in Nat /\ cursor[c] \in Nat /\ cursor[c] <= lastSeq[c]
      BY Zenon DEF CatchUpInv, CatchUpTypeOK, NoneAhead
    <3>2. \A x \in request.page : x[1] = c => x[2] \in Nat /\ x[2] <= lastSeq[c]
      BY Zenon, <1>1 DEF CatchUpInv, NoneAhead, CatchUpRequest
    <3> QED BY Zenon, <3>1, <3>2
  <2>2. HighestOf(T(c)) \in T(c)
    <3> HIDE DEF T
    <3> QED BY Zenon, <2>1, HighestOfSet
  <2>3. cursor'[c] = HighestOf(T(c))
    BY Zenon, <1>2
  <2> QED BY Zenon, <2>1, <2>2, <2>3
<1>4. cursor' \in [Rooms -> Nat]
  BY Zenon, <1>2, <1>3
<1> HIDE DEF T
<1>5. CatchUpTypeOK' /\ NoneAhead' /\ RequestCovers'
  BY Zenon, <1>1, <1>3, <1>4 DEF CatchUpInv, CatchUpTypeOK, NoneAhead, RequestCovers
<1>6. CursorCovers'
  <2> SUFFICES ASSUME NEW m \in liveMsgs, m[2] <= cursor'[m[1]] PROVE m \in got'
    BY Zenon, <1>1 DEF CursorCovers
  <2>1. m[1] \in Rooms /\ m[2] \in Nat /\ cursor[m[1]] \in Nat
    BY Zenon DEF CatchUpInv, CatchUpTypeOK
  <2>2. CASE m[2] <= cursor[m[1]]
    BY Zenon, <1>1, <2>2 DEF CatchUpInv, CursorCovers
  <2>3. CASE ~(m[2] <= cursor[m[1]])
    <3>1. PICK p \in request.page : p[1] = m[1] /\ p[2] = cursor'[m[1]]
      BY Zenon, <1>3, <2>1, <2>3
    <3>2. request.from[m[1]] \in Nat
      BY Zenon, <1>1, <2>1 DEF CatchUpRequest
    <3>3. request.from[m[1]] <= cursor[m[1]]
      BY Zenon, <1>1, <3>1 DEF CatchUpInv, RequestCovers
    <3>4. m \in request.page
      BY <1>1, <2>1, <2>3, <3>1, <3>2, <3>3 DEF CatchUpInv, RequestCovers
    <3> QED BY Zenon, <1>1, <3>4
  <2> QED BY Zenon, <2>2, <2>3
<1> QED BY Zenon, <1>5, <1>6 DEF CatchUpInv

\* A new message is beyond every cursor.
LEMMA PublishStep == ASSUME CatchUpInv, NEW c \in Rooms, PublishMessage(c) PROVE CatchUpInv'
<1>1. /\ lastSeq[c] \in Nat /\ lastSeq'[c] = lastSeq[c] + 1 /\ \A d \in Rooms \ {c} : lastSeq'[d] = lastSeq[d]
      /\ lastSeq' \in [Rooms -> Nat] /\ liveMsgs' = liveMsgs \cup {<<c, lastSeq[c] + 1>>}
      /\ UNCHANGED <<joined, known, cursor, got, request>>
  BY DEF PublishMessage, clientVars, CatchUpInv, CatchUpTypeOK
<1>2. CatchUpTypeOK'
  BY <1>1 DEF CatchUpInv, CatchUpTypeOK
<1>3. NoneAhead'
  <2>1. \A m \in liveMsgs : m[1] \in Rooms /\ m[2] \in Nat /\ lastSeq[m[1]] \in Nat
    BY Zenon DEF CatchUpInv, CatchUpTypeOK
  <2>2. request # Idle => \A p \in request.page : p[1] \in Rooms /\ p[2] \in Nat /\ lastSeq[p[1]] \in Nat
    BY Zenon DEF CatchUpInv, CatchUpTypeOK, CatchUpRequest
  <2>3. \A d \in Rooms : cursor[d] \in Nat /\ lastSeq[d] \in Nat
    BY Zenon DEF CatchUpInv, CatchUpTypeOK
  <2>4. \A m \in liveMsgs' : m[2] <= lastSeq'[m[1]]
    BY <1>1, <2>1 DEF CatchUpInv, NoneAhead
  <2>5. request # Idle => \A p \in request.page : p[2] <= lastSeq'[p[1]]
    BY <1>1, <2>2 DEF CatchUpInv, NoneAhead
  <2>6. \A d \in Rooms : cursor[d] <= lastSeq'[d]
    BY <1>1, <2>3 DEF CatchUpInv, NoneAhead
  <2> QED BY Zenon, <1>1, <2>4, <2>5, <2>6 DEF NoneAhead
<1>4. RequestCovers'
  <2>1. ASSUME request # Idle, NEW p \in request.page, p[1] = c PROVE ~(lastSeq[c] + 1 <= p[2])
    <3>1. p[2] \in Nat /\ p[2] <= lastSeq[c]
      BY Zenon, <2>1 DEF CatchUpInv, CatchUpTypeOK, NoneAhead, CatchUpRequest
    <3> QED BY <1>1, <3>1
  <2> QED BY <1>1, <2>1 DEF CatchUpInv, RequestCovers
<1>5. CursorCovers'
  <2>1. cursor[c] \in Nat /\ cursor[c] <= lastSeq[c]
    BY Zenon DEF CatchUpInv, CatchUpTypeOK, NoneAhead
  <2> QED BY <1>1, <2>1 DEF CatchUpInv, CursorCovers
<1> QED BY Zenon, <1>2, <1>3, <1>4, <1>5 DEF CatchUpInv

\* Every step keeps the invariant.
LEMMA CatchUpInductive == CatchUpInv /\ [CatchUpNext]_catchUpVars => CatchUpInv'
<1> SUFFICES ASSUME CatchUpInv, [CatchUpNext]_catchUpVars PROVE CatchUpInv'
  OBVIOUS
<1>1. ASSUME UNCHANGED <<lastSeq, liveMsgs, cursor, got, request>>, joined' \subseteq Rooms, known' \subseteq Rooms
      PROVE  CatchUpInv'
  BY Zenon, <1>1 DEF CatchUpInv, CatchUpTypeOK, NoneAhead, RequestCovers, CursorCovers
<1>2. joined \subseteq Rooms /\ known \subseteq Rooms
  BY Zenon DEF CatchUpInv, CatchUpTypeOK
<1>3. ASSUME NEW c \in Rooms, LeaveChannel(c) \/ JoinChannel(c) \/ DeleteChannel(c) \/ RestoreChannel(c) \/ UnsubscribeFrom(c)
      PROVE  CatchUpInv'
  BY Zenon, <1>1, <1>2, <1>3
  DEF LeaveChannel, JoinChannel, DeleteChannel, RestoreChannel, UnsubscribeFrom, clientVars, serverVars
<1>4. ASSUME NEW m \in liveMsgs, TombstoneMessage(m) PROVE CatchUpInv'
  BY Zenon, <1>4 DEF TombstoneMessage, clientVars, CatchUpInv, CatchUpTypeOK, NoneAhead, RequestCovers, CursorCovers
<1>5. CASE LoadChannels \/ RefillRows \/ Reconnect \/ UNCHANGED catchUpVars
  BY Zenon, <1>1, <1>2, <1>5 DEF LoadChannels, RefillRows, Reconnect, catchUpVars, clientVars, serverVars
<1>6. CASE SyncBegin
  <2>1. cursor \in [Rooms -> Nat] /\ \A c \in Rooms : cursor[c] <= cursor[c]
    BY DEF CatchUpInv, CatchUpTypeOK
  <2>2. known \cap joined \in SUBSET Rooms /\ SyncOf(known \cap joined, cursor)
    BY Zenon, <1>2, <1>6 DEF SyncBegin
  <2> QED BY Zenon, <2>1, <2>2, SyncOfStep
<1>7. CASE SyncAll
  <2> DEFINE z == [c \in Rooms |-> 0]
  <2>1. z \in [Rooms -> Nat] /\ \A c \in Rooms : z[c] <= cursor[c]
    BY DEF CatchUpInv, CatchUpTypeOK
  <2>2. joined \in SUBSET Rooms /\ SyncOf(joined, z)
    BY Zenon, <1>2, <1>7 DEF SyncAll
  <2> HIDE DEF z
  <2> QED BY Zenon, <2>1, <2>2, SyncOfStep
<1>8. CASE SyncView
  <2>1. request # Idle /\ request \in CatchUpRequest /\ UNCHANGED <<lastSeq, liveMsgs, joined, known, cursor, got>>
    BY Zenon, <1>8 DEF SyncView, serverVars, clientVars, CatchUpInv, CatchUpTypeOK
  <2>2. \/ request' = Idle
        \/ /\ request' \in CatchUpRequest
           /\ request'.todo = request.todo /\ request'.from = request.from /\ request'.page = request.page
    BY Zenon, <1>8, <2>1 DEF SyncView, CatchUpRequest
  <2>3. CASE request' = Idle
    BY Zenon, <2>1, <2>3, RequestEnds
  <2>4. CASE request' # Idle
    BY Zenon, <2>1, <2>2, <2>4 DEF CatchUpInv, CatchUpTypeOK, NoneAhead, RequestCovers, CursorCovers
  <2> QED BY Zenon, <2>3, <2>4
<1>9. CASE LoseReply
  BY Zenon, <1>9, RequestEnds DEF LoseReply, clientVars
<1> QED
  BY Zenon, <1>3, <1>4, <1>5, <1>6, <1>7, <1>8, <1>9, PublishStep, SubscribeStep, ResumeStep, ReadPageStep, ReceiveStep
  DEF CatchUpNext, AnswerStep

\* MessageService.sync and the commands of the socket: for any number of
\* channels, any limits and any messages, no cursor jumps over a live message.
THEOREM CursorsCover == CatchUpSpec => []CursorCovers
<1>1. CatchUpInv => CursorCovers
  BY Zenon DEF CatchUpInv
<1> QED BY InitCatchUp, CatchUpInductive, <1>1, PTL DEF CatchUpSpec

-----------------------------------------------------------------------------
(***************************************************************************)
(* Sockets and their registries.                                           *)
(*                                                                         *)
(* The argument: a ticket that was consumed is never issued again          *)
(* (TicketsSpent), and a socket enters and leaves its registries together  *)
(* (RegistriesFollow).                                                     *)
(***************************************************************************)

SocketTypeOK ==
    /\ ticket \in [Tickets -> Sessions \cup {None}]
    /\ issued \subseteq Tickets
    /\ phase \in [Sockets -> {"none", "consumed", "authenticated", "connecting", "open"}]
    /\ ticketed \in [Sockets -> Handshake \cup {None}]

\* A ticket that is in Redis or was consumed has been issued, and will not be
\* again; the one a socket came with is gone and no other socket has it.
TicketsSpent ==
    /\ \A t \in Tickets : ticket[t] # None => t \in issued
    /\ \A w \in Sockets : ticketed[w] # None =>
        /\ ticketed[w].ticket \in issued /\ ticket[ticketed[w].ticket] = None
        /\ \A v \in Sockets \ {w} : ticketed[v] # None => ticketed[v].ticket # ticketed[w].ticket

\* The registries follow the handlers.
RegistriesFollow ==
    /\ \A w \in Sockets : ticketed[w] = None <=> phase[w] = "none"
    /\ connections = {w \in Sockets : phase[w] \in {"connecting", "open"}}
    /\ registered = {w \in Sockets : phase[w] = "open"}
    /\ IsFiniteSet(connections)

QuotaKept == \A i \in Instances : Cardinality(connections \cap Local(i)) <= MaxConnections

SocketInv == SocketTypeOK /\ TicketsSpent /\ RegistriesFollow /\ QuotaKept

\* One element more adds at most one to the cardinality.
LEMMA OneMore ==
    ASSUME NEW S, NEW x, IsFiniteSet(S)
    PROVE  /\ IsFiniteSet(S \cup {x})
           /\ Cardinality(S \cup {x}) \in Nat /\ Cardinality(S \cup {x}) <= Cardinality(S) + 1
<1>1. Cardinality(S) \in Nat
  BY Zenon, FS_CardinalityType
<1>2. IsFiniteSet(S \cup {x}) /\ Cardinality(S \cup {x}) = IF x \in S THEN Cardinality(S) ELSE Cardinality(S) + 1
  BY Zenon, FS_AddElement
<1> QED BY <1>1, <1>2

\* The invariant holds before the first ticket.
LEMMA InitSocket == SocketInit => SocketInv
<1> SUFFICES ASSUME SocketInit PROVE SocketInv
  OBVIOUS
<1> USE SocketConstants DEF SocketInit
<1>1. SocketTypeOK /\ TicketsSpent
  BY Zenon DEF SocketTypeOK, TicketsSpent
<1>2. IsFiniteSet({}) /\ Cardinality({}) = 0
  BY Zenon, FS_EmptySet
<1>3. RegistriesFollow
  BY Zenon, <1>2 DEF RegistriesFollow
<1>4. QuotaKept
  <2>1. \A i \in Instances : connections \cap Local(i) = {}
    BY Zenon
  <2> QED BY <1>2, <2>1 DEF QuotaKept
<1> QED BY Zenon, <1>1, <1>3, <1>4 DEF SocketInv

\* A handler that ends frees its socket, and gives back its slot if it has one.
LEMMA DropStep ==
    ASSUME SocketInv, NEW w \in Sockets, Drop(w), connections' = connections \ {w}, registered' = registered \ {w},
           UNCHANGED <<ticket, issued>>
    PROVE  SocketInv'
<1>1. /\ phase'[w] = "none" /\ ticketed'[w] = None
      /\ \A v \in Sockets \ {w} : phase'[v] = phase[v] /\ ticketed'[v] = ticketed[v]
  BY Zenon DEF Drop, SocketInv, SocketTypeOK
<1>2. SocketTypeOK'
  BY Zenon DEF Drop, SocketInv, SocketTypeOK
<1>3. TicketsSpent'
  BY <1>1 DEF SocketInv, TicketsSpent
<1>4. IsFiniteSet(connections')
  BY Zenon, FS_RemoveElement DEF SocketInv, RegistriesFollow
<1>5. RegistriesFollow'
  BY Zenon, <1>1, <1>4 DEF SocketInv, RegistriesFollow
<1>6. QuotaKept'
  <2> SUFFICES ASSUME NEW i \in Instances PROVE Cardinality(connections' \cap Local(i)') <= MaxConnections
    BY Zenon DEF QuotaKept
  <2>1. connections' \cap Local(i)' \subseteq connections \cap Local(i)
    BY Zenon, <1>1 DEF Local
  <2>2. IsFiniteSet(connections \cap Local(i))
    BY Zenon, FS_Intersection DEF SocketInv, RegistriesFollow
  <2>3. /\ Cardinality(connections' \cap Local(i)') <= Cardinality(connections \cap Local(i))
        /\ Cardinality(connections' \cap Local(i)') \in Nat /\ Cardinality(connections \cap Local(i)) \in Nat
    BY Zenon, <2>1, <2>2, FS_Subset, FS_CardinalityType
  <2>4. Cardinality(connections \cap Local(i)) <= MaxConnections
    BY Zenon DEF SocketInv, QuotaKept
  <2> QED BY <2>3, <2>4, SocketConstants
<1> QED BY Zenon, <1>2, <1>3, <1>5, <1>6 DEF SocketInv

\* WebSocketTicketService.consume
LEMMA ConsumeTicketStep ==
    ASSUME SocketInv, NEW w \in Sockets, NEW i \in Instances, NEW t \in Tickets, ConsumeTicket(w, i, t)
    PROVE  SocketInv'
<1> DEFINE h == [ticket |-> t, session |-> ticket[t], instance |-> i]
<1>1. h \in Handshake /\ h.ticket = t
  BY Zenon DEF ConsumeTicket, SocketInv, SocketTypeOK, Handshake
<1>2. ticketed' = [ticketed EXCEPT ![w] = h]
  BY Zenon DEF ConsumeTicket
<1> HIDE DEF h
<1>3. /\ h # None /\ ticketed'[w] = h /\ phase'[w] = "consumed" /\ phase[w] = "none" /\ ticketed[w] = None
      /\ \A v \in Sockets \ {w} : phase'[v] = phase[v] /\ ticketed'[v] = ticketed[v]
  BY Zenon, <1>1, <1>2, SocketConstants DEF ConsumeTicket, SocketInv, SocketTypeOK, RegistriesFollow
<1>4. /\ ticket[t] # None /\ ticket'[t] = None /\ issued' = issued
      /\ \A u \in Tickets \ {t} : ticket'[u] = ticket[u]
  BY Zenon DEF ConsumeTicket, SocketInv, SocketTypeOK
<1>5. UNCHANGED <<connections, registered>>
  BY Zenon DEF ConsumeTicket, registries
<1>6. SocketTypeOK'
  <2>1. ticketed' \in [Sockets -> Handshake \cup {None}]
    BY Zenon, <1>1, <1>2 DEF SocketInv, SocketTypeOK
  <2> QED BY Zenon, <2>1 DEF ConsumeTicket, SocketInv, SocketTypeOK
<1>7. TicketsSpent'
  <2>1. \A v \in Sockets : ticketed[v] # None => ticketed[v].ticket \in Tickets \ {t}
    BY Zenon, <1>4 DEF SocketInv, SocketTypeOK, TicketsSpent, Handshake
  <2>2. \A v \in Sockets \ {w} : ticketed'[v] # None => ticketed'[v].ticket # t
    BY Zenon, <1>3, <2>1
  <2>3. ticketed'[w].ticket = t
    BY Zenon, <1>1, <1>3
  <2>4. \A u \in Tickets : ticket'[u] # None => u \in issued'
    BY Zenon, <1>4 DEF SocketInv, TicketsSpent
  <2>5. ASSUME NEW v \in Sockets \ {w}, ticketed'[v] # None
        PROVE  /\ ticketed'[v].ticket \in issued' /\ ticket'[ticketed'[v].ticket] = None
               /\ \A x \in Sockets \ {v} : ticketed'[x] # None => ticketed'[x].ticket # ticketed'[v].ticket
    <3>1. ticketed'[v] = ticketed[v] /\ ticketed[v] # None /\ ticketed[v].ticket \in Tickets \ {t}
      BY Zenon, <1>3, <2>1, <2>5
    <3>2. /\ ticketed[v].ticket \in issued /\ ticket[ticketed[v].ticket] = None
          /\ \A x \in Sockets \ {v} : ticketed[x] # None => ticketed[x].ticket # ticketed[v].ticket
      BY Zenon, <3>1 DEF SocketInv, TicketsSpent
    <3>3. \A x \in Sockets \ {v} : ticketed'[x] # None => ticketed'[x].ticket # ticketed'[v].ticket
      BY Zenon, <1>3, <2>3, <3>1, <3>2
    <3> QED BY Zenon, <1>4, <3>1, <3>2, <3>3
  <2>6. t \in issued
    BY Zenon, <1>4 DEF SocketInv, TicketsSpent
  <2>7. /\ ticketed'[w].ticket \in issued' /\ ticket'[ticketed'[w].ticket] = None
        /\ \A x \in Sockets \ {w} : ticketed'[x] # None => ticketed'[x].ticket # ticketed'[w].ticket
    BY Zenon, <1>4, <2>2, <2>3, <2>6
  <2> QED BY Zenon, <2>4, <2>5, <2>7 DEF TicketsSpent
<1>8. RegistriesFollow'
  BY Zenon, <1>3, <1>5 DEF SocketInv, RegistriesFollow
<1>9. \A j \in Instances : connections' \cap Local(j)' = connections \cap Local(j)
  BY Zenon, <1>3, <1>5 DEF Local, SocketInv, RegistriesFollow
<1>10. QuotaKept'
  BY Zenon, <1>9 DEF SocketInv, QuotaKept
<1> QED BY Zenon, <1>6, <1>7, <1>8, <1>10 DEF SocketInv

\* connect takes the slot before its first await.
LEMMA ReserveStep == ASSUME SocketInv, NEW w \in Sockets, Reserve(w) PROVE SocketInv'
<1>1. /\ phase[w] = "authenticated" /\ phase'[w] = "connecting"
      /\ \A v \in Sockets \ {w} : phase'[v] = phase[v]
      /\ connections' = connections \cup {w} /\ UNCHANGED <<ticket, issued, ticketed, registered>>
  BY Zenon DEF Reserve, SocketInv, SocketTypeOK
<1>2. SocketTypeOK'
  BY Zenon, <1>1 DEF Reserve, SocketInv, SocketTypeOK
<1>3. TicketsSpent'
  BY Zenon, <1>1 DEF SocketInv, TicketsSpent
<1>4. IsFiniteSet(connections')
  BY Zenon, <1>1, FS_AddElement DEF SocketInv, RegistriesFollow
<1>5. RegistriesFollow'
  BY Zenon, <1>1, <1>4 DEF SocketInv, RegistriesFollow
<1>6. QuotaKept'
  <2> SUFFICES ASSUME NEW i \in Instances PROVE Cardinality(connections' \cap Local(i)') <= MaxConnections
    BY Zenon DEF QuotaKept
  <2>1. Local(i)' = Local(i)
    BY Zenon, <1>1 DEF Local
  <2>2. IsFiniteSet(connections \cap Local(i)) /\ Cardinality(connections \cap Local(i)) \in Nat
        /\ Cardinality(connections \cap Local(i)) <= MaxConnections
    BY Zenon, FS_Intersection, FS_CardinalityType DEF SocketInv, RegistriesFollow, QuotaKept
  <2>3. CASE ticketed[w].instance = i
    <3>1. Cardinality(connections \cap Local(i)) < MaxConnections
      BY Zenon, <2>3 DEF Reserve, Quota
    <3>2. connections' \cap Local(i)' \subseteq (connections \cap Local(i)) \cup {w}
      BY Zenon, <1>1, <2>1
    <3>3. /\ IsFiniteSet((connections \cap Local(i)) \cup {w})
          /\ Cardinality((connections \cap Local(i)) \cup {w}) <= Cardinality(connections \cap Local(i)) + 1
          /\ Cardinality((connections \cap Local(i)) \cup {w}) \in Nat
      BY Zenon, <2>2, OneMore
    <3>4. /\ Cardinality(connections' \cap Local(i)') <= Cardinality((connections \cap Local(i)) \cup {w})
          /\ Cardinality(connections' \cap Local(i)') \in Nat
      BY Zenon, <3>2, <3>3, FS_Subset, FS_CardinalityType
    <3> QED BY <2>2, <3>1, <3>3, <3>4, SocketConstants
  <2>4. CASE ticketed[w].instance # i
    <3>1. connections' \cap Local(i)' = connections \cap Local(i)
      BY Zenon, <1>1, <2>1, <2>4 DEF Local
    <3> QED BY Zenon, <2>2, <3>1
  <2> QED BY Zenon, <2>3, <2>4
<1> QED BY Zenon, <1>2, <1>3, <1>5, <1>6 DEF SocketInv

\* Every step keeps the invariant.
LEMMA SocketInductive == SocketInv /\ [SocketNext]_lifecycleVars => SocketInv'
<1> SUFFICES ASSUME SocketInv, [SocketNext]_lifecycleVars PROVE SocketInv'
  OBVIOUS
<1>1. ASSUME UNCHANGED <<ticket, issued, phase, ticketed, connections, registered>> PROVE SocketInv'
  BY Zenon, <1>1 DEF SocketInv, SocketTypeOK, TicketsSpent, RegistriesFollow, QuotaKept, Local
<1>2. CASE RevokeUser
  BY Zenon, <1>1, <1>2 DEF RevokeUser, registries
<1>3. ASSUME NEW s \in Sessions, Login(s) \/ SessionExpires(s) \/ RevokeSession(s) PROVE SocketInv'
  BY Zenon, <1>1, <1>3 DEF Login, SessionExpires, RevokeSession, registries
<1>4. ASSUME NEW s \in Sessions, NEW t \in Tickets, IssueTicket(t, s) PROVE SocketInv'
  <2>1. /\ SocketTypeOK' /\ UNCHANGED <<phase, ticketed, connections, registered>>
        /\ issued' = issued \cup {t} /\ t \notin issued /\ \A u \in Tickets \ {t} : ticket'[u] = ticket[u]
    BY Zenon, <1>4 DEF IssueTicket, registries, SocketInv, SocketTypeOK
  <2>2. \A w \in Sockets : ticketed[w] # None => ticketed[w].ticket \in Tickets \ {t}
    BY Zenon, <2>1 DEF SocketInv, SocketTypeOK, TicketsSpent, Handshake
  <2>3. TicketsSpent'
    BY Zenon, <2>1, <2>2 DEF SocketInv, TicketsSpent
  <2> QED BY Zenon, <2>1, <2>3 DEF SocketInv, RegistriesFollow, QuotaKept, Local
<1>5. ASSUME NEW t \in Tickets, TicketExpires(t) PROVE SocketInv'
  <2>1. /\ SocketTypeOK' /\ UNCHANGED <<issued, phase, ticketed, connections, registered>>
        /\ \A u \in Tickets : ticket'[u] \in {ticket[u], None}
    BY Zenon, <1>5 DEF TicketExpires, registries, SocketInv, SocketTypeOK
  <2>2. \A w \in Sockets : ticketed[w] # None => ticketed[w].ticket \in Tickets
    BY Zenon DEF SocketInv, SocketTypeOK, Handshake
  <2>3. TicketsSpent'
    BY Zenon, <2>1, <2>2 DEF SocketInv, TicketsSpent
  <2> QED BY Zenon, <2>1, <2>3 DEF SocketInv, RegistriesFollow, QuotaKept, Local
<1>6. ASSUME NEW w \in Sockets, NEW i \in Instances, NEW t \in Tickets, ConsumeTicket(w, i, t) PROVE SocketInv'
  BY Zenon, <1>6, ConsumeTicketStep
<1>7. ASSUME NEW w \in Sockets, Authenticate(w) PROVE SocketInv'
  <2>1. /\ SocketTypeOK' /\ UNCHANGED <<ticket, issued, ticketed, connections, registered>>
        /\ phase[w] = "consumed" /\ phase'[w] = "authenticated" /\ \A v \in Sockets \ {w} : phase'[v] = phase[v]
    BY Zenon, <1>7 DEF Authenticate, registries, SocketInv, SocketTypeOK
  <2>2. TicketsSpent'
    BY Zenon, <2>1 DEF SocketInv, TicketsSpent
  <2>3. RegistriesFollow'
    BY Zenon, <2>1 DEF SocketInv, RegistriesFollow
  <2>4. QuotaKept'
    BY Zenon, <2>1 DEF SocketInv, QuotaKept, Local
  <2> QED BY Zenon, <2>1, <2>2, <2>3, <2>4 DEF SocketInv
<1>8. ASSUME NEW w \in Sockets, AuthenticationFails(w) \/ QuotaExceeded(w) PROVE SocketInv'
  <2>1. connections = connections \ {w} /\ registered = registered \ {w}
    BY Zenon, <1>8 DEF AuthenticationFails, QuotaExceeded, SocketInv, RegistriesFollow
  <2> QED BY Zenon, <1>8, <2>1, DropStep DEF AuthenticationFails, QuotaExceeded, registries
<1>9. ASSUME NEW w \in Sockets, Reserve(w) PROVE SocketInv'
  BY Zenon, <1>9, ReserveStep
<1>10. ASSUME NEW w \in Sockets, ConnectDone(w) PROVE SocketInv'
  <2>1. /\ SocketTypeOK' /\ UNCHANGED <<ticket, issued, ticketed, connections>> /\ registered' = registered \cup {w}
        /\ phase[w] = "connecting" /\ phase'[w] = "open" /\ \A v \in Sockets \ {w} : phase'[v] = phase[v]
    BY Zenon, <1>10 DEF ConnectDone, SocketInv, SocketTypeOK, RegistriesFollow
  <2>2. TicketsSpent'
    BY Zenon, <2>1 DEF SocketInv, TicketsSpent
  <2>3. RegistriesFollow'
    BY Zenon, <2>1 DEF SocketInv, RegistriesFollow
  <2>4. QuotaKept'
    BY Zenon, <2>1 DEF SocketInv, QuotaKept, Local
  <2> QED BY Zenon, <2>1, <2>2, <2>3, <2>4 DEF SocketInv
<1>11. ASSUME NEW w \in Sockets, ConnectFails(w) PROVE SocketInv'
  <2>1. registered = registered \ {w}
    BY Zenon, <1>11 DEF ConnectFails, SocketInv, RegistriesFollow
  <2> QED BY Zenon, <1>11, <2>1, DropStep DEF ConnectFails
<1>12. ASSUME NEW w \in Sockets, DisconnectSocket(w) PROVE SocketInv'
  BY Zenon, <1>12, DropStep DEF DisconnectSocket
<1>13. ASSUME NEW w \in Sockets, AuthExpires(w) PROVE SocketInv'
  BY Zenon, <1>1, <1>13 DEF AuthExpires
<1>14. ASSUME NEW e, NEW i \in Instances, handle_auth_control_event(e, i) \/ ControlLost(e, i) PROVE SocketInv'
  BY Zenon, <1>1, <1>14 DEF handle_auth_control_event, ControlLost, registries
<1>15. CASE UNCHANGED lifecycleVars
  BY Zenon, <1>1, <1>15 DEF lifecycleVars
<1> QED BY Zenon, <1>2, <1>3, <1>4, <1>5, <1>6, <1>7, <1>8, <1>9, <1>10, <1>11, <1>12, <1>13, <1>14, <1>15 DEF SocketNext

\* consume, connect and disconnect: for any number of sockets, instances and
\* tickets a ticket brings in one socket, the sockets being served are the ones
\* that hold a slot, within the quota of each instance, and the open ones are
\* findable by session.
THEOREM RegistriesStayExact == SocketSpec => []RegistriesExact
<1>1. SocketInv => RegistriesExact
  BY Zenon DEF SocketInv, TicketsSpent, RegistriesFollow, QuotaKept, RegistriesExact
<1> QED BY InitSocket, SocketInductive, <1>1, PTL DEF SocketSpec
=============================================================================
