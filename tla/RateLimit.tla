------------------------------ MODULE RateLimit ------------------------------
(***************************************************************************)
(* The limiters of requests and of WebSocket work: the Redis fixed window   *)
(* with its per-process fallback (rate_limit_service.py) and the token      *)
(* bucket of a socket (ws_abuse_control.py).                                *)
(*                                                                          *)
(* Time is counted in quarters of a second, so that the roundings of the    *)
(* retry hints, which are whole seconds, show.  Tokens are counted in       *)
(* quarters too, which keeps the refill of a quarter of a second integral.  *)
(***************************************************************************)
EXTENDS Naturals, FiniteSets

CONSTANTS
    LimitKeys,   \* limiter keys
    HitLimit,    \* limit
    Window,      \* window_seconds
    MaxKeys,     \* rate_limit_local_max_keys
    Capacity,    \* tokens of a full bucket
    RefillRate,  \* refill_per_second
    Costs,       \* costs of commands, at most the capacity
    Horizon,     \* bound: how long the run lasts, in quarters of a second
    MaxFlips,    \* bound: how often Redis goes away or comes back
    NoHint       \* no retry hint outstanding

ASSUME RateConstants ==
    /\ {HitLimit, Window, MaxKeys, Capacity, RefillRate, Horizon} \subseteq Nat \ {0}
    /\ MaxFlips \in Nat
    /\ Costs \subseteq 1..Capacity
    /\ NoHint \notin Nat

VARIABLES
    clock,       \* quarters of a second since the start
    flips,       \* how often Redis went away or came back
    counters,    \* the Redis keys: count and expiry; count 0 is no key
    windows,     \* _local_windows: count and expiry; count 0 is no entry
    expiries,    \* _local_expiries: the heap, as a bag of <<expiry, key>>
    hint,        \* the retry hint of each key: when the caller may come back
    bucket,      \* tokens and updated_at of the socket's bucket
    bucketHint   \* the bucket's hint: the cost and when to come back

limitVars == <<flips, counters, windows, expiries, hint>>
bucketVars == <<bucket, bucketHint>>
rateVars == <<clock, limitVars, bucketVars>>

redisAlive == flips % 2 = 0

None0 == [count |-> 0, until |-> 0]

RateInit ==
    /\ clock = 0
    /\ flips = 0
    /\ counters = [k \in LimitKeys |-> None0]
    /\ windows = [k \in LimitKeys |-> None0]
    /\ expiries = [x \in {} |-> 0]
    /\ hint = [k \in LimitKeys |-> NoHint]
    /\ bucket = [tokens |-> 4 * Capacity, at |-> 0]
    /\ bucketHint = [cost |-> 0, at |-> 0]

AtLeast1(n) == IF n < 1 THEN 1 ELSE n
CeilDiv(n, d) == (n + d - 1) \div d

\* Bound: a count stops one past the limit, which is all that is read of it.
Bump(n) == IF n > HitLimit THEN n ELSE n + 1

Elapse ==
    /\ clock < Horizon
    /\ clock' = clock + 1
    /\ UNCHANGED <<limitVars, bucketVars>>

-----------------------------------------------------------------------------
(* RateLimitService.hit *)

\* Redis drops a key when its time is over.
Counter(k) == IF counters[k].until <= clock THEN None0 ELSE counters[k]

\* The script increments, and gives a new key its expiry.
Incremented(k) ==
    LET old == Counter(k) IN
    [count |-> Bump(old.count), until |-> IF old.count = 0 THEN clock + 4 * Window ELSE old.until]

\* Mutant of RedisRetry: the remaining time is rounded down.
RedisRetryFloor(k) == AtLeast1((Incremented(k).until - clock) \div 4)

\* TTL answers in seconds, to the nearest one; hit says at least 1.
RedisRetry(k) == AtLeast1((Incremented(k).until - clock + 2) \div 4)

HitRedis(k) ==
    /\ redisAlive
    /\ counters' = [counters EXCEPT ![k] = Incremented(k)]
    /\ hint' = [hint EXCEPT ![k] = IF Incremented(k).count > HitLimit THEN clock + 4 * RedisRetry(k) ELSE NoHint]
    /\ UNCHANGED <<clock, flips, windows, expiries, bucketVars>>

\* _purge_expired_local_windows: the entries whose heap entry is due.
Due == {x \in DOMAIN expiries : x[1] <= clock}
KeptEntries == [x \in DOMAIN expiries \ Due |-> expiries[x]]
Purged(k) == IF <<windows[k].until, k>> \in Due THEN None0 ELSE windows[k]
Held == {j \in LimitKeys : Purged(j).count > 0}

\* The entry of k after a hit.
LocalEntry(k) ==
    [count |-> Bump(Purged(k).count), until |-> IF k \in Held THEN Purged(k).until ELSE clock + 4 * Window]

\* heapq.heappush: one more copy of the entry.
HeapPush(heap, x) ==
    [y \in DOMAIN heap \cup {x} |-> (IF y \in DOMAIN heap THEN heap[y] ELSE 0) + (IF y = x THEN 1 ELSE 0)]

\* Mutant of HeapAfter: every hit pushes an entry.
HeapAfterEveryHit(k) == HeapPush(KeptEntries, <<LocalEntry(k).until, k>>)

\* The heap after a hit: only a new window pushes an entry.
HeapAfter(k) == IF k \in Held THEN KeptEntries ELSE HeapPush(KeptEntries, <<LocalEntry(k).until, k>>)

Earliest(S) == CHOOSE n \in S : \A m \in S : n <= m

\* Saturated: an unseen key is refused until the next entry expires.
Saturated(k) == k \notin Held /\ Cardinality(Held) >= MaxKeys

\* _hit_local, with the failure policy "local".
HitLocal(k) ==
    LET entry == LocalEntry(k)
        retry(t) == AtLeast1(CeilDiv(t - clock, 4))
    IN
    /\ ~redisAlive
    /\ IF Saturated(k)
       THEN /\ windows' = [j \in LimitKeys |-> Purged(j)]
            /\ expiries' = KeptEntries
            /\ hint' = [hint EXCEPT ![k] = clock + 4 * retry(Earliest({x[1] : x \in DOMAIN KeptEntries}))]
       ELSE /\ windows' = [j \in LimitKeys |-> IF j = k THEN entry ELSE Purged(j)]
            /\ expiries' = HeapAfter(k)
            /\ hint' = [j \in LimitKeys |-> IF j = k
                          THEN IF entry.count > HitLimit THEN clock + 4 * retry(entry.until) ELSE NoHint
                          ELSE IF k \in Held THEN hint[j] ELSE NoHint]
    /\ UNCHANGED <<clock, flips, counters, bucketVars>>

\* Redis goes or comes back; what the other backend promised is void.
RedisFlips ==
    /\ flips < MaxFlips
    /\ flips' = flips + 1
    /\ hint' = [k \in LimitKeys |-> NoHint]
    /\ UNCHANGED <<clock, counters, windows, expiries, bucketVars>>

-----------------------------------------------------------------------------
(* _TokenBucket.consume *)

Available == LET t == bucket.tokens + (clock - bucket.at) * RefillRate IN
             IF t > 4 * Capacity THEN 4 * Capacity ELSE t

\* Seconds until the missing tokens are there.
BucketRetry(cost) == AtLeast1(CeilDiv(4 * cost - Available, 4 * RefillRate))

Charge(cost) ==
    /\ IF Available >= 4 * cost
       THEN /\ bucket' = [tokens |-> Available - 4 * cost, at |-> clock]
            /\ bucketHint' = [cost |-> 0, at |-> 0]
       ELSE /\ bucket' = [tokens |-> Available, at |-> clock]
            /\ bucketHint' = [cost |-> cost, at |-> clock + 4 * BucketRetry(cost)]
    /\ UNCHANGED <<clock, limitVars>>

LimitNext == \E k \in LimitKeys : HitRedis(k) \/ HitLocal(k)

BucketNext == \E cost \in Costs : Charge(cost)

RateNext == Elapse \/ LimitNext \/ RedisFlips \/ BucketNext

RateSpec == RateInit /\ [][RateNext]_rateVars

-----------------------------------------------------------------------------
(* Properties. *)

\* A hit of k now would be admitted.
Admits(k) ==
    IF redisAlive THEN Incremented(k).count <= HitLimit
    ELSE ~Saturated(k) /\ LocalEntry(k).count <= HitLimit

\* rate_limit_service.py and ws_abuse_control.py: a caller who was refused and
\* waits for the seconds it was told is admitted, if nothing else was charged
\* to the same key, slot or bucket and the same backend answers.  Redis rounds
\* a TTL to the nearest second, which takes up to half a second more.
RetryAfterHonest ==
    /\ \A k \in LimitKeys :
         hint[k] # NoHint /\ clock >= hint[k] + (IF redisAlive THEN 2 ELSE 0) => Admits(k)
    /\ bucketHint.cost > 0 /\ clock >= bucketHint.at => Available >= 4 * bucketHint.cost

\* rate_limit_service.py, "both structures remain bounded by the configured key
\* cardinality": the heap holds one entry for every window, no second copy and
\* nothing else, so each of them has at most MaxKeys entries and no window
\* outlives its purge.
LocalStateBounded ==
    /\ expiries = [x \in {<<windows[k].until, k>> : k \in {j \in LimitKeys : windows[j].count > 0}} |-> 1]
    /\ Cardinality(DOMAIN expiries) <= MaxKeys
=============================================================================
