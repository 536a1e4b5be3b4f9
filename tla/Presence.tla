------------------------------ MODULE Presence ------------------------------
(***************************************************************************)
(* The distributed presence leases of backend/app/realtime/presence.py, as  *)
(* the WebSocket manager drives them: three Redis scripts, each atomic, run *)
(* by any backend instance against four keys.                               *)
(*                                                                          *)
(* Time is relative: score[c] is how far in the future the lease of c ends. *)
(* A script gets `now` from its caller (time.time() of the instance, and a  *)
(* command may execute after a delay), so it runs with a clock that is off  *)
(* by some d in Drift.  Scores stop falling at -Skew, where every clock     *)
(* agrees that the lease is over.                                           *)
(***************************************************************************)
EXTENDS Integers, FiniteSets

CONSTANTS Users, Conns, Owner, Lease, Skew, Batch

ASSUME PresenceConstants ==
    /\ Owner \in [Conns -> Users]
    /\ Lease \in Nat \ {0}
    /\ Skew \in Nat
    /\ Batch \in Nat \ {0}
    /\ 2 * Skew <= Lease

VARIABLES
    conn,         \* each WebSocket: "new", "live" or "ended"
    beat,         \* connections with a heartbeat refresh under way
    members,      \* the ZSETs presence:user:<id>, as the set of their members
    expirations,  \* the ZSET presence:expirations, as the set of its members
    score,        \* the score both ZADDs of the register script write
    usernames,    \* users with an entry in the HASH presence:usernames
    online        \* the SET rt.online_users

redisVars == <<members, expirations, score, usernames, online>>
vars == <<conn, beat, members, expirations, score, usernames, online>>

Drift == (-Skew)..Skew

Of(u) == {c \in Conns : Owner[c] = u}

Expired(u, d) == {c \in members \cap Of(u) : score[c] <= d}

Init ==
    /\ conn = [c \in Conns |-> "new"]
    /\ beat = {}
    /\ members = {}
    /\ expirations = {}
    /\ score = [c \in Conns |-> -Skew]
    /\ usernames = {}
    /\ online = {}

-----------------------------------------------------------------------------
(* The scripts. *)

\* Mutant of RegisterOrRefresh: the new lease is not put into the index.
RegisterUnindexed(c, d) ==
    LET u == Owner[c] IN
    /\ members' = (members \ Expired(u, d)) \cup {c}
    /\ expirations' = expirations \ Expired(u, d)
    /\ score' = [score EXCEPT ![c] = d + Lease]
    /\ usernames' = usernames \cup {u}
    /\ online' = online \cup {u}

\* _REGISTER_OR_REFRESH_SCRIPT: drop the user's expired leases, then add or
\* prolong this one and mark the user online.
RegisterOrRefresh(c, d) ==
    LET u == Owner[c] IN
    /\ members' = (members \ Expired(u, d)) \cup {c}
    /\ expirations' = (expirations \ Expired(u, d)) \cup {c}
    /\ score' = [score EXCEPT ![c] = d + Lease]
    /\ usernames' = usernames \cup {u}
    /\ online' = online \cup {u}

\* Mutant of DisconnectScript: DEL of the user's key without looking at what remains.
DisconnectDeletes(c, d) ==
    LET u == Owner[c] IN
    /\ members' = members \ Of(u)
    /\ expirations' = expirations \ Of(u)
    /\ usernames' = usernames \ {u}
    /\ online' = online \ {u}
    /\ UNCHANGED score

\* _DISCONNECT_SCRIPT: drop the user's expired leases and this one; the user
\* goes offline when no lease remains.
DisconnectScript(c, d) ==
    LET u == Owner[c]
        left == members \ (Expired(u, d) \cup {c})
        gone == IF left \cap Of(u) = {} THEN {u} ELSE {}
    IN
    /\ members' = left
    /\ expirations' = expirations \ (Expired(u, d) \cup {c})
    /\ usernames' = usernames \ gone
    /\ online' = online \ gone
    /\ UNCHANGED score

\* Mutant of Due: only what is also in a user's key, which may be gone already.
DueHeld(d) == {c \in expirations \cap members : score[c] <= d}

\* The index entries a reaper with this clock considers over.
Due(d) == {c \in expirations : score[c] <= d}

\* ZRANGEBYSCORE ... LIMIT 0 batch: the first entries in the order of the scores.
Batches(d) ==
    {D \in SUBSET Due(d) :
        /\ Cardinality(D) = IF Cardinality(Due(d)) < Batch THEN Cardinality(Due(d)) ELSE Batch
        /\ \A a \in D, b \in Due(d) \ D : score[a] <= score[b]}

\* _REAP_SCRIPT: take the due index entries of the batch out, with every
\* expired lease of their users; a user without a lease goes offline.
ReapScript(d, D) ==
    LET touched == {Owner[c] : c \in D}
        left == {c \in members : ~(Owner[c] \in touched /\ score[c] <= d)}
        gone == {u \in touched : left \cap Of(u) = {}}
    IN
    /\ expirations' = expirations \ D
    /\ members' = left
    /\ usernames' = usernames \ gone
    /\ online' = online \ (gone \cap usernames)
    /\ UNCHANGED score

-----------------------------------------------------------------------------
(* Their callers in the WebSocket manager.  A failed Redis call is logged   *)
(* and otherwise ignored.                                                   *)

\* WSManager.connect registers the connection it admits.
Connect(c) ==
    /\ conn[c] = "new"
    /\ conn' = [conn EXCEPT ![c] = "live"]
    /\ \/ \E d \in Drift : RegisterOrRefresh(c, d)
       \/ UNCHANGED redisVars
    /\ UNCHANGED beat

\* _presence_heartbeat_loop starts a refresh.
Beat(c) ==
    /\ conn[c] = "live"
    /\ c \notin beat
    /\ beat' = beat \cup {c}
    /\ UNCHANGED <<conn, members, expirations, score, usernames, online>>

\* Redis executes the refresh, which may be after the connection has ended:
\* disconnect cancels the heartbeat task, not a command already sent.
BeatLands(c) ==
    /\ c \in beat
    /\ beat' = beat \ {c}
    /\ \E d \in Drift : RegisterOrRefresh(c, d)
    /\ UNCHANGED conn

BeatLost(c) ==
    /\ c \in beat
    /\ beat' = beat \ {c}
    /\ UNCHANGED <<conn, members, expirations, score, usernames, online>>

\* WSManager.disconnect, or the error path of connect.
Disconnect(c) ==
    /\ conn[c] = "live"
    /\ conn' = [conn EXCEPT ![c] = "ended"]
    /\ \E d \in Drift : DisconnectScript(c, d)
    /\ UNCHANGED beat

\* The instance dies, or Redis is unreachable when the socket closes.
Vanish(c) ==
    /\ conn[c] = "live"
    /\ conn' = [conn EXCEPT ![c] = "ended"]
    /\ UNCHANGED <<beat, members, expirations, score, usernames, online>>

\* _presence_reaper_loop of some instance; c is an entry its batch contains.
Reap(c) ==
    /\ \E d \in Drift : \E D \in Batches(d) : c \in D /\ ReapScript(d, D)
    /\ UNCHANGED <<conn, beat>>

\* The EXPIRE of the register script, at least two leases after the last
\* refresh: every lease in the key is then over on every clock.
KeyExpires(u) ==
    /\ members \cap Of(u) # {}
    /\ \A c \in members \cap Of(u) : score[c] = -Skew
    /\ members' = members \ Of(u)
    /\ UNCHANGED <<conn, beat, expirations, score, usernames, online>>

Tick ==
    /\ \E c \in Conns : score[c] > -Skew
    /\ score' = [c \in Conns |-> IF score[c] > -Skew THEN score[c] - 1 ELSE score[c]]
    /\ UNCHANGED <<conn, beat, members, expirations, usernames, online>>

Next ==
    \/ \E c \in Conns :
        \/ Connect(c) \/ Beat(c) \/ BeatLands(c) \/ BeatLost(c)
        \/ Disconnect(c) \/ Vanish(c) \/ Reap(c)
    \/ \E u \in Users : KeyExpires(u)
    \/ Tick

Spec == Init /\ [][Next]_vars

-----------------------------------------------------------------------------
(* Properties. *)

\* The variables have their types.
TypeOK ==
    /\ conn \in [Conns -> {"new", "live", "ended"}]
    /\ beat \subseteq Conns
    /\ members \subseteq Conns
    /\ expirations \subseteq Conns
    /\ score \in [Conns -> (-Skew)..(Skew + Lease)]
    /\ usernames \subseteq Users
    /\ online \subseteq Users

\* presence.py: as long as one of a user's connections holds a lease the user
\* is in the online set, whatever the other tabs, instances and the reaper do.
LeaseHolderOnline == \A c \in members : Owner[c] \in online

\* presence.py: a user in the online set has an entry in the expiration index
\* and in the usernames hash, without which no reaper would ever take the user
\* out of the set again.
OnlineReapable ==
    \A u \in online : u \in usernames /\ expirations \cap Of(u) # {}

\* presence.py: the online set, the leases and the index never drift apart.
OnlineTracked == LeaseHolderOnline /\ OnlineReapable

\* presence.py: a lease that no clock considers over leaves the user's key
\* only because its own connection disconnects.
LeaseKept ==
    [][\A c \in members : score[c] > Skew /\ c \notin members' => conn'[c] # conn[c]]_vars

\* presence.py: after every crash, late heartbeat, outage of Redis and reaper
\* with a fast clock the online set is right again: who has a connection is in
\* it, and whose connections have all ended is not.
PresenceConverges ==
    []<>(\A u \in Users :
            /\ (\E c \in Of(u) : conn[c] = "live") => u \in online
            /\ (\A c \in Of(u) : conn[c] = "ended") => u \notin online)
=============================================================================
