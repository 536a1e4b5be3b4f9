----------------------------- MODULE WSDelivery -----------------------------
(***************************************************************************)
(* The gate of backend/app/realtime/ws_manager.py between the events of a   *)
(* channel and the sockets of one user: subscriptions, the cached           *)
(* membership generation and its time to live, and the membership query     *)
(* that refreshes it.                                                       *)
(*                                                                          *)
(* An event carries the generation current when it was enqueued and may     *)
(* reach a socket at any later time, any number of times, in any order.     *)
(* Two tasks of a socket interleave at their awaits: the forward loop, which *)
(* handles one event at a time, and the inbound loop, which handles one     *)
(* subscribe or unsubscribe at a time.                                      *)
(***************************************************************************)
EXTENDS ChannelAccess, Sequences

CONSTANTS Sockets, MaxEvents, None

ASSUME WSConstants == MaxGeneration \in Nat \ {0} /\ MaxEvents \in Nat /\ None \notin Nat

VARIABLES
    accessAt,   \* history: the user's access at each generation so far
    published,  \* events of the channel, each with its membership_generation
    subs,       \* sockets with the channel in _subscriptions
    cached,     \* _subscription_generations of each socket, None without entry
    fresh,      \* sockets whose _subscription_checked_at is within the TTL
    forward,    \* the membership query of each forward loop, None when idle
    subscribe,  \* the membership query of each inbound loop, None when idle
    sent        \* events forwarded to each socket

socketVars == <<subs, cached, fresh, forward, subscribe, sent>>
vars == <<access, generation, accessAt, published, subs, cached, fresh, forward, subscribe, sent>>

Generations == 1..MaxGeneration

\* _member_channel_states, and the query of _authorize_channel_delivery.
CurrentGeneration == IF access THEN generation ELSE None

Init ==
    /\ AccessInit
    /\ accessAt = [g \in {1} |-> access]
    /\ published = <<>>
    /\ subs = {}
    /\ cached = [s \in Sockets |-> None]
    /\ fresh = {}
    /\ forward = [s \in Sockets |-> None]
    /\ subscribe = [s \in Sockets |-> None]
    /\ sent = [s \in Sockets |-> {}]

-----------------------------------------------------------------------------
(* The database *)

\* A membership change commits.
Change ==
    /\ ChangeAccess
    /\ accessAt' = [g \in 1..generation' |-> IF g \in DOMAIN accessAt THEN accessAt[g] ELSE access']
    /\ UNCHANGED <<published, socketVars>>

\* A message or event is enqueued, with the generation of that moment.
Publish ==
    /\ Len(published) < MaxEvents
    /\ published' = Append(published, generation)
    /\ UNCHANGED <<access, generation, accessAt, socketVars>>

-----------------------------------------------------------------------------
(* The forward loop *)

\* Mutant of CacheAdmits: an event newer than the cache is admitted as well.
CacheAdmitsNewer(s, e) == cached[s] # None /\ s \in fresh

\* The cached generation is at least the event's and fresh.
CacheAdmits(s, e) == cached[s] # None /\ published[e] <= cached[s] /\ s \in fresh

\* _forward_event, when the cache decides.
ForwardCached(s, e) ==
    /\ forward[s] = None
    /\ s \in subs
    /\ CacheAdmits(s, e)
    /\ sent' = [sent EXCEPT ![s] = @ \cup {e}]
    /\ UNCHANGED <<access, generation, accessAt, published, subs, cached, fresh, forward, subscribe>>

\* _forward_event, when it does not: the query.  The loop holds on to the
\* dictionaries of this moment; own is whether they are still the socket's.
ForwardQuery(s, e) ==
    /\ forward[s] = None
    /\ s \in subs
    /\ ~CacheAdmits(s, e)
    /\ forward' = [forward EXCEPT ![s] = [event |-> e, seen |-> CurrentGeneration, own |-> TRUE]]
    /\ UNCHANGED <<access, generation, accessAt, published, subs, cached, fresh, subscribe, sent>>

\* The query found no membership: drop the subscription.
ForwardDenied(s) ==
    /\ forward[s] # None
    /\ forward[s].seen = None
    /\ subs' = subs \ {s}
    /\ cached' = [cached EXCEPT ![s] = IF forward[s].own THEN None ELSE @]
    /\ fresh' = IF forward[s].own THEN fresh \ {s} ELSE fresh
    /\ forward' = [forward EXCEPT ![s] = None]
    /\ UNCHANGED <<access, generation, accessAt, published, subscribe, sent>>

\* The query found a membership: cache its generation and send the event, unless
\* the event is ahead of it.
ForwardAllowed(s) ==
    LET e == forward[s].event
        seen == forward[s].seen
    IN
    /\ forward[s] # None
    /\ seen # None
    /\ IF published[e] > seen
       THEN UNCHANGED <<cached, fresh, sent>>
       ELSE /\ cached' = [cached EXCEPT ![s] = IF forward[s].own THEN seen ELSE @]
            /\ fresh' = IF forward[s].own THEN fresh \cup {s} ELSE fresh
            /\ sent' = [sent EXCEPT ![s] = @ \cup {e}]
    /\ forward' = [forward EXCEPT ![s] = None]
    /\ UNCHANGED <<access, generation, accessAt, published, subs, subscribe>>

\* A membership_update that takes the user's role away reaches the socket.  It
\* is forwarded ungated and drops the subscription.
RemovalNotice(s) ==
    /\ forward[s] = None
    /\ \E g \in DOMAIN accessAt : ~accessAt[g]
    /\ subs' = subs \ {s}
    /\ cached' = [cached EXCEPT ![s] = None]
    /\ fresh' = fresh \ {s}
    /\ UNCHANGED <<access, generation, accessAt, published, forward, subscribe, sent>>

-----------------------------------------------------------------------------
(* The inbound loop *)

\* connect, and _handle_subscribe for a set with the channel: the query ...
SubscribeQuery(s) ==
    /\ subscribe[s] = None
    /\ subscribe' = [subscribe EXCEPT ![s] = [seen |-> CurrentGeneration]]
    /\ UNCHANGED <<access, generation, accessAt, published, subs, cached, fresh, forward, sent>>

Disown(s) == [forward EXCEPT ![s] = IF @ = None THEN None ELSE [@ EXCEPT !.own = FALSE]]

\* ... and, an await later, the new set and the new dictionaries.
SubscribeInstall(s) ==
    /\ subscribe[s] # None
    /\ IF subscribe[s].seen # None
       THEN subs' = subs \cup {s} /\ fresh' = fresh \cup {s}
       ELSE subs' = subs \ {s} /\ fresh' = fresh \ {s}
    /\ cached' = [cached EXCEPT ![s] = subscribe[s].seen]
    /\ forward' = Disown(s)
    /\ subscribe' = [subscribe EXCEPT ![s] = None]
    /\ UNCHANGED <<access, generation, accessAt, published, sent>>

\* _handle_unsubscribe, which edits the dictionaries in place.
Unsubscribe(s) ==
    /\ subscribe[s] = None
    /\ s \in subs
    /\ subs' = subs \ {s}
    /\ cached' = [cached EXCEPT ![s] = None]
    /\ fresh' = fresh \ {s}
    /\ UNCHANGED <<access, generation, accessAt, published, forward, subscribe, sent>>

\* ws_membership_auth_cache_ttl_seconds pass.
CacheExpires(s) ==
    /\ s \in fresh
    /\ fresh' = fresh \ {s}
    /\ UNCHANGED <<access, generation, accessAt, published, subs, cached, forward, subscribe, sent>>

Next ==
    \/ Change
    \/ Publish
    \/ \E s \in Sockets :
        \/ \E e \in DOMAIN published : ForwardCached(s, e) \/ ForwardQuery(s, e)
        \/ ForwardDenied(s) \/ ForwardAllowed(s) \/ RemovalNotice(s)
        \/ SubscribeQuery(s) \/ SubscribeInstall(s) \/ Unsubscribe(s) \/ CacheExpires(s)

Spec == Init /\ [][Next]_vars

-----------------------------------------------------------------------------
(* Properties. *)

\* The variables have their types.
TypeOK ==
    /\ access \in BOOLEAN
    /\ generation \in Generations
    /\ accessAt \in [1..generation -> BOOLEAN]
    /\ published \in Seq(Generations)
    /\ Len(published) <= MaxEvents
    /\ subs \subseteq Sockets
    /\ cached \in [Sockets -> (1..generation) \cup {None}]
    /\ fresh \subseteq Sockets
    /\ forward \in [Sockets -> [event : DOMAIN published, seen : (1..generation) \cup {None}, own : BOOLEAN]
                               \cup {None}]
    /\ subscribe \in [Sockets -> [seen : (1..generation) \cup {None}] \cup {None}]
    /\ sent \in [Sockets -> SUBSET DOMAIN published]

\* ws_manager.py: an event goes out on a socket only if the user could read the
\* channel at some membership generation not older than the event's.  What is
\* published after a user has lost the channel for good never reaches them,
\* however stale the subscription, the cache or a query in flight.
SentWithAccess ==
    \A s \in Sockets : \A e \in sent[s] :
        \E g \in DOMAIN accessAt : g >= published[e] /\ accessAt[g]

\* ws_manager.py: a cached generation is one at which the membership was found,
\* also when an older query finishes after a newer subscribe.
CacheWasAuthorized == \A s \in Sockets : cached[s] # None => accessAt[cached[s]]

\* ws_manager.py: a membership query made for an event never reads a generation
\* older than the event's, so no event of a member is dropped as ahead of it.
QueryNotBehind ==
    \A s \in Sockets :
        forward[s] # None /\ forward[s].seen # None => published[forward[s].event] <= forward[s].seen

\* ws_manager.py: what the gate in front of a socket decides from is sound.
GateSound == CacheWasAuthorized /\ QueryNotBehind
=============================================================================
