------------------------------ MODULE CatchUp -------------------------------
(***************************************************************************)
(* How a client catches up from PostgreSQL: POST /sync                      *)
(* (MessageService.sync) and the resume and subscribe commands of its       *)
(* WebSocket (ws_manager.py), against publications, deletions, changes of   *)
(* membership and deletions of whole channels.                              *)
(*                                                                          *)
(* The client is the one the protocol is made for: it keeps a cursor per    *)
(* channel, the highest sequence number it was sent, and has one request    *)
(* under way.  A request reads its channels one statement at a time.        *)
(* Channels are numbered in the order of their UUIDs.                       *)
(***************************************************************************)
EXTENDS Integers, FiniteSets

CONSTANTS
    NChannels,     \* the client's channels
    Public,        \* those anyone may view
    MaxSeq,        \* bound: messages per channel
    SyncLimit,     \* limit of a sync request
    HistoryBatch,  \* ws_history_batch_limit, at most the capacity of the budget
    HistoryCap,    \* ws_history_budget_capacity
    MaxChanges,    \* bound: leaves, deletions and lost replies
    Idle           \* no request under way

ASSUME CatchUpConstants ==
    /\ {NChannels, MaxSeq, MaxChanges} \subseteq Nat
    /\ {SyncLimit, HistoryBatch, HistoryCap} \subseteq Nat \ {0}
    /\ HistoryBatch <= HistoryCap
    /\ Public \subseteq 1..NChannels

Rooms == 1..NChannels

VARIABLES
    lastSeq,    \* channels.last_seq_id
    liveMsgs,   \* messages without deleted_at, as <<channel, seq_id>>
    joined,     \* the channels of the user's active memberships
    removed,    \* channels with deleted_at
    known,      \* the client's channel list
    cursor,     \* the client's cursor of each channel
    got,        \* messages the client was sent
    request,    \* the request under way, or Idle
    subscribed, \* _subscriptions of the client's socket
    lastSig,    \* _last_subscribe_history_requests of the socket, or Idle
    rows,       \* tokens of the socket's history-row budget
    changes     \* leaves, deletions and lost replies so far

serverVars == <<lastSeq, liveMsgs, joined, removed, changes>>
socketState == <<subscribed, lastSig, rows>>
clientVars == <<known, cursor, got>>
catchUpVars == <<serverVars, clientVars, request, socketState>>

CatchUpInit ==
    /\ lastSeq = [c \in Rooms |-> 0]
    /\ liveMsgs = {}
    /\ joined = Rooms
    /\ removed = {}
    /\ known = Rooms
    /\ cursor = [c \in Rooms |-> 0]
    /\ got = {}
    /\ request = Idle
    /\ subscribed = Rooms
    /\ lastSig = Idle
    /\ rows = HistoryCap
    /\ changes = 0

LowestOf(S) == CHOOSE n \in S : \A m \in S : n <= m
HighestOf(S) == CHOOSE n \in S : \A m \in S : n >= m

LiveSeqs(c) == {m[2] : m \in {x \in liveMsgs : x[1] = c}}

\* seq_id > after, not deleted, in ascending order, LIMIT n.
PageOf(c, after, n) ==
    LET L == {s \in LiveSeqs(c) : s > after} IN
    {<<c, s>> : s \in {x \in L : Cardinality({y \in L : y < x}) < n}}

-----------------------------------------------------------------------------
(* The rest of the system *)

PublishMessage(c) ==
    /\ c \notin removed
    /\ lastSeq[c] < MaxSeq
    /\ lastSeq' = [lastSeq EXCEPT ![c] = @ + 1]
    /\ liveMsgs' = liveMsgs \cup {<<c, lastSeq[c] + 1>>}
    /\ UNCHANGED <<joined, removed, changes, clientVars, request, socketState>>

TombstoneMessage(m) ==
    /\ m \in liveMsgs /\ m[1] \notin removed
    /\ liveMsgs' = liveMsgs \ {m}
    /\ UNCHANGED <<lastSeq, joined, removed, changes, clientVars, request, socketState>>

Disturbance == changes < MaxChanges /\ changes' = changes + 1

LeaveChannel(c) ==
    /\ c \in joined \ removed
    /\ Disturbance
    /\ joined' = joined \ {c}
    /\ UNCHANGED <<lastSeq, liveMsgs, removed, clientVars, request, socketState>>

JoinChannel(c) ==
    /\ c \notin joined \cup removed
    /\ joined' = joined \cup {c}
    /\ UNCHANGED <<lastSeq, liveMsgs, removed, changes, clientVars, request, socketState>>

\* delete_channel keeps the memberships.
DeleteChannel(c) ==
    /\ c \notin removed
    /\ Disturbance
    /\ removed' = removed \cup {c}
    /\ UNCHANGED <<lastSeq, liveMsgs, joined, clientVars, request, socketState>>

\* AdminService.restore_channel.
RestoreChannel(c) ==
    /\ c \in removed
    /\ removed' = removed \ {c}
    /\ UNCHANGED <<lastSeq, liveMsgs, joined, changes, clientVars, request, socketState>>

\* The client reloads its channel list, or gets a channel_deleted event.
LoadChannels ==
    /\ known # joined \ removed
    /\ known' = joined \ removed
    /\ UNCHANGED <<serverVars, cursor, got, request, socketState>>

-----------------------------------------------------------------------------
(* POST /sync *)

\* membership_map, which includes deleted channels, and the selection: the
\* channels the client names with their cursors, or all when it names none.
SyncOf(selected, from) ==
    /\ request = Idle
    /\ request' = [kind |-> "sync", from |-> from, view |-> selected, todo |-> selected,
                   left |-> SyncLimit, page |-> {}, sig |-> Idle]
    /\ UNCHANGED <<serverVars, clientVars, socketState>>

SyncBegin == known # {} /\ SyncOf(known \cap joined, cursor)
SyncAll == SyncOf(joined, [c \in Rooms |-> 0])

\* get_channel_view of the next selected channel raises for a deleted one and
\* for a private one that was left since; the whole request fails with it.
SyncView ==
    /\ request # Idle /\ request.view # {}
    /\ LET c == LowestOf(request.view) IN
       request' = IF c \in removed \/ (c \notin joined /\ c \notin Public) THEN Idle
                  ELSE [request EXCEPT !.view = @ \ {c}]
    /\ UNCHANGED <<serverVars, clientVars, socketState>>

\* Mutant of NextPage: the page starts one message too late.
NextPageFrom(c) ==
    LET page == PageOf(c, request.from[c] + 1, request.left) IN
    request' = [request EXCEPT !.todo = @ \ {c}, !.left = @ - Cardinality(page), !.page = @ \cup page]

\* Mutant of NextPage: the loop ends after the first channel.
NextPageFirstOnly(c) ==
    LET page == PageOf(c, request.from[c], request.left) IN
    request' = [request EXCEPT !.todo = {}, !.left = @ - Cardinality(page), !.page = @ \cup page]

\* The messages of one channel, within what is left of the limit.
NextPage(c) ==
    LET page == PageOf(c, request.from[c], request.left) IN
    request' = [request EXCEPT !.todo = @ \ {c}, !.left = @ - Cardinality(page), !.page = @ \cup page]

\* Resume takes the channels in the client's order, the others by UUID.
ReadPage ==
    /\ request # Idle /\ request.view = {}
    /\ request.todo # {} /\ request.left > 0
    /\ \E c \in request.todo : (request.kind = "resume" \/ c = LowestOf(request.todo)) /\ NextPage(c)
    /\ UNCHANGED <<serverVars, clientVars, socketState>>

Answered == request # Idle /\ request.view = {} /\ (request.todo = {} \/ request.left = 0)

\* Subscribe remembers the request after its history was sent.
Remember == lastSig' = IF request.kind = "subscribe" THEN request.sig ELSE lastSig

\* The client takes the messages and moves the cursors of their channels.
Receive ==
    /\ Answered
    /\ got' = got \cup request.page
    /\ cursor' = [c \in Rooms |-> HighestOf({cursor[c]} \cup {m[2] : m \in {x \in request.page : x[1] = c}})]
    /\ Remember
    /\ request' = Idle
    /\ UNCHANGED <<serverVars, known, subscribed, rows>>

\* The answer never reaches the client.
LoseReply ==
    /\ Answered
    /\ Disturbance
    /\ Remember
    /\ request' = Idle
    /\ UNCHANGED <<lastSeq, liveMsgs, joined, removed, clientVars, subscribed, rows>>

-----------------------------------------------------------------------------
(* The commands of the socket *)

\* _member_channel_states.
Allowed == joined \ removed

\* _handle_resume, once _reserve_history_work has admitted it.
Resume ==
    /\ request = Idle
    /\ rows >= HistoryBatch
    /\ rows' = rows - HistoryBatch
    /\ request' = [kind |-> "resume", from |-> cursor, view |-> {}, todo |-> known \cap Allowed,
                   left |-> HistoryBatch, page |-> {}, sig |-> Idle]
    /\ UNCHANGED <<serverVars, clientVars, subscribed, lastSig>>

\* _handle_subscribe with one from_seq_id for all channels.  A repeated request
\* is only acknowledged and changes nothing.
Subscribe(wanted) ==
    LET from == LowestOf({cursor[c] : c \in wanted})
        granted == wanted \cap Allowed
    IN
    /\ request = Idle
    /\ ~(subscribed = wanted /\ lastSig = <<wanted, from>>)
    /\ rows >= HistoryBatch
    /\ rows' = rows - HistoryBatch
    /\ subscribed' = granted
    /\ request' = [kind |-> "subscribe", from |-> [c \in Rooms |-> from], view |-> {}, todo |-> granted,
                   left |-> HistoryBatch, page |-> {}, sig |-> IF granted = wanted THEN <<wanted, from>> ELSE Idle]
    /\ UNCHANGED <<serverVars, clientVars, lastSig>>

\* _handle_unsubscribe.
UnsubscribeFrom(c) ==
    /\ request = Idle
    /\ c \in subscribed
    /\ subscribed' = subscribed \ {c}
    /\ lastSig' = Idle
    /\ UNCHANGED <<serverVars, clientVars, request, rows>>

\* The budget refills with time.
RefillRows ==
    /\ rows < HistoryCap
    /\ rows' = rows + 1
    /\ UNCHANGED <<serverVars, clientVars, request, subscribed, lastSig>>

\* A new socket: connect subscribes it to every channel of the user.
Reconnect ==
    /\ request = Idle
    /\ subscribed' = Allowed
    /\ lastSig' = Idle
    /\ rows' = HistoryCap
    /\ UNCHANGED <<serverVars, clientVars, request>>

AnswerStep == SyncView \/ ReadPage \/ Receive

CatchUpNext ==
    \/ \E c \in Rooms :
        \/ PublishMessage(c) \/ LeaveChannel(c) \/ JoinChannel(c)
        \/ DeleteChannel(c) \/ RestoreChannel(c) \/ UnsubscribeFrom(c)
    \/ \E m \in liveMsgs : TombstoneMessage(m)
    \/ \E wanted \in (SUBSET Rooms) \ {{}} : Subscribe(wanted)
    \/ LoadChannels \/ SyncBegin \/ SyncAll \/ AnswerStep \/ LoseReply
    \/ Resume \/ RefillRows \/ Reconnect

CatchUpSpec == CatchUpInit /\ [][CatchUpNext]_catchUpVars

-----------------------------------------------------------------------------
(* Properties. *)

\* message_service.py and ws_manager.py: every live message up to the client's
\* cursor was sent to it.  A page cut short by the shared limit, a message
\* published or deleted between two pages, a lost answer or a request over
\* another command never makes a cursor jump over a message.
CursorCovers == \A m \in liveMsgs : m[2] <= cursor[m[1]] => m \in got

\* A live message of a channel the client reads that it does not have yet.
Missing(m) == m \in liveMsgs /\ m[1] \in (joined \cap known) \ removed /\ m \notin got

\* README.md, "REST history and /sync recover missed messages from PostgreSQL":
\* a client that keeps syncing gets every live message of its channels.
SyncRecovers == \A m \in Rooms \X (1..MaxSeq) : Missing(m) ~> ~Missing(m)
=============================================================================
