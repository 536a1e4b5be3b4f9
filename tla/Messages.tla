------------------------------ MODULE Messages ------------------------------
(***************************************************************************)
(* The message handlers of one channel: publish_message, edit_message,     *)
(* delete_message, add_reaction, remove_reaction, pin_message,             *)
(* unpin_message and mark_seen.                                            *)
(*                                                                         *)
(* A handler is one transaction in two steps: the step in which its last   *)
(* row lock is granted and its rows are read, and the step in which it     *)
(* writes what it computed from them and commits.  Publishing holds the    *)
(* channel FOR UPDATE; every other handler holds it FOR SHARE, and with it *)
(* the message or the membership FOR UPDATE.  Every change of a message    *)
(* commits together with an outbox row that carries the new row.           *)
(*                                                                         *)
(* Messages are named by their seq_id.  Content is abstracted to the       *)
(* number of edits.                                                        *)
(***************************************************************************)
EXTENDS Naturals, FiniteSets

CONSTANTS
  Users,          \* approved members of the channel
  Admins,         \* those among them with role owner or admin (and can_publish)
  ClientIds,      \* client_msg_id
  Emojis,
  MaxDistinct,    \* max_distinct_reactions_per_message
  Requests,       \* transactions that may be open at the same time
  MaxMessages,    \* bound: seq_ids
  MaxEdits,       \* bound: edits of one message
  Unset

ASSUME MessagesConstants ==
  /\ Admins \subseteq Users
  /\ IsFiniteSet(Emojis)
  /\ MaxDistinct \in Nat /\ MaxMessages \in Nat
  /\ Unset \notin Nat

VARIABLES
  last_seq_id,    \* Channel.last_seq_id
  messages,       \* seq_id -> row, for the seq_ids in use
  pins,           \* pinned_messages rows, as seq_ids
  reactions,      \* message_reactions rows: <<seq_id, user, emoji>>
  seen,           \* UserChannelState.last_seen_seq_id, None without a row
  tx,             \* the open transactions: what was asked, what was read
  row_event,      \* seq_id -> the row in the outbox row committed last for it
  reaction_event, \* seq_id -> the reactions in the reaction_updated row committed last
  answers         \* history: <<user, client_msg_id, seq_id>> of publish responses

messageVars == <<last_seq_id, messages, pins, reactions, seen, tx, row_event, reaction_event, answers>>

Seqs == 1..MaxMessages
MessageOps == {"edit", "delete", "pin", "unpin", "react", "unreact"}
Row == [sender : Users, client : ClientIds \cup {Unset}, reply : Nat, edits : Nat,
        deleted : BOOLEAN, pinned : BOOLEAN]
ReactionsOf(m) == {x \in reactions : x[1] = m}

MessagesInit ==
  /\ last_seq_id = 0
  /\ messages = <<>>
  /\ pins = {}
  /\ reactions = {}
  /\ seen = [u \in Users |-> Unset]
  /\ tx = [r \in Requests |-> Unset]
  /\ row_event = <<>>
  /\ reaction_event = <<>>
  /\ answers = {}

-----------------------------------------------------------------------------
(* Locks: a transaction holds what its request names until it ends *)

Active == {r \in Requests : tx[r] # Unset}
ChannelFree == Active = {}
ChannelShareable == \A r \in Active : tx[r].op # "publish"
MessageFree(m) == \A r \in Active : tx[r].op \in MessageOps => tx[r].msg # m
MembershipFree(u) == \A r \in Active : tx[r].op = "seen" => tx[r].user # u

Begin(r, t) == tx[r] = Unset /\ tx' = [tx EXCEPT ![r] = t]
End(r) == tx' = [tx EXCEPT ![r] = Unset]

\* Rollback without effect: a refused request, an error, a lost connection.
Abort(r) ==
  /\ tx[r] # Unset
  /\ End(r)
  /\ UNCHANGED <<last_seq_id, messages, pins, reactions, seen, row_event, reaction_event, answers>>

-----------------------------------------------------------------------------
(* publish_message *)

\* The channel is locked and its last_seq_id read.  Members who may not publish
\* may still reply (t # 0).
PublishBegin(r, u, k, t) ==
  /\ ChannelFree
  /\ u \in Admins \/ t # 0
  /\ Begin(r, [op |-> "publish", user |-> u, client |-> k, reply |-> t, last |-> last_seq_id])
  /\ UNCHANGED <<last_seq_id, messages, pins, reactions, seen, row_event, reaction_event, answers>>

\* Mutant: the lookup of an earlier message skips tombstones.
EarlierLive(u, k) == {m \in DOMAIN messages : /\ k # Unset
                                              /\ ~messages[m].deleted
                                              /\ messages[m].sender = u
                                              /\ messages[m].client = k}

\* The message this user already published under this client_msg_id.
Earlier(u, k) == {m \in DOMAIN messages : /\ k # Unset
                                          /\ messages[m].sender = u
                                          /\ messages[m].client = k}

\* _resolve_reply_target: only a message of this channel that is not deleted.
Live(m) == m \in DOMAIN messages /\ ~messages[m].deleted

\* A retry: the earlier message is the answer, nothing is written.
PublishExisting(r) ==
  /\ tx[r] # Unset
  /\ tx[r].op = "publish"
  /\ \E m \in Earlier(tx[r].user, tx[r].client) :
       answers' = answers \cup {<<tx[r].user, tx[r].client, m>>}
  /\ End(r)
  /\ UNCHANGED <<last_seq_id, messages, pins, reactions, seen, row_event, reaction_event>>

\* The reply target is missing or deleted.
RefusePublish(r) ==
  /\ tx[r] # Unset
  /\ tx[r].op = "publish"
  /\ Earlier(tx[r].user, tx[r].client) = {}
  /\ tx[r].reply # 0
  /\ ~Live(tx[r].reply)
  /\ End(r)
  /\ UNCHANGED <<last_seq_id, messages, pins, reactions, seen, row_event, reaction_event, answers>>

\* The new message, its outbox row and the channel's counter commit together.  The
\* indexes uq_messages_channel_seq and uq_messages_client_msg_not_null would
\* reject a second row.
CommitPublish(r) ==
  LET seq == tx[r].last + 1
      row == [sender |-> tx[r].user, client |-> tx[r].client, reply |-> tx[r].reply,
              edits |-> 0, deleted |-> FALSE, pinned |-> FALSE] IN
  /\ tx[r] # Unset
  /\ tx[r].op = "publish"
  /\ seq <= MaxMessages
  /\ Earlier(tx[r].user, tx[r].client) = {}
  /\ tx[r].reply # 0 => Live(tx[r].reply)
  /\ seq \notin DOMAIN messages
  /\ last_seq_id' = seq
  /\ messages' = [m \in DOMAIN messages \cup {seq} |-> IF m = seq THEN row ELSE messages[m]]
  /\ row_event' = [m \in DOMAIN row_event \cup {seq} |-> IF m = seq THEN row ELSE row_event[m]]
  /\ reaction_event' = [m \in DOMAIN reaction_event \cup {seq} |->
                          IF m = seq THEN {} ELSE reaction_event[m]]
  /\ answers' = answers \cup {<<tx[r].user, tx[r].client, seq>>}
  /\ End(r)
  /\ UNCHANGED <<pins, reactions, seen>>

-----------------------------------------------------------------------------
(* Handlers that lock one message *)

\* Mutant: the message row is read without FOR UPDATE.
LockMessageNot(r, op, u, m, e) ==
  /\ ChannelShareable
  /\ m \in DOMAIN messages
  /\ op \in {"react", "unreact"} <=> e # Unset
  /\ op \in {"edit", "delete"} => messages[m].sender = u \/ u \in Admins
  /\ op \in {"pin", "unpin"} => u \in Admins
  /\ op \notin {"delete", "pin", "unpin"} => ~messages[m].deleted
  /\ Begin(r, [op |-> op, user |-> u, msg |-> m, emoji |-> e, row |-> messages[m],
               old |-> ReactionsOf(m), pin |-> m \in pins])
  /\ UNCHANGED <<last_seq_id, messages, pins, reactions, seen, row_event, reaction_event, answers>>

\* Mutant: tombstones are not excluded.
LockMessageTombstone(r, op, u, m, e) ==
  /\ ChannelShareable
  /\ MessageFree(m)
  /\ m \in DOMAIN messages
  /\ op \in {"react", "unreact"} <=> e # Unset
  /\ op \in {"edit", "delete"} => messages[m].sender = u \/ u \in Admins
  /\ op \in {"pin", "unpin"} => u \in Admins
  /\ Begin(r, [op |-> op, user |-> u, msg |-> m, emoji |-> e, row |-> messages[m],
               old |-> ReactionsOf(m), pin |-> m \in pins])
  /\ UNCHANGED <<last_seq_id, messages, pins, reactions, seen, row_event, reaction_event, answers>>

\* The channel is share-locked, the message locked and both are read, with the
\* message's reactions and its pin.
LockMessage(r, op, u, m, e) ==
  /\ ChannelShareable
  /\ MessageFree(m)
  /\ m \in DOMAIN messages
  /\ op \in {"react", "unreact"} <=> e # Unset
  /\ op \in {"edit", "delete"} => messages[m].sender = u \/ u \in Admins
  /\ op \in {"pin", "unpin"} => u \in Admins
  /\ op \notin {"delete", "pin", "unpin"} => ~messages[m].deleted
  /\ Begin(r, [op |-> op, user |-> u, msg |-> m, emoji |-> e, row |-> messages[m],
               old |-> ReactionsOf(m), pin |-> m \in pins])
  /\ UNCHANGED <<last_seq_id, messages, pins, reactions, seen, row_event, reaction_event, answers>>

\* The UPDATE of the changed columns, and the message_updated outbox row with the
\* whole row as the transaction knows it.
WriteMessage(r, stored, known) ==
  /\ messages' = [messages EXCEPT ![tx[r].msg] = stored]
  /\ row_event' = [row_event EXCEPT ![tx[r].msg] = known]
  /\ End(r)
  /\ UNCHANGED <<last_seq_id, seen, reaction_event, answers>>

EditMessage(r) ==
  /\ tx[r] # Unset
  /\ tx[r].op = "edit"
  /\ tx[r].row.edits < MaxEdits
  /\ WriteMessage(r, [messages[tx[r].msg] EXCEPT !.edits = tx[r].row.edits + 1],
                     [tx[r].row EXCEPT !.edits = tx[r].row.edits + 1])
  /\ UNCHANGED <<pins, reactions>>

\* Deleting leaves a tombstone: the row, its seq_id, its pin and its reactions stay.
\* A second delete writes nothing.
DeleteMessage(r) ==
  /\ tx[r] # Unset
  /\ tx[r].op = "delete"
  /\ IF tx[r].row.deleted
       THEN /\ End(r)
            /\ UNCHANGED <<last_seq_id, messages, seen, row_event, reaction_event, answers>>
       ELSE WriteMessage(r, [messages[tx[r].msg] EXCEPT !.deleted = TRUE], [tx[r].row EXCEPT !.deleted = TRUE])
  /\ UNCHANGED <<pins, reactions>>

\* The pin row records who pinned, the flag on the message keeps lists cheap.
PinMessage(r) ==
  /\ tx[r] # Unset
  /\ tx[r].op = "pin"
  /\ pins' = IF tx[r].pin THEN pins ELSE pins \cup {tx[r].msg}
  /\ WriteMessage(r, [messages[tx[r].msg] EXCEPT !.pinned = TRUE], [tx[r].row EXCEPT !.pinned = TRUE])
  /\ UNCHANGED reactions

UnpinMessage(r) ==
  /\ tx[r] # Unset
  /\ tx[r].op = "unpin"
  /\ pins' = IF tx[r].pin THEN pins \ {tx[r].msg} ELSE pins
  /\ WriteMessage(r, [messages[tx[r].msg] EXCEPT !.pinned = FALSE], [tx[r].row EXCEPT !.pinned = FALSE])
  /\ UNCHANGED reactions

Distinct(rs) == {x[3] : x \in rs}

\* A changed set of reactions and the reaction_updated outbox row.
WriteReactions(r, rs) ==
  /\ reactions' = (reactions \ tx[r].old) \cup rs
  /\ reaction_event' = [reaction_event EXCEPT ![tx[r].msg] = rs]
  /\ End(r)
  /\ UNCHANGED <<last_seq_id, messages, pins, seen, row_event, answers>>

\* A new reaction within the quota of distinct emojis; a repeated one and one past
\* the quota write nothing (Abort).
AddReaction(r) ==
  LET new == <<tx[r].msg, tx[r].user, tx[r].emoji>> IN
  /\ tx[r] # Unset
  /\ tx[r].op = "react"
  /\ new \notin tx[r].old
  /\ tx[r].emoji \in Distinct(tx[r].old) \/ Cardinality(Distinct(tx[r].old)) < MaxDistinct
  /\ WriteReactions(r, tx[r].old \cup {new})

\* A DELETE that removes a row; one that finds none writes nothing (Abort).
RemoveReaction(r) ==
  LET gone == <<tx[r].msg, tx[r].user, tx[r].emoji>> IN
  /\ tx[r] # Unset
  /\ tx[r].op = "unreact"
  /\ gone \in tx[r].old
  /\ WriteReactions(r, tx[r].old \ {gone})

-----------------------------------------------------------------------------
(* mark_seen *)

\* The membership is locked before the state row, which may not exist yet.  A
\* marker beyond the last message is refused.
LockSeen(r, u, s) ==
  /\ ChannelShareable
  /\ MembershipFree(u)
  /\ s <= last_seq_id
  /\ Begin(r, [op |-> "seen", user |-> u, seq |-> s, state |-> seen[u]])
  /\ UNCHANGED <<last_seq_id, messages, pins, reactions, seen, row_event, reaction_event, answers>>

\* Seen markers only move forward; an older one is answered with the stored state.
MarkSeen(r) ==
  /\ tx[r] # Unset
  /\ tx[r].op = "seen"
  /\ seen' = IF tx[r].state # Unset /\ tx[r].seq <= tx[r].state
               THEN seen ELSE [seen EXCEPT ![tx[r].user] = tx[r].seq]
  /\ End(r)
  /\ UNCHANGED <<last_seq_id, messages, pins, reactions, row_event, reaction_event, answers>>

-----------------------------------------------------------------------------
MessagesNext ==
  \E r \in Requests :
    \/ \E u \in Users, k \in ClientIds \cup {Unset}, t \in 0..MaxMessages :
         PublishBegin(r, u, k, t)
    \/ \E op \in MessageOps, u \in Users, m \in Seqs, e \in Emojis \cup {Unset} :
         LockMessage(r, op, u, m, e)
    \/ \E u \in Users, s \in 0..MaxMessages : LockSeen(r, u, s)
    \/ PublishExisting(r) \/ RefusePublish(r) \/ CommitPublish(r)
    \/ EditMessage(r) \/ DeleteMessage(r) \/ PinMessage(r) \/ UnpinMessage(r)
    \/ AddReaction(r) \/ RemoveReaction(r) \/ MarkSeen(r) \/ Abort(r)

MessagesSpec == MessagesInit /\ [][MessagesNext]_messageVars

-----------------------------------------------------------------------------
(* Properties *)

\* The variables have their types, and foreign keys their targets.
MessagesTypeOK ==
  /\ last_seq_id \in Nat
  /\ DOMAIN messages \subseteq Nat
  /\ \A m \in DOMAIN messages : messages[m] \in Row
  /\ pins \subseteq DOMAIN messages
  /\ reactions \subseteq (DOMAIN messages) \X Users \X Emojis
  /\ seen \in [Users -> (0..last_seq_id) \cup {Unset}]
  /\ DOMAIN tx = Requests
  /\ DOMAIN row_event = DOMAIN messages /\ DOMAIN reaction_event = DOMAIN messages

\* "each channel keeps a stable per-topic ordering" (publish_message): seq_ids are
\* handed out without a gap and without reuse, whatever requests are refused or
\* fail, so a client that has seen n knows what it missed.
SeqContiguous == DOMAIN messages = 1..last_seq_id

\* The channel lock makes the IntegrityError handler of publish_message a second
\* line only: a publisher never meets a seq_id or a client_msg_id another
\* transaction took after the publisher read them.
PublishNeverConflicts ==
  \A r \in Active : tx[r].op = "publish" => tx[r].last = last_seq_id

\* "Client message ids make retries idempotent": every response to a request of one
\* user with one client_msg_id names the same message, the one this user published
\* under it, also after that message was edited or deleted.
RetriesIdempotent ==
  \A a \in answers : a[2] # Unset =>
    /\ messages[a[3]].sender = a[1] /\ messages[a[3]].client = a[2]
    /\ \A b \in answers : b[1] = a[1] /\ b[2] = a[2] => b[3] = a[3]

\* No handler enqueues what it read before another one changed it: of the outbox rows
\* of a message the one committed last carries its current row, and of its
\* reaction_updated rows the one committed last its current reactions, however
\* handlers of one message overlap.  This says nothing of the order in which the
\* worker sends them: it goes by created_at, the start of the transaction, and a
\* retried row is sent later still.
LastRowCurrent ==
  \A m \in DOMAIN messages : row_event[m] = messages[m] /\ reaction_event[m] = ReactionsOf(m)

\* The denormalized is_pinned flag and the pinned_messages row never disagree.
PinsMatchFlags == \A m \in DOMAIN messages : messages[m].pinned <=> m \in pins

\* Every second copy of a message's data agrees with the first, under any overlap.
CopiesAgree == LastRowCurrent /\ PinsMatchFlags

\* The quota of distinct emojis of a message holds under concurrent reactions.
ReactionVarietyBounded ==
  \A m \in DOMAIN messages : Cardinality(Distinct(ReactionsOf(m))) <= MaxDistinct

\* message_service.py: the tables of a channel agree with each other and with the
\* outbox row committed last, under any overlap of handlers.
TablesConsistent == SeqContiguous /\ CopiesAgree /\ ReactionVarietyBounded

\* "Seen markers only move forward, so an older client cannot erase unread progress":
\* no step lowers a marker or removes it, the first two markers included.
SeenOnlyForward ==
  [][\A u \in Users : seen[u] # Unset => seen'[u] # Unset /\ seen'[u] >= seen[u]]_messageVars

\* A tombstone is final: no edit or reaction that was under way when the message was
\* deleted brings it back or changes it, and its seq_id stays in use.
TombstoneFinal ==
  [][\A m \in DOMAIN messages : messages[m].deleted =>
       /\ m \in DOMAIN messages'
       /\ messages'[m].deleted
       /\ messages'[m].edits = messages[m].edits
       /\ ReactionsOf(m)' = ReactionsOf(m)]_messageVars

\* message_service.py: markers and tombstones are never taken back.
NeverBack == SeenOnlyForward /\ TombstoneFinal

=============================================================================
