-------------------------- MODULE Messages_proofs ---------------------------
(***************************************************************************)
(* Proofs about messages: the rows of the outbox that carry their events,  *)
(* and their tables, for any number of users, messages, rows, requests,    *)
(* workers and operators, and any bound on attempts, crashes and retries.  *)
(***************************************************************************)
EXTENDS Messages, Outbox, FiniteSetTheorems, TLAPS

-----------------------------------------------------------------------------
(***************************************************************************)
(* The outbox.                                                             *)
(*                                                                         *)
(* The invariant is inductive as the conjunction of its parts: the retry   *)
(* bookkeeping and the copy count of a row rest on the lock discipline,    *)
(* which says that nobody else touches a row between claim and commit.     *)
(***************************************************************************)

\* The inductive invariant.
OutboxInv ==
  /\ TypeOK
  /\ LockDiscipline
  /\ RetryAccounting
  /\ PublishedReachedBroker
  /\ DuplicatesOnlyFromFaults

\* The empty outbox satisfies the invariant.
LEMMA InitOutbox == Init => OutboxInv
  BY AttemptsAssumption, ActorsAssumption DEF Init, OutboxInv, TypeOK, LockDiscipline, RetryAccounting, PublishedReachedBroker,
         DuplicatesOnlyFromFaults, Status, InTransaction, Sending

\* Every step keeps the types; a failed attempt never exceeds max_attempts.
LEMMA RowTypeStep == OutboxInv /\ [Next]_vars => TypeOK'
<1> SUFFICES ASSUME OutboxInv, [Next]_vars PROVE TypeOK'
  BY Zenon
<1> USE DEF OutboxInv, TypeOK, Status, InTransaction, row_vars, op_vars
<1>0. \A w \in Workers : wpc[w] # "idle" => claim[w] \in Rows
  BY DEF LockDiscipline
<1>1. ASSUME NEW r \in Rows, Enqueue(r) \/ RetryDue(r) PROVE TypeOK'
  BY <1>1 DEF Enqueue, RetryDue
<1>2. ASSUME NEW w \in Workers, WorkerStep(w) \/ Crash(w) PROVE TypeOK'
  <2>1. CASE Claim(w)
    BY <2>1 DEF Claim
  <2>2. CASE Poll(w)
    BY Zenon, <2>2 DEF Poll, vars
  <2>3. CASE PublishConfirmed(w)
    BY <1>0, <2>3 DEF PublishConfirmed
  <2>4. CASE PublishRaises(w)
    BY <1>0, <2>4 DEF PublishRaises
  <2>5. CASE CommitPublished(w)
    BY Zenon, <1>0, <2>5 DEF CommitPublished
  <2>6. CASE CommitFailure(w)
    <3>1. claim[w] \in Rows /\ attempts[claim[w]] + 1 \in 0..MaxAttempts
      BY <1>0, <2>6, AttemptsAssumption DEF CommitFailure, LockDiscipline, RetryAccounting
    <3> QED BY Zenon, <2>6, <3>1 DEF CommitFailure, LastAttempt
  <2>7. CASE Diagnose(w)
    BY Zenon, <2>7 DEF Diagnose
  <2>8. CASE Crash(w)
    BY <1>0, <2>8 DEF Crash
  <2> QED BY Zenon, <1>2, <2>1, <2>2, <2>3, <2>4, <2>5, <2>6, <2>7, <2>8 DEF WorkerStep
<1>3. ASSUME NEW o \in Operators, SelectForRetry(o) \/ OperatorStep(o) PROVE TypeOK'
  <2>1. CASE SelectForRetry(o)
    BY <2>1 DEF SelectForRetry, Retryable
  <2>2. CASE FlushReset(o)
    BY <2>2 DEF FlushReset
  <2>3. CASE CommitReset(o)
    BY <2>3, AttemptsAssumption DEF CommitReset
  <2>4. CASE AbortReset(o)
    BY Zenon, <2>4 DEF AbortReset
  <2> QED BY Zenon, <1>3, <2>1, <2>2, <2>3, <2>4 DEF OperatorStep
<1>4. CASE UNCHANGED vars
  BY Zenon, <1>4 DEF vars
<1> QED BY Zenon, <1>1, <1>2, <1>3, <1>4 DEF Next

\* Every step keeps the lock discipline of workers and manual retries.
LEMMA RowLockStep == OutboxInv /\ TypeOK' /\ [Next]_vars => LockDiscipline'
<1> SUFFICES ASSUME OutboxInv, TypeOK', [Next]_vars PROVE LockDiscipline'
  BY Zenon
<1> USE DEF OutboxInv, TypeOK, InTransaction, row_vars, op_vars, LockDiscipline
<1>0. \A w \in Workers : wpc[w] # "idle" => claim[w] \in Rows
  BY DEF LockDiscipline
<1>1. ASSUME NEW r \in Rows, Enqueue(r) \/ RetryDue(r) PROVE LockDiscipline'
  BY <1>0, <1>1 DEF Enqueue, RetryDue
<1>2. ASSUME NEW w \in Workers, WorkerStep(w) \/ Crash(w) PROVE LockDiscipline'
  <2>1. CASE Claim(w)
    BY <1>0, <2>1, ActorsAssumption DEF Claim, Claimable
  <2>2. CASE Poll(w)
    BY Zenon, <2>2 DEF Poll, vars
  <2>3. CASE PublishConfirmed(w)
    BY <1>0, <2>3 DEF PublishConfirmed
  <2>4. CASE PublishRaises(w)
    BY <1>0, <2>4 DEF PublishRaises
  <2>5. CASE CommitPublished(w)
    BY <1>0, <2>5, ActorsAssumption DEF CommitPublished
  <2>6. CASE CommitFailure(w)
    BY <1>0, <2>6, ActorsAssumption DEF CommitFailure, LastAttempt
  <2>7. CASE Diagnose(w)
    BY <1>0, <2>7 DEF Diagnose
  <2>8. CASE Crash(w)
    BY <1>0, <2>8, ActorsAssumption DEF Crash
  <2> QED BY Zenon, <1>2, <2>1, <2>2, <2>3, <2>4, <2>5, <2>6, <2>7, <2>8 DEF WorkerStep
<1>3. ASSUME NEW o \in Operators, SelectForRetry(o) \/ OperatorStep(o) PROVE LockDiscipline'
  <2>1. CASE SelectForRetry(o)
    <3>1. PICK S \in {{r} : r \in Retryable} \cup {Retryable} :
             /\ picked' = [picked EXCEPT ![o] = S]
             /\ had_retry' = [had_retry EXCEPT ![o] = {r \in S : next_retry[r] # "unset"}]
      BY Zenon, <2>1 DEF SelectForRetry
    <3>0. picked[o] = {}
      BY Zenon, <2>1 DEF SelectForRetry
    <3>2. \A r \in Rows : lock[r] # o
      BY <3>0
    <3>3. \A p \in Operators : had_retry'[p] \subseteq picked'[p]
      BY <3>1
    <3> QED BY <2>1, <3>1, <3>2, <3>3 DEF SelectForRetry
  <2>2. CASE FlushReset(o)
    BY <2>2, ActorsAssumption DEF FlushReset, Held
  <2>3. CASE CommitReset(o)
    BY <2>3, ActorsAssumption DEF CommitReset, Held
  <2>4. CASE AbortReset(o)
    BY <2>4, ActorsAssumption DEF AbortReset
  <2> QED BY Zenon, <1>3, <2>1, <2>2, <2>3, <2>4 DEF OperatorStep
<1>4. CASE UNCHANGED vars
  BY Zenon, <1>4 DEF vars
<1> QED BY Zenon, <1>1, <1>2, <1>3, <1>4 DEF Next

\* Every step keeps status, attempt counter and retry time in agreement.
LEMMA AccountingStep == OutboxInv /\ TypeOK' /\ [Next]_vars => RetryAccounting'
<1> SUFFICES ASSUME OutboxInv, TypeOK', [Next]_vars PROVE RetryAccounting'
  OBVIOUS
<1> USE DEF OutboxInv, TypeOK, InTransaction, row_vars, op_vars, LockDiscipline, RetryAccounting
<1>0. \A w \in Workers : wpc[w] # "idle" => claim[w] \in Rows
  BY DEF LockDiscipline
<1>1. ASSUME NEW r \in Rows, Enqueue(r) \/ RetryDue(r) PROVE RetryAccounting'
  BY <1>0, <1>1 DEF Enqueue, RetryDue
<1>2. ASSUME NEW w \in Workers, WorkerStep(w) \/ Crash(w) PROVE RetryAccounting'
  <2>1. CASE Claim(w)
    BY <1>0, <2>1 DEF Claim, Claimable
  <2>2. CASE Poll(w)
    BY Zenon, <2>2 DEF Poll, vars
  <2>3. CASE PublishConfirmed(w)
    BY Zenon, <1>0, <2>3 DEF PublishConfirmed
  <2>4. CASE PublishRaises(w)
    BY Zenon, <1>0, <2>4 DEF PublishRaises
  <2>5. CASE CommitPublished(w)
    BY <1>0, <2>5 DEF CommitPublished
  <2>6. CASE CommitFailure(w)
    BY <1>0, <2>6, AttemptsAssumption DEF CommitFailure, LastAttempt
  <2>7. CASE Diagnose(w)
    BY Zenon, <1>0, <2>7 DEF Diagnose
  <2>8. CASE Crash(w)
    BY Zenon, <1>0, <2>8 DEF Crash
  <2> QED BY Zenon, <1>2, <2>1, <2>2, <2>3, <2>4, <2>5, <2>6, <2>7, <2>8 DEF WorkerStep
<1>3. ASSUME NEW o \in Operators, SelectForRetry(o) \/ OperatorStep(o) PROVE RetryAccounting'
  <2>1. CASE SelectForRetry(o)
    BY Zenon, <2>1 DEF SelectForRetry, Retryable, Held
  <2>2. CASE FlushReset(o)
    BY Zenon, <2>2 DEF FlushReset, Held
  <2>3. CASE CommitReset(o)
    <3> SUFFICES ASSUME NEW r \in Rows PROVE RetryAccounting!(r)'
      BY Zenon
    <3>1. CASE r \in picked[o]
      BY Zenon, <2>3, <3>1 DEF CommitReset
    <3>2. CASE r \notin picked[o]
      <4>0. had_retry[o] \subseteq picked[o]
        BY Zenon DEF LockDiscipline
      <4>1. r \notin had_retry[o]
        BY Zenon, <3>2, <4>0
      <4> QED BY Zenon, <2>3, <3>2, <4>1 DEF CommitReset
    <3> QED BY Zenon, <3>1, <3>2
  <2>4. CASE AbortReset(o)
    BY Zenon, <2>4 DEF AbortReset
  <2> QED BY Zenon, <1>3, <2>1, <2>2, <2>3, <2>4 DEF OperatorStep
<1>4. CASE UNCHANGED vars
  BY Zenon, <1>4 DEF vars
<1> QED BY Zenon, <1>1, <1>2, <1>3, <1>4 DEF Next

\* Every step marks a row published only after the broker confirmed it.
LEMMA BrokerStep == OutboxInv /\ TypeOK' /\ [Next]_vars => PublishedReachedBroker'
<1> SUFFICES ASSUME OutboxInv, TypeOK', [Next]_vars PROVE PublishedReachedBroker'
  OBVIOUS
<1> USE DEF OutboxInv, TypeOK, InTransaction, row_vars, op_vars, LockDiscipline, PublishedReachedBroker, Sending
<1>0. \A w \in Workers : wpc[w] # "idle" => claim[w] \in Rows
  BY DEF LockDiscipline
<1>1. ASSUME NEW r \in Rows, Enqueue(r) \/ RetryDue(r) PROVE PublishedReachedBroker'
  BY <1>0, <1>1 DEF Enqueue, RetryDue
<1>2. ASSUME NEW w \in Workers, WorkerStep(w) \/ Crash(w) PROVE PublishedReachedBroker'
  <2>1. CASE Claim(w)
    BY <1>0, <2>1 DEF Claim, Claimable
  <2>2. CASE Poll(w)
    BY <2>2 DEF Poll, vars
  <2>3. CASE PublishConfirmed(w)
    BY <1>0, <2>3 DEF PublishConfirmed
  <2>4. CASE PublishRaises(w)
    BY <1>0, <2>4 DEF PublishRaises
  <2>5. CASE CommitPublished(w)
    BY <1>0, <2>5 DEF CommitPublished
  <2>6. CASE CommitFailure(w)
    BY <1>0, <2>6 DEF CommitFailure, LastAttempt
  <2>7. CASE Diagnose(w)
    BY <1>0, <2>7 DEF Diagnose
  <2>8. CASE Crash(w)
    BY <1>0, <2>8 DEF Crash
  <2> QED BY Zenon, <1>2, <2>1, <2>2, <2>3, <2>4, <2>5, <2>6, <2>7, <2>8 DEF WorkerStep
<1>3. ASSUME NEW o \in Operators, SelectForRetry(o) \/ OperatorStep(o) PROVE PublishedReachedBroker'
  <2>1. CASE SelectForRetry(o)
    BY <2>1 DEF SelectForRetry, Retryable, Held
  <2>2. CASE FlushReset(o)
    BY <2>2 DEF FlushReset, Held
  <2>3. CASE CommitReset(o)
    BY <2>3 DEF CommitReset, Held
  <2>4. CASE AbortReset(o)
    BY <2>4 DEF AbortReset
  <2> QED BY Zenon, <1>3, <2>1, <2>2, <2>3, <2>4 DEF OperatorStep
<1>4. CASE UNCHANGED vars
  BY <1>4 DEF vars
<1> QED BY Zenon, <1>1, <1>2, <1>3, <1>4 DEF Next

\* Every step that adds a copy at the broker has its cause recorded.
LEMMA DuplicatesStep == OutboxInv /\ TypeOK' /\ [Next]_vars => DuplicatesOnlyFromFaults'
<1> SUFFICES ASSUME OutboxInv, TypeOK', [Next]_vars PROVE DuplicatesOnlyFromFaults'
  OBVIOUS
<1> USE DEF OutboxInv, TypeOK, InTransaction, row_vars, op_vars, LockDiscipline, DuplicatesOnlyFromFaults, Sending
<1>0. \A w \in Workers : wpc[w] # "idle" => claim[w] \in Rows
  BY DEF LockDiscipline
<1>1. ASSUME NEW r \in Rows, Enqueue(r) \/ RetryDue(r) PROVE DuplicatesOnlyFromFaults'
  BY <1>0, <1>1 DEF Enqueue, RetryDue
<1>2. ASSUME NEW w \in Workers, WorkerStep(w) \/ Crash(w) PROVE DuplicatesOnlyFromFaults'
  <2>1. CASE Claim(w)
    BY <1>0, <2>1 DEF Claim, Claimable
  <2>2. CASE Poll(w)
    BY <2>2 DEF Poll, vars
  <2>3. CASE PublishConfirmed(w)
    BY <1>0, <2>3 DEF PublishConfirmed
  <2>4. CASE PublishRaises(w)
    BY <1>0, <2>4 DEF PublishRaises
  <2>5. CASE CommitPublished(w)
    BY <1>0, <2>5 DEF CommitPublished
  <2>6. CASE CommitFailure(w)
    BY <1>0, <2>6 DEF CommitFailure, LastAttempt
  <2>7. CASE Diagnose(w)
    BY <1>0, <2>7 DEF Diagnose
  <2>8. CASE Crash(w)
    BY <1>0, <2>8 DEF Crash
  <2> QED BY Zenon, <1>2, <2>1, <2>2, <2>3, <2>4, <2>5, <2>6, <2>7, <2>8 DEF WorkerStep
<1>3. ASSUME NEW o \in Operators, SelectForRetry(o) \/ OperatorStep(o) PROVE DuplicatesOnlyFromFaults'
  <2>1. CASE SelectForRetry(o)
    BY <2>1 DEF SelectForRetry, Retryable, Held
  <2>2. CASE FlushReset(o)
    BY <2>2 DEF FlushReset, Held
  <2>3. CASE CommitReset(o)
    BY <2>3 DEF CommitReset, Held
  <2>4. CASE AbortReset(o)
    BY <2>4 DEF AbortReset
  <2> QED BY Zenon, <1>3, <2>1, <2>2, <2>3, <2>4 DEF OperatorStep
<1>4. CASE UNCHANGED vars
  BY <1>4 DEF vars
<1> QED BY Zenon, <1>1, <1>2, <1>3, <1>4 DEF Next

\* The invariant holds in every reachable state.
LEMMA OutboxInductive == Spec => []OutboxInv
<1>1. OutboxInv /\ [Next]_vars => OutboxInv'
  BY Zenon, RowTypeStep, RowLockStep, AccountingStep, BrokerStep, DuplicatesStep DEF OutboxInv
<1> QED BY InitOutbox, <1>1, PTL DEF Spec

\* A row is changed by one transaction at a time: the row lock FOR UPDATE SKIP
\* LOCKED takes stays the worker's until its commit or rollback.
THEOREM OutboxLocking == Spec => [](TypeOK /\ LockDiscipline)
  BY OutboxInductive, PTL DEF OutboxInv

\* At-least-once and no unexplained duplicate, and retry bookkeeping that agrees with
\* the status, for any number of workers and any max_attempts, under any
\* interleaving with stale manual retries.
THEOREM OutboxTruthful == Spec => []RowsTruthful
  BY OutboxInductive, PTL DEF OutboxInv, RowsTruthful, DeliveryExplained

-----------------------------------------------------------------------------
(***************************************************************************)
(* The tables of messages.                                                 *)
(*                                                                         *)
(* The argument: what an open transaction has read is still so (Read), because *)
(* transactions that are open together are compatible (Exclusive): the locks do *)
(* their work.                                                             *)
(***************************************************************************)

data == <<last_seq_id, messages, pins, reactions, seen, row_event, reaction_event, answers>>

\* What the transaction t read is what the database holds.
Read(t) ==
  /\ t.op = "publish" => /\ t.last = last_seq_id
                         /\ t.user \in Users /\ t.client \in ClientIds \cup {Unset}
                         /\ t.reply \in Nat
  /\ t.op \in MessageOps => /\ t.msg \in DOMAIN messages
                            /\ t.row = messages[t.msg]
                            /\ t.old = ReactionsOf(t.msg)
                            /\ t.pin <=> t.msg \in pins
                            /\ t.op \notin {"delete", "pin", "unpin"} => ~t.row.deleted
                            /\ t.op \in {"react", "unreact"} =>
                                 t.user \in Users /\ t.emoji \in Emojis
  /\ t.op = "seen" => /\ t.user \in Users
                      /\ t.seq \in 0..last_seq_id
                      /\ t.state = seen[t.user]

\* Two transactions whose locks do not conflict.
Compatible(a, b) ==
  /\ a.op # "publish" /\ b.op # "publish"
  /\ a.op \in MessageOps /\ b.op \in MessageOps => a.msg # b.msg
  /\ a.op = "seen" /\ b.op = "seen" => a.user # b.user

Exclusive == \A r, s \in Active : r # s => Compatible(tx[r], tx[s])

ReadsCurrent == \A r \in Active : Read(tx[r])

\* A client_msg_id of a user names one message, and an answer an existing one.
Identified ==
  /\ \A m, n \in DOMAIN messages :
       messages[m].client # Unset /\ messages[m].client = messages[n].client =>
         (messages[m].sender = messages[n].sender => m = n)
  /\ \A a \in answers : a[3] \in DOMAIN messages

DInv ==
  /\ MessagesTypeOK
  /\ SeqContiguous
  /\ LastRowCurrent
  /\ PinsMatchFlags
  /\ RetriesIdempotent
  /\ Identified
  /\ ReactionVarietyBounded

IInv == DInv /\ Exclusive /\ ReadsCurrent

\* The invariant holds of an empty channel.
LEMMA InitIInv == MessagesInit => IInv
<1> SUFFICES ASSUME MessagesInit PROVE IInv
  BY Zenon
<1> USE MessagesConstants DEF MessagesInit
<1>1. DOMAIN messages = {} /\ DOMAIN row_event = {} /\ DOMAIN reaction_event = {}
  OBVIOUS
<1>2. Active = {}
  BY Zenon DEF Active
<1>3. MessagesTypeOK
  BY Zenon, <1>1 DEF MessagesTypeOK
<1>4. SeqContiguous
  BY <1>1 DEF SeqContiguous
<1>5. LastRowCurrent /\ PinsMatchFlags /\ ReactionVarietyBounded /\ RetriesIdempotent
  BY Zenon, <1>1 DEF LastRowCurrent, PinsMatchFlags, ReactionVarietyBounded, RetriesIdempotent
<1>6. Identified
  BY Zenon, <1>1 DEF Identified
<1>7. Exclusive /\ ReadsCurrent
  BY Zenon, <1>2 DEF Exclusive, ReadsCurrent
<1> QED BY Zenon, <1>3, <1>4, <1>5, <1>6, <1>7 DEF IInv, DInv

-----------------------------------------------------------------------------
(* Steps that write nothing *)

\* A step that leaves the tables alone keeps what is said of them.
LEMMA DataFrame ==
  ASSUME DInv, UNCHANGED data, DOMAIN tx' = Requests
  PROVE  DInv'
<1> USE DEF data, DInv
<1>1. MessagesTypeOK'
  BY Zenon DEF MessagesTypeOK, Row
<1>2. SeqContiguous' /\ PinsMatchFlags' /\ RetriesIdempotent' /\ Identified'
  BY Zenon DEF SeqContiguous, PinsMatchFlags, RetriesIdempotent, Identified
<1>3. LastRowCurrent' /\ ReactionVarietyBounded'
  BY Zenon DEF LastRowCurrent, ReactionVarietyBounded, ReactionsOf, Distinct
<1> QED BY Zenon, <1>1, <1>2, <1>3

\* What a request read is still so while the tables stand.
LEMMA ReadFrame ==
  ASSUME UNCHANGED data, NEW t
  PROVE  Read(t)' <=> Read(t)
BY Zenon DEF data, Read, ReactionsOf

\* A transaction starts that fits the open ones.
LEMMA BeginStep ==
  ASSUME IInv, NEW r \in Requests, NEW t, Begin(r, t), UNCHANGED data, Read(t),
         \A s \in Active : Compatible(t, tx[s])
  PROVE  IInv'
<1>1. DOMAIN tx = Requests /\ tx[r] = Unset /\ tx' = [tx EXCEPT ![r] = t]
  BY Zenon DEF IInv, DInv, MessagesTypeOK, Begin
<1>2. DInv'
  BY Zenon, <1>1, DataFrame DEF IInv
<1>3. /\ tx'[r] = t
      /\ \A s \in Requests : s # r => tx'[s] = tx[s]
      /\ Active' \subseteq Active \cup {r} /\ r \notin Active
  BY Zenon, <1>1 DEF Active
<1>4. Exclusive'
  <2> SUFFICES ASSUME NEW p \in Active', NEW q \in Active', p # q
               PROVE  Compatible(tx'[p], tx'[q])
    BY Zenon DEF Exclusive, Compatible
  <2>1. \A s \in Active : Compatible(tx[s], t)
    BY Zenon DEF Compatible
  <2>2. p \in Requests /\ q \in Requests
    BY Zenon, <1>3 DEF Active
  <2>3. CASE p = r
    BY Zenon, <1>3, <2>2, <2>3
  <2>4. CASE q = r
    BY Zenon, <1>3, <2>1, <2>2, <2>4
  <2>5. CASE p # r /\ q # r
    BY Zenon, <1>3, <2>2, <2>5 DEF IInv, Exclusive
  <2> QED BY Zenon, <2>3, <2>4, <2>5
<1>5. ReadsCurrent'
  <2> SUFFICES ASSUME NEW q \in Active'
               PROVE  Read(tx[q])'
    BY Zenon DEF ReadsCurrent
  <2>1. PICK w : w = tx'[q]
    BY Zenon
  <2>2. Read(w)
    BY Zenon, <1>3, <2>1 DEF IInv, ReadsCurrent, Active
  <2>3. Read(w)'
    BY Zenon, <2>2, ReadFrame
  <2> QED BY Zenon, <2>1, <2>3 DEF Read
<1> QED BY Zenon, <1>2, <1>4, <1>5 DEF IInv

\* Locking the channel keeps the invariant.
LEMMA PublishBeginStep ==
  ASSUME IInv, NEW r \in Requests, NEW u \in Users, NEW k \in ClientIds \cup {Unset},
         NEW n \in 0..MaxMessages, PublishBegin(r, u, k, n)
  PROVE  IInv'
<1> DEFINE t == [op |-> "publish", user |-> u, client |-> k, reply |-> n, last |-> last_seq_id]
<1>1. Begin(r, t) /\ UNCHANGED data /\ Active = {}
  BY Zenon DEF PublishBegin, data, ChannelFree
<1>2. Read(t)
  BY MessagesConstants DEF Read, MessageOps
<1>3. PICK w : w = t
  BY Zenon
<1> QED BY Zenon, <1>1, <1>2, <1>3, BeginStep

\* Locking a message keeps it.
LEMMA LockMessageStep ==
  ASSUME IInv, NEW r \in Requests, NEW op \in MessageOps, NEW u \in Users, NEW m \in Seqs,
         NEW e \in Emojis \cup {Unset}, LockMessage(r, op, u, m, e)
  PROVE  IInv'
<1> DEFINE t == [op |-> op, user |-> u, msg |-> m, emoji |-> e, row |-> messages[m],
                 old |-> ReactionsOf(m), pin |-> m \in pins]
<1>1. Begin(r, t) /\ UNCHANGED data
  BY Zenon DEF LockMessage, data
<1>2. op # "publish" /\ op # "seen"
  BY Zenon DEF MessageOps
<1>3. Read(t)
  BY <1>2, Zenon DEF LockMessage, Read
<1>4. ASSUME NEW s \in Active
      PROVE  Compatible(t, tx[s])
  BY Zenon, <1>2, <1>4 DEF LockMessage, ChannelShareable, MessageFree, Compatible
<1> QED BY Zenon, <1>1, <1>3, <1>4, BeginStep

\* Locking a membership keeps it.
LEMMA LockSeenStep ==
  ASSUME IInv, NEW r \in Requests, NEW u \in Users, NEW n \in 0..MaxMessages, LockSeen(r, u, n)
  PROVE  IInv'
<1> DEFINE t == [op |-> "seen", user |-> u, seq |-> n, state |-> seen[u]]
<1>1. Begin(r, t) /\ UNCHANGED data /\ n <= last_seq_id
  BY Zenon DEF LockSeen, data
<1>2. Read(t)
  <2>1. t.op = "seen" /\ t.user = u /\ t.seq = n /\ t.state = seen[u]
    BY Zenon
  <2>2. n \in 0..last_seq_id
    BY <1>1 DEF IInv, DInv, SeqContiguous
  <2> QED BY Zenon, <2>1, <2>2 DEF Read, MessageOps
<1>3. ASSUME NEW s \in Active
      PROVE  Compatible(t, tx[s])
  BY Zenon, <1>3 DEF LockSeen, ChannelShareable, MembershipFree, Compatible, MessageOps
<1> QED BY Zenon, <1>1, <1>2, <1>3, BeginStep

-----------------------------------------------------------------------------
(* Steps that end a transaction *)

\* The open transactions stay compatible, and what they read stays true as long as
\* the write respects what is compatible with its transaction.
LEMMA EndStep ==
  ASSUME IInv, NEW r \in Requests, tx[r] # Unset, End(r), DInv',
         \A t : Read(t) /\ Compatible(tx[r], t) => Read(t)'
  PROVE  IInv'
<1>1. DOMAIN tx = Requests /\ tx' = [tx EXCEPT ![r] = Unset]
  BY Zenon DEF IInv, DInv, MessagesTypeOK, End
<1>2. /\ \A s \in Active' : s # r /\ s \in Active /\ tx'[s] = tx[s]
      /\ r \in Active
  BY Zenon, <1>1 DEF Active
<1>3. Exclusive'
  <2> SUFFICES ASSUME NEW p \in Active', NEW q \in Active', p # q
               PROVE  Compatible(tx'[p], tx'[q])
    BY Zenon DEF Exclusive, Compatible
  <2> QED BY Zenon, <1>2 DEF IInv, Exclusive
<1>4. ReadsCurrent'
  <2> SUFFICES ASSUME NEW q \in Active'
               PROVE  Read(tx[q])'
    BY Zenon DEF ReadsCurrent
  <2>1. PICK w : w = tx'[q]
    BY Zenon
  <2>2. Read(w) /\ Compatible(tx[r], w)
    BY Zenon, <1>2, <2>1 DEF IInv, ReadsCurrent, Exclusive
  <2>3. Read(w)'
    BY Zenon, <2>2
  <2> QED BY Zenon, <2>1, <2>3 DEF Read
<1> QED BY Zenon, <1>3, <1>4 DEF IInv

\* Ending a transaction leaves one slot for every request.
LEMMA EndDomain ==
  ASSUME IInv, NEW r, End(r)
  PROVE  DOMAIN tx' = Requests
BY Zenon DEF IInv, DInv, MessagesTypeOK, End

\* A refused request, an error, a second delete.
LEMMA NoWriteStep ==
  ASSUME IInv, NEW r \in Requests, tx[r] # Unset, End(r), UNCHANGED data
  PROVE  IInv'
<1>1. DInv'
  BY Zenon, EndDomain, DataFrame DEF IInv
<1>2. \A t : Read(t) /\ Compatible(tx[r], t) => Read(t)'
  BY Zenon, ReadFrame
<1> QED BY Zenon, <1>1, <1>2, EndStep

\* Answering a retry changes no table.
LEMMA PublishExistingStep ==
  ASSUME IInv, NEW r \in Requests, PublishExisting(r)
  PROVE  IInv'
<1>1. /\ tx[r] # Unset /\ tx[r].op = "publish" /\ End(r)
      /\ UNCHANGED <<last_seq_id, messages, pins, reactions, seen, row_event, reaction_event>>
  BY Zenon DEF PublishExisting
<1>2. PICK m \in Earlier(tx[r].user, tx[r].client) :
        answers' = answers \cup {<<tx[r].user, tx[r].client, m>>}
  BY Zenon DEF PublishExisting
<1>3. /\ m \in DOMAIN messages /\ tx[r].client # Unset
      /\ messages[m].sender = tx[r].user /\ messages[m].client = tx[r].client
  BY Zenon, <1>2 DEF Earlier
<1>4. MessagesTypeOK'
  BY Zenon, <1>1, EndDomain DEF IInv, DInv, MessagesTypeOK, Row
<1>5. SeqContiguous' /\ PinsMatchFlags'
  BY Zenon, <1>1 DEF IInv, DInv, SeqContiguous, PinsMatchFlags
<1>6. LastRowCurrent' /\ ReactionVarietyBounded'
  BY Zenon, <1>1 DEF IInv, DInv, LastRowCurrent, ReactionVarietyBounded, ReactionsOf, Distinct
<1> DEFINE new == <<tx[r].user, tx[r].client, m>>
<1>7. Identified'
  <2>1. \A a \in answers' : a \in answers \/ a = new
    BY Zenon, <1>2
  <2>2. new[3] = m
    BY Zenon
  <2> HIDE DEF new
  <2> QED BY Zenon, <1>1, <1>3, <2>1, <2>2 DEF IInv, DInv, Identified
<1>8. RetriesIdempotent'
  <2>1. ASSUME NEW a \in answers', a[2] # Unset
        PROVE  a[3] \in DOMAIN messages /\ messages[a[3]].sender = a[1] /\ messages[a[3]].client = a[2]
    <3>1. CASE a \in answers
      BY Zenon, <2>1, <3>1 DEF IInv, DInv, Identified, RetriesIdempotent
    <3>2. CASE a = new
      BY Zenon, <1>3, <3>2
    <3> QED BY Zenon, <1>2, <3>1, <3>2
  <2>2. ASSUME NEW a \in answers', NEW b \in answers', a[2] # Unset, b[1] = a[1], b[2] = a[2]
        PROVE  b[3] = a[3]
    BY Zenon, <2>1, <2>2 DEF IInv, DInv, Identified
  <2> QED BY Zenon, <1>1, <2>1, <2>2 DEF RetriesIdempotent
<1>9. \A t : Read(t) /\ Compatible(tx[r], t) => Read(t)'
  BY Zenon, <1>1 DEF Compatible
<1> QED BY Zenon, <1>1, <1>4, <1>5, <1>6, <1>7, <1>8, <1>9, EndStep DEF DInv

\* One more number at the end of an interval.
LEMMA NextInterval == \A n \in Nat : 1..(n + 1) = (1..n) \cup {n + 1}
OBVIOUS

\* A new message takes the next seq_id, which nobody else can have taken.
LEMMA CommitPublishStep ==
  ASSUME IInv, NEW r \in Requests, CommitPublish(r)
  PROVE  IInv'
<1> DEFINE seq == last_seq_id + 1
           row == [sender |-> tx[r].user, client |-> tx[r].client, reply |-> tx[r].reply,
                   edits |-> 0, deleted |-> FALSE, pinned |-> FALSE]
<1>1. tx[r] # Unset /\ tx[r].op = "publish" /\ End(r) /\ UNCHANGED <<pins, reactions, seen>>
  BY Zenon DEF CommitPublish
<1>2. Read(tx[r])
  BY Zenon, <1>1 DEF IInv, ReadsCurrent, Active
<1>3. /\ tx[r].last = last_seq_id /\ tx[r].user \in Users
      /\ tx[r].client \in ClientIds \cup {Unset} /\ tx[r].reply \in Nat
  BY Zenon, <1>1, <1>2 DEF Read
<1>4. PICK q : q = seq
  BY Zenon
<1>5. /\ q \notin DOMAIN messages /\ last_seq_id' = q
      /\ messages' = [m \in DOMAIN messages \cup {q} |-> IF m = q THEN row ELSE messages[m]]
      /\ row_event' = [m \in DOMAIN row_event \cup {q} |-> IF m = q THEN row ELSE row_event[m]]
      /\ reaction_event' = [m \in DOMAIN reaction_event \cup {q} |->
                              IF m = q THEN {} ELSE reaction_event[m]]
      /\ answers' = answers \cup {<<tx[r].user, tx[r].client, q>>}
  BY Zenon, <1>3, <1>4 DEF CommitPublish
<1>6. last_seq_id \in Nat /\ q \in Nat /\ q = last_seq_id + 1
  BY <1>4 DEF IInv, DInv, MessagesTypeOK
<1>7. row \in Row
  BY Zenon, <1>3 DEF Row
<1>8. SeqContiguous'
  <2>1. DOMAIN messages = 1..last_seq_id /\ DOMAIN messages' = DOMAIN messages \cup {q}
    BY Zenon, <1>5 DEF IInv, DInv, SeqContiguous
  <2>2. 1..q = (1..last_seq_id) \cup {q}
    BY Zenon, <1>6, NextInterval
  <2> QED BY Zenon, <1>5, <2>1, <2>2 DEF SeqContiguous
<1>9. MessagesTypeOK'
  <2>1. /\ DOMAIN messages' = DOMAIN messages \cup {q}
        /\ DOMAIN row_event' = DOMAIN messages' /\ DOMAIN reaction_event' = DOMAIN messages'
    BY Zenon, <1>5 DEF IInv, DInv, MessagesTypeOK
  <2>2. \A m \in DOMAIN messages' : messages'[m] \in Row
    BY Zenon, <1>5, <1>7, <2>1 DEF IInv, DInv, MessagesTypeOK
  <2>3. seen' \in [Users -> (0..last_seq_id') \cup {Unset}]
    <3>1. 0..last_seq_id \subseteq 0..q /\ last_seq_id' = q
      BY <1>5, <1>6
    <3> QED BY Zenon, <1>1, <3>1 DEF IInv, DInv, MessagesTypeOK
  <2>4. reactions' \subseteq (DOMAIN messages') \X Users \X Emojis
    BY Zenon, <1>1, <2>1 DEF IInv, DInv, MessagesTypeOK
  <2>5. DOMAIN tx' = Requests
    BY Zenon, <1>1, EndDomain
  <2> QED BY <1>1, <1>5, <1>6, <2>1, <2>2, <2>3, <2>4, <2>5, ZenonT(30) DEF IInv, DInv, MessagesTypeOK, Row
<1>10. ReactionsOf(q) = {} /\ q \notin pins
  BY Zenon, <1>5 DEF IInv, DInv, MessagesTypeOK, ReactionsOf
<1>11. \A m : ReactionsOf(m)' = ReactionsOf(m)
  BY Zenon, <1>1 DEF ReactionsOf
<1>12. LastRowCurrent'
  BY Zenon, <1>5, <1>10, <1>11 DEF IInv, DInv, MessagesTypeOK, LastRowCurrent
<1>13. PinsMatchFlags'
  BY Zenon, <1>1, <1>5, <1>10 DEF IInv, DInv, PinsMatchFlags
<1>14. Identified'
  <2>1. \A m \in DOMAIN messages :
          tx[r].client # Unset => ~(messages[m].sender = tx[r].user /\ messages[m].client = tx[r].client)
    BY Zenon DEF CommitPublish, Earlier
  <2>2. /\ DOMAIN messages' = DOMAIN messages \cup {q} /\ messages'[q] = row
        /\ \A m \in DOMAIN messages : messages'[m] = messages[m]
    BY Zenon, <1>5
  <2>3. \A a \in answers' : a[3] \in DOMAIN messages'
    <3> SUFFICES ASSUME NEW a \in answers' PROVE a[3] \in DOMAIN messages'
      BY Zenon
    <3>1. CASE a \in answers
      BY Zenon, <2>2, <3>1 DEF IInv, DInv, Identified
    <3>2. CASE a = <<tx[r].user, tx[r].client, q>>
      BY Zenon, <2>2, <3>2
    <3> QED BY Zenon, <1>5, <3>1, <3>2
  <2>4. row.sender = tx[r].user /\ row.client = tx[r].client
    BY Zenon
  <2>5. ASSUME NEW k \in DOMAIN messages', NEW n \in DOMAIN messages', messages'[k].client # Unset,
               messages'[k].client = messages'[n].client, messages'[k].sender = messages'[n].sender
        PROVE  k = n
    <3>1. CASE k \in DOMAIN messages /\ n \in DOMAIN messages
      BY Zenon, <2>2, <2>5, <3>1 DEF IInv, DInv, Identified
    <3>2. CASE k = q /\ n \in DOMAIN messages
      BY Zenon, <2>1, <2>2, <2>4, <2>5, <3>2
    <3>3. CASE n = q /\ k \in DOMAIN messages
      BY Zenon, <2>1, <2>2, <2>4, <2>5, <3>3
    <3> QED BY Zenon, <2>2, <3>1, <3>2, <3>3
  <2> QED BY Zenon, <2>3, <2>5 DEF Identified
<1>15. RetriesIdempotent'
  <2>1. \A a \in answers : a[3] \in DOMAIN messages /\ messages'[a[3]] = messages[a[3]]
    BY Zenon, <1>5 DEF IInv, DInv, Identified
  <2>2. \A a \in answers : a[2] # Unset => ~(a[1] = tx[r].user /\ a[2] = tx[r].client)
    BY <2>1, ZenonT(30) DEF IInv, DInv, RetriesIdempotent, CommitPublish, Earlier
  <2> DEFINE new == <<tx[r].user, tx[r].client, q>>
  <2>3. new[1] = tx[r].user /\ new[2] = tx[r].client /\ new[3] = q
    BY Zenon
  <2>4. messages'[q].sender = tx[r].user /\ messages'[q].client = tx[r].client
    BY Zenon, <1>5
  <2> HIDE DEF new
  <2>5. \A a \in answers' : a \in answers \/ a = new
    BY Zenon, <1>5 DEF new
  <2> SUFFICES ASSUME NEW a \in answers', a[2] # Unset
               PROVE  /\ messages'[a[3]].sender = a[1] /\ messages'[a[3]].client = a[2]
                      /\ \A b \in answers' : b[1] = a[1] /\ b[2] = a[2] => b[3] = a[3]
    BY Zenon DEF RetriesIdempotent
  <2>6. CASE a \in answers
    BY Zenon, <2>1, <2>2, <2>3, <2>5, <2>6 DEF IInv, DInv, RetriesIdempotent
  <2>7. CASE a = new
    BY Zenon, <2>2, <2>3, <2>4, <2>5, <2>7
  <2> QED BY Zenon, <2>5, <2>6, <2>7
<1>16. ReactionVarietyBounded'
  <2>1. Distinct(ReactionsOf(q)) = {} /\ Cardinality({}) = 0
    BY Zenon, <1>10, FS_EmptySet DEF Distinct
  <2>2. \A m : Distinct(ReactionsOf(m))' = Distinct(ReactionsOf(m))
    BY Zenon, <1>11 DEF Distinct
  <2> SUFFICES ASSUME NEW m \in DOMAIN messages'
               PROVE  Cardinality(Distinct(ReactionsOf(m))') <= MaxDistinct
    BY Zenon DEF ReactionVarietyBounded
  <2>3. CASE m = q
    BY <2>1, <2>2, <2>3, MessagesConstants
  <2>4. CASE m \in DOMAIN messages
    BY Zenon, <2>2, <2>4 DEF IInv, DInv, ReactionVarietyBounded
  <2> QED BY Zenon, <1>5, <2>3, <2>4
<1>17. \A t : Read(t) /\ Compatible(tx[r], t) => Read(t)'
  BY Zenon, <1>1 DEF Compatible
<1> QED BY Zenon, <1>1, <1>8, <1>9, <1>12, <1>13, <1>14, <1>15, <1>16, <1>17, EndStep DEF DInv

\* The row a message handler read is the current one, so its new row and the outbox
\* row are equal, and nobody else has the message open.
LEMMA WriteMessageStep ==
  ASSUME IInv, NEW r \in Requests, tx[r] # Unset, tx[r].op \in MessageOps, NEW m, m = tx[r].msg,
         NEW row \in Row, messages' = [messages EXCEPT ![m] = row], row_event' = [row_event EXCEPT ![m] = row],
         End(r), UNCHANGED <<last_seq_id, reactions, seen, reaction_event, answers>>,
         row.sender = messages[m].sender, row.client = messages[m].client,
         pins' \subseteq DOMAIN messages, \A n : n # m => (n \in pins' <=> n \in pins),
         row.pinned <=> m \in pins'
  PROVE  IInv'
<1>1. m \in DOMAIN messages
  BY Zenon DEF IInv, ReadsCurrent, Active, Read
<1>2. /\ DOMAIN messages' = DOMAIN messages /\ messages'[m] = row
      /\ DOMAIN row_event' = DOMAIN messages /\ row_event'[m] = row
      /\ \A n \in DOMAIN messages : n # m => messages'[n] = messages[n] /\ row_event'[n] = row_event[n]
  BY Zenon, <1>1 DEF IInv, DInv, MessagesTypeOK
<1>3. MessagesTypeOK'
  <2>1. \A n \in DOMAIN messages' : messages'[n] \in Row
    BY Zenon, <1>2 DEF IInv, DInv, MessagesTypeOK
  <2>2. DOMAIN tx' = Requests
    BY Zenon, EndDomain
  <2> QED BY Zenon, <1>2, <2>1, <2>2 DEF IInv, DInv, MessagesTypeOK, Row
<1>4. SeqContiguous'
  BY Zenon, <1>2 DEF IInv, DInv, SeqContiguous
<1>5. \A n : ReactionsOf(n)' = ReactionsOf(n)
  BY Zenon DEF ReactionsOf
<1>6. LastRowCurrent'
  <2> SUFFICES ASSUME NEW n \in DOMAIN messages'
               PROVE  row_event'[n] = messages'[n] /\ reaction_event'[n] = ReactionsOf(n)'
    BY Zenon DEF LastRowCurrent
  <2> QED BY Zenon, <1>2, <1>5 DEF IInv, DInv, LastRowCurrent
<1>7. PinsMatchFlags'
  BY Zenon, <1>2 DEF IInv, DInv, PinsMatchFlags
<1>8. \A n \in DOMAIN messages : messages'[n].sender = messages[n].sender /\ messages'[n].client = messages[n].client
  BY Zenon, <1>2
<1>9. Identified'
  <2>1. \A a \in answers' : a[3] \in DOMAIN messages'
    BY Zenon, <1>2 DEF IInv, DInv, Identified
  <2> SUFFICES ASSUME NEW k \in DOMAIN messages, NEW n \in DOMAIN messages,
                      messages'[k].client # Unset, messages'[k].client = messages'[n].client,
                      messages'[k].sender = messages'[n].sender
               PROVE  k = n
    BY Zenon, <1>2, <2>1 DEF Identified
  <2>2. /\ messages[k].client # Unset /\ messages[k].client = messages[n].client
        /\ messages[k].sender = messages[n].sender
    BY Zenon, <1>8
  <2> QED BY Zenon, <2>2 DEF IInv, DInv, Identified
<1>10. RetriesIdempotent'
  <2>1. \A a \in answers : /\ messages'[a[3]].sender = messages[a[3]].sender
                            /\ messages'[a[3]].client = messages[a[3]].client
    BY Zenon, <1>8 DEF IInv, DInv, Identified
  <2> QED BY Zenon, <2>1 DEF IInv, DInv, RetriesIdempotent
<1>11. ReactionVarietyBounded'
  <2> SUFFICES ASSUME NEW n \in DOMAIN messages'
               PROVE  Cardinality(Distinct(ReactionsOf(n))') <= MaxDistinct
    BY Zenon DEF ReactionVarietyBounded
  <2>1. Distinct(ReactionsOf(n))' = Distinct(ReactionsOf(n))
    BY Zenon, <1>5 DEF Distinct
  <2> QED BY Zenon, <1>2, <2>1 DEF IInv, DInv, ReactionVarietyBounded
<1>12. ASSUME NEW t, Read(t), Compatible(tx[r], t)
       PROVE  Read(t)'
  <2>1. t.op # "publish" /\ (t.op \in MessageOps => t.msg # m)
    BY Zenon, <1>12 DEF Compatible
  <2>2. t.op \in MessageOps => t.msg \in DOMAIN messages /\ messages'[t.msg] = messages[t.msg]
    BY Zenon, <1>2, <1>12, <2>1 DEF Read
  <2> QED BY Zenon, <1>2, <1>5, <1>12, <2>1, <2>2 DEF Read
<1> QED BY Zenon, <1>3, <1>4, <1>6, <1>7, <1>9, <1>10, <1>11, <1>12, EndStep DEF DInv

\* The handlers of one message keep the invariant.
LEMMA MessageHandlerStep ==
  ASSUME IInv, NEW r \in Requests,
         EditMessage(r) \/ DeleteMessage(r) \/ PinMessage(r) \/ UnpinMessage(r)
  PROVE  IInv'
<1>0. tx[r] # Unset /\ tx[r].op \in {"edit", "delete", "pin", "unpin"}
  BY Zenon DEF EditMessage, DeleteMessage, PinMessage, UnpinMessage
<1>1. PICK m : m = tx[r].msg
  BY Zenon
<1>2. /\ m \in DOMAIN messages /\ tx[r].row = messages[m] /\ (tx[r].pin <=> m \in pins)
      /\ tx[r].op \in MessageOps
  BY Zenon, <1>0, <1>1 DEF IInv, ReadsCurrent, Active, Read, MessageOps
<1>3. /\ messages[m] \in Row /\ (messages[m].pinned <=> m \in pins) /\ row_event[m] = messages[m]
      /\ pins \subseteq DOMAIN messages
  BY Zenon, <1>2 DEF IInv, DInv, MessagesTypeOK, PinsMatchFlags, LastRowCurrent
<1>4. CASE EditMessage(r)
  <2> DEFINE row == [messages[m] EXCEPT !.edits = messages[m].edits + 1]
  <2>1. /\ messages' = [messages EXCEPT ![m] = row] /\ row_event' = [row_event EXCEPT ![m] = row] /\ End(r)
        /\ UNCHANGED <<last_seq_id, pins, reactions, seen, reaction_event, answers>>
    BY Zenon, <1>1, <1>2, <1>4 DEF EditMessage, WriteMessage
  <2>2. /\ row \in Row /\ row.pinned = messages[m].pinned
        /\ row.sender = messages[m].sender /\ row.client = messages[m].client
    BY <1>3 DEF Row
  <2> HIDE DEF row
  <2> QED BY <1>0, <1>1, <1>2, <1>3, <2>1, <2>2, WriteMessageStep, Zenon
<1>5. CASE DeleteMessage(r) /\ tx[r].row.deleted
  <2>1. End(r) /\ UNCHANGED data
    BY Zenon, <1>5 DEF DeleteMessage, data
  <2> QED BY Zenon, <1>0, <2>1, NoWriteStep
<1>6. CASE DeleteMessage(r) /\ ~tx[r].row.deleted
  <2> DEFINE row == [messages[m] EXCEPT !.deleted = TRUE]
  <2>1. /\ messages' = [messages EXCEPT ![m] = row] /\ row_event' = [row_event EXCEPT ![m] = row] /\ End(r)
        /\ UNCHANGED <<last_seq_id, pins, reactions, seen, reaction_event, answers>>
    BY Zenon, <1>1, <1>2, <1>6 DEF DeleteMessage, WriteMessage
  <2>2. /\ row \in Row /\ row.pinned = messages[m].pinned
        /\ row.sender = messages[m].sender /\ row.client = messages[m].client
    BY <1>3, Zenon DEF Row
  <2> HIDE DEF row
  <2> QED BY <1>0, <1>1, <1>2, <1>3, <2>1, <2>2, WriteMessageStep, Zenon
<1>7. CASE PinMessage(r)
  <2> DEFINE row == [messages[m] EXCEPT !.pinned = TRUE]
  <2>1. /\ messages' = [messages EXCEPT ![m] = row] /\ row_event' = [row_event EXCEPT ![m] = row] /\ End(r)
        /\ UNCHANGED <<last_seq_id, reactions, seen, reaction_event, answers>>
    BY Zenon, <1>1, <1>2, <1>7 DEF PinMessage, WriteMessage
  <2>2. pins' = pins \cup {m}
    BY Zenon, <1>1, <1>2, <1>7 DEF PinMessage
  <2>3. /\ row \in Row /\ row.pinned
        /\ row.sender = messages[m].sender /\ row.client = messages[m].client
    BY <1>3, Zenon DEF Row
  <2> HIDE DEF row
  <2> QED BY <1>0, <1>1, <1>2, <1>3, <2>1, <2>2, <2>3, WriteMessageStep, Zenon
<1>8. CASE UnpinMessage(r)
  <2> DEFINE row == [messages[m] EXCEPT !.pinned = FALSE]
  <2>1. /\ messages' = [messages EXCEPT ![m] = row] /\ row_event' = [row_event EXCEPT ![m] = row] /\ End(r)
        /\ UNCHANGED <<last_seq_id, reactions, seen, reaction_event, answers>>
    BY Zenon, <1>1, <1>2, <1>8 DEF UnpinMessage, WriteMessage
  <2>2. pins' = pins \ {m}
    BY Zenon, <1>1, <1>2, <1>8 DEF UnpinMessage
  <2>3. /\ row \in Row /\ ~row.pinned
        /\ row.sender = messages[m].sender /\ row.client = messages[m].client
    BY <1>3, Zenon DEF Row
  <2> HIDE DEF row
  <2> QED BY <1>0, <1>1, <1>2, <1>3, <2>1, <2>2, <2>3, WriteMessageStep, Zenon
<1> QED BY Zenon, <1>4, <1>5, <1>6, <1>7, <1>8

\* The reactions a handler read are the current ones of its message, so what it
\* writes and sends is the whole new set.
LEMMA WriteReactionsStep ==
  ASSUME IInv, NEW r \in Requests, tx[r] # Unset, tx[r].op \in MessageOps, NEW m, m = tx[r].msg,
         NEW rs, WriteReactions(r, rs), rs \subseteq {m} \X Users \X Emojis,
         Cardinality(Distinct(rs)) <= MaxDistinct
  PROVE  IInv'
<1>1. m \in DOMAIN messages /\ tx[r].old = ReactionsOf(m)
  BY Zenon DEF IInv, ReadsCurrent, Active, Read
<1>2. /\ reactions' = (reactions \ ReactionsOf(m)) \cup rs
      /\ reaction_event' = [reaction_event EXCEPT ![m] = rs] /\ End(r)
      /\ UNCHANGED <<last_seq_id, messages, pins, seen, row_event, answers>>
  BY Zenon, <1>1 DEF WriteReactions
<1>3. \A x \in rs : x[1] = m
  BY Zenon
<1>4. ReactionsOf(m)' = rs
  BY Zenon, <1>2, <1>3 DEF ReactionsOf
<1>5. \A n : n # m => ReactionsOf(n)' = ReactionsOf(n)
  BY Zenon, <1>2, <1>3 DEF ReactionsOf
<1>6. MessagesTypeOK'
  <2>1. reactions' \subseteq (DOMAIN messages') \X Users \X Emojis
    BY Zenon, <1>1, <1>2 DEF IInv, DInv, MessagesTypeOK
  <2>2. DOMAIN tx' = Requests
    BY Zenon, <1>2, EndDomain
  <2> QED BY Zenon, <1>2, <2>1, <2>2 DEF IInv, DInv, MessagesTypeOK, Row
<1>7. SeqContiguous' /\ PinsMatchFlags' /\ Identified' /\ RetriesIdempotent'
  BY Zenon, <1>2 DEF IInv, DInv, SeqContiguous, PinsMatchFlags, Identified, RetriesIdempotent
<1>8. LastRowCurrent'
  <2> SUFFICES ASSUME NEW n \in DOMAIN messages'
               PROVE  row_event'[n] = messages'[n] /\ reaction_event'[n] = ReactionsOf(n)'
    BY Zenon DEF LastRowCurrent
  <2> QED BY Zenon, <1>1, <1>2, <1>4, <1>5 DEF IInv, DInv, MessagesTypeOK, LastRowCurrent
<1>9. ReactionVarietyBounded'
  <2> SUFFICES ASSUME NEW n \in DOMAIN messages'
               PROVE  Cardinality(Distinct(ReactionsOf(n))') <= MaxDistinct
    BY Zenon DEF ReactionVarietyBounded
  <2>1. CASE n = m
    <3>1. Distinct(ReactionsOf(n))' = Distinct(rs)
      BY Zenon, <1>4, <2>1 DEF Distinct
    <3> QED BY Zenon, <3>1
  <2>2. CASE n # m
    <3>1. Distinct(ReactionsOf(n))' = Distinct(ReactionsOf(n))
      BY Zenon, <1>5, <2>2 DEF Distinct
    <3> QED BY Zenon, <1>2, <3>1 DEF IInv, DInv, ReactionVarietyBounded
  <2> QED BY Zenon, <2>1, <2>2
<1>10. ASSUME NEW t, Read(t), Compatible(tx[r], t)
       PROVE  Read(t)'
  <2>1. t.op # "publish" /\ (t.op \in MessageOps => t.msg # m)
    BY Zenon, <1>10 DEF Compatible
  <2>2. t.op \in MessageOps => ReactionsOf(t.msg)' = ReactionsOf(t.msg)
    BY Zenon, <1>5, <2>1
  <2> QED BY Zenon, <1>2, <1>10, <2>1, <2>2 DEF Read
<1> QED BY Zenon, <1>2, <1>6, <1>7, <1>8, <1>9, <1>10, EndStep DEF DInv

\* The handlers of reactions keep it.
LEMMA ReactionHandlerStep ==
  ASSUME IInv, NEW r \in Requests, AddReaction(r) \/ RemoveReaction(r)
  PROVE  IInv'
<1>0. tx[r] # Unset /\ tx[r].op \in {"react", "unreact"}
  BY Zenon DEF AddReaction, RemoveReaction
<1>1. PICK m : m = tx[r].msg
  BY Zenon
<1>2. /\ m \in DOMAIN messages /\ tx[r].old = ReactionsOf(m) /\ tx[r].op \in MessageOps
      /\ tx[r].user \in Users /\ tx[r].emoji \in Emojis
  BY Zenon, <1>0, <1>1 DEF IInv, ReadsCurrent, Active, Read, MessageOps
<1> DEFINE x == <<m, tx[r].user, tx[r].emoji>>
           old == ReactionsOf(m)
<1>3. x \in {m} \X Users \X Emojis /\ x[3] = tx[r].emoji
  BY Zenon, <1>2
<1>4. old \subseteq {m} \X Users \X Emojis
  BY Zenon DEF IInv, DInv, MessagesTypeOK, ReactionsOf
<1>5. Distinct(old) \subseteq Emojis /\ Cardinality(Distinct(old)) <= MaxDistinct
  BY Zenon, <1>2, <1>4 DEF IInv, DInv, ReactionVarietyBounded, Distinct
<1>6. IsFiniteSet(Distinct(old)) /\ Cardinality(Distinct(old)) \in Nat
  BY Zenon, <1>5, MessagesConstants, FS_Subset, FS_CardinalityType
<1>7. CASE AddReaction(r)
  <2>1. /\ WriteReactions(r, old \cup {x})
        /\ tx[r].emoji \in Distinct(old) \/ Cardinality(Distinct(old)) < MaxDistinct
    BY Zenon, <1>1, <1>2, <1>7 DEF AddReaction
  <2>2. Distinct(old \cup {x}) = Distinct(old) \cup {tx[r].emoji}
    BY Zenon, <1>3 DEF Distinct
  <2>3. Cardinality(Distinct(old \cup {x})) <= MaxDistinct
    <3>1. CASE tx[r].emoji \in Distinct(old)
      <4>1. Distinct(old \cup {x}) = Distinct(old)
        BY <2>2, <3>1, Zenon
      <4> QED BY Zenon, <1>5, <4>1
    <3>2. CASE tx[r].emoji \notin Distinct(old)
      <4>1. Cardinality(Distinct(old) \cup {tx[r].emoji}) = Cardinality(Distinct(old)) + 1
        BY <1>6, <3>2, FS_AddElement, Zenon
      <4>2. Cardinality(Distinct(old)) < MaxDistinct
        BY Zenon, <2>1, <3>2
      <4> HIDE DEF old, x
      <4>3. Cardinality(Distinct(old)) + 1 <= MaxDistinct
        BY <1>6, <4>2, MessagesConstants
      <4> QED BY <2>2, <4>1, <4>3, Zenon
    <3> QED BY Zenon, <3>1, <3>2
  <2>4. old \cup {x} \subseteq {m} \X Users \X Emojis
    BY Zenon, <1>3, <1>4
  <2>5. PICK rs : rs = old \cup {x}
    BY Zenon
  <2>6. WriteReactions(r, rs)
    BY Zenon, <2>1, <2>5
  <2> HIDE DEF old, x
  <2> QED BY Zenon, <1>0, <1>1, <1>2, <2>3, <2>4, <2>5, <2>6, WriteReactionsStep
<1>8. CASE RemoveReaction(r)
  <2>1. WriteReactions(r, old \ {x})
    BY Zenon, <1>1, <1>2, <1>8 DEF RemoveReaction
  <2>2. Distinct(old \ {x}) \subseteq Distinct(old)
    BY Zenon DEF Distinct
  <2>3. Cardinality(Distinct(old \ {x})) <= Cardinality(Distinct(old))
        /\ IsFiniteSet(Distinct(old \ {x}))
    BY <1>6, <2>2, FS_Subset, Zenon
  <2>4. Cardinality(Distinct(old \ {x})) <= MaxDistinct
    <3>1. Cardinality(Distinct(old \ {x})) \in Nat
      BY Zenon, <2>3, FS_CardinalityType
    <3> QED BY <1>5, <1>6, <2>3, <3>1, MessagesConstants
  <2>5. PICK rs : rs = old \ {x}
    BY ZenonT(30)
  <2>6. WriteReactions(r, rs) /\ rs \subseteq {m} \X Users \X Emojis
    BY Zenon, <1>4, <2>1, <2>5
  <2> HIDE DEF old, x
  <2> QED BY Zenon, <1>0, <1>1, <1>2, <2>4, <2>5, <2>6, WriteReactionsStep
<1> QED BY Zenon, <1>7, <1>8

\* Moving a seen marker keeps it.
LEMMA MarkSeenStep ==
  ASSUME IInv, NEW r \in Requests, MarkSeen(r)
  PROVE  IInv'
<1>1. /\ tx[r] # Unset /\ tx[r].op = "seen" /\ End(r)
      /\ UNCHANGED <<last_seq_id, messages, pins, reactions, row_event, reaction_event, answers>>
  BY Zenon DEF MarkSeen
<1>2. tx[r].user \in Users /\ tx[r].seq \in 0..last_seq_id
  BY Zenon, <1>1 DEF IInv, ReadsCurrent, Active, Read
<1>3. seen' = seen \/ seen' = [seen EXCEPT ![tx[r].user] = tx[r].seq]
  BY Zenon DEF MarkSeen
<1>4. seen' \in [Users -> (0..last_seq_id) \cup {Unset}]
  BY Zenon, <1>2, <1>3 DEF IInv, DInv, MessagesTypeOK
<1>5. MessagesTypeOK'
  BY Zenon, <1>1, <1>4, EndDomain DEF IInv, DInv, MessagesTypeOK, Row
<1>6. SeqContiguous' /\ PinsMatchFlags' /\ Identified' /\ RetriesIdempotent'
  BY Zenon, <1>1 DEF IInv, DInv, SeqContiguous, PinsMatchFlags, Identified, RetriesIdempotent
<1>7. LastRowCurrent' /\ ReactionVarietyBounded'
  BY Zenon, <1>1 DEF IInv, DInv, LastRowCurrent, ReactionVarietyBounded, ReactionsOf, Distinct
<1>8. ASSUME NEW t, Read(t), Compatible(tx[r], t)
      PROVE  Read(t)'
  <2>1. t.op # "publish" /\ (t.op = "seen" => t.user \in Users /\ t.user # tx[r].user)
    BY Zenon, <1>1, <1>8 DEF Compatible, Read
  <2>2. t.op = "seen" => seen'[t.user] = seen[t.user]
    BY Zenon, <1>3, <2>1 DEF IInv, DInv, MessagesTypeOK
  <2> QED BY <1>1, <1>8, <2>1, <2>2, ZenonT(30) DEF Read, ReactionsOf
<1> QED BY Zenon, <1>1, <1>5, <1>6, <1>7, <1>8, EndStep DEF DInv

\* Every step keeps the invariant.
LEMMA Inductive == IInv /\ [MessagesNext]_messageVars => IInv'
<1> SUFFICES ASSUME IInv, [MessagesNext]_messageVars PROVE IInv'
  BY Zenon
<1>1. CASE UNCHANGED messageVars
  <2>1. UNCHANGED data /\ tx' = tx
    BY Zenon, <1>1 DEF messageVars, data
  <2>2. DInv'
    BY Zenon, <2>1, DataFrame DEF IInv, DInv, MessagesTypeOK
  <2>3. Active' = Active
    BY Zenon, <2>1 DEF Active
  <2>4. Exclusive'
    BY <2>1, <2>3 DEF IInv, Exclusive, Compatible
  <2>5. ReadsCurrent'
    BY Zenon, <2>1, <2>3 DEF IInv, ReadsCurrent, Read, data, ReactionsOf
  <2> QED BY Zenon, <2>2, <2>4, <2>5 DEF IInv
<1>2. ASSUME NEW r \in Requests,
             \/ \E u \in Users, k \in ClientIds \cup {Unset}, t \in 0..MaxMessages :
                  PublishBegin(r, u, k, t)
             \/ \E op \in MessageOps, u \in Users, m \in Seqs, e \in Emojis \cup {Unset} :
                  LockMessage(r, op, u, m, e)
             \/ \E u \in Users, s \in 0..MaxMessages : LockSeen(r, u, s)
      PROVE  IInv'
  BY Zenon, <1>2, PublishBeginStep, LockMessageStep, LockSeenStep
<1>3. ASSUME NEW r \in Requests, RefusePublish(r) \/ Abort(r)
      PROVE  IInv'
  <2>1. tx[r] # Unset /\ End(r) /\ UNCHANGED data
    BY Zenon, <1>3 DEF RefusePublish, Abort, data
  <2> QED BY Zenon, <2>1, NoWriteStep
<1>4. ASSUME NEW r \in Requests, PublishExisting(r) \/ CommitPublish(r)
      PROVE  IInv'
  BY Zenon, <1>4, PublishExistingStep, CommitPublishStep
<1>5. ASSUME NEW r \in Requests,
             EditMessage(r) \/ DeleteMessage(r) \/ PinMessage(r) \/ UnpinMessage(r)
      PROVE  IInv'
  BY Zenon, <1>5, MessageHandlerStep
<1>6. ASSUME NEW r \in Requests, AddReaction(r) \/ RemoveReaction(r) \/ MarkSeen(r)
      PROVE  IInv'
  BY Zenon, <1>6, ReactionHandlerStep, MarkSeenStep
<1> QED BY Zenon, <1>1, <1>2, <1>3, <1>4, <1>5, <1>6 DEF MessagesNext

-----------------------------------------------------------------------------
\* For any number of users and requests the seq_ids have no gap, the outbox row
\* committed last and the pinned flags agree with the tables, the quota of distinct
\* emojis holds, and the IntegrityError handler of publish_message is never needed.
THEOREM TablesAlwaysConsistent ==
  MessagesSpec => [](MessagesTypeOK /\ TablesConsistent /\ PublishNeverConflicts)
<1>1. IInv => MessagesTypeOK /\ TablesConsistent /\ PublishNeverConflicts
  BY Zenon DEF IInv, DInv, ReadsCurrent, Read, PublishNeverConflicts, TablesConsistent, CopiesAgree
<1> QED BY InitIInv, Inductive, <1>1, PTL DEF MessagesSpec

\* publish_message: the answers to one user's retries name one message.
THEOREM RetriesAlwaysIdempotent == MessagesSpec => []RetriesIdempotent
<1>1. IInv => RetriesIdempotent
  BY Zenon DEF IInv, DInv
<1> QED BY InitIInv, Inductive, <1>1, PTL DEF MessagesSpec

\* mark_seen: a marker never moves back, because its transaction still knows the
\* stored one.
THEOREM MarkersOnlyForward == MessagesSpec => SeenOnlyForward
<1> DEFINE A == \A u \in Users : seen[u] # Unset => seen'[u] # Unset /\ seen'[u] >= seen[u]
<1>1. IInv /\ [MessagesNext]_messageVars => [A]_messageVars
  <2> SUFFICES ASSUME IInv, [MessagesNext]_messageVars, NEW u \in Users, seen[u] # Unset
               PROVE  seen'[u] # Unset /\ seen'[u] >= seen[u]
    BY Zenon
  <2>1. seen \in [Users -> (0..last_seq_id) \cup {Unset}] /\ last_seq_id \in Nat
    BY Zenon DEF IInv, DInv, MessagesTypeOK
  <2>2. seen[u] \in Nat
    BY <2>1
  <2>3. CASE UNCHANGED seen
    BY <2>2, <2>3
  <2>4. ASSUME NEW r \in Requests, MarkSeen(r)
        PROVE  seen'[u] # Unset /\ seen'[u] >= seen[u]
    <3>1. /\ tx[r].user \in Users /\ tx[r].seq \in 0..last_seq_id
          /\ tx[r].state = seen[tx[r].user]
      BY Zenon, <2>4 DEF MarkSeen, IInv, ReadsCurrent, Active, Read
    <3>2. CASE tx[r].state # Unset /\ tx[r].seq <= tx[r].state
      BY <2>2, <2>4, <3>2 DEF MarkSeen
    <3>3. CASE ~(tx[r].state # Unset /\ tx[r].seq <= tx[r].state)
      <4>1. seen' = [seen EXCEPT ![tx[r].user] = tx[r].seq]
        BY Zenon, <2>4, <3>3 DEF MarkSeen
      <4> QED BY <2>1, <2>2, <3>1, <3>3, <4>1, MessagesConstants
    <3> QED BY Zenon, <3>2, <3>3
  <2>5. CASE UNCHANGED messageVars
    BY Zenon, <2>3, <2>5 DEF messageVars
  <2>6. ASSUME NEW r \in Requests,
               \/ \E v \in Users, k \in ClientIds \cup {Unset}, t \in 0..MaxMessages :
                    PublishBegin(r, v, k, t)
               \/ \E op \in MessageOps, v \in Users, m \in Seqs, e \in Emojis \cup {Unset} :
                    LockMessage(r, op, v, m, e)
               \/ \E v \in Users, s \in 0..MaxMessages : LockSeen(r, v, s)
        PROVE  UNCHANGED seen
    BY <2>6, ZenonT(30) DEF PublishBegin, LockMessage, LockSeen
  <2>7. ASSUME NEW r \in Requests,
               \/ PublishExisting(r) \/ RefusePublish(r) \/ CommitPublish(r) \/ Abort(r)
               \/ EditMessage(r) \/ DeleteMessage(r) \/ PinMessage(r) \/ UnpinMessage(r)
               \/ AddReaction(r) \/ RemoveReaction(r)
        PROVE  UNCHANGED seen
    <3>1. CASE PublishExisting(r) \/ RefusePublish(r) \/ CommitPublish(r) \/ Abort(r)
      BY Zenon, <3>1 DEF PublishExisting, RefusePublish, CommitPublish, Abort
    <3>2. CASE EditMessage(r) \/ DeleteMessage(r) \/ PinMessage(r) \/ UnpinMessage(r)
      BY Zenon, <3>2 DEF EditMessage, DeleteMessage, PinMessage, UnpinMessage, WriteMessage
    <3>3. CASE AddReaction(r) \/ RemoveReaction(r)
      BY Zenon, <3>3 DEF AddReaction, RemoveReaction, WriteReactions
    <3> QED BY Zenon, <2>7, <3>1, <3>2, <3>3
  <2> QED BY Zenon, <2>3, <2>4, <2>5, <2>6, <2>7 DEF MessagesNext
<1> QED BY InitIInv, Inductive, <1>1, PTL DEF MessagesSpec, SeenOnlyForward

\* delete_message: what is under way when a message is deleted cannot change the
\* tombstone, since its transaction and the deletion exclude each other.
THEOREM TombstonesFinal == MessagesSpec => TombstoneFinal
<1> DEFINE A == \A m \in DOMAIN messages : messages[m].deleted =>
                  /\ m \in DOMAIN messages'
                  /\ messages'[m].deleted
                  /\ messages'[m].edits = messages[m].edits
                  /\ ReactionsOf(m)' = ReactionsOf(m)
<1>1. IInv /\ [MessagesNext]_messageVars => [A]_messageVars
  <2> SUFFICES ASSUME IInv, [MessagesNext]_messageVars, NEW m \in DOMAIN messages, messages[m].deleted
               PROVE  /\ m \in DOMAIN messages'
                      /\ messages'[m].deleted
                      /\ messages'[m].edits = messages[m].edits
                      /\ ReactionsOf(m)' = ReactionsOf(m)
    BY Zenon
  <2> DEFINE G == /\ m \in DOMAIN messages'
                  /\ messages'[m].deleted
                  /\ messages'[m].edits = messages[m].edits
                  /\ ReactionsOf(m)' = ReactionsOf(m)
  <2>0. messages[m] \in Row
    BY Zenon DEF IInv, DInv, MessagesTypeOK
  <2>1. CASE UNCHANGED <<messages, reactions>>
    BY Zenon, <2>1 DEF ReactionsOf
  <2>2. ASSUME NEW r \in Requests,
               \/ \E u \in Users, k \in ClientIds \cup {Unset}, t \in 0..MaxMessages :
                    PublishBegin(r, u, k, t)
               \/ \E op \in MessageOps, u \in Users, n \in Seqs, e \in Emojis \cup {Unset} :
                    LockMessage(r, op, u, n, e)
               \/ \E u \in Users, s \in 0..MaxMessages : LockSeen(r, u, s)
        PROVE  UNCHANGED <<messages, reactions>>
    BY <2>2, ZenonT(30) DEF PublishBegin, LockMessage, LockSeen
  <2>3. ASSUME NEW r \in Requests,
               PublishExisting(r) \/ RefusePublish(r) \/ Abort(r) \/ MarkSeen(r)
        PROVE  UNCHANGED <<messages, reactions>>
    BY Zenon, <2>3 DEF PublishExisting, RefusePublish, Abort, MarkSeen
  <2>4. ASSUME NEW r \in Requests, CommitPublish(r)
        PROVE  G
    <3>1. m \in DOMAIN messages' /\ messages'[m] = messages[m] /\ reactions' = reactions
      BY Zenon, <2>4 DEF CommitPublish
    <3> QED BY Zenon, <3>1 DEF ReactionsOf
  <2>5. ASSUME NEW r \in Requests,
               EditMessage(r) \/ DeleteMessage(r) \/ PinMessage(r) \/ UnpinMessage(r)
        PROVE  G
    <3>1. /\ tx[r].op \in MessageOps /\ Read(tx[r]) /\ reactions' = reactions
      BY Zenon, <2>5 DEF EditMessage, DeleteMessage, PinMessage, UnpinMessage, IInv, ReadsCurrent,
                  Active, MessageOps
    <3>2. tx[r].msg \in DOMAIN messages /\ tx[r].row = messages[tx[r].msg]
      BY Zenon, <3>1 DEF Read
    <3>3. CASE EditMessage(r)
      <4>1. tx[r].msg # m
        BY Zenon, <3>1, <3>3 DEF EditMessage, Read, MessageOps
      <4> QED BY Zenon, <3>1, <3>3, <4>1 DEF EditMessage, WriteMessage, ReactionsOf
    <3>4. CASE DeleteMessage(r)
      BY Zenon, <2>0, <3>1, <3>2, <3>4 DEF DeleteMessage, WriteMessage, ReactionsOf, Row
    <3>5. CASE PinMessage(r)
      BY Zenon, <2>0, <3>1, <3>2, <3>5 DEF PinMessage, WriteMessage, ReactionsOf, Row
    <3>6. CASE UnpinMessage(r)
      BY Zenon, <2>0, <3>1, <3>2, <3>6 DEF UnpinMessage, WriteMessage, ReactionsOf, Row
    <3> QED BY Zenon, <2>5, <3>3, <3>4, <3>5, <3>6
  <2>6. ASSUME NEW r \in Requests, AddReaction(r) \/ RemoveReaction(r)
        PROVE  G
    <3>1. /\ tx[r].op \in {"react", "unreact"} /\ Read(tx[r]) /\ messages' = messages
      BY Zenon, <2>6 DEF AddReaction, RemoveReaction, WriteReactions, IInv, ReadsCurrent, Active
    <3>2. /\ tx[r].old = ReactionsOf(tx[r].msg) /\ tx[r].msg # m
      BY Zenon, <3>1 DEF Read, MessageOps
    <3>3. PICK rs : /\ reactions' = (reactions \ tx[r].old) \cup rs
                    /\ \A x \in rs : x[1] = tx[r].msg
      <4> DEFINE x == <<tx[r].msg, tx[r].user, tx[r].emoji>>
      <4>1. \/ reactions' = (reactions \ tx[r].old) \cup (tx[r].old \cup {x})
            \/ reactions' = (reactions \ tx[r].old) \cup (tx[r].old \ {x})
        BY Zenon, <2>6 DEF AddReaction, RemoveReaction, WriteReactions
      <4>2. x[1] = tx[r].msg /\ \A y \in tx[r].old : y[1] = tx[r].msg
        BY Zenon, <3>2 DEF ReactionsOf
      <4> HIDE DEF x
      <4>3. \A y \in tx[r].old \cup {x} : y[1] = tx[r].msg
        BY Zenon, <4>2
      <4> QED BY <4>1, <4>3, Zenon
    <3>4. ReactionsOf(m)' = ReactionsOf(m)
      BY Zenon, <3>2, <3>3 DEF ReactionsOf
    <3> QED BY Zenon, <3>1, <3>4
  <2>7. CASE UNCHANGED messageVars
    BY Zenon, <2>1, <2>7 DEF messageVars
  <2> QED BY Zenon, <2>1, <2>2, <2>3, <2>4, <2>5, <2>6, <2>7 DEF MessagesNext
<1> QED BY InitIInv, Inductive, <1>1, PTL DEF MessagesSpec, TombstoneFinal
\* Both: no overlap of handlers takes a marker or a tombstone back.
THEOREM NothingGoesBack == MessagesSpec => NeverBack
  BY Zenon, MarkersOnlyForward, TombstonesFinal DEF NeverBack
=============================================================================
