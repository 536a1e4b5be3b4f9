------------------------------- MODULE Outbox -------------------------------
(***************************************************************************)
(* The transactional outbox.                                               *)
(*                                                                         *)
(* API transactions commit outbox rows; any number of workers claim one    *)
(* row at a time, publish it to RabbitMQ and record the outcome; channel   *)
(* operators hand failed rows back to the workers by a manual retry.       *)
(* A worker's claim, publication and status update are one database        *)
(* transaction, so the status "publishing" is never seen by anyone else: a *)
(* crash, or any database error, puts the row back as it was, although the *)
(* broker may already hold a copy.                                         *)
(***************************************************************************)
EXTENDS Naturals

CONSTANTS
  Rows,         \* outbox rows, numbered in created_at order
  Workers,      \* outbox publisher processes
  Operators,    \* manual-retry requests in flight at the same time
  MaxAttempts,  \* outbox_max_attempts
  MaxCrashes,   \* bound: worker transactions lost before their commit
  MaxManual,    \* bound: manual-retry requests started
  None          \* no lock holder, no claimed row

ASSUME RowsAssumption == Rows \subseteq Nat
ASSUME AttemptsAssumption == MaxAttempts \in Nat \ {0}
ASSUME ActorsAssumption == /\ None \notin Workers \cup Operators
                           /\ None \notin Rows
                           /\ Workers \cap Operators = {}

VARIABLES
  status,       \* committed status of every row
  attempts,     \* committed attempt counter
  next_retry,   \* committed next_retry_at: unset, in the future, or due
  lock,         \* holder of the row lock
  wpc,          \* where each worker's transaction is
  claim,        \* the row each worker works on
  opc,          \* where each manual-retry transaction is
  picked,       \* rows a manual retry selected and still has to reset
  had_retry,    \* those of them it read with next_retry_at set
  accepted,     \* copies of each row the broker accepted
  redo,         \* history: events after which publishing again is expected
  crashes, manual

row_vars == <<status, attempts, next_retry>>
op_vars == <<opc, picked, had_retry, manual>>
vars == <<status, attempts, next_retry, lock, wpc, claim, opc, picked,
          had_retry, accepted, redo, crashes, manual>>

Status == {"absent", "pending", "retry_scheduled", "published", "dead_lettered"}
InTransaction == {"claimed", "sent", "failed"}
MANUAL_RETRY_STATUSES == {"failed", "retry_scheduled", "dead_lettered"}

Init ==
  /\ status = [r \in Rows |-> "absent"]
  /\ attempts = [r \in Rows |-> 0]
  /\ next_retry = [r \in Rows |-> "unset"]
  /\ lock = [r \in Rows |-> None]
  /\ wpc = [w \in Workers |-> "idle"]
  /\ claim = [w \in Workers |-> None]
  /\ opc = [o \in Operators |-> "idle"]
  /\ picked = [o \in Operators |-> {}]
  /\ had_retry = [o \in Operators |-> {}]
  /\ accepted = [r \in Rows |-> 0]
  /\ redo = [r \in Rows |-> 0]
  /\ crashes = 0
  /\ manual = 0

-----------------------------------------------------------------------------
(* API transactions *)

\* Commit of a transaction that enqueued row r.  Rows become visible in commit
\* order, which need not be the order of their created_at (transaction start).
Enqueue(r) ==
  /\ status[r] = "absent"
  /\ status' = [status EXCEPT ![r] = "pending"]
  /\ UNCHANGED <<attempts, next_retry, lock, wpc, claim, op_vars, accepted,
                 redo, crashes>>

\* The retry delay of row r elapses.
RetryDue(r) ==
  /\ next_retry[r] = "future"
  /\ next_retry' = [next_retry EXCEPT ![r] = "due"]
  /\ UNCHANGED <<status, attempts, lock, wpc, claim, op_vars, accepted, redo, crashes>>

-----------------------------------------------------------------------------
(* Workers *)

\* Mutant: the claim query forgets the retries.
ClaimablePendingOnly(r) == lock[r] = None /\ status[r] = "pending"

Claimable(r) ==
  /\ lock[r] = None
  /\ \/ status[r] = "pending"
     \/ status[r] = "retry_scheduled" /\ next_retry[r] = "due"

\* SELECT ... ORDER BY created_at LIMIT 1 FOR UPDATE SKIP LOCKED.
Claim(w) ==
  /\ wpc[w] = "idle"
  /\ \E r \in Rows :
       /\ Claimable(r)
       /\ \A q \in Rows : Claimable(q) => r <= q
       /\ lock' = [lock EXCEPT ![r] = w]
       /\ claim' = [claim EXCEPT ![w] = r]
  /\ wpc' = [wpc EXCEPT ![w] = "claimed"]
  /\ UNCHANGED <<row_vars, op_vars, accepted, redo, crashes>>

\* Nothing to claim: the worker rolls back and sleeps for the poll interval.
Poll(w) ==
  /\ wpc[w] = "idle"
  /\ \A r \in Rows : ~Claimable(r)
  /\ UNCHANGED vars

\* The broker confirms the publication.
PublishConfirmed(w) ==
  /\ wpc[w] = "claimed"
  /\ accepted' = [accepted EXCEPT ![claim[w]] = @ + 1]
  /\ wpc' = [wpc EXCEPT ![w] = "sent"]
  /\ UNCHANGED <<row_vars, lock, claim, op_vars, redo, crashes>>

\* Mutant: the publish error is swallowed and the row marked published.
PublishErrorSwallowed(w) ==
  /\ wpc[w] = "claimed"
  /\ wpc' = [wpc EXCEPT ![w] = "sent"]
  /\ UNCHANGED <<row_vars, lock, claim, op_vars, accepted, redo, crashes>>

\* exchange.publish raises.  The broker may have the message all the same, its
\* confirmation lost with the connection.
PublishRaises(w) ==
  /\ wpc[w] = "claimed"
  /\ \E landed \in {0, 1} :
       /\ accepted' = [accepted EXCEPT ![claim[w]] = @ + landed]
       /\ redo' = [redo EXCEPT ![claim[w]] = @ + landed]
  /\ wpc' = [wpc EXCEPT ![w] = "failed"]
  /\ UNCHANGED <<row_vars, lock, claim, op_vars, crashes>>

\* _mark_published, commit.
CommitPublished(w) ==
  /\ wpc[w] = "sent"
  /\ status' = [status EXCEPT ![claim[w]] = "published"]
  /\ next_retry' = [next_retry EXCEPT ![claim[w]] = "unset"]
  /\ lock' = [lock EXCEPT ![claim[w]] = None]
  /\ wpc' = [wpc EXCEPT ![w] = "idle"]
  /\ claim' = [claim EXCEPT ![w] = None]
  /\ UNCHANGED <<attempts, op_vars, accepted, redo, crashes>>

LastAttempt(r) == attempts[r] + 1 >= MaxAttempts

\* _handle_publish_failure, commit.  The copy a dead-lettered row leaves on the
\* dead-letter exchange is best effort and nothing reads it back.
CommitFailure(w) ==
  LET r == claim[w] IN
  /\ wpc[w] = "failed"
  /\ attempts' = [attempts EXCEPT ![r] = @ + 1]
  /\ status' = [status EXCEPT ![r] = IF LastAttempt(r) THEN "dead_lettered"
                                                       ELSE "retry_scheduled"]
  /\ next_retry' = [next_retry EXCEPT ![r] = IF LastAttempt(r) THEN "unset" ELSE "future"]
  /\ lock' = [lock EXCEPT ![r] = None]
  /\ wpc' = [wpc EXCEPT ![w] = "diagnose"]
  /\ UNCHANGED <<claim, op_vars, accepted, redo, crashes>>

\* _persist_delivery_event_after_status_commit: a transaction of its own, tried
\* a bounded number of times and otherwise given up.  The event it appends is the
\* subject of EventChain; here the worker is only busy, without the row lock.
Diagnose(w) ==
  /\ wpc[w] = "diagnose"
  /\ wpc' = [wpc EXCEPT ![w] = "idle"]
  /\ claim' = [claim EXCEPT ![w] = None]
  /\ UNCHANGED <<row_vars, lock, op_vars, accepted, redo, crashes>>

\* The process dies, or a database error escapes to run_outbox_publisher: the
\* transaction is rolled back and every lock it held is released.
Crash(w) ==
  /\ wpc[w] # "idle"
  /\ crashes < MaxCrashes
  /\ crashes' = crashes + 1
  /\ lock' = [r \in Rows |-> IF lock[r] = w THEN None ELSE lock[r]]
  /\ redo' = [redo EXCEPT ![claim[w]] = IF wpc[w] = "sent" THEN @ + 1 ELSE @]
  /\ wpc' = [wpc EXCEPT ![w] = "idle"]
  /\ claim' = [claim EXCEPT ![w] = None]
  /\ UNCHANGED <<row_vars, op_vars, accepted>>

-----------------------------------------------------------------------------
(* Manual retry *)

Retryable == {r \in Rows : status[r] \in MANUAL_RETRY_STATUSES}

\* retry_one reads one row, retry_all every retryable row; neither locks them.
SelectForRetry(o) ==
  /\ opc[o] = "idle"
  /\ manual < MaxManual
  /\ manual' = manual + 1
  /\ Retryable # {}
  /\ \E S \in {{r} : r \in Retryable} \cup {Retryable} :
       /\ picked' = [picked EXCEPT ![o] = S]
       /\ had_retry' = [had_retry EXCEPT ![o] = {r \in S : next_retry[r] # "unset"}]
  /\ opc' = [opc EXCEPT ![o] = "selected"]
  /\ UNCHANGED <<row_vars, lock, wpc, claim, accepted, redo, crashes>>

Held(o) == {r \in Rows : lock[r] = o}

\* db.flush(): one UPDATE per row in primary-key order, each waiting for the
\* row lock.
FlushReset(o) ==
  /\ opc[o] = "selected"
  /\ \E r \in picked[o] \ Held(o) :
       /\ \A q \in picked[o] \ Held(o) : r <= q
       /\ lock[r] = None
       /\ lock' = [lock EXCEPT ![r] = o]
  /\ UNCHANGED <<row_vars, wpc, claim, op_vars, accepted, redo, crashes>>

\* Commit of _reset_for_manual_retry.  The ORM writes the columns whose value
\* differs from the one read: the status and the attempt counter always, the
\* retry time only when it was set.
CommitReset(o) ==
  /\ opc[o] = "selected"
  /\ picked[o] \subseteq Held(o)
  /\ status' = [r \in Rows |-> IF r \in picked[o] THEN "pending" ELSE status[r]]
  /\ attempts' = [r \in Rows |-> IF r \in picked[o] THEN 0 ELSE attempts[r]]
  /\ next_retry' = [r \in Rows |-> IF r \in had_retry[o] THEN "unset" ELSE next_retry[r]]
  /\ redo' = [r \in Rows |-> IF r \in picked[o] THEN redo[r] + 1 ELSE redo[r]]
  /\ lock' = [r \in Rows |-> IF lock[r] = o THEN None ELSE lock[r]]
  /\ opc' = [opc EXCEPT ![o] = "idle"]
  /\ picked' = [picked EXCEPT ![o] = {}]
  /\ had_retry' = [had_retry EXCEPT ![o] = {}]
  /\ UNCHANGED <<wpc, claim, manual, accepted, crashes>>

\* The request fails before its commit.
AbortReset(o) ==
  /\ opc[o] = "selected"
  /\ lock' = [r \in Rows |-> IF lock[r] = o THEN None ELSE lock[r]]
  /\ opc' = [opc EXCEPT ![o] = "idle"]
  /\ picked' = [picked EXCEPT ![o] = {}]
  /\ had_retry' = [had_retry EXCEPT ![o] = {}]
  /\ UNCHANGED <<row_vars, wpc, claim, manual, accepted, redo, crashes>>

-----------------------------------------------------------------------------
WorkerStep(w) ==
  \/ Claim(w) \/ Poll(w) \/ PublishConfirmed(w) \/ PublishRaises(w)
  \/ CommitPublished(w) \/ CommitFailure(w) \/ Diagnose(w)
OperatorStep(o) == FlushReset(o) \/ CommitReset(o) \/ AbortReset(o)

Next ==
  \/ \E r \in Rows : Enqueue(r) \/ RetryDue(r)
  \/ \E w \in Workers : WorkerStep(w) \/ Crash(w)
  \/ \E o \in Operators : SelectForRetry(o) \/ OperatorStep(o)

Spec == Init /\ [][Next]_vars

-----------------------------------------------------------------------------
(* Properties *)

TypeOK ==
  /\ status \in [Rows -> Status]
  /\ attempts \in [Rows -> 0..MaxAttempts]
  /\ next_retry \in [Rows -> {"unset", "future", "due"}]
  /\ lock \in [Rows -> Workers \cup Operators \cup {None}]
  /\ wpc \in [Workers -> {"idle", "diagnose"} \cup InTransaction]
  /\ claim \in [Workers -> Rows \cup {None}]
  /\ opc \in [Operators -> {"idle", "selected"}]
  /\ picked \in [Operators -> SUBSET Rows]
  /\ had_retry \in [Operators -> SUBSET Rows]
  /\ accepted \in [Rows -> Nat]
  /\ redo \in [Rows -> Nat]
  /\ crashes \in Nat
  /\ manual \in Nat

\* Work on a row is exclusive: from the claim to the commit the row lock is the
\* worker's (FOR UPDATE SKIP LOCKED), so no two workers publish one row at a time
\* and no manual retry changes it; a row lock never outlives its transaction.
LockDiscipline ==
  /\ \A w \in Workers :
       /\ wpc[w] = "idle" <=> claim[w] = None
       /\ wpc[w] \in InTransaction =>
            /\ lock[claim[w]] = w
            /\ status[claim[w]] \in {"pending", "retry_scheduled"}
  /\ \A r \in Rows :
       /\ lock[r] \in Workers => /\ wpc[lock[r]] \in InTransaction
                                 /\ claim[lock[r]] = r
       /\ lock[r] \in Operators => r \in picked[lock[r]]
  /\ \A o \in Operators : /\ had_retry[o] \subseteq picked[o]
                          /\ opc[o] = "idle" => picked[o] = {}

\* A worker has the broker's confirmation for r and has not committed yet.
Sending(r) == \E w \in Workers : wpc[w] = "sent" /\ claim[w] = r

\* At-least-once: a row is recorded as published only after the broker accepted
\* it, whatever crashed, failed or was retried on the way.
PublishedReachedBroker ==
  \A r \in Rows : status[r] = "published" \/ Sending(r) => accepted[r] >= 1

\* Nothing is sent twice without a reason: every copy of a row the broker holds
\* beyond the one its published status stands for was caused by a transaction lost
\* after publishing, by an ambiguous publish error, or by a manual retry.
DuplicatesOnlyFromFaults ==
  \A r \in Rows :
    accepted[r] <= redo[r] + (IF status[r] = "published" \/ Sending(r) THEN 1 ELSE 0)

\* Delivery is at least once, and more than once only for a reason.
DeliveryExplained == PublishedReachedBroker /\ DuplicatesOnlyFromFaults

\* The retry bookkeeping of the committed rows agrees with their status.  A row
\* waiting for a retry always has a retry time (the claim query would never select
\* it otherwise) and attempts to spare; a dead-lettered row has used them all; a
\* row handed back by an operator starts again from zero, even when the operator
\* read it before the worker changed it.
RetryAccounting ==
  \A r \in Rows :
    /\ status[r] \in {"absent", "pending"} => attempts[r] = 0
    /\ status[r] = "retry_scheduled" => /\ attempts[r] \in 1..MaxAttempts - 1
                                        /\ next_retry[r] # "unset"
    /\ status[r] = "dead_lettered" => attempts[r] = MaxAttempts
    /\ status[r] \in {"published", "dead_lettered"} => next_retry[r] = "unset"

\* outbox_runner.py, delivery_service.py: what the rows say of themselves is true:
\* of the broker, and of the attempts made.
RowsTruthful == DeliveryExplained /\ RetryAccounting

\* outbox_runner.py: again and again no row waits, once requests pause: every row is
\* published or dead-lettered across crashes, failed attempts, rows that overtake
\* it and manual retries that lock it.
EventuallySettled ==
  []<>(\A r \in Rows : status[r] \notin {"pending", "retry_scheduled"})

\* "Manual retry is intentionally limited to rows where the worker has already
\* failed, scheduled a retry, or moved the item to the dead-letter state"
\* (delivery_service.py:17): a committed reset never hits a row in another status.
ManualRetryOnlyAfterFailure ==
  [][\A r \in Rows : status[r] \notin {"absent", "pending"} /\ status'[r] = "pending"
                      => status[r] \in MANUAL_RETRY_STATUSES]_vars

=============================================================================
