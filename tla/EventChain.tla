------------------------------ MODULE EventChain ------------------------------
(***************************************************************************)
(* The audit events and their per-scope hash chains.                       *)
(*                                                                         *)
(* API handlers (log_event) and workers (_insert_delivery_event) append    *)
(* events inside their own transactions.  An advisory lock per scope, held *)
(* until the transaction ends, orders the appends; each event carries the  *)
(* hash of the one before it.  Readers know the order only from            *)
(* ORDER BY created_at, id, and every host reads its own clock, so the     *)
(* writer moves created_at past its predecessor's where necessary.         *)
(***************************************************************************)
EXTENDS Naturals

CONSTANTS
  Scopes,       \* "system" and "channel:<id>"
  Writers,      \* database sessions of API handlers and workers
  EventIds,     \* uuid4 values, compared by ORDER BY
  Times,        \* what the hosts' clocks may show, in any order
  None

ASSUME EventChainAssumption ==
  /\ EventIds \subseteq Nat
  /\ Times \subseteq Nat
  /\ None \notin Writers
  /\ None \notin Scopes

VARIABLES
  events,    \* committed rows of the events table
  lock,      \* holder of each scope's advisory lock
  pending,   \* rows each open transaction has inserted
  writing    \* the scope each transaction is appending to, or None

chain_vars == <<events, lock, pending, writing>>

\* SHA-256 over the canonical JSON of the row: an injective function of the
\* fields it covers.
Hash(id, scope, created_at, previous_hash) == <<id, scope, created_at, previous_hash>>
compute_event_hash(e) == Hash(e.id, e.scope, e.created_at, e.previous_hash)

\* ORDER BY created_at, id
Before(e, f) == \/ e.created_at < f.created_at
                \/ e.created_at = f.created_at /\ e.id < f.id
Latest(S) == CHOOSE e \in S : \A f \in S : f = e \/ Before(f, e)

\* The rows of a scope a transaction sees: the committed ones and its own.
Scoped(S, s) == {e \in S : e.scope = s}
Seen(w, s) == Scoped(events \cup pending[w], s)

Init ==
  /\ events = {}
  /\ lock = [s \in Scopes |-> None]
  /\ pending = [w \in Writers |-> {}]
  /\ writing = [w \in Writers |-> None]

\* Mutant: the scope is not locked.
lock_scope_unlocked(w, s) ==
  /\ writing[w] = None
  /\ writing' = [writing EXCEPT ![w] = s]
  /\ UNCHANGED <<events, lock, pending>>

\* pg_advisory_xact_lock: wait for the scope; a transaction that has it already
\* goes on at once.
lock_scope(w, s) ==
  /\ writing[w] = None
  /\ lock[s] \in {None, w}
  /\ lock' = [lock EXCEPT ![s] = w]
  /\ writing' = [writing EXCEPT ![w] = s]
  /\ UNCHANGED <<events, pending>>

\* created_at of the new row: the host's clock, or just after the latest row.
CreatedAt(now, S) ==
  IF S # {} /\ now <= Latest(S).created_at THEN Latest(S).created_at + 1 ELSE now

\* The row, linked to the latest one the transaction sees.
NewEvent(w, s, id, now) ==
  LET S == Seen(w, s)
      at == CreatedAt(now, S)
      prev == IF S = {} THEN None ELSE Latest(S).event_hash
  IN [id |-> id, scope |-> s, created_at |-> at, previous_hash |-> prev,
      event_hash |-> Hash(id, s, at, prev)]

\* The row is inserted and linked.  Its first INSERT carries no hash and is seen by
\* no other transaction.  A transaction may log several events, in several scopes.
attach_integrity(w, id, now) ==
  /\ writing[w] # None
  /\ \A e \in events \cup UNION {pending[v] : v \in Writers} : e.id # id
  /\ pending' = [pending EXCEPT ![w] = @ \cup {NewEvent(w, writing[w], id, now)}]
  /\ writing' = [writing EXCEPT ![w] = None]
  /\ UNCHANGED <<events, lock>>

Release(w) == lock' = [s \in Scopes |-> IF lock[s] = w THEN None ELSE lock[s]]

\* The transaction commits: its rows become visible, then its locks are free.
Commit(w) ==
  /\ writing[w] = None
  /\ pending[w] # {}
  /\ events' = events \cup pending[w]
  /\ pending' = [pending EXCEPT ![w] = {}]
  /\ Release(w)
  /\ UNCHANGED writing

\* The transaction is rolled back: an error, a crash, or a victim of the deadlock
\* detector when two transactions took two scopes in opposite orders.
Rollback(w) ==
  /\ \E s \in Scopes : lock[s] = w
  /\ pending' = [pending EXCEPT ![w] = {}]
  /\ writing' = [writing EXCEPT ![w] = None]
  /\ Release(w)
  /\ UNCHANGED events

Next ==
  \E w \in Writers :
    \/ \E s \in Scopes : lock_scope(w, s)
    \/ \E id \in EventIds, now \in Times : attach_integrity(w, id, now)
    \/ Commit(w)
    \/ Rollback(w)

Spec == Init /\ [][Next]_chain_vars

-----------------------------------------------------------------------------
(* Properties *)

Row(e) == e.id \in Nat /\ e.scope \in Scopes /\ e.created_at \in Nat

TypeOK ==
  /\ \A e \in events : Row(e)
  /\ lock \in [Scopes -> Writers \cup {None}]
  /\ DOMAIN pending = Writers
  /\ \A w \in Writers : \A e \in pending[w] : Row(e)
  /\ writing \in [Writers -> Scopes \cup {None}]

\* verify_events over the rows of a scope in (created_at, id) order: every row links
\* to the one before it and carries the hash of its own content.
verify_events(S) ==
  \A e \in S :
    LET earlier == {f \in S : Before(f, e)} IN
    /\ e.previous_hash = IF earlier = {} THEN None ELSE Latest(earlier).event_hash
    /\ e.event_hash = compute_event_hash(e)

\* "One advisory lock per channel/system scope prevents two concurrent writers from
\* both linking to the same previous hash" (event_integrity_service.py): whatever the
\* writers do and whatever their clocks show, the committed chain of every scope
\* verifies, and so does what any open transaction sees of a scope it has locked.
ChainVerifies ==
  \A s \in Scopes :
    /\ verify_events(Scoped(events, s))
    /\ \A w \in Writers : lock[s] = w => verify_events(Seen(w, s))

\* A commit only extends a chain: a new row comes after every row of its scope that
\* was committed before, so a verified prefix stays the prefix.
AppendOnly ==
  [][/\ events \subseteq events'
     /\ \A e \in events' \ events : \A f \in events : e.scope = f.scope => Before(f, e)]_chain_vars

=============================================================================
