---------------------------- MODULE BrokerBinding ----------------------------
(***************************************************************************)
(* RabbitMQ bindings as a projection of PostgreSQL membership.             *)
(*                                                                         *)
(* Every change of a membership, a slug or a channel's deletion state      *)
(* raises, in its own transaction, the generation of the affected          *)
(* (channel, user) states and enqueues a command that names a generation   *)
(* and nothing else.  Workers execute commands in any order, several at a  *)
(* time, and repeat them after crashes; a command acts only when its       *)
(* generation is the current one, and then brings all the bindings the     *)
(* state row knows of in line with what the database says.                 *)
(*                                                                         *)
(* The worker's SELECT ... FOR UPDATE OF bs joins the channel and the      *)
(* membership.  PostgreSQL takes those two from the snapshot the statement *)
(* started with and re-reads only the locked row, which is why the read    *)
(* (Snapshot) and the lock (LockState) are two steps.                      *)
(***************************************************************************)
EXTENDS Naturals

CONSTANTS
  Channels, Users, Slugs,
  Projectors,
  MaxGeneration,  \* bound: changes of one (channel, user) state
  MaxReconnects,  \* bound: WebSocket connects, each re-enqueues all states
  MaxFaults,      \* bound: failed or lost worker transactions
  MaxTries,    \* outbox_max_attempts
  Nobody

ASSUME NobodyAssumption == Nobody \notin Projectors

VARIABLES
  slug, deleted,       \* channels
  used,                \* history: the slugs each channel has had
  approved,            \* the membership's role is owner, admin or member
  generation, reconciled, routing_keys,  \* broker_binding_states
  rowLock,                \* holder of each state row lock
  cmds,                \* pending outbox rows of type broker_binding
  bound,               \* routing keys bound to each user's queue
  stage, cmd, snap, todo,  \* each worker's transaction
  reconnects, faults,
  dead                 \* states whose current command was dead-lettered

db_vars == <<slug, deleted, used, approved>>
state_vars == <<generation, reconciled, routing_keys>>
worker_vars == <<stage, cmd, snap, todo>>
bindingVars == <<slug, deleted, used, approved, generation, reconciled, routing_keys, rowLock, cmds,
          bound, stage, cmd, snap, todo, reconnects, faults, dead>>

Pairs == Channels \X Users
Command(p, g, n, t) == [pair |-> p, gen |-> g, n |-> n, tries |-> t]
Commands == [pair : Pairs, gen : Nat, n : Nat, tries : Nat]

\* What the database wants on the broker for a pair.
Desired(p) == approved[p] /\ ~deleted[p[1]]
Target(p) == IF Desired(p) THEN {slug[p[1]]} ELSE {}

\* Channels before their first member.  create_channel inserts the channel, the
\* owner's membership and its binding state in one transaction, which is the first
\* UpdateMembership of the channel.
BindingInit ==
  /\ slug \in {s \in [Channels -> Slugs] : \A c, d \in Channels : s[c] = s[d] => c = d}
  /\ used = [c \in Channels |-> {slug[c]}]
  /\ deleted = [c \in Channels |-> FALSE]
  /\ approved = [p \in Pairs |-> FALSE]
  /\ generation = [p \in Pairs |-> 0]
  /\ reconciled = [p \in Pairs |-> 0]
  /\ routing_keys = [p \in Pairs |-> {}]
  /\ rowLock = [p \in Pairs |-> Nobody]
  /\ cmds = {}
  /\ bound = [u \in Users |-> {}]
  /\ stage = [w \in Projectors |-> "idle"]
  /\ cmd = [w \in Projectors |-> Nobody]
  /\ snap = [w \in Projectors |-> Nobody]
  /\ todo = [w \in Projectors |-> {}]
  /\ reconnects = 0
  /\ faults = 0
  /\ dead = {}

-----------------------------------------------------------------------------
(* API transactions *)

\* enqueue_broker_binding_outbox for every pair of P: the next generation, the
\* channel's current key added to the known ones, and one command.  The state rows
\* are locked FOR UPDATE, so the transaction waits for a worker projecting one.
Touch(P) ==
  /\ \A p \in P : rowLock[p] = Nobody /\ generation[p] < MaxGeneration
  /\ generation' = [p \in Pairs |-> IF p \in P THEN generation[p] + 1 ELSE generation[p]]
  /\ routing_keys' = [p \in Pairs |-> IF p \in P THEN routing_keys[p] \cup {slug'[p[1]]}
                                                 ELSE routing_keys[p]]
  /\ cmds' = cmds \cup {Command(p, generation[p] + 1, 0, 0) : p \in P}
  /\ dead' = dead \ P
  /\ UNCHANGED <<reconciled, rowLock, bound, worker_vars, reconnects, faults>>

\* Any membership change: join, approval, direct add, invite, role change,
\* removal or leave.  All of them end in _enqueue_membership_update.
UpdateMembership(c, u, role_approved) ==
  /\ ~deleted[c]
  /\ approved' = [approved EXCEPT ![<<c, u>>] = role_approved]
  /\ UNCHANGED <<slug, deleted, used>>
  /\ Touch({<<c, u>>})

ActivePairs(c) == {p \in Pairs : p[1] = c /\ approved[p]}

\* update_channel with a new slug; slugs are unique, and one that another channel
\* gave up may be taken.
RenameSlug(c, s) ==
  /\ ~deleted[c]
  /\ \A d \in Channels : slug[d] # s
  /\ slug' = [slug EXCEPT ![c] = s]
  /\ used' = [used EXCEPT ![c] = @ \cup {s}]
  /\ UNCHANGED <<deleted, approved>>
  /\ Touch(ActivePairs(c))

DeleteChannel(c) ==
  /\ ~deleted[c]
  /\ deleted' = [deleted EXCEPT ![c] = TRUE]
  /\ UNCHANGED <<slug, used, approved>>
  /\ Touch(ActivePairs(c))

RestoreChannel(c) ==
  /\ deleted[c]
  /\ deleted' = [deleted EXCEPT ![c] = FALSE]
  /\ UNCHANGED <<slug, used, approved>>
  /\ Touch(ActivePairs(c))

\* A WebSocket connect enqueues the user's states again at their current
\* generation.  (Pairs with a membership but no state do not occur: every
\* membership change creates the state.)
Reconnect(u) ==
  LET known == {p \in Pairs : p[2] = u /\ generation[p] > 0} IN
  /\ reconnects < MaxReconnects
  /\ reconnects' = reconnects + 1
  /\ \A p \in known : rowLock[p] = Nobody
  /\ cmds' = cmds \cup {Command(p, generation[p], reconnects + 1, 0) : p \in known}
  /\ dead' = dead \ known
  /\ UNCHANGED <<db_vars, state_vars, rowLock, bound, worker_vars, faults>>

-----------------------------------------------------------------------------
(* Workers *)

\* Claim one outbox row.  Rows are retried, and skipped while another worker holds
\* them, so any pending row may be the next.
ClaimCommand(w) ==
  /\ stage[w] = "idle"
  /\ \E m \in cmds : /\ \A v \in Projectors : cmd[v] # m
                     /\ cmd' = [cmd EXCEPT ![w] = m]
  /\ stage' = [stage EXCEPT ![w] = "claimed"]
  /\ UNCHANGED <<db_vars, state_vars, rowLock, cmds, bound, snap, todo, reconnects, faults, dead>>

\* Nothing to claim: the worker sleeps for the poll interval.
PollCommands(w) ==
  /\ stage[w] = "idle"
  /\ \A m \in cmds : \E v \in Projectors : cmd[v] = m
  /\ UNCHANGED bindingVars

\* The SELECT takes its snapshot.
Snapshot(w) ==
  LET p == cmd[w].pair IN
  /\ stage[w] = "claimed"
  /\ snap' = [snap EXCEPT ![w] = [slug |-> slug[p[1]], desired |-> Desired(p)]]
  /\ stage' = [stage EXCEPT ![w] = "reading"]
  /\ UNCHANGED <<db_vars, state_vars, rowLock, cmds, bound, cmd, todo, reconnects, faults, dead>>

\* Mutants: the worker binds the current key without unbinding the obsolete ones;
\* it does not compare the generations.
LockStateBindOnly(w) ==
  LET p == cmd[w].pair IN
  /\ stage[w] = "reading"
  /\ rowLock[p] = Nobody
  /\ generation[p] = cmd[w].gen
  /\ rowLock' = [rowLock EXCEPT ![p] = w]
  /\ stage' = [stage EXCEPT ![w] = "projecting"]
  /\ UNCHANGED <<db_vars, state_vars, cmds, bound, cmd, snap, todo, reconnects, faults, dead>>
LockStateAnyGeneration(w) ==
  LET p == cmd[w].pair IN
  /\ stage[w] = "reading"
  /\ rowLock[p] = Nobody
  /\ rowLock' = [rowLock EXCEPT ![p] = w]
  /\ todo' = [todo EXCEPT ![w] =
       (routing_keys[p] \cup {snap[w].slug}) \ (IF snap[w].desired THEN {snap[w].slug} ELSE {})]
  /\ stage' = [stage EXCEPT ![w] = "projecting"]
  /\ UNCHANGED <<db_vars, state_vars, cmds, bound, cmd, snap, reconnects, faults, dead>>

\* The SELECT obtains the row lock and sees the row's latest version; its
\* generation is the command's, so the projection starts.
LockState(w) ==
  LET p == cmd[w].pair IN
  /\ stage[w] = "reading"
  /\ rowLock[p] = Nobody
  /\ generation[p] = cmd[w].gen
  /\ rowLock' = [rowLock EXCEPT ![p] = w]
  /\ todo' = [todo EXCEPT ![w] =
       (routing_keys[p] \cup {snap[w].slug}) \ (IF snap[w].desired THEN {snap[w].slug} ELSE {})]
  /\ stage' = [stage EXCEPT ![w] = "projecting"]
  /\ UNCHANGED <<db_vars, state_vars, cmds, bound, cmd, snap, reconnects, faults, dead>>

\* A worker leaves its transaction: its locks are released.
Finish(w) ==
  /\ rowLock' = [p \in Pairs |-> IF rowLock[p] = w THEN Nobody ELSE rowLock[p]]
  /\ stage' = [stage EXCEPT ![w] = "idle"]
  /\ cmd' = [cmd EXCEPT ![w] = Nobody]
  /\ snap' = [snap EXCEPT ![w] = Nobody]
  /\ todo' = [todo EXCEPT ![w] = {}]

\* Mutant: a stale command is not acknowledged.
DropStaleUnacknowledged(w) ==
  LET p == cmd[w].pair IN
  /\ stage[w] = "reading"
  /\ rowLock[p] = Nobody
  /\ generation[p] # cmd[w].gen
  /\ Finish(w)
  /\ UNCHANGED <<db_vars, state_vars, cmds, bound, reconnects, faults, dead>>

\* The command turns out to be stale, and is acknowledged without any effect.
DropStale(w) ==
  LET p == cmd[w].pair IN
  /\ stage[w] = "reading"
  /\ rowLock[p] = Nobody
  /\ generation[p] # cmd[w].gen
  /\ cmds' = cmds \ {cmd[w]}
  /\ Finish(w)
  /\ UNCHANGED <<db_vars, state_vars, bound, reconnects, faults, dead>>

\* queue.unbind of one obsolete key.
Unbind(w) ==
  LET u == cmd[w].pair[2] IN
  /\ stage[w] = "projecting"
  /\ \E k \in todo[w] : /\ bound' = [bound EXCEPT ![u] = @ \ {k}]
                        /\ todo' = [todo EXCEPT ![w] = @ \ {k}]
  /\ UNCHANGED <<db_vars, state_vars, rowLock, cmds, stage, cmd, snap, reconnects, faults, dead>>

\* queue.bind of the current key, or nothing to bind.
Bind(w) ==
  LET u == cmd[w].pair[2] IN
  /\ stage[w] = "projecting"
  /\ todo[w] = {}
  /\ bound' = [bound EXCEPT ![u] = IF snap[w].desired THEN @ \cup {snap[w].slug} ELSE @]
  /\ stage' = [stage EXCEPT ![w] = "projected"]
  /\ UNCHANGED <<db_vars, state_vars, rowLock, cmds, cmd, snap, todo, reconnects, faults, dead>>

\* The state row is updated and committed with the status of the outbox row.
CommitApplied(w) ==
  LET p == cmd[w].pair IN
  /\ stage[w] = "projected"
  /\ routing_keys' = [routing_keys EXCEPT ![p] = {snap[w].slug}]
  /\ reconciled' = [reconciled EXCEPT ![p] = generation[p]]
  /\ cmds' = cmds \ {cmd[w]}
  /\ Finish(w)
  /\ UNCHANGED <<db_vars, generation, bound, reconnects, faults, dead>>

\* A RabbitMQ operation raises: the failure is committed with the outbox row, the
\* state row is untouched and its lock released.
Fail(w) ==
  LET m == cmd[w] IN
  /\ stage[w] = "projecting"
  /\ faults < MaxFaults
  /\ faults' = faults + 1
  /\ IF m.tries + 1 >= MaxTries
       THEN /\ cmds' = cmds \ {m}
            /\ dead' = IF generation[m.pair] = m.gen THEN dead \cup {m.pair} ELSE dead
       ELSE /\ cmds' = (cmds \ {m}) \cup {Command(m.pair, m.gen, m.n, m.tries + 1)}
            /\ UNCHANGED dead
  /\ Finish(w)
  /\ UNCHANGED <<db_vars, state_vars, bound, reconnects>>

\* The worker dies, or the database fails: everything but the broker is rolled back.
ProjectorCrash(w) ==
  /\ stage[w] # "idle"
  /\ faults < MaxFaults
  /\ faults' = faults + 1
  /\ Finish(w)
  /\ UNCHANGED <<db_vars, state_vars, cmds, bound, reconnects, dead>>

-----------------------------------------------------------------------------
ApiStep ==
  \/ \E c \in Channels, u \in Users, a \in BOOLEAN : UpdateMembership(c, u, a)
  \/ \E c \in Channels, s \in Slugs : RenameSlug(c, s)
  \/ \E c \in Channels : DeleteChannel(c) \/ RestoreChannel(c)
  \/ \E u \in Users : Reconnect(u)

ProjectorStep(w) ==
  \/ ClaimCommand(w) \/ PollCommands(w) \/ Snapshot(w) \/ LockState(w) \/ DropStale(w)
  \/ Unbind(w) \/ Bind(w) \/ CommitApplied(w)

BindingNext ==
  \/ ApiStep
  \/ \E w \in Projectors : ProjectorStep(w) \/ Fail(w) \/ ProjectorCrash(w)

BindingSpec == BindingInit /\ [][BindingNext]_bindingVars

-----------------------------------------------------------------------------
(* Properties *)

Projecting(w) == stage[w] \in {"projecting", "projected"}

BindingTypeOK ==
  /\ slug \in [Channels -> Slugs]
  /\ deleted \in [Channels -> BOOLEAN]
  /\ used \in [Channels -> SUBSET Slugs]
  /\ approved \in [Pairs -> BOOLEAN]
  /\ generation \in [Pairs -> Nat]
  /\ reconciled \in [Pairs -> Nat]
  /\ routing_keys \in [Pairs -> SUBSET Slugs]
  /\ rowLock \in [Pairs -> Projectors \cup {Nobody}]
  /\ cmds \subseteq Commands
  /\ bound \in [Users -> SUBSET Slugs]
  /\ stage \in [Projectors -> {"idle", "claimed", "reading", "projecting", "projected"}]
  /\ \A w \in Projectors : stage[w] # "idle" => cmd[w] \in Commands
  /\ \A w \in Projectors : stage[w] \notin {"idle", "claimed"}
                          => snap[w] \in [slug : Slugs, desired : BOOLEAN]
  /\ cmd \in [Projectors -> Commands \cup {Nobody}]
  /\ snap \in [Projectors -> [slug : Slugs, desired : BOOLEAN] \cup {Nobody}]
  /\ todo \in [Projectors -> SUBSET Slugs]
  /\ reconnects \in Nat
  /\ faults \in Nat
  /\ dead \subseteq Pairs

\* The channel and membership the worker read before it waited for the row lock are
\* still the current ones while it changes the broker: every change that matters
\* raises the generation in the same transaction, and then the command is stale.
\* The slug may be stale only where nothing is to be bound.
SnapshotStillCurrent ==
  \A w \in Projectors : Projecting(w) =>
    LET p == cmd[w].pair IN
    /\ rowLock[p] = w
    /\ generation[p] = cmd[w].gen
    /\ snap[w].desired = Desired(p)
    /\ Desired(p) => snap[w].slug = slug[p[1]]

\* "Keep every not-yet-reconciled key across slug changes" (models.py): a key that a
\* crash or an error left bound on a user's queue is among the keys of a state row of
\* that user, and if the row is reconciled, the key is the one it should have.  So
\* the next projection removes every key that is not wanted.
NoStrayKey ==
  \A u \in Users : \A k \in bound[u] : \E c \in Channels :
    /\ k \in routing_keys[<<c, u>>]
    /\ generation[<<c, u>>] = reconciled[<<c, u>>] => k \in Target(<<c, u>>)

\* The channel's slug was once another channel's.
SlugReused(c) == \E d \in Channels \ {c} : slug[c] \in used[d]

\* A reconciled state has its key bound.  The exception is a slug that another channel
\* gave up: that channel's own projection, when it comes late, unbinds it.
NoMissingKey ==
  \A p \in Pairs : generation[p] = reconciled[p] => Target(p) \subseteq bound[p[2]] \/ SlugReused(p[1])

\* Work is never lost: a state that is not reconciled has a pending command for
\* its current generation, or that command was dead-lettered.
PendingHasCommand ==
  \A p \in Pairs : generation[p] # reconciled[p] =>
    \/ p \in dead
    \/ \E m \in cmds : m.pair = p /\ m.gen = generation[p]

\* outbox_runner.py: a queue has the keys of the reconciled states, but for slugs
\* taken over from another channel, and no other that is not going to be removed;
\* what is not reconciled yet is on its way.
BindingsTracked == NoStrayKey /\ NoMissingKey /\ PendingHasCommand

\* outbox_runner.py: again and again, once changes pause, every state is reconciled,
\* unless its command was dead-lettered.
EventuallyReconciled ==
  []<>(\A p \in Pairs : generation[p] = reconciled[p] \/ p \in dead)

=============================================================================
