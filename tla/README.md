# A TLA+ verification of MessagingSystem

This directory holds TLA+ models of the backend (`src/backend/app`) and of the
delivery worker (`src/worker/worker_app`), the TLC configurations that check
them on small instances, and proofs that the proof system TLAPS checks for
every value of the constants. `PROJECT.json` lists the runs, maps every
definition to the lines it models, and records hazards, findings and theorems.

To repeat a run: `tlc -config MCWorker.cfg MCWorker` (and so on); to repeat a
proof: `tlapm Messages_proofs.tla` (and so on).

## The system

PostgreSQL is the source of truth. An API request changes rows and, in the same
transaction, appends rows to the *outbox*. The worker polls the outbox, and for
each row either publishes a message to a RabbitMQ topic exchange or brings the
bindings of a user's queue in line with the database (*broker binding*). For
each user who is online, as *presence* in Redis says, the worker consumes the
user's queue and forwards it over Redis pub/sub (*fan-out*); the backend process
holding the user's WebSocket forwards it to the socket after checking that the
user may still read the channel (*delivery gate*). A client that missed
something *catches up* from PostgreSQL. Every change of a channel also appends
an event to a hash-chained audit log, which a checkpointer commits to a chain of
Merkle roots. Message bodies and uploads are encrypted at rest, and operators
rotate the keys while the service runs.

| Part | Source | Modules | Kept in the model |
|---|---|---|---|
| Outbox | `outbox_runner.py`, `delivery_service.py`, `outbox_service.py` | `Outbox` | status, attempts, retry time, row locks, open transactions, copies the broker took |
| Broker bindings | `outbox_runner.py`, `outbox_service.py` | `BrokerBinding` | slugs, desired and actual bindings, generations, commands, what a worker has read |
| Fan-out | `amqp_consumer_runner.py`, `mq/topology.py`, `worker_app/main.py` | `Fanout` (extends `Presence`) | user queues, consumer tasks, deliveries they hold, Redis outages |
| Presence | `realtime/presence.py` | `Presence` | leases, index, online set, heartbeats in flight, clocks that disagree |
| Audit log | `event_integrity_service.py` | `EventChain` | rows, scope locks, transactions, clocks |
| Checkpoints | `merkle_audit_service.py`, `merkle_checkpoint_service.py` | `MerkleCheckpoint` (extends `EventChain`) | batches, checkpoint lock, selections |
| Merkle trees | `merkle_service.py` | `Merkle` | one tree, one proof, one claim |
| Memberships, invites | `channel_service.py`, `rbac.py`, `admin_service.py` | `Membership`, abstract `ChannelAccess` | roles, permissions, invites, generation, desired bindings, requests split at their locks |
| Delivery gate | `ws_manager.py` | `WSDelivery` (extends `ChannelAccess`) | events under way, the cache of each socket, queries in flight |
| Messages | `message_service.py` | `Messages` | rows, reactions, pins, seen markers, last events, transactions split at their locks |
| History pages | `message_service.py`, `routes/messages.py` | `History` | a reader's window over a changing channel |
| Sync, socket commands | `message_service.py`, `ws_manager.py` | `CatchUp` | a client's cursors, one request under way, budgets |
| Sessions | `auth_service.py`, `admin_service.py` | `AuthSession`, abstract `SessionLife` | sessions, tokens, deadlines, passwords, requests split at locks and snapshots |
| Sockets | `ws_manager.py`, `ws_ticket_service.py`, `main.py` | `SocketLifecycle` | tickets, handshakes, registries, control events |
| E-mail verification | `email_verification_service.py`, `routes/users.py` | `EmailVerification` | addresses, challenges, mail under way, the user each request loaded |
| Limits | `rate_limit_service.py`, `ws_abuse_control.py` | `RateLimit` | counters, fallback windows and heap, a token bucket, retry hints |
| Upload format | `core/upload_encryption.py` | `UploadContainer` | header, frames, reader and writers, damage |
| Uploads | `message_service.py`, `crypto_tool.py`, `download_service.py` | `Uploads` | rows, files, key ring, stores, tool, status, download leases |
| Message bodies | `core/encryption.py`, `crypto_tool.py` | `MessageKeys` | formats and keys of bodies, edits, tool, status |

Definitions keep the names of the functions they model where TLA+ allows it, or
name the step of the function in a comment. A handler is one action where its
transaction holds the locks that make it one; where a handler reads before it
locks, waits, or calls another system, each such point is an action of its own,
with what was read kept in the request's record. Two conventions of the code
matter throughout and are modelled, not assumed away:

* under READ COMMITTED each statement has its own snapshot, and a statement that
  waited for a row lock sees the row as committed, but joined rows as they were;
* a SQLAlchemy session keeps the objects it has loaded, also when a later
  `SELECT ... FOR UPDATE` returns a newer row, and writes only attributes that
  differ from what was loaded. Authentication loads the user in the session of
  the request, so `change_password` and the e-mail handlers act on that copy.

How components are put together: `Fanout` runs beside `Presence` on one Redis
and scans the online set that presence maintains; `MerkleCheckpoint` runs beside
the writers of `EventChain`; `WSDelivery` is written over the abstract
`ChannelAccess`, and `Membership` is shown to implement `ChannelAccess` for every
account, so what the gate relies on is what the handlers do; `AuthSession`
implements `SessionLife`.

## Runs

Some runs explore several components that share no state. Their MC module has a
variable `part`, and each behaviour moves the component it names; the others
stand still in one initial state. This is a sum, not a product: each part is
explored as if alone. The parts of `MCService` take their interchangeable
members (requests, sessions, accounts, emojis and so on) from the same model
values, so that one small symmetry group serves all; that run has no liveness
property, for which symmetry would be unsound.

| Run | Checks |
|---|---|
| `worker` | `RowsTruthful`: a row marked published reached the broker, extra copies are explained by a crash, an ambiguous error or a manual retry, and status, attempts and retry time agree. `BindingsTracked`: no queue has a key without a state that wants it or will remove it, a reconciled binding is there unless another channel once had its slug, an unreconciled one has a live command. `SnapshotStillCurrent`: a projection acts on current data although it read before it waited. `EventuallySettled`, `EventuallyReconciled`: rows and bindings settle. |
| `audit` | `ChainVerifies`, `CheckpointsSound`: chains and checkpoints verify at every moment; no event is batched twice, skipped or overtaken in its scope. `EventuallyCheckpointed`. `ProofsExact`: for one to nine leaves, the root equals a recursive reference and the verifier accepts exactly genuine claims. |
| `service` | see the list below |
| `fanout` | `OnlineTracked`: lease holders are online and nobody online is out of the reaper's reach. `LeaseKept`: only its own disconnect ends a lease no clock considers over. `PresenceConverges`. `FanoutLossless`: only the queue's own bounds lose events. `FanoutServes`: a connected user's events reach Redis. |
| `clients` | `RegistriesExact`: a ticket admits one socket, and slots and registries match the sockets served. `EndedSessionsDisconnect`: sockets of ended sessions close although control events are lost. `CursorCovers`: a cursor never jumps over a message. `CatchesUp`. |
| `storage` | `DownloadsGenuine`: a download returns the stored body or reports failure. `FinalizedContentKept`: a finalized upload keeps a file. `KeyRemovalSafe`, `BodiesIntact`: the documented order of a rotation loses no file and no text. `AlarmsExplained`: a download fails its integrity checks only for a cause named there. `LeasesExact`: download counters never leak and limits hold. `StorageRotates`: repeated runs finish. |

The properties of `service`:

* memberships: `DesiredMatchesRole`, the binding asked for is the one the role
  calls for; `InvitesBounded`, quota and single use of invites under overlapping
  requests; `ImplementsChannelAccess`, the refinement the gate relies on;
* gate: `SentWithAccess`, an event goes out only if the user could read the
  channel at a generation not older than the event's;
* messages: `TablesConsistent`, sequence numbers, the outbox rows committed last,
  pins and emoji quota agree with the tables; `RetriesIdempotent`; `NeverBack`, seen markers and deletions are final;
* history: `HistoryWindow`, pages leave no hole and `has_more` is truthful;
* sessions: `TokenExchangedOnce`; `PasswordChangeEndsSessions`;
  `ImplementsSessionLife`, revocation and the absolute deadline are final;
* e-mail: `ConfirmsCurrentAddress`, a confirmation proves the address of that
  moment, also when it confirms the same address again; `TokensSingle`, at most one usable challenge, used once;
* limits: `RetryAfterHonest`, who waits as told is admitted (Redis rounds a TTL
  to the nearest second, which may take half a second more); `LocalStateBounded`,
  the fallback's heap, a bag, has one entry for each window of its dictionary.

Six further runs are expected to violate their property. Each states what a
comment or document of the repository says, and TLC shows that the code does
otherwise:

* `outbox_retry_race` (`ManualRetryOnlyAfterFailure`): a manual retry reads a
  row without a lock, a worker publishes it, the retry's UPDATE by id makes it
  pending again.
* `membership_owner` (`OwnerKept`): adding the owner as a member, or a targeted
  invite accepted by the owner, makes the owner a plain member; no endpoint
  transfers ownership back.
* `email_change_race` (`VerifiedProvesMailbox`): an address change that was
  authenticated before a confirmation committed does not reset
  `email_verified_at`, because the session still holds NULL for it; the new
  address inherits the proof of the old one.
* `storage_rotation` (`RotationCompletes`): a body that is NULL (a deleted
  message, or one of attachments alone) makes every `rotate-messages` run raise
  at its batch.
* `fanout_consumers` (`ConsumersReconciled`): a consumer task that ended with an
  exception stays in `self.tasks`, so none is started while the user stays
  online.
* `sync_deleted_channel` (`SyncRecovers`): one deleted channel among the selected
  ones fails the whole `/sync`.

## Bounds, and why they are enough

| Run | Instance |
|---|---|
| `worker` | two rows, two workers, one operator, two attempts, one crash, one manual retry; one channel that may change between two slugs, one user, two projecting workers, two generations, one reconnect, two faults; the same with a second channel, each renamed at most once so that one takes the other's slug, and one fault |
| `audit` | two scopes, two writers, three events, two clock values, two checkpointers, batches of one, one fault; trees of up to nine leaves |
| `service` | an owner and two accounts, two invites, quota one, two overlapping invite requests; one user with two overlapping requests, two messages, one edit, two emojis, emoji quota one; one socket, two events, four generations; a history of five messages, pages of two; two sessions, two requests, deadlines of two and three ticks, two tokens, two passwords; two people, two mailboxes, two requests, two challenges, one address change; two limiter keys, a bucket of three with costs one and three, twelve quarter-seconds, with Redis going away only in the first two of them |
| `fanout` | one user, two connections on two instances, leases of three ticks, clocks one tick apart, two events, a queue of one, two Redis attempts, one outage |
| `clients` | two sessions, sockets, instances and tickets, one connection per user; two channels of two messages, one message per request, one disturbance, for `/sync` and apart from it for the commands of a socket |
| `storage` | sizes one to five with chunks of two, two keys; two files, one store, three downloads, one download per user and per address and two in all, one fault; two messages, batches of one, two writes, one fault of the tool |

The hazards are between two actors, or between one actor and one fault, so two
of each kind and one fault reach them; limits are one or two so that they are
met, exceeded and met again. Times are small integers: what matters is which of
two deadlines comes first. In `service`, one person asks for challenges and one
mail is under way at a time (`OneSubject`), which keeps the e-mail part small;
both people still hold and change addresses. Twelve quarter-seconds are enough for
a Redis window to end, its retry hint included. Each property has a mutant in
`PROJECT.json`, a plausible bug in a mapped definition that breaks it in the same
instance, so none of the bounds hides the case its property is about.

Deadlock is not checked where the bounded requests, events or clocks run out,
which is the end of the instance and not a state in which the program waits.

## Fairness

`EventuallySettled`, `EventuallyReconciled` and `PresenceConverges` state
convergence (`[]<>`): once the bounded disturbances (requests, faults, outages)
are used up, the good state returns. The others are of the form `P ~> Q`. Nothing
is assumed of users and writers, of the start of a manual retry, of crashes or of
faults. Three properties exempt the state that a finding is about, and a violating
run covers it: `FanoutServes` a consumer that ended with an exception
(`fanout_consumers`), `CatchesUp` a client with a deleted channel among its own
(`sync_deleted_channel`), `StorageRotates` a body the tool refuses, and a file it
cannot read (`storage_rotation`).

* `worker`: weak fairness of one action, `GoesOn`, the union of the steps of a
  polling worker, of a retry time coming due and of a manual retry that has begun.
  The polling loops of `worker_app/main.py` never end, and a request does.
* `audit`: weak fairness of each checkpointer, which runs on a timer.
* `fanout`: clocks advance, heartbeats and reapers run on their intervals, the
  worker is started and Redis comes back (weak). Strong fairness is used for a
  heartbeat landing, a scan while the user is online, and the steps of a
  consumer, which take milliseconds while what interrupts them (leases, scans)
  takes seconds.
* `clients`: each socket's handler proceeds and its timers fire; a request is
  answered (weak); the client syncs again and again (strong, since a disturbance
  may disable it). `CatchesUp` holds once publication pauses, which the bound on
  sequence numbers expresses: channels share one request's limit in a fixed
  order, so a channel that is never quiet may hold up the ones behind it.
* `storage`: a request ends; the tool proceeds (weak); PostgreSQL grants a row
  lock to a waiter in its turn, and the operator runs the rotation again after it
  ended (strong), which is what `docs/DEPLOYMENT.md` asks of them.

## Proofs

Eight modules hold theorems, checked by TLAPS for all values of the constants
that satisfy the named assumptions. These are sanity conditions such as
`MaxAttempts \in Nat \ {0}`, or that the value standing for "no row" is not a
row, and TLC evaluates them in the runs. Every safety property of a passing run
is stated by a theorem. Most of the inductive invariants were first checked by
TLC on an instance like those above.

`Stores_proofs`

* `BindingsExact`, `ReadsAreCurrent`, without an assumption on slugs. The invariant
  says that a projecting worker holds the lock and that what it read is still
  current, which follows since every change of desired state raises the generation
  under the same lock (`ReadCurrent`, `Locked`). Each bound key has a state that
  answers for it (`Warranted`): its row lists the key, it wants the key unless a
  projection is still to come, and a projection under way has the key on its list.
  A projection unbinds only keys its channel has had (`Progress`), so it takes the
  key of another state only where a slug was reused, the exception
  `BindingsTracked` names.
* `DownloadsAlwaysGenuine`, `AnyDamageReadsGenuine`. The frames written so far are
  the chunks of the body received so far, each sealed with the header and its index,
  and the stored file is all of them (`ContainerInv`). A reader that has accepted frames 0 to n-1 has
  therefore the beginning of the body, because a box that opens for a chunk of this
  upload was sealed with its header and index, and so holds that chunk
  (`SealedBefore`).
  The second theorem replaces the enumerated damage by any header and any sequence
  of sealed boxes (`AnyDamageSpec`).

`Integrity_proofs`

* `ChainAlwaysVerifies`, `ChainAppendOnly`. Each scope's chain is good both as
  committed and as the holder of the scope's lock sees it, and uncommitted rows
  are later than the committed ones of their scope whatever the clocks say.
* `CheckpointsAlwaysSound`, from the chain invariant, unique event ids, the
  checkpoint lock, and what a selection contains.
* `ProofsAlwaysExact`, `AnyClaimJudgedExactly`. Each level holds the roots of all
  subtrees of a power of two of leaves (`Subtrees`), so what remains at the end is
  the divide-and-conquer tree over all leaves (`RootIsTree`). The levels the builder
  went through are kept as history (`Trail`); the verifier climbs the same ones, and
  holding the hash of a level at its position means having started from the leaf of
  the batch (`At`). The second theorem lets the claim be any leaf, position and path
  (`AnyClaimSpec`).

`Realtime_proofs`

* `PresenceConsistent`, `LeasesKept`, under a bound on the error of clocks.
  Members have expirations, lease holders are online, and users who are online
  remain within the reaper's reach.
* `FanoutLosesNothing`. An event of a user is in the queue, held by the consumer,
  waiting to return to the queue, published or dropped, and these places together
  hold exactly the events routed so far (`Places`). An acknowledgement is sound
  because the event it is for is already published (`ConsumerSound`). The theorem
  is about `Fanout` beside `Presence`, and repeats `OnlineTracked` for the two
  together.
* `CursorsCover`. A request under way starts no channel beyond the client's
  cursor, and what it has read has no hole above its start (`RequestCovers`).
* `RegistriesStayExact`. A ticket that brought in a socket is gone from Redis and
  never issued again (`TicketsSpent`), and the registries follow the phases of
  the handlers (`RegistriesFollow`).

`Access_proofs`

* `RolesAndBindingsAgree`, `InvitesStayBounded`, `EveryChangeVersioned`, and the
  refinement `HandlersImplementAccess`. Actions are grouped by their effect on
  roles and on invites; the quota needs that whoever counts invites holds the
  lock until the insert.
* `DeliveryAuthorized`, `CacheSound`. The history of grants is current, and
  queries in flight and caches hold generations at which the user was authorised
  and which are not behind the event.

`Messages_proofs`

* `TablesAlwaysConsistent`, `RetriesAlwaysIdempotent`, `NothingGoesBack`. The
  invariant adds mutual exclusion of the locks and that what a request read under
  a lock is still so.
* `OutboxLocking`, `OutboxTruthful`. The invariant adds the lock discipline to the
  claims about rows: that a published row reached the broker is only inductive if
  whoever is about to commit still owns the row.

`Accounts_proofs`

* `NoTokenExchangedTwice`, `PasswordChangeRevokesAll`, and the refinement
  `SessionsImplementLife`. A refresh holds its row's lock and the row still has
  the token it was shown (`RowLocked`); the tokens exchanged are the versions
  before the current one, in order (`ExchangedInOrder`). For the password change,
  the rows its UPDATE selected contain every session not yet revoked, and no login
  has a row waiting to be committed (`SnapshotComplete`): a login holds the user's
  row from its insert on, which is why the lock in `change_password` matters.
* `TokensAreSingle`, `ConfirmationIsCurrent`. Active challenges of one user are
  equal (`OneActive`), and a confirmation whose challenge is still active has
  loaded the current address (`LoadedCurrent`): changing the address revokes the
  challenges, so a stale copy of the user never meets an active one.

`Requests_proofs`

* `LocalStateStaysBounded`, `RetryHintsHold`. A hint is kept with what makes it
  true later: the expiry of the caller's window, a bound on how many windows
  outlast the hint when the table was full (`LocalHints`), or the refill that
  covers the cost (`BucketHints`). Rounding up is a lemma for every divisor.
* `HistoryHasNoHoles`. The two statements of `messages_around` run apart, so the
  invariant also says that what the first read has no hole up to the centre
  (`JumpCovers`); lemmas say which messages a page of a limited, ordered query
  holds.
* `BodiesStayIntact`. The rows of a batch are locked by the tool and are as it
  read them (`LocksHeld`), and what the status command has seen free of the former
  key stays free of it, because nothing writes a key that is not active
  (`StatusSound`).

`Uploads_proofs`

* `FinalizedContentStays`, `KeyRemovalStaysSafe`, `AlarmsHaveCauses`, all from one
  invariant that relates, for each upload, its row, its file, the store that has
  linked it (`StoreSound`), what the tool's open transaction will write
  (`BatchSound`), what the status scan has seen (`ScanSound`) and what a download
  read before (`DownSound`). Row and file change at different moments, so it says
  in which direction they may differ and who will repair or abandon it.
* `LeasesStayExact`. Each counter is the cardinality of a set of downloads; the
  lemmas say how that changes when one starts or ends.

Where an argument would need induction over numbers, a fact of the library takes
its place: `<` is well-founded on the naturals, so a set of them that is not
empty has a least element (`LeastNatural`), and one with a bound a greatest.

Only model-checked:

* the liveness properties, since fairness and `ENABLED` are outside the prover's
  reach: `EventuallySettled`, `EventuallyReconciled`, `EventuallyCheckpointed`,
  `PresenceConverges`, `FanoutServes`, `EndedSessionsDisconnect`, `CatchesUp`,
  `StorageRotates`.

## Abstractions a reader should know

* Cryptography is ideal: a hash is the value it was computed from, and a
  ciphertext opens under its own key only and is recognised when damaged.
* Presence: the scripts write one score to two sorted sets, and the model keeps
  one. Redis scripts are atomic.
* Messages: the run has one user with two overlapping requests, which is where
  idempotency and stale reads bite; the theorems hold for any users.
* Checkpoints: the stored leaf count of a batch is the number of its leaves, and
  is not kept apart.
* Messages: `TablesConsistent` compares the tables with the outbox row committed
  last. The worker sends rows by `created_at`, the start of the transaction that
  wrote them (`outbox_runner.py:135`), and sends failed ones again later, so what
  subscribers are sent last may be an older copy. `Messages` and `Outbox` are in
  different runs and nothing is claimed of that order.
* Broker bindings: the code lets a channel take a slug another one gave up. An
  unbind of the old channel that is projected late (`outbox_runner.py:266`) removes
  the new channel's binding while its state counts as reconciled. The model has
  this, and `SlugReused` is where `NoMissingKey` says less.
* Checkpoints: `verify_database` also compares the number of rows that are missing
  (`merkle_audit_service.py:274`) and the stored leaf indexes; leaves are a sequence
  here, so neither can be wrong.
* Sockets: `disconnect_user` closes the sockets of a user one after the other with
  an await between them; the model closes them in one step, and a socket whose close
  is slow is one whose control event is late, which the model has.
* Sync: the cut at `PROTOCOL_CHANNEL_ARRAY_MAX` channels is left out; instances have
  two.
* Uploads: `collect_status` reads the rows of each batch when it comes to it; the
  model reads them once, at the start, which sees less of what is written meanwhile.
  A clean status asks a little more than the document does.

## Hazards that no property covers

`PROJECT.json` lists the hazards with the properties about them. Three have none,
and a note says why:

* rows are sent in another order than they were committed (above);
* migrating a legacy queue drops its channel bindings until the user reconnects;
* a login that overlaps a deactivation keeps its session row, which is refused
  only while the account is inactive (`admin_service.py:311`).

Others were met while reading, and no property is stated because the repository
promises nothing definite about them:

* events may reach a user's Redis channel out of order after a consumer was
  cancelled, since its deliveries return to the queue beside a new consumer;
* `create_invite` uses a role it read without a lock, and a history page is read
  after the membership check of its command (both windows are in the models);
* `/sync` sends messages after the cursor, so an edit or a deletion of a message
  the client already has is not recovered;
* a legacy plaintext file that is migrated between its check and its opening is
  sent in its stored form (`routes/messages.py:605`).

Some behaviour is in the models, is allowed by the properties and is still worth
a maintainer's attention:

* a crash after `os.link` leaves an upload pending, and every later attempt is
  refused as already stored (`message_service.py:1134`, `1081`);
* a commit that succeeds but raises makes the handler unlink the file of a
  finalized row (`message_service.py:1176`). `FinalizedContentKept` names this as
  its one exception;
* a download fails between `os.replace` and the commit of a rotation;
* `change_password` verifies against the hash loaded at authentication, so two
  overlapping changes may both pass with the old password
  (`auth_service.py:252`). Each still ends every session it sees;
* a subscribe that repeats the last one is acknowledged without history.

## Not modelled

* *Web client* (`src/frontend`): React components. `CatchUp` and `History` model a
  client by the cursors it sends, which is all the service sees of it.
* *Mail transport*: I/O; its outcomes are `Deliver` in `EmailVerification`.
* *Configuration, schemas, HTTP adapters*: validation of single values and
  translation, without state that changes.
* *Migrations and database roles*: run once before the service starts. The
  constraints they declare are part of the modules that rely on them.
* *Superadmin bootstrap, command-line tools, release and demonstration scripts*:
  one-shot sequential drivers around operations modelled here.
* *Parts of modelled components*: profile fields of a channel, listings, searches
  and statistics; registration, cookies and CSRF; the membership updates of a
  sync and framing errors of the inbound loop.
* *Quantities*: time is counted in ticks, and throughput and latency are outside
  what these models can say.

## Plan

1. Compose `Membership` with `BrokerBinding`, so that desired bindings come from
   the handlers instead of from a free choice.
2. Compose `Messages` with `Outbox`, to say in which order edits reach a client, and
   the migration of queues with the projection of bindings.
3. Follow the code: when a finding is fixed, its run becomes a passing one with
   the same property.
