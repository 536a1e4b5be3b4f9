----------------------------- MODULE Stores_proofs --------------------------
(***************************************************************************)
(* Proofs about what the service keeps outside PostgreSQL: the bindings    *)
(* the outbox worker projects into RabbitMQ, for any number of channels,   *)
(* users and workers and any bound on reconnects and faults, and the       *)
(* encrypted files of uploads, for any size, chunk size and keys.          *)
(***************************************************************************)
EXTENDS BrokerBinding, UploadContainer, TLAPS

-----------------------------------------------------------------------------
(***************************************************************************)
(* Reconciled broker bindings are exact, but for slugs that pass from one   *)
(* channel to another.                                                     *)
(*                                                                         *)
(* The argument: a projection runs under the row lock of a state whose     *)
(* generation is its command's, so what it read is current (ReadCurrent).  *)
(* Every key that is bound has a state that answers for it (Warranted):    *)
(* the row lists the key, the key is wanted or a projection is still to    *)
(* come, and a projection under way has it on its list.  A projection only *)
(* unbinds keys its own channel has had (Progress), so it can take away    *)
(* the key of another state only where a slug was reused.                  *)
(***************************************************************************)

Reading(w) == stage[w] \in {"reading", "projecting", "projected"}

\* Generations only grow: no command is ahead of its state, no reconciliation either.
Ordered ==
  /\ \A p \in Pairs : reconciled[p] <= generation[p]
  /\ \A m \in cmds : m.gen <= generation[m.pair]
  /\ \A w \in Projectors : stage[w] # "idle" => cmd[w].gen <= generation[cmd[w].pair]

\* Keys and slugs are ones the channel has had.
Slugged ==
  /\ \A c \in Channels : slug[c] \in used[c]
  /\ \A p \in Pairs : routing_keys[p] \subseteq used[p[1]]
  /\ \A p \in Pairs : approved[p] => slug[p[1]] \in routing_keys[p]
  /\ \A w \in Projectors : Reading(w) => snap[w].slug \in used[cmd[w].pair[1]]

\* What a worker read is current unless its command is stale.
ReadCurrent ==
  \A w \in Projectors :
    Reading(w) /\ generation[cmd[w].pair] = cmd[w].gen =>
      /\ snap[w].desired = Desired(cmd[w].pair)
      /\ approved[cmd[w].pair] => snap[w].slug = slug[cmd[w].pair[1]]

\* A projection holds the row lock of a state at its command's generation.
Locked ==
  /\ \A w \in Projectors : Projecting(w) =>
       /\ rowLock[cmd[w].pair] = w
       /\ generation[cmd[w].pair] = cmd[w].gen
  /\ \A p \in Pairs : \A w \in Projectors : rowLock[p] = w => Projecting(w) /\ cmd[w].pair = p

\* What is still to be unbound, and what has been bound, as the projection advances.
Progress ==
  \A w \in Projectors :
    LET p == cmd[w].pair IN
    /\ stage[w] = "projecting" => todo[w] \subseteq used[p[1]] \ Target(p)
    /\ stage[w] = "projected" => todo[w] = {} /\ (Target(p) \subseteq bound[p[2]] \/ SlugReused(p[1]))

\* The state of the pair answers for a key bound on the user's queue.
Warrants(p, k) ==
  /\ k \in routing_keys[p]
  /\ generation[p] = reconciled[p] => k \in Target(p)
  /\ \A w \in Projectors : Projecting(w) /\ cmd[w].pair = p => k \in todo[w] \cup Target(p)

\* Every bound key has a state that answers for it.
Warranted == \A u \in Users : \A k \in bound[u] : \E c \in Channels : Warrants(<<c, u>>, k)

\* The inductive invariant.
BindingInv ==
  /\ BindingTypeOK /\ Ordered /\ Slugged /\ ReadCurrent /\ Locked /\ Progress
  /\ Warranted /\ NoMissingKey /\ PendingHasCommand

-----------------------------------------------------------------------------
(* Pairs and commands *)

\* A pair is determined by its channel and its user.
LEMMA PairFacts ==
  /\ \A p \in Pairs : p[1] \in Channels /\ p[2] \in Users
  /\ \A p, q \in Pairs : p[1] = q[1] /\ p[2] = q[2] => p = q
  /\ \A c \in Channels, u \in Users : <<c, u>> \in Pairs /\ <<c, u>>[1] = c /\ <<c, u>>[2] = u
  BY DEF Pairs

\* The fields of a command.
LEMMA CommandFacts ==
  /\ \A m \in Commands : m.pair \in Pairs /\ m.gen \in Nat /\ m.n \in Nat /\ m.tries \in Nat
  /\ \A p \in Pairs : \A g, n, t \in Nat :
       /\ Command(p, g, n, t) \in Commands
       /\ Command(p, g, n, t).pair = p
       /\ Command(p, g, n, t).gen = g
  BY Zenon DEF Commands, Command

-----------------------------------------------------------------------------
(* API transactions *)

\* All the API changes have one shape: they raise the generation of every pair P
\* they matter to, and leave what the others' projections read as it was.
ApiChange(P) ==
  /\ Touch(P)
  /\ slug' \in [Channels -> Slugs]
  /\ deleted' \in [Channels -> BOOLEAN]
  /\ used' \in [Channels -> SUBSET Slugs]
  /\ approved' \in [Pairs -> BOOLEAN]
  /\ \A c \in Channels : slug'[c] \in used'[c] /\ used[c] \subseteq used'[c]
  /\ \A p \in Pairs \ P :
       /\ approved'[p] = approved[p]
       /\ Desired(p)' = Desired(p)
       /\ approved[p] => slug'[p[1]] = slug[p[1]]

\* Each API action is such a change.
LEMMA ApiShape ==
  ASSUME BindingTypeOK, Slugged, ApiStep
  PROVE  (\E P \in SUBSET Pairs : ApiChange(P)) \/ (\E u \in Users : Reconnect(u))
<1>1. ASSUME NEW c \in Channels, NEW u \in Users, NEW a \in BOOLEAN, UpdateMembership(c, u, a)
      PROVE  ApiChange({<<c, u>>})
  <2>1. used' = used /\ slug' = slug /\ approved' = [approved EXCEPT ![<<c, u>>] = a]
    BY Zenon, <1>1 DEF UpdateMembership
  <2>2. <<c, u>> \in Pairs /\ approved' \in [Pairs -> BOOLEAN] /\ used' \in [Channels -> SUBSET Slugs]
    BY Zenon, <2>1, PairFacts DEF BindingTypeOK
  <2>3. \A d \in Channels : slug'[d] \in used'[d] /\ used[d] \subseteq used'[d]
    BY Zenon, <2>1 DEF Slugged
  <2>4. \A p \in Pairs \ {<<c, u>>} : approved'[p] = approved[p]
    BY Zenon, <2>1 DEF BindingTypeOK
  <2> QED BY Zenon, <1>1, <2>1, <2>2, <2>3, <2>4 DEF UpdateMembership, ApiChange, Desired, BindingTypeOK
<1>2. ASSUME NEW c \in Channels, NEW s \in Slugs, RenameSlug(c, s)
      PROVE  ApiChange(ActivePairs(c))
  BY <1>2 DEF RenameSlug, ActivePairs, ApiChange, Desired, BindingTypeOK, Slugged
<1>3. ASSUME NEW c \in Channels, DeleteChannel(c)
      PROVE  ApiChange(ActivePairs(c))
  BY <1>3 DEF DeleteChannel, ActivePairs, ApiChange, Desired, BindingTypeOK, Slugged
<1>4. ASSUME NEW c \in Channels, RestoreChannel(c)
      PROVE  ApiChange(ActivePairs(c))
  BY <1>4 DEF RestoreChannel, ActivePairs, ApiChange, Desired, BindingTypeOK, Slugged
<1>5. \A c \in Channels : ActivePairs(c) \in SUBSET Pairs
  BY Zenon DEF ActivePairs
<1>6. ASSUME NEW c \in Channels, NEW u \in Users PROVE {<<c, u>>} \in SUBSET Pairs
  <2>1. <<c, u>> \in Pairs
    BY Zenon DEF Pairs
  <2> QED BY <2>1, Zenon
<1> QED BY <1>1, <1>2, <1>3, <1>4, <1>5, <1>6, Zenon DEF ApiStep

\* What such a change leaves alone; the commands of the pairs it touches are stale.
LEMMA ApiFrame ==
  ASSUME BindingInv, NEW P \in SUBSET Pairs, ApiChange(P)
  PROVE  /\ UNCHANGED <<reconciled, rowLock, bound, stage, cmd, snap, todo>>
         /\ \A p \in Pairs \ P : generation'[p] = generation[p]
         /\ \A p \in P : rowLock[p] = Nobody
         /\ \A p \in P : \A g \in Nat : g <= generation[p] => generation'[p] # g
<1>1. UNCHANGED <<reconciled, rowLock, bound, stage, cmd, snap, todo>>
  BY Zenon DEF ApiChange, Touch, worker_vars
<1>2. \A p \in Pairs : generation'[p] = IF p \in P THEN generation[p] + 1 ELSE generation[p]
  BY Zenon DEF ApiChange, Touch
<1>3. \A p \in P : rowLock[p] = Nobody
  BY Zenon DEF ApiChange, Touch
<1>4. \A p \in Pairs : generation[p] \in Nat
  BY Zenon DEF BindingInv, BindingTypeOK
<1>5. \A n \in Nat : \A g \in Nat : g <= n => n + 1 # g
  OBVIOUS
<1> QED BY Zenon, <1>1, <1>2, <1>3, <1>4, <1>5

\* A change made by the API lowers no generation.
LEMMA Raised ==
  ASSUME BindingInv, NEW P \in SUBSET Pairs, ApiChange(P)
  PROVE  \A p \in Pairs : generation[p] <= generation'[p]
<1>1. \A p \in Pairs : generation'[p] = IF p \in P THEN generation[p] + 1 ELSE generation[p]
  BY Zenon DEF ApiChange, Touch
<1>2. \A p \in Pairs : generation[p] \in Nat
  BY Zenon DEF BindingInv, BindingTypeOK
<1>3. \A n \in Nat : n <= n /\ n <= n + 1
  OBVIOUS
<1> QED BY Zenon, <1>1, <1>2, <1>3

\* A worker changes no other worker.
LEMMA WorkerFrame ==
  ASSUME BindingInv, NEW w \in Projectors, ProjectorStep(w) \/ Fail(w) \/ ProjectorCrash(w)
  PROVE  /\ UNCHANGED <<slug, deleted, used, approved, generation>>
         /\ \A v \in Projectors \ {w} :
              cmd'[v] = cmd[v] /\ stage'[v] = stage[v] /\ snap'[v] = snap[v] /\ todo'[v] = todo[v]
<1>1. CASE Finish(w)
  BY Zenon, <1>1 DEF Finish, BindingInv, BindingTypeOK, db_vars, state_vars, ProjectorStep, ClaimCommand, PollCommands,
     Snapshot, LockState, DropStale, Unbind, Bind, CommitApplied, Fail, ProjectorCrash, bindingVars
<1> QED BY Zenon, <1>1 DEF BindingInv, BindingTypeOK, db_vars, state_vars, ProjectorStep, ClaimCommand, PollCommands,
     Snapshot, LockState, DropStale, Unbind, Bind, CommitApplied, Fail, ProjectorCrash, bindingVars

-----------------------------------------------------------------------------
(* One lemma per conjunct of the invariant, one case per action *)

\* Every step keeps the types.
LEMMA TypeStep ==
  ASSUME BindingInv, [BindingNext]_bindingVars
  PROVE  BindingTypeOK'
<1>0. \A v \in Projectors : stage[v] # "idle" => cmd[v].pair \in Pairs /\ cmd[v].gen \in Nat
  BY CommandFacts, Zenon DEF BindingInv, BindingTypeOK
<1>1. ASSUME NEW P \in SUBSET Pairs, ApiChange(P) PROVE BindingTypeOK'
  <2>1. cmds' \subseteq Commands
    <3>1. \A p \in P : Command(p, generation[p] + 1, 0, 0) \in Commands
      BY CommandFacts DEF BindingInv, BindingTypeOK
    <3> QED BY <1>1, <3>1, Zenon DEF ApiChange, Touch, BindingInv, BindingTypeOK
  <2>2. generation' \in [Pairs -> Nat]
    BY <1>1 DEF ApiChange, Touch, BindingInv, BindingTypeOK
  <2>3. routing_keys' \in [Pairs -> SUBSET Slugs]
    BY <1>1, PairFacts DEF ApiChange, Touch, BindingInv, BindingTypeOK
  <2> QED BY <1>1, <2>1, <2>2, <2>3, Zenon DEF ApiChange, Touch, BindingInv, BindingTypeOK, worker_vars
<1>2. ASSUME NEW u \in Users, Reconnect(u) PROVE BindingTypeOK'
  <2>1. cmds' \subseteq Commands
    <3>1. \A p \in Pairs : Command(p, generation[p], reconnects + 1, 0) \in Commands
      <4>1. generation \in [Pairs -> Nat] /\ reconnects \in Nat
        BY Zenon DEF BindingInv, BindingTypeOK
      <4> QED BY <4>1 DEF Command, Commands
    <3> QED BY <1>2, <3>1, Zenon DEF Reconnect, BindingInv, BindingTypeOK
  <2> QED BY <1>2, <2>1 DEF Reconnect, BindingInv, BindingTypeOK, db_vars, state_vars, worker_vars
<1>3. ASSUME NEW w \in Projectors, ProjectorStep(w) \/ Fail(w) \/ ProjectorCrash(w) PROVE BindingTypeOK'
  <2>1. CASE ClaimCommand(w)
    BY <1>0, <2>1, Zenon DEF ClaimCommand, BindingInv, BindingTypeOK, db_vars, state_vars
  <2>2. CASE PollCommands(w)
    BY <1>0, <2>2, Zenon DEF PollCommands, bindingVars, BindingInv, BindingTypeOK
  <2>3. CASE Snapshot(w)
    <3>1. cmd[w].pair \in Pairs
      BY <2>3, CommandFacts, Zenon DEF Snapshot, BindingInv, BindingTypeOK
    <3>2. snap'[w] \in [slug : Slugs, desired : BOOLEAN]
      BY <2>3, <3>1, PairFacts DEF Snapshot, Desired, BindingInv, BindingTypeOK
    <3> QED BY <2>3, <3>2, Zenon DEF Snapshot, BindingInv, BindingTypeOK, db_vars, state_vars
  <2>4. CASE LockState(w)
    <3>1. cmd[w].pair \in Pairs /\ snap[w].slug \in Slugs
      BY <2>4, CommandFacts, Zenon DEF LockState, BindingInv, BindingTypeOK
    <3>2. todo'[w] \subseteq Slugs
      BY <2>4, <3>1, Zenon DEF LockState, BindingInv, BindingTypeOK
    <3> QED BY <2>4, <3>1, <3>2, Zenon DEF LockState, BindingInv, BindingTypeOK, db_vars, state_vars
  <2>5. CASE DropStale(w)
    BY <1>0, <2>5, Zenon DEF DropStale, Finish, BindingInv, BindingTypeOK, db_vars, state_vars
  <2>6. CASE Unbind(w)
    <3>1. cmd[w].pair[2] \in Users
      BY <2>6, CommandFacts, PairFacts, Zenon DEF Unbind, BindingInv, BindingTypeOK
    <3> QED BY <2>6, <3>1 DEF Unbind, BindingInv, BindingTypeOK, db_vars, state_vars
  <2>7. CASE Bind(w)
    <3>1. cmd[w].pair[2] \in Users /\ snap[w].slug \in Slugs
      BY <2>7, CommandFacts, PairFacts, Zenon DEF Bind, BindingInv, BindingTypeOK
    <3> QED BY <2>7, <3>1, Zenon DEF Bind, BindingInv, BindingTypeOK, db_vars, state_vars
  <2>8. CASE CommitApplied(w)
    <3>1. cmd[w].pair \in Pairs /\ snap[w].slug \in Slugs
      BY <2>8, CommandFacts, Zenon DEF CommitApplied, BindingInv, BindingTypeOK
    <3> QED BY <2>8, <3>1, Zenon DEF CommitApplied, Finish, BindingInv, BindingTypeOK, db_vars
  <2>9. CASE Fail(w)
    <3>1. cmd[w] \in Commands /\ cmd[w].pair \in Pairs
      BY <2>9, CommandFacts, Zenon DEF Fail, BindingInv, BindingTypeOK
    <3>2. Command(cmd[w].pair, cmd[w].gen, cmd[w].n, cmd[w].tries + 1) \in Commands
      BY <3>1 DEF Command, Commands
    <3>3. cmds' \subseteq Commands /\ dead' \subseteq Pairs
      BY <2>9, <3>1, <3>2 DEF Fail, BindingInv, BindingTypeOK
    <3> QED BY <2>9, <3>3 DEF Fail, Finish, BindingInv, BindingTypeOK, db_vars, state_vars
  <2>10. CASE ProjectorCrash(w)
    BY <1>0, <2>10 DEF ProjectorCrash, Finish, BindingInv, BindingTypeOK, db_vars, state_vars
  <2> QED BY <1>3, <2>1, <2>2, <2>3, <2>4, <2>5, <2>6, <2>7, <2>8, <2>9, <2>10, Zenon DEF ProjectorStep
<1>4. CASE UNCHANGED bindingVars
  BY <1>4, Zenon DEF bindingVars, BindingInv, BindingTypeOK
<1>5. BindingTypeOK /\ Slugged
  BY Zenon DEF BindingInv
<1> QED BY <1>1, <1>2, <1>3, <1>4, <1>5, ApiShape, Zenon DEF BindingNext

\* Generations grow, and commands are enqueued at the current one.
LEMMA OrderedStep ==
  ASSUME BindingInv, BindingTypeOK', [BindingNext]_bindingVars
  PROVE  Ordered'
<1>0. \A v \in Projectors : stage[v] # "idle" => cmd[v].pair \in Pairs /\ cmd[v].gen \in Nat
  BY CommandFacts, Zenon DEF BindingInv, BindingTypeOK
<1>1. ASSUME NEW P \in SUBSET Pairs, ApiChange(P) PROVE Ordered'
  <2>1. \A m \in cmds' : m.gen <= generation'[m.pair]
    <3>1. \A p \in P : /\ Command(p, generation[p] + 1, 0, 0).pair = p
                       /\ Command(p, generation[p] + 1, 0, 0).gen = generation[p] + 1
      BY Zenon DEF Command
    <3>2. \A p \in Pairs : generation[p] <= generation'[p]
      BY Zenon, <1>1, Raised
    <3>3. ASSUME NEW m \in cmds PROVE m.gen <= generation'[m.pair]
      <4>1. m.pair \in Pairs /\ m.gen \in Nat
        BY CommandFacts, Zenon DEF BindingInv, BindingTypeOK
      <4>2. m.gen <= generation[m.pair] /\ generation[m.pair] <= generation'[m.pair]
        BY <3>2, <4>1, Zenon DEF BindingInv, Ordered
      <4>3. generation[m.pair] \in Nat /\ generation'[m.pair] \in Nat
        BY <4>1, Zenon DEF BindingInv, BindingTypeOK
      <4> QED BY <4>1, <4>2, <4>3
    <3> QED BY <1>1, <3>1, <3>3 DEF ApiChange, Touch, BindingTypeOK
  <2>2. \A p \in Pairs : generation[p] <= generation'[p]
    BY Zenon, <1>1, Raised
  <2>3. \A v \in Projectors : stage'[v] # "idle" => cmd'[v].gen <= generation'[cmd'[v].pair]
    <3> SUFFICES ASSUME NEW v \in Projectors, stage'[v] # "idle" PROVE cmd'[v].gen <= generation'[cmd'[v].pair]
      BY Zenon
    <3>1. cmd'[v] = cmd[v] /\ stage[v] # "idle"
      BY Zenon, <1>1, ApiFrame
    <3>2. cmd[v].pair \in Pairs /\ cmd[v].gen \in Nat /\ cmd[v].gen <= generation[cmd[v].pair]
      BY Zenon, <1>0, <3>1 DEF BindingInv, Ordered
    <3>3. generation[cmd[v].pair] \in Nat /\ generation'[cmd[v].pair] \in Nat
      BY Zenon, <3>2 DEF BindingInv, BindingTypeOK
    <3> QED BY <2>2, <3>1, <3>2, <3>3
  <2>4. \A p \in Pairs : reconciled'[p] <= generation'[p]
    <3> SUFFICES ASSUME NEW p \in Pairs PROVE reconciled'[p] <= generation'[p]
      BY Zenon
    <3>1. reconciled'[p] = reconciled[p] /\ reconciled[p] <= generation[p]
      BY <1>1, Zenon DEF ApiChange, Touch, BindingInv, Ordered
    <3>2. reconciled[p] \in Nat /\ generation[p] \in Nat /\ generation'[p] \in Nat
      BY Zenon DEF BindingInv, BindingTypeOK
    <3> QED BY <2>2, <3>1, <3>2
  <2> QED BY <2>1, <2>3, <2>4, Zenon DEF Ordered
<1>2. ASSUME NEW u \in Users, Reconnect(u) PROVE Ordered'
  <2>1. \A p \in Pairs : /\ Command(p, generation[p], reconnects + 1, 0).pair = p
                         /\ Command(p, generation[p], reconnects + 1, 0).gen = generation[p]
    BY Zenon DEF Command
  <2> QED BY <1>2, <2>1 DEF Reconnect, BindingInv, BindingTypeOK, state_vars, worker_vars, Ordered
<1>3. ASSUME NEW w \in Projectors, ProjectorStep(w) \/ Fail(w) \/ ProjectorCrash(w) PROVE Ordered'
  <2>0. generation' = generation /\ \A v \in Projectors \ {w} : cmd'[v] = cmd[v] /\ stage'[v] = stage[v]
    BY Zenon, <1>3, WorkerFrame
  <2>1. CASE ClaimCommand(w)
    BY <1>0, <2>1, Zenon DEF ClaimCommand, BindingInv, BindingTypeOK, state_vars, Ordered
  <2>2. CASE PollCommands(w)
    BY <1>0, <2>2, Zenon DEF PollCommands, bindingVars, BindingInv, Ordered
  <2>3. CASE Snapshot(w)
    <3>1. /\ UNCHANGED <<reconciled, cmds>> /\ (stage'[w] # "idle" => stage[w] # "idle") /\ cmd' = cmd
      BY Zenon, <2>3 DEF Snapshot, state_vars
    <3> QED BY Zenon, <2>0, <3>1 DEF BindingInv, Ordered
  <2>4. CASE LockState(w)
    <3>1. /\ UNCHANGED <<reconciled, cmds>> /\ (stage'[w] # "idle" => stage[w] # "idle") /\ cmd' = cmd
      BY Zenon, <2>4 DEF LockState, state_vars
    <3> QED BY Zenon, <2>0, <3>1 DEF BindingInv, Ordered
  <2>5. CASE DropStale(w)
    BY <1>0, <2>5, Zenon DEF DropStale, Finish, BindingInv, BindingTypeOK, state_vars, Ordered
  <2>6. CASE Unbind(w)
    BY <1>0, <2>6, Zenon DEF Unbind, BindingInv, state_vars, Ordered
  <2>7. CASE Bind(w)
    <3>1. /\ UNCHANGED <<reconciled, cmds>> /\ (stage'[w] # "idle" => stage[w] # "idle") /\ cmd' = cmd
      BY Zenon, <2>7 DEF Bind, state_vars
    <3> QED BY Zenon, <2>0, <3>1 DEF BindingInv, Ordered
  <2>8. CASE CommitApplied(w)
    BY <1>0, <2>8 DEF CommitApplied, Finish, BindingInv, BindingTypeOK, Ordered
  <2>9. CASE Fail(w)
    <3>1. cmd[w] \in Commands /\ cmd[w].pair \in Pairs
      BY <2>9, CommandFacts, Zenon DEF Fail, BindingInv, BindingTypeOK
    <3>2. LET m == Command(cmd[w].pair, cmd[w].gen, cmd[w].n, cmd[w].tries + 1)
          IN  m.pair = cmd[w].pair /\ m.gen = cmd[w].gen
      BY Zenon DEF Command
    <3>3. \A m \in cmds' : m.gen <= generation'[m.pair]
      BY <2>9, <3>1, <3>2, Zenon DEF Fail, BindingInv, state_vars, Ordered
    <3> QED BY <2>9, <3>3, Zenon DEF Fail, Finish, BindingInv, BindingTypeOK, state_vars, Ordered
  <2>10. CASE ProjectorCrash(w)
    BY <1>0, <2>10, Zenon DEF ProjectorCrash, Finish, BindingInv, BindingTypeOK, state_vars, Ordered
  <2> QED BY <1>3, <2>1, <2>2, <2>3, <2>4, <2>5, <2>6, <2>7, <2>8, <2>9, <2>10, Zenon DEF ProjectorStep
<1>4. CASE UNCHANGED bindingVars
  BY <1>4, Zenon DEF bindingVars, BindingInv, Ordered
<1>5. BindingTypeOK /\ Slugged
  BY Zenon DEF BindingInv
<1> QED BY <1>1, <1>2, <1>3, <1>4, <1>5, ApiShape, Zenon DEF BindingNext

\* Keys and slugs come from the channel's own.
LEMMA SluggedStep ==
  ASSUME BindingInv, BindingTypeOK', [BindingNext]_bindingVars
  PROVE  Slugged'
<1>0. \A v \in Projectors : stage[v] # "idle" => cmd[v].pair \in Pairs /\ cmd[v].gen \in Nat
  BY CommandFacts, Zenon DEF BindingInv, BindingTypeOK
<1>1. ASSUME NEW P \in SUBSET Pairs, ApiChange(P) PROVE Slugged'
  <2>1. UNCHANGED <<stage, cmd, snap>>
    BY Zenon, <1>1, ApiFrame
  <2>2. \A c \in Channels : slug'[c] \in used'[c] /\ used[c] \subseteq used'[c]
    BY Zenon, <1>1 DEF ApiChange
  <2>3. \A p \in Pairs : routing_keys'[p] = IF p \in P THEN routing_keys[p] \cup {slug'[p[1]]} ELSE routing_keys[p]
    BY Zenon, <1>1 DEF ApiChange, Touch
  <2>4. \A p \in Pairs : routing_keys'[p] \subseteq used'[p[1]]
    <3> SUFFICES ASSUME NEW p \in Pairs PROVE routing_keys'[p] \subseteq used'[p[1]]
      BY Zenon
    <3>1. slug'[p[1]] \in used'[p[1]] /\ routing_keys[p] \subseteq used'[p[1]]
      BY Zenon, <2>2, PairFacts DEF BindingInv, Slugged
    <3> QED BY Zenon, <2>3, <3>1
  <2>5. \A p \in Pairs : approved'[p] => slug'[p[1]] \in routing_keys'[p]
    BY Zenon, <1>1, <2>3 DEF ApiChange, BindingInv, Slugged
  <2>6. \A w \in Projectors : Reading(w)' => snap'[w].slug \in used'[cmd'[w].pair[1]]
    <3> SUFFICES ASSUME NEW w \in Projectors, Reading(w)' PROVE snap'[w].slug \in used'[cmd'[w].pair[1]]
      BY Zenon
    <3>1. Reading(w) /\ cmd[w].pair[1] \in Channels /\ cmd'[w] = cmd[w] /\ snap'[w] = snap[w]
      BY Zenon, <1>0, <2>1, PairFacts DEF Reading
    <3>2. snap[w].slug \in used[cmd[w].pair[1]]
      BY Zenon, <3>1 DEF BindingInv, Slugged
    <3> QED BY Zenon, <2>2, <3>1, <3>2
  <2> QED BY Zenon, <2>2, <2>4, <2>5, <2>6 DEF Slugged
<1>2. ASSUME NEW u \in Users, Reconnect(u) PROVE Slugged'
  BY <1>0, <1>2, Zenon DEF Reconnect, BindingInv, db_vars, state_vars, worker_vars, Slugged, Reading
<1>3. ASSUME NEW w \in Projectors, ProjectorStep(w) \/ Fail(w) \/ ProjectorCrash(w) PROVE Slugged'
  <2>0. /\ used' = used
        /\ \A v \in Projectors \ {w} : cmd'[v] = cmd[v] /\ snap'[v] = snap[v] /\ (Reading(v)' <=> Reading(v))
    BY Zenon, <1>3, WorkerFrame DEF Reading
  <2>1. CASE ClaimCommand(w)
    <3>1. ~Reading(w)' /\ UNCHANGED <<slug, approved, routing_keys>>
      BY Zenon, <2>1 DEF ClaimCommand, BindingInv, BindingTypeOK, db_vars, state_vars, Reading
    <3> QED BY Zenon, <2>0, <3>1 DEF BindingInv, Slugged
  <2>2. CASE PollCommands(w)
    BY <1>0, <2>2, Zenon DEF PollCommands, bindingVars, BindingInv, Slugged, Reading
  <2>3. CASE Snapshot(w)
    <3>1. cmd[w].pair \in Pairs
      BY Zenon, <1>0, <2>3 DEF Snapshot
    <3>2. snap'[w].slug = slug[cmd[w].pair[1]]
      BY <2>3, Zenon DEF Snapshot, BindingTypeOK
    <3>3. UNCHANGED <<slug, approved, routing_keys, cmd>>
      BY Zenon, <2>3 DEF Snapshot, db_vars, state_vars
    <3> QED BY <2>0, <3>1, <3>2, <3>3, PairFacts DEF BindingInv, Slugged
  <2>4. CASE LockState(w)
    <3>1. Reading(w) /\ UNCHANGED <<slug, approved, routing_keys, cmd, snap>>
      BY Zenon, <2>4 DEF LockState, db_vars, state_vars, Reading
    <3> QED BY Zenon, <2>0, <3>1 DEF BindingInv, Slugged
  <2>5. CASE DropStale(w)
    BY <1>0, <2>5, Zenon DEF DropStale, Finish, BindingInv, BindingTypeOK, db_vars, state_vars, Slugged, Reading
  <2>6. CASE Unbind(w)
    BY <1>0, <2>6, Zenon DEF Unbind, BindingInv, db_vars, state_vars, Slugged, Reading
  <2>7. CASE Bind(w)
    <3>1. Reading(w) /\ UNCHANGED <<slug, approved, routing_keys, cmd, snap>>
      BY Zenon, <2>7 DEF Bind, db_vars, state_vars, Reading
    <3> QED BY Zenon, <2>0, <3>1 DEF BindingInv, Slugged
  <2>8. CASE CommitApplied(w)
    <3> DEFINE q == cmd[w].pair
    <3>1. /\ q \in Pairs /\ Reading(w) /\ Projecting(w) /\ ~Reading(w)' /\ UNCHANGED <<slug, approved>>
          /\ \A p \in Pairs : routing_keys'[p] = IF p = q THEN {snap[w].slug} ELSE routing_keys[p]
      BY Zenon, <1>0, <2>8 DEF CommitApplied, Finish, BindingInv, BindingTypeOK, db_vars, Reading, Projecting
    <3>2. snap[w].slug \in used[q[1]]
      BY Zenon, <3>1 DEF BindingInv, Slugged
    <3>3. approved[q] => snap[w].slug = slug[q[1]]
      BY Zenon, <3>1 DEF BindingInv, Locked, ReadCurrent
    <3> QED BY <2>0, <3>1, <3>2, <3>3 DEF BindingInv, Slugged
  <2>9. CASE Fail(w)
    BY <1>0, <2>9, Zenon DEF Fail, Finish, BindingInv, BindingTypeOK, db_vars, state_vars, Slugged, Reading
  <2>10. CASE ProjectorCrash(w)
    BY <1>0, <2>10, ZenonT(60) DEF ProjectorCrash, Finish, BindingInv, BindingTypeOK, db_vars, state_vars, Slugged, Reading
  <2> QED BY <1>3, <2>1, <2>2, <2>3, <2>4, <2>5, <2>6, <2>7, <2>8, <2>9, <2>10, Zenon DEF ProjectorStep
<1>4. CASE UNCHANGED bindingVars
  BY <1>4, Zenon DEF bindingVars, BindingInv, Slugged, Reading
<1>5. BindingTypeOK /\ Slugged
  BY Zenon DEF BindingInv
<1> QED BY <1>1, <1>2, <1>3, <1>4, <1>5, ApiShape, Zenon DEF BindingNext

\* A change that makes a read obsolete makes the command stale.
LEMMA ReadCurrentStep ==
  ASSUME BindingInv, BindingTypeOK', [BindingNext]_bindingVars
  PROVE  ReadCurrent'
<1>0. \A v \in Projectors : stage[v] # "idle" => cmd[v].pair \in Pairs /\ cmd[v].gen \in Nat
  BY CommandFacts, Zenon DEF BindingInv, BindingTypeOK
<1>1. ASSUME NEW P \in SUBSET Pairs, ApiChange(P) PROVE ReadCurrent'
  <2> SUFFICES ASSUME NEW v \in Projectors, Reading(v)', generation'[cmd'[v].pair] = cmd'[v].gen
               PROVE  /\ (snap[v].desired = Desired(cmd[v].pair))'
                      /\ (approved[cmd[v].pair] => snap[v].slug = slug[cmd[v].pair[1]])'
    BY Zenon DEF ReadCurrent
  <2>1. UNCHANGED <<stage, cmd, snap>>
    BY Zenon, <1>1, ApiFrame
  <2>2. Reading(v) /\ stage[v] # "idle"
    BY Zenon, <2>1 DEF Reading
  <2>3. cmd[v].pair \in Pairs \ P
    BY Zenon, <1>0, <1>1, <2>1, <2>2, ApiFrame DEF BindingInv, Ordered
  <2>4. generation[cmd[v].pair] = cmd[v].gen
    BY Zenon, <1>1, <2>1, <2>3, ApiFrame
  <2>5. /\ snap[v].desired = Desired(cmd[v].pair)
        /\ approved[cmd[v].pair] => snap[v].slug = slug[cmd[v].pair[1]]
    BY Zenon, <2>2, <2>4 DEF BindingInv, ReadCurrent
  <2>6. PICK q \in Pairs \ P : q = cmd[v].pair
    BY Zenon, <2>3
  <2>7. /\ approved'[q] = approved[q] /\ Desired(q)' = Desired(q)
        /\ approved[q] => slug'[q[1]] = slug[q[1]]
    BY Zenon, <1>1 DEF ApiChange
  <2> QED BY Zenon, <2>1, <2>5, <2>6, <2>7 DEF Desired
<1>2. ASSUME NEW u \in Users, Reconnect(u) PROVE ReadCurrent'
  BY <1>0, <1>2, Zenon DEF Reconnect, BindingInv, db_vars, state_vars, worker_vars, ReadCurrent, Reading,
      Desired
<1>3. ASSUME NEW w \in Projectors, ProjectorStep(w) \/ Fail(w) \/ ProjectorCrash(w) PROVE ReadCurrent'
  <2>0. /\ UNCHANGED <<slug, deleted, approved, generation>>
        /\ \A v \in Projectors \ {w} : cmd'[v] = cmd[v] /\ snap'[v] = snap[v] /\ (Reading(v)' <=> Reading(v))
    BY Zenon, <1>3, WorkerFrame DEF Reading
  <2>1. CASE ClaimCommand(w)
    <3>1. ~Reading(w)'
      BY Zenon, <2>1 DEF ClaimCommand, BindingInv, BindingTypeOK, Reading
    <3> QED BY <2>0, <3>1 DEF BindingInv, ReadCurrent, Desired
  <2>2. CASE PollCommands(w)
    BY <1>0, <2>2, Zenon DEF PollCommands, bindingVars, BindingInv, ReadCurrent, Reading, Desired
  <2>3. CASE Snapshot(w)
    BY <1>0, <2>3, ZenonT(60) DEF Snapshot, Desired, BindingInv, BindingTypeOK, db_vars, state_vars, ReadCurrent,
        Reading
  <2>4. CASE LockState(w)
    <3>1. Reading(w) /\ UNCHANGED <<cmd, snap>>
      BY Zenon, <2>4 DEF LockState, Reading
    <3> QED BY Zenon, <2>0, <3>1 DEF BindingInv, ReadCurrent, Desired
  <2>5. CASE DropStale(w)
    <3>1. ~Reading(w)'
      BY Zenon, <2>5 DEF DropStale, Finish, BindingInv, BindingTypeOK, Reading
    <3> QED BY <2>0, <3>1 DEF BindingInv, ReadCurrent, Desired
  <2>6. CASE Unbind(w)
    BY <1>0, <2>6, Zenon DEF Unbind, BindingInv, db_vars, state_vars, ReadCurrent, Reading, Desired
  <2>7. CASE Bind(w)
    <3>1. Reading(w) /\ UNCHANGED <<cmd, snap>>
      BY Zenon, <2>7 DEF Bind, Reading
    <3> QED BY Zenon, <2>0, <3>1 DEF BindingInv, ReadCurrent, Desired
  <2>8. CASE CommitApplied(w)
    BY <1>0, <2>8, ZenonT(60) DEF CommitApplied, Finish, BindingInv, BindingTypeOK, db_vars, ReadCurrent, Reading,
        Desired
  <2>9. CASE Fail(w)
    BY <1>0, <2>9, ZenonT(60) DEF Fail, Finish, BindingInv, BindingTypeOK, db_vars, state_vars, ReadCurrent, Reading,
        Desired
  <2>10. CASE ProjectorCrash(w)
    BY <1>0, <2>10, ZenonT(60) DEF ProjectorCrash, Finish, BindingInv, BindingTypeOK, db_vars, state_vars, ReadCurrent, Reading,
        Desired
  <2> QED BY <1>3, <2>1, <2>2, <2>3, <2>4, <2>5, <2>6, <2>7, <2>8, <2>9, <2>10, Zenon DEF ProjectorStep
<1>4. CASE UNCHANGED bindingVars
  BY <1>4, Zenon DEF bindingVars, BindingInv, ReadCurrent, Reading, Desired
<1>5. BindingTypeOK /\ Slugged
  BY Zenon DEF BindingInv
<1> QED BY <1>1, <1>2, <1>3, <1>4, <1>5, ApiShape, Zenon DEF BindingNext

\* A projection keeps its lock and its generation.
LEMMA LockedStep ==
  ASSUME BindingInv, BindingTypeOK', [BindingNext]_bindingVars
  PROVE  Locked'
<1>0. \A v \in Projectors : stage[v] # "idle" => cmd[v].pair \in Pairs /\ cmd[v].gen \in Nat
  BY CommandFacts, Zenon DEF BindingInv, BindingTypeOK
<1>1. ASSUME NEW P \in SUBSET Pairs, ApiChange(P) PROVE Locked'
  <2>1. UNCHANGED <<stage, cmd, rowLock>>
    BY Zenon, <1>1, ApiFrame
  <2>2. \A v \in Projectors : Projecting(v) => cmd[v].pair \in Pairs \ P
    BY <1>0, <1>1, ApiFrame, NobodyAssumption DEF BindingInv, Locked, Projecting
  <2>3. \A p \in Pairs \ P : generation'[p] = generation[p]
    BY Zenon, <1>1, ApiFrame
  <2> QED BY Zenon, <2>1, <2>2, <2>3 DEF BindingInv, Locked, Projecting
<1>2. ASSUME NEW u \in Users, Reconnect(u) PROVE Locked'
  BY <1>0, <1>2, Zenon DEF Reconnect, BindingInv, state_vars, worker_vars, Locked, Projecting
<1>3. ASSUME NEW w \in Projectors, ProjectorStep(w) \/ Fail(w) \/ ProjectorCrash(w) PROVE Locked'
  <2>0. /\ UNCHANGED generation
        /\ \A v \in Projectors \ {w} : cmd'[v] = cmd[v] /\ (Projecting(v)' <=> Projecting(v))
        /\ \A v \in Projectors : Projecting(v) => stage[v] # "idle"
    BY Zenon, <1>3, WorkerFrame DEF Projecting
  <2>1. CASE ClaimCommand(w)
    <3>1. ~Projecting(w) /\ ~Projecting(w)' /\ rowLock' = rowLock
      BY Zenon, <2>1 DEF ClaimCommand, BindingInv, BindingTypeOK, Projecting
    <3> QED BY ZenonT(30), <2>0, <3>1 DEF BindingInv, Locked
  <2>2. CASE PollCommands(w)
    BY <1>0, <2>2, Zenon DEF PollCommands, bindingVars, BindingInv, Locked, Projecting
  <2>3. CASE Snapshot(w)
    <3>1. ~Projecting(w) /\ ~Projecting(w)' /\ rowLock' = rowLock
      BY Zenon, <2>3 DEF Snapshot, BindingInv, BindingTypeOK, Projecting
    <3> QED BY Zenon, <2>0, <3>1 DEF BindingInv, Locked
  <2>4. CASE LockState(w)
    <3> DEFINE q == cmd[w].pair
    <3>1. /\ q \in Pairs /\ generation[q] = cmd[w].gen /\ rowLock[q] = Nobody /\ Projecting(w)' /\ cmd' = cmd
          /\ \A p \in Pairs : rowLock'[p] = IF p = q THEN w ELSE rowLock[p]
      BY Zenon, <1>0, <2>4 DEF LockState, BindingInv, BindingTypeOK, Projecting
    <3>2. \A v \in Projectors \ {w} : Projecting(v) => cmd[v].pair \in Pairs /\ cmd[v].pair # q
      BY <1>0, <2>0, <3>1, NobodyAssumption DEF BindingInv, Locked
    <3> QED BY <2>0, <3>1, <3>2 DEF BindingInv, Locked
  <2>5. CASE DropStale(w)
    <3>1. ~Projecting(w)' /\ \A p \in Pairs : rowLock'[p] = IF rowLock[p] = w THEN Nobody ELSE rowLock[p]
      BY Zenon, <2>5 DEF DropStale, Finish, BindingInv, BindingTypeOK, Projecting
    <3> QED BY <1>0, <2>0, <3>1, NobodyAssumption DEF BindingInv, Locked
  <2>6. CASE Unbind(w)
    BY <1>0, <2>6, Zenon DEF Unbind, BindingInv, state_vars, Locked, Projecting
  <2>7. CASE Bind(w)
    <3>1. Projecting(w) /\ Projecting(w)' /\ UNCHANGED <<cmd, rowLock>>
      BY Zenon, <2>7 DEF Bind, BindingInv, BindingTypeOK, Projecting
    <3> QED BY <2>0, <3>1 DEF BindingInv, Locked
  <2>8. CASE CommitApplied(w)
    <3>1. ~Projecting(w)' /\ \A p \in Pairs : rowLock'[p] = IF rowLock[p] = w THEN Nobody ELSE rowLock[p]
      BY Zenon, <2>8 DEF CommitApplied, Finish, BindingInv, BindingTypeOK, Projecting
    <3> QED BY <1>0, <2>0, <3>1, NobodyAssumption DEF BindingInv, Locked
  <2>9. CASE Fail(w)
    <3>1. ~Projecting(w)' /\ \A p \in Pairs : rowLock'[p] = IF rowLock[p] = w THEN Nobody ELSE rowLock[p]
      BY Zenon, <2>9 DEF Fail, Finish, BindingInv, BindingTypeOK, Projecting
    <3> QED BY <1>0, <2>0, <3>1, NobodyAssumption DEF BindingInv, Locked
  <2>10. CASE ProjectorCrash(w)
    <3>1. ~Projecting(w)' /\ \A p \in Pairs : rowLock'[p] = IF rowLock[p] = w THEN Nobody ELSE rowLock[p]
      BY Zenon, <2>10 DEF ProjectorCrash, Finish, BindingInv, BindingTypeOK, Projecting
    <3> QED BY <1>0, <2>0, <3>1, NobodyAssumption DEF BindingInv, Locked
  <2> QED BY <1>3, <2>1, <2>2, <2>3, <2>4, <2>5, <2>6, <2>7, <2>8, <2>9, <2>10, Zenon DEF ProjectorStep
<1>4. CASE UNCHANGED bindingVars
  BY <1>4, Zenon DEF bindingVars, BindingInv, Locked, Projecting
<1>5. BindingTypeOK /\ Slugged
  BY Zenon DEF BindingInv
<1> QED BY <1>1, <1>2, <1>3, <1>4, <1>5, ApiShape, Zenon DEF BindingNext

\* A change made by the API leaves the wanted key of every other pair as it was, and
\* the slugs other channels have had on record.
LEMMA ApiKeeps ==
  ASSUME BindingInv, NEW P \in SUBSET Pairs, ApiChange(P), NEW p \in Pairs \ P
  PROVE  /\ Target(p)' = Target(p)
         /\ SlugReused(p[1]) => Target(p) = {} \/ SlugReused(p[1])'
<1>1. Desired(p)' = Desired(p) /\ (approved[p] => slug'[p[1]] = slug[p[1]])
  BY Zenon DEF ApiChange
<1>2. Desired(p) => approved[p]
  BY Zenon DEF Desired
<1>3. Target(p)' = Target(p)
  BY Zenon, <1>1, <1>2 DEF Target
<1>4. ASSUME SlugReused(p[1]), Target(p) # {} PROVE SlugReused(p[1])'
  <2>1. slug'[p[1]] = slug[p[1]]
    BY Zenon, <1>1, <1>2, <1>4 DEF Target
  <2>2. PICK d \in Channels \ {p[1]} : slug[p[1]] \in used[d]
    BY Zenon, <1>4 DEF SlugReused
  <2>3. slug'[p[1]] \in used'[d]
    BY Zenon, <2>1, <2>2 DEF ApiChange
  <2> QED BY Zenon, <2>3 DEF SlugReused
<1> QED BY Zenon, <1>3, <1>4

\* A worker changes nothing of what is wanted.
LEMMA WorkerKeeps ==
  ASSUME BindingInv, NEW w \in Projectors, ProjectorStep(w) \/ Fail(w) \/ ProjectorCrash(w)
  PROVE  /\ \A p : Target(p)' = Target(p)
         /\ \A c : SlugReused(c)' <=> SlugReused(c)
<1>1. UNCHANGED <<slug, deleted, used, approved>>
  BY Zenon, WorkerFrame
<1> QED BY Zenon, <1>1 DEF Target, Desired, SlugReused

\* The steps of a worker that change bindings, lists or states.
Loud(w) == LockState(w) \/ Unbind(w) \/ Bind(w) \/ CommitApplied(w)

\* The other steps change none of these, and start no projection.
LEMMA QuietStep ==
  ASSUME BindingInv, NEW w \in Projectors, ProjectorStep(w) \/ Fail(w) \/ ProjectorCrash(w), ~Loud(w)
  PROVE  /\ UNCHANGED <<bound, routing_keys, reconciled, generation>>
         /\ \A v \in Projectors : Projecting(v)' =>
              stage'[v] = stage[v] /\ cmd'[v] = cmd[v] /\ todo'[v] = todo[v]
<1>1. UNCHANGED <<bound, routing_keys, reconciled, generation>>
  BY Zenon DEF Loud, ProjectorStep, ClaimCommand, PollCommands, Snapshot, DropStale, Fail, ProjectorCrash,
      state_vars, bindingVars
<1>2. PollCommands(w) \/ ~Projecting(w)'
  BY Zenon DEF Loud, ProjectorStep, ClaimCommand, Snapshot, DropStale, Fail, ProjectorCrash, Finish,
      Projecting, BindingInv, BindingTypeOK
<1>3. PollCommands(w) => UNCHANGED <<stage, cmd, todo>>
  BY Zenon DEF PollCommands, bindingVars
<1>4. \A v \in Projectors \ {w} : stage'[v] = stage[v] /\ cmd'[v] = cmd[v] /\ todo'[v] = todo[v]
  BY Zenon, WorkerFrame
<1> QED BY Zenon, <1>1, <1>2, <1>3, <1>4

\* What a projection under the row lock works on.
LEMMA ProjectionFacts ==
  ASSUME BindingInv, NEW w \in Projectors, Reading(w), generation[cmd[w].pair] = cmd[w].gen
  PROVE  /\ cmd[w].pair \in Pairs /\ cmd[w].pair[1] \in Channels /\ cmd[w].pair[2] \in Users
         /\ Target(cmd[w].pair) = IF snap[w].desired THEN {snap[w].slug} ELSE {}
         /\ snap[w].desired => snap[w].slug \in routing_keys[cmd[w].pair]
         /\ snap[w].slug \in used[cmd[w].pair[1]] /\ routing_keys[cmd[w].pair] \subseteq used[cmd[w].pair[1]]
<1> DEFINE q == cmd[w].pair
<1>1. q \in Pairs /\ q[1] \in Channels /\ q[2] \in Users
  BY Zenon, CommandFacts, PairFacts DEF BindingInv, BindingTypeOK, Reading
<1>2. snap[w].desired = Desired(q) /\ (approved[q] => snap[w].slug = slug[q[1]])
  BY Zenon DEF BindingInv, ReadCurrent
<1>3. Desired(q) => approved[q]
  BY Zenon DEF Desired
<1>4. Target(q) = IF snap[w].desired THEN {snap[w].slug} ELSE {}
  BY Zenon, <1>2, <1>3 DEF Target
<1>5. snap[w].desired => snap[w].slug \in routing_keys[q]
  BY Zenon, <1>1, <1>2, <1>3 DEF BindingInv, Slugged
<1>6. snap[w].slug \in used[q[1]] /\ routing_keys[q] \subseteq used[q[1]]
  BY Zenon, <1>1 DEF BindingInv, Slugged
<1> QED BY Zenon, <1>1, <1>4, <1>5, <1>6

\* These steps happen under the row lock, of a state whose generation is the command's.
LEMMA LoudReading ==
  ASSUME BindingInv, NEW w \in Projectors, Loud(w)
  PROVE  Reading(w) /\ generation[cmd[w].pair] = cmd[w].gen /\ cmd[w].pair \in Pairs /\ cmd[w].pair[2] \in Users
<1>1. Reading(w) /\ (LockState(w) \/ Projecting(w))
  BY Zenon DEF Loud, LockState, Unbind, Bind, CommitApplied, Reading, Projecting
<1>2. generation[cmd[w].pair] = cmd[w].gen
  BY Zenon, <1>1 DEF BindingInv, Locked, LockState
<1> QED BY Zenon, <1>1, <1>2, ProjectionFacts

\* The four of them, said of the worker's own pair.
LEMMA LockStateShape ==
  ASSUME BindingInv, NEW w \in Projectors, LockState(w)
  PROVE  /\ UNCHANGED <<bound, routing_keys, reconciled, cmd>> /\ stage'[w] = "projecting"
         /\ todo'[w] = (routing_keys[cmd[w].pair] \cup {snap[w].slug}) \ Target(cmd[w].pair)
<1>1. Reading(w) /\ generation[cmd[w].pair] = cmd[w].gen
  BY Zenon, LoudReading DEF Loud
<1>2. Target(cmd[w].pair) = IF snap[w].desired THEN {snap[w].slug} ELSE {}
  BY Zenon, <1>1, ProjectionFacts
<1> QED BY Zenon, <1>2 DEF LockState, state_vars, BindingInv, BindingTypeOK

LEMMA UnbindShape ==
  ASSUME BindingInv, NEW w \in Projectors, Unbind(w)
  PROVE  /\ UNCHANGED <<routing_keys, reconciled, cmd, stage>> /\ stage[w] = "projecting"
         /\ \E k \in todo[w] : /\ todo'[w] = todo[w] \ {k}
                               /\ bound'[cmd[w].pair[2]] = bound[cmd[w].pair[2]] \ {k}
                               /\ \A u \in Users \ {cmd[w].pair[2]} : bound'[u] = bound[u]
<1>1. cmd[w].pair[2] \in Users
  BY Zenon, LoudReading DEF Loud
<1>2. PICK k \in todo[w] : /\ bound' = [bound EXCEPT ![cmd[w].pair[2]] = @ \ {k}]
                           /\ todo' = [todo EXCEPT ![w] = @ \ {k}]
  BY Zenon DEF Unbind
<1>3. /\ todo'[w] = todo[w] \ {k} /\ bound'[cmd[w].pair[2]] = bound[cmd[w].pair[2]] \ {k}
      /\ \A u \in Users \ {cmd[w].pair[2]} : bound'[u] = bound[u]
  BY Zenon, <1>1, <1>2 DEF BindingInv, BindingTypeOK
<1> QED BY Zenon, <1>3 DEF Unbind, state_vars

LEMMA BindShape ==
  ASSUME BindingInv, NEW w \in Projectors, Bind(w)
  PROVE  /\ UNCHANGED <<routing_keys, reconciled, cmd, todo>> /\ todo[w] = {}
         /\ stage[w] = "projecting" /\ stage'[w] = "projected"
         /\ bound'[cmd[w].pair[2]] = bound[cmd[w].pair[2]] \cup Target(cmd[w].pair)
         /\ \A u \in Users \ {cmd[w].pair[2]} : bound'[u] = bound[u]
<1>1. Reading(w) /\ generation[cmd[w].pair] = cmd[w].gen /\ cmd[w].pair[2] \in Users
  BY Zenon, LoudReading DEF Loud
<1>2. Target(cmd[w].pair) = IF snap[w].desired THEN {snap[w].slug} ELSE {}
  BY Zenon, <1>1, ProjectionFacts
<1>3. bound' = [bound EXCEPT ![cmd[w].pair[2]] = IF snap[w].desired THEN @ \cup {snap[w].slug} ELSE @]
  BY Zenon DEF Bind
<1>4. /\ bound'[cmd[w].pair[2]] = bound[cmd[w].pair[2]] \cup Target(cmd[w].pair)
      /\ \A u \in Users \ {cmd[w].pair[2]} : bound'[u] = bound[u]
  BY Zenon, <1>1, <1>2, <1>3 DEF BindingInv, BindingTypeOK
<1> QED BY Zenon, <1>4 DEF Bind, state_vars, BindingInv, BindingTypeOK

LEMMA CommitShape ==
  ASSUME BindingInv, NEW w \in Projectors, CommitApplied(w)
  PROVE  /\ bound' = bound /\ stage[w] = "projected" /\ stage'[w] = "idle"
         /\ routing_keys'[cmd[w].pair] = {snap[w].slug}
         /\ \A p \in Pairs \ {cmd[w].pair} : routing_keys'[p] = routing_keys[p] /\ reconciled'[p] = reconciled[p]
<1>1. cmd[w].pair \in Pairs
  BY Zenon, LoudReading DEF Loud
<1> QED BY Zenon, <1>1 DEF CommitApplied, Finish, BindingInv, BindingTypeOK

\* Unbinding a key of the pair r takes the wanted key of another pair q away only
\* where the slug of q was once the slug of the channel of r.
LEMMA TakenAway ==
  ASSUME NEW q \in Pairs, NEW r \in Pairs, r # q, NEW k \in used[r[1]],
         bound'[r[2]] = bound[r[2]] \ {k}, \A u \in Users \ {r[2]} : bound'[u] = bound[u],
         Target(q) \subseteq bound[q[2]]
  PROVE  Target(q) \subseteq bound'[q[2]] \/ SlugReused(q[1])
<1>1. r[1] \in Channels /\ q[2] \in Users /\ (r[2] = q[2] => r[1] # q[1])
  BY Zenon, PairFacts
<1>2. CASE r[2] # q[2]
  BY Zenon, <1>1, <1>2
<1>3. CASE r[2] = q[2] /\ k \notin Target(q)
  <2>1. bound'[q[2]] = bound[q[2]] \ {k}
    BY Zenon, <1>3
  <2> QED BY Zenon, <1>3, <2>1
<1>4. CASE r[2] = q[2] /\ k \in Target(q)
  <2>1. k = slug[q[1]]
    BY Zenon, <1>4 DEF Target
  <2> QED BY Zenon, <1>1, <1>4, <2>1 DEF SlugReused
<1> QED BY Zenon, <1>2, <1>3, <1>4

\* The projection unbinds keys of its own channel and binds the wanted one.
LEMMA ProgressStep ==
  ASSUME BindingInv, BindingTypeOK', [BindingNext]_bindingVars
  PROVE  Progress'
<1>0. \A v \in Projectors : stage[v] # "idle" => cmd[v].pair \in Pairs
  BY CommandFacts, Zenon DEF BindingInv, BindingTypeOK
<1>p. Progress
  BY Zenon DEF BindingInv
<1>1. ASSUME NEW P \in SUBSET Pairs, ApiChange(P) PROVE Progress'
  <2> SUFFICES ASSUME NEW v \in Projectors, Projecting(v)' PROVE Progress!(v)'
    BY Zenon DEF Progress, Projecting
  <2>1. UNCHANGED <<cmd, stage, todo, bound, rowLock>> /\ \A p \in P : rowLock[p] = Nobody
    BY Zenon, <1>1, ApiFrame
  <2>2. Projecting(v) /\ cmd[v].pair \in Pairs
    BY Zenon, <1>0, <2>1 DEF Projecting
  <2>3. PICK q \in Pairs \ P : q = cmd[v].pair
    BY Zenon, <2>1, <2>2, NobodyAssumption DEF BindingInv, Locked
  <2>4. /\ Target(q)' = Target(q)
        /\ SlugReused(q[1]) => Target(q) = {} \/ SlugReused(q[1])'
    BY Zenon, <1>1, ApiKeeps
  <2>5. used[q[1]] \subseteq used'[q[1]]
    BY Zenon, <1>1, PairFacts DEF ApiChange
  <2>6. /\ stage[v] = "projecting" => todo[v] \subseteq used[q[1]] \ Target(q)
        /\ stage[v] = "projected" => todo[v] = {} /\ (Target(q) \subseteq bound[q[2]] \/ SlugReused(q[1]))
    BY Zenon, <1>p, <2>3 DEF Progress
  <2>7. /\ stage'[v] = "projecting" => todo'[v] \subseteq used'[q[1]] \ Target(q)'
        /\ stage'[v] = "projected" => todo'[v] = {} /\ (Target(q)' \subseteq bound'[q[2]] \/ SlugReused(q[1])')
    BY Zenon, <2>1, <2>4, <2>5, <2>6
  <2>8. cmd'[v].pair = q
    BY Zenon, <2>1, <2>3
  <2> QED BY Zenon, <2>7, <2>8 DEF Target, Desired, SlugReused
<1>2. ASSUME NEW u \in Users, Reconnect(u) PROVE Progress'
  BY <1>2, Zenon DEF Reconnect, BindingInv, db_vars, worker_vars, Progress, Target, Desired, SlugReused
<1>3. ASSUME NEW w \in Projectors, ProjectorStep(w) \/ Fail(w) \/ ProjectorCrash(w) PROVE Progress'
  <2> SUFFICES ASSUME NEW v \in Projectors, Projecting(v)' PROVE Progress!(v)'
    BY Zenon DEF Progress, Projecting
  <2>q. PICK q : q = cmd'[v].pair
    OBVIOUS
  <2>1. Target(q)' = Target(q) /\ (SlugReused(q[1])' <=> SlugReused(q[1])) /\ used' = used
    BY Zenon, <1>3, WorkerKeeps, WorkerFrame
  <2>2. SUFFICES /\ stage'[v] = "projecting" => todo'[v] \subseteq used[q[1]] \ Target(q)
                 /\ stage'[v] = "projected" => todo'[v] = {} /\ (Target(q) \subseteq bound'[q[2]] \/ SlugReused(q[1]))
    BY Zenon, <2>q, <2>1, <2>2 DEF Target, Desired, SlugReused
  <2>3. CASE ~Loud(w)
    <3>1. stage'[v] = stage[v] /\ cmd'[v] = cmd[v] /\ todo'[v] = todo[v] /\ bound' = bound
      BY Zenon, <1>3, <2>3, QuietStep
    <3> QED BY Zenon, <1>p, <2>q, <3>1 DEF Progress
  <2>4. CASE Loud(w) /\ v = w
    <3> DEFINE r == cmd[w].pair
    <3>1. Reading(w) /\ generation[r] = cmd[w].gen
      BY Zenon, <2>4, LoudReading
    <3>2. snap[w].slug \in used[r[1]] /\ routing_keys[r] \subseteq used[r[1]]
      BY Zenon, <3>1, ProjectionFacts
    <3>3. CASE LockState(w)
      <4>1. cmd' = cmd /\ stage'[w] = "projecting" /\ todo'[w] = (routing_keys[r] \cup {snap[w].slug}) \ Target(r)
        BY Zenon, <2>4, <3>3, LockStateShape
      <4> QED BY Zenon, <2>q, <2>4, <3>2, <4>1
    <3>4. CASE Unbind(w)
      <4>1. cmd' = cmd /\ stage'[w] = "projecting" /\ stage[w] = "projecting" /\ todo'[w] \subseteq todo[w]
        BY Zenon, <2>4, <3>4, UnbindShape
      <4> QED BY Zenon, <1>p, <2>q, <2>4, <4>1 DEF Progress
    <3>5. CASE Bind(w)
      <4>1. cmd' = cmd /\ stage'[w] = "projected" /\ todo'[w] = {} /\ bound'[r[2]] = bound[r[2]] \cup Target(r)
        BY Zenon, <2>4, <3>5, BindShape
      <4> QED BY Zenon, <2>q, <2>4, <4>1
    <3>6. CASE CommitApplied(w)
      <4>1. stage'[w] = "idle"
        BY Zenon, <2>4, <3>6, CommitShape
      <4> QED BY Zenon, <2>4, <4>1 DEF Projecting
    <3> QED BY Zenon, <2>4, <3>3, <3>4, <3>5, <3>6 DEF Loud
  <2>5. CASE Loud(w) /\ v # w
    <3> DEFINE r == cmd[w].pair
    <3>1. stage'[v] = stage[v] /\ cmd'[v] = cmd[v] /\ todo'[v] = todo[v]
      BY Zenon, <1>3, <2>5, WorkerFrame
    <3>2. Projecting(v) /\ q \in Pairs /\ q = cmd[v].pair /\ q[2] \in Users
      BY Zenon, <1>0, <2>q, <3>1, PairFacts DEF Projecting
    <3>3. /\ stage[v] = "projecting" => todo[v] \subseteq used[q[1]] \ Target(q)
          /\ stage[v] = "projected" => todo[v] = {} /\ (Target(q) \subseteq bound[q[2]] \/ SlugReused(q[1]))
      BY Zenon, <1>p, <2>q, <3>1 DEF Progress
    <3>4. Target(q) \subseteq bound[q[2]] => Target(q) \subseteq bound'[q[2]] \/ SlugReused(q[1])
      <4>1. CASE Unbind(w)
        <5>1. PICK k \in todo[w] : /\ bound'[r[2]] = bound[r[2]] \ {k}
                                   /\ \A u \in Users \ {r[2]} : bound'[u] = bound[u]
          BY Zenon, <2>5, <4>1, UnbindShape
        <5>a. Projecting(w) /\ stage[w] = "projecting" /\ stage[w] # "idle"
          BY Zenon, <4>1 DEF Unbind, Projecting
        <5>b. rowLock[cmd[w].pair] = w /\ rowLock[cmd[v].pair] = v
          BY Zenon, <3>2, <5>a DEF BindingInv, Locked
        <5>2. r # q /\ r \in Pairs /\ r[1] \in Channels /\ stage[w] = "projecting"
          BY Zenon, <1>0, <2>5, <3>2, <5>a, <5>b, PairFacts
        <5>3. k \in used[r[1]]
          BY Zenon, <1>p, <5>1, <5>2 DEF Progress
        <5> QED BY Zenon, <3>2, <5>1, <5>2, <5>3, TakenAway
      <4>2. CASE ~Unbind(w)
        <5>1. bound[q[2]] \subseteq bound'[q[2]]
          BY Zenon, <2>5, <3>2, <4>2, LockStateShape, BindShape, CommitShape DEF Loud
        <5> QED BY Zenon, <5>1
      <4> QED BY Zenon, <4>1, <4>2
    <3> QED BY Zenon, <3>1, <3>3, <3>4
  <2> QED BY Zenon, <2>3, <2>4, <2>5
<1>4. CASE UNCHANGED bindingVars
  BY <1>4, Zenon DEF bindingVars, BindingInv, Progress, Target, Desired, SlugReused
<1>5. BindingTypeOK /\ Slugged
  BY Zenon DEF BindingInv
<1> QED BY <1>1, <1>2, <1>3, <1>4, <1>5, ApiShape, Zenon DEF BindingNext

\* Every bound key keeps a state that answers for it.
LEMMA WarrantedStep ==
  ASSUME BindingInv, BindingTypeOK', [BindingNext]_bindingVars
  PROVE  Warranted'
<1>0. \A v \in Projectors : stage[v] # "idle" => cmd[v].pair \in Pairs
  BY CommandFacts, Zenon DEF BindingInv, BindingTypeOK
<1>1. ASSUME NEW P \in SUBSET Pairs, ApiChange(P) PROVE Warranted'
  <2> SUFFICES ASSUME NEW u \in Users, NEW k \in bound'[u] PROVE \E c \in Channels : Warrants(<<c, u>>, k)'
    BY Zenon DEF Warranted
  <2>1. /\ UNCHANGED <<reconciled, cmd, stage, todo, bound, rowLock>> /\ \A p \in P : rowLock[p] = Nobody
        /\ \A p \in Pairs \ P : generation'[p] = generation[p]
        /\ \A p \in P : \A g \in Nat : g <= generation[p] => generation'[p] # g
    BY Zenon, <1>1, ApiFrame
  <2>2. PICK c \in Channels : Warrants(<<c, u>>, k)
    BY Zenon, <2>1 DEF BindingInv, Warranted
  <2> DEFINE p == <<c, u>>
  <2>3. p \in Pairs
    BY Zenon, PairFacts
  <2>w. /\ k \in routing_keys[p]
        /\ generation[p] = reconciled[p] => k \in Target(p)
        /\ \A w \in Projectors : Projecting(w) /\ cmd[w].pair = p => k \in todo[w] \cup Target(p)
    BY Zenon, <2>2 DEF Warrants
  <2> HIDE DEF p
  <2>4. k \in routing_keys'[p]
    BY Zenon, <1>1, <2>3, <2>w DEF ApiChange, Touch
  <2>5. p \notin P => Target(p)' = Target(p)
    BY Zenon, <1>1, <2>3, ApiKeeps
  <2>6. generation'[p] = reconciled'[p] => k \in Target(p)'
    <3>1. p \in P => generation'[p] # reconciled'[p]
      BY Zenon, <2>1, <2>3 DEF BindingInv, BindingTypeOK, Ordered
    <3> QED BY Zenon, <2>1, <2>3, <2>5, <2>w, <3>1
  <2>7. ASSUME NEW w \in Projectors, Projecting(w)', cmd'[w].pair = p PROVE k \in todo'[w] \cup Target(p)'
    <3>1. Projecting(w) /\ cmd[w].pair = p /\ todo'[w] = todo[w]
      BY Zenon, <2>1, <2>7 DEF Projecting
    <3>2. p \notin P
      BY Zenon, <2>1, <3>1, NobodyAssumption DEF BindingInv, Locked
    <3> QED BY Zenon, <2>5, <2>w, <3>1, <3>2
  <2>8. Warrants(p, k)'
    BY Zenon, <2>4, <2>6, <2>7 DEF Warrants
  <2> QED BY Zenon, <2>8 DEF p
<1>2. ASSUME NEW u \in Users, Reconnect(u) PROVE Warranted'
  <2>1. UNCHANGED <<slug, deleted, approved, generation, reconciled, routing_keys, bound, stage, cmd, todo>>
    BY Zenon, <1>2 DEF Reconnect, db_vars, state_vars, worker_vars
  <2>2. \A p, k : Warrants(p, k) => Warrants(p, k)'
    BY Zenon, <2>1 DEF Warrants, Target, Desired, Projecting
  <2> QED BY Zenon, <2>1, <2>2 DEF BindingInv, Warranted
<1>3. ASSUME NEW w \in Projectors, ProjectorStep(w) \/ Fail(w) \/ ProjectorCrash(w) PROVE Warranted'
  <2> SUFFICES ASSUME NEW u \in Users, NEW k \in bound'[u] PROVE \E c \in Channels : Warrants(<<c, u>>, k)'
    BY Zenon DEF Warranted
  <2>1. /\ \A p : Target(p)' = Target(p)
        /\ generation' = generation
        /\ \A v \in Projectors \ {w} : cmd'[v] = cmd[v] /\ stage'[v] = stage[v] /\ todo'[v] = todo[v]
    BY Zenon, <1>3, WorkerKeeps, WorkerFrame
  <2>2. ASSUME NEW c \in Channels, Warrants(<<c, u>>, k), UNCHANGED <<routing_keys, reconciled>>,
               Projecting(w)' /\ cmd'[w].pair = <<c, u>> => k \in todo'[w] \cup Target(<<c, u>>)
        PROVE  Warrants(<<c, u>>, k)'
    <3> DEFINE p == <<c, u>>
    <3>1. /\ k \in routing_keys[p]
          /\ generation[p] = reconciled[p] => k \in Target(p)
          /\ \A v \in Projectors : Projecting(v) /\ cmd[v].pair = p => k \in todo[v] \cup Target(p)
          /\ Projecting(w)' /\ cmd'[w].pair = p => k \in todo'[w] \cup Target(p)
      BY Zenon, <2>2 DEF Warrants
    <3>2. Target(p)' = Target(p)
      BY Zenon, <2>1
    <3> HIDE DEF p
    <3>3. ASSUME NEW v \in Projectors, Projecting(v)', cmd'[v].pair = p PROVE k \in todo'[v] \cup Target(p)'
      <4>1. CASE v = w
        BY Zenon, <3>1, <3>2, <3>3, <4>1
      <4>2. CASE v # w
        BY Zenon, <2>1, <3>1, <3>2, <3>3, <4>2 DEF Projecting
      <4> QED BY Zenon, <4>1, <4>2
    <3>4. Warrants(p, k)'
      BY Zenon, <2>1, <2>2, <3>1, <3>2, <3>3 DEF Warrants
    <3> QED BY Zenon, <3>4 DEF p
  <2>3. ASSUME k \in bound[u] PROVE \E c \in Channels : Warrants(<<c, u>>, k)
    BY Zenon, <2>3 DEF BindingInv, Warranted
  <2>4. CASE ~Loud(w)
    <3>1. /\ UNCHANGED <<bound, routing_keys, reconciled>>
          /\ Projecting(w)' => stage'[w] = stage[w] /\ cmd'[w] = cmd[w] /\ todo'[w] = todo[w]
      BY Zenon, <1>3, <2>4, QuietStep
    <3>2. PICK c \in Channels : Warrants(<<c, u>>, k)
      BY Zenon, <2>3, <3>1
    <3>3. Projecting(w)' /\ cmd'[w].pair = <<c, u>> => k \in todo'[w] \cup Target(<<c, u>>)
      BY Zenon, <3>1, <3>2 DEF Warrants, Projecting
    <3> QED BY Zenon, <2>2, <3>1, <3>2, <3>3
  <2> DEFINE q == cmd[w].pair
  <2>5. ASSUME Loud(w) PROVE Reading(w) /\ generation[q] = cmd[w].gen
    BY Zenon, <2>5, LoudReading
  <2>6. CASE LockState(w)
    <3>1. Loud(w)
      BY Zenon, <2>6 DEF Loud
    <3>2. /\ UNCHANGED <<bound, routing_keys, reconciled, cmd>>
          /\ todo'[w] = (routing_keys[q] \cup {snap[w].slug}) \ Target(q)
      BY Zenon, <2>6, <3>1, LockStateShape
    <3>3. PICK c \in Channels : Warrants(<<c, u>>, k)
      BY Zenon, <2>3, <3>2
    <3>4. cmd'[w].pair = <<c, u>> => k \in todo'[w] \cup Target(<<c, u>>)
      <4>1. k \in routing_keys[<<c, u>>]
        BY Zenon, <3>3 DEF Warrants
      <4> QED BY Zenon, <3>2, <4>1
    <3> QED BY Zenon, <2>2, <3>2, <3>3, <3>4
  <2>7. CASE Unbind(w)
    <3>1. Loud(w) /\ q \in Pairs
      BY Zenon, <1>0, <2>7 DEF Loud, Unbind
    <3>2. UNCHANGED <<routing_keys, reconciled, cmd, stage>> /\ Projecting(w)
      BY Zenon, <2>7, <3>1, UnbindShape DEF Projecting
    <3>3. PICK j \in todo[w] : /\ todo'[w] = todo[w] \ {j} /\ bound'[q[2]] = bound[q[2]] \ {j}
                               /\ \A x \in Users \ {q[2]} : bound'[x] = bound[x]
      BY Zenon, <2>7, <3>1, UnbindShape
    <3>4. k \in bound[u] /\ (u = q[2] => k # j)
      BY Zenon, <3>3
    <3>5. PICK c \in Channels : Warrants(<<c, u>>, k)
      BY Zenon, <2>3, <3>4
    <3>6. cmd'[w].pair = <<c, u>> => k \in todo'[w] \cup Target(<<c, u>>)
      <4> SUFFICES ASSUME cmd'[w].pair = <<c, u>> PROVE k \in todo'[w] \cup Target(<<c, u>>)
        BY Zenon
      <4>1. q = <<c, u>>
        BY Zenon, <3>2
      <4>2. k \in todo[w] \cup Target(<<c, u>>)
        BY Zenon, <3>2, <3>5, <4>1 DEF Warrants
      <4>3. k # j
        <5>1. q[2] = u
          BY <4>1
        <5> QED BY Zenon, <3>4, <5>1
      <4> QED BY Zenon, <3>3, <4>2, <4>3
    <3> QED BY Zenon, <2>2, <3>2, <3>5, <3>6
  <2>8. CASE Bind(w)
    <3>1. Loud(w)
      BY Zenon, <2>8 DEF Loud
    <3>2. /\ UNCHANGED <<routing_keys, reconciled, cmd>> /\ Projecting(w) /\ todo'[w] = todo[w]
          /\ bound'[q[2]] = bound[q[2]] \cup Target(q) /\ \A x \in Users \ {q[2]} : bound'[x] = bound[x]
      BY Zenon, <2>8, <3>1, BindShape DEF Projecting
    <3>3. CASE k \in bound[u]
      <4>1. PICK c \in Channels : Warrants(<<c, u>>, k)
        BY Zenon, <2>3, <3>3
      <4>2. cmd'[w].pair = <<c, u>> => k \in todo'[w] \cup Target(<<c, u>>)
        BY Zenon, <3>2, <4>1 DEF Warrants
      <4> QED BY Zenon, <2>2, <3>2, <4>1, <4>2
    <3>4. CASE k \notin bound[u]
      <4>1. u = q[2] /\ k \in Target(q)
        BY Zenon, <3>2, <3>4
      <4>2. /\ q \in Pairs /\ q[1] \in Channels
            /\ Target(q) = IF snap[w].desired THEN {snap[w].slug} ELSE {}
            /\ snap[w].desired => snap[w].slug \in routing_keys[q]
        BY Zenon, <2>5, <3>1, ProjectionFacts
      <4>3. k \in routing_keys[q]
        BY Zenon, <4>1, <4>2
      <4>4. q = <<q[1], u>>
        BY Zenon, <4>1, <4>2, PairFacts
      <4> HIDE DEF q
      <4>5. Warrants(q, k)
        BY Zenon, <4>1, <4>3 DEF Warrants
      <4>6. PICK c \in Channels : q = <<c, u>>
        BY Zenon, <4>2, <4>4
      <4>7. Warrants(<<c, u>>, k) /\ k \in Target(<<c, u>>)
        BY Zenon, <4>1, <4>5, <4>6
      <4> QED BY Zenon, <2>2, <3>2, <4>7
    <3> QED BY Zenon, <3>3, <3>4
  <2>9. CASE CommitApplied(w)
    <3>1. Loud(w) /\ q \in Pairs
      BY Zenon, <1>0, <2>9 DEF Loud, CommitApplied
    <3>2. /\ bound' = bound /\ stage[w] = "projected" /\ stage'[w] = "idle" /\ routing_keys'[q] = {snap[w].slug}
          /\ \A p \in Pairs \ {q} : routing_keys'[p] = routing_keys[p] /\ reconciled'[p] = reconciled[p]
      BY Zenon, <2>9, <3>1, CommitShape
    <3>3. PICK c \in Channels : Warrants(<<c, u>>, k)
      BY Zenon, <2>3, <3>2
    <3> DEFINE p == <<c, u>>
    <3>4. p \in Pairs
      BY Zenon, PairFacts
    <3>5. /\ k \in routing_keys[p]
          /\ generation[p] = reconciled[p] => k \in Target(p)
          /\ \A v \in Projectors : Projecting(v) /\ cmd[v].pair = p => k \in todo[v] \cup Target(p)
      BY Zenon, <3>3 DEF Warrants
    <3> HIDE DEF p
    <3>6. Target(p)' = Target(p) /\ Projecting(w) /\ ~Projecting(w)'
      BY Zenon, <2>1, <3>2 DEF Projecting
    <3>7. ASSUME p = q PROVE k \in Target(p) /\ k \in routing_keys'[p]
      <4>1. todo[w] = {}
        BY Zenon, <3>2 DEF BindingInv, Progress
      <4>2. k \in Target(q)
        BY Zenon, <3>5, <3>6, <3>7, <4>1
      <4>3. Target(q) = IF snap[w].desired THEN {snap[w].slug} ELSE {}
        BY Zenon, <2>5, <3>1, ProjectionFacts
      <4> QED BY Zenon, <3>2, <3>7, <4>2, <4>3
    <3>8. k \in routing_keys'[p] /\ (generation'[p] = reconciled'[p] => k \in Target(p))
      BY Zenon, <2>1, <3>2, <3>4, <3>5, <3>7
    <3>9. \A v \in Projectors : Projecting(v)' /\ cmd'[v].pair = p => k \in todo'[v] \cup Target(p)
      BY Zenon, <2>1, <3>5, <3>6 DEF Projecting
    <3>10. Warrants(p, k)'
      BY Zenon, <3>6, <3>8, <3>9 DEF Warrants
    <3> QED BY Zenon, <3>10 DEF p
  <2> QED BY Zenon, <2>4, <2>6, <2>7, <2>8, <2>9 DEF Loud
<1>4. CASE UNCHANGED bindingVars
  <2>1. UNCHANGED <<slug, deleted, approved, generation, reconciled, routing_keys, bound, stage, cmd, todo>>
    BY Zenon, <1>4 DEF bindingVars
  <2>2. \A p, k : Warrants(p, k) => Warrants(p, k)'
    BY Zenon, <2>1 DEF Warrants, Target, Desired, Projecting
  <2> QED BY Zenon, <2>1, <2>2 DEF BindingInv, Warranted
<1>5. BindingTypeOK /\ Slugged
  BY Zenon DEF BindingInv
<1> QED BY <1>1, <1>2, <1>3, <1>4, <1>5, ApiShape, Zenon DEF BindingNext

\* A state is marked reconciled only when its key is bound.
LEMMA MissingStep ==
  ASSUME BindingInv, BindingTypeOK', [BindingNext]_bindingVars
  PROVE  NoMissingKey'
<1>0. \A v \in Projectors : stage[v] # "idle" => cmd[v].pair \in Pairs
  BY CommandFacts, Zenon DEF BindingInv, BindingTypeOK
<1>m. NoMissingKey
  BY Zenon DEF BindingInv
<1>1. ASSUME NEW P \in SUBSET Pairs, ApiChange(P) PROVE NoMissingKey'
  <2> SUFFICES ASSUME NEW p \in Pairs, generation'[p] = reconciled'[p]
               PROVE  Target(p)' \subseteq bound'[p[2]] \/ SlugReused(p[1])'
    BY Zenon DEF NoMissingKey
  <2>1. /\ UNCHANGED <<reconciled, bound>>
        /\ \A r \in Pairs \ P : generation'[r] = generation[r]
        /\ \A r \in P : \A g \in Nat : g <= generation[r] => generation'[r] # g
    BY Zenon, <1>1, ApiFrame
  <2>2. p \notin P
    BY Zenon, <2>1 DEF BindingInv, BindingTypeOK, Ordered
  <2>3. /\ Target(p)' = Target(p)
        /\ SlugReused(p[1]) => Target(p) = {} \/ SlugReused(p[1])'
    BY Zenon, <1>1, <2>2, ApiKeeps
  <2>4. Target(p) \subseteq bound[p[2]] \/ SlugReused(p[1])
    BY Zenon, <1>m, <2>1, <2>2 DEF NoMissingKey
  <2> QED BY Zenon, <2>1, <2>3, <2>4
<1>2. ASSUME NEW u \in Users, Reconnect(u) PROVE NoMissingKey'
  BY <1>2, Zenon DEF Reconnect, BindingInv, db_vars, state_vars, NoMissingKey, Target, Desired, SlugReused
<1>3. ASSUME NEW w \in Projectors, ProjectorStep(w) \/ Fail(w) \/ ProjectorCrash(w) PROVE NoMissingKey'
  <2> DEFINE q == cmd[w].pair
  <2> SUFFICES ASSUME NEW p \in Pairs, generation'[p] = reconciled'[p]
               PROVE  Target(p)' \subseteq bound'[p[2]] \/ SlugReused(p[1])'
    BY Zenon DEF NoMissingKey
  <2>1. Target(p)' = Target(p) /\ (SlugReused(p[1])' <=> SlugReused(p[1])) /\ generation' = generation
    BY Zenon, <1>3, WorkerKeeps, WorkerFrame
  <2>2. SUFFICES Target(p) \subseteq bound'[p[2]] \/ SlugReused(p[1])
    BY Zenon, <2>1, <2>2
  <2>3. generation[p] = reconciled[p] => Target(p) \subseteq bound[p[2]] \/ SlugReused(p[1])
    BY Zenon, <1>m DEF NoMissingKey
  <2>4. p[2] \in Users
    BY Zenon, PairFacts
  <2>5. CASE ~Loud(w)
    BY Zenon, <1>3, <2>1, <2>3, <2>5, QuietStep
  <2>6. CASE LockState(w) \/ Bind(w)
    <3>1. reconciled' = reconciled /\ bound[p[2]] \subseteq bound'[p[2]]
      BY Zenon, <2>4, <2>6, LockStateShape, BindShape DEF Loud
    <3> QED BY Zenon, <2>1, <2>3, <3>1
  <2>7. CASE Unbind(w)
    <3>1. Loud(w) /\ q \in Pairs /\ stage[w] = "projecting" /\ reconciled' = reconciled
      BY Zenon, <1>0, <2>7 DEF Loud, Unbind, state_vars
    <3>2. PICK j \in todo[w] : /\ bound'[q[2]] = bound[q[2]] \ {j}
                               /\ \A x \in Users \ {q[2]} : bound'[x] = bound[x]
      BY Zenon, <2>7, <3>1, UnbindShape
    <3>3. j \in used[q[1]] /\ j \notin Target(q)
      BY Zenon, <3>1 DEF BindingInv, Progress
    <3>4. CASE p = q
      BY Zenon, <2>1, <2>3, <3>1, <3>2, <3>3, <3>4
    <3>5. CASE p # q
      BY Zenon, <2>1, <2>3, <3>1, <3>2, <3>3, <3>5, TakenAway
    <3> QED BY Zenon, <3>4, <3>5
  <2>8. CASE CommitApplied(w)
    <3>1. /\ bound' = bound /\ stage[w] = "projected"
          /\ \A r \in Pairs \ {q} : reconciled'[r] = reconciled[r]
      BY Zenon, <2>8, CommitShape DEF Loud
    <3>2. Target(q) \subseteq bound[q[2]] \/ SlugReused(q[1])
      BY Zenon, <3>1 DEF BindingInv, Progress
    <3>3. CASE p = q
      BY Zenon, <3>1, <3>2, <3>3
    <3>4. CASE p # q
      BY Zenon, <2>1, <2>3, <3>1, <3>4
    <3> QED BY Zenon, <3>3, <3>4
  <2> QED BY Zenon, <2>5, <2>6, <2>7, <2>8 DEF Loud
<1>4. CASE UNCHANGED bindingVars
  BY <1>4, Zenon DEF bindingVars, BindingInv, NoMissingKey, Target, Desired, SlugReused
<1>5. BindingTypeOK /\ Slugged
  BY Zenon DEF BindingInv
<1> QED BY <1>1, <1>2, <1>3, <1>4, <1>5, ApiShape, Zenon DEF BindingNext

\* A command goes away only when it is stale, applied or dead-lettered.
LEMMA PendingStep ==
  ASSUME BindingInv, BindingTypeOK', [BindingNext]_bindingVars
  PROVE  PendingHasCommand'
<1>0. \A v \in Projectors : stage[v] # "idle" => cmd[v].pair \in Pairs /\ cmd[v].gen \in Nat
  BY CommandFacts, Zenon DEF BindingInv, BindingTypeOK
<1>1. ASSUME NEW P \in SUBSET Pairs, ApiChange(P) PROVE PendingHasCommand'
  <2> SUFFICES ASSUME NEW p \in Pairs, generation'[p] # reconciled'[p], p \notin dead'
               PROVE  \E m \in cmds' : m.pair = p /\ m.gen = generation'[p]
    BY Zenon DEF PendingHasCommand
  <2>1. CASE p \in P
    <3>1. Command(p, generation[p] + 1, 0, 0) \in cmds'
      BY <1>1, <2>1, Zenon DEF ApiChange, Touch
    <3>2. generation'[p] = generation[p] + 1
      BY <1>1, <2>1, Zenon DEF ApiChange, Touch
    <3>3. /\ Command(p, generation[p] + 1, 0, 0).pair = p
          /\ Command(p, generation[p] + 1, 0, 0).gen = generation[p] + 1
      BY Zenon DEF Command
    <3> QED BY <3>1, <3>2, <3>3, Zenon
  <2>2. CASE p \notin P
    BY <1>1, <2>2, Zenon DEF ApiChange, Touch, BindingInv, PendingHasCommand
  <2> QED BY <2>1, <2>2, Zenon
<1>2. ASSUME NEW u \in Users, Reconnect(u) PROVE PendingHasCommand'
  <2> SUFFICES ASSUME NEW p \in Pairs, generation'[p] # reconciled'[p], p \notin dead'
               PROVE  \E m \in cmds' : m.pair = p /\ m.gen = generation'[p]
    BY Zenon DEF PendingHasCommand
  <2>1. generation[p] # reconciled[p] /\ generation[p] > 0
    <3>1. UNCHANGED <<generation, reconciled>>
      BY Zenon, <1>2 DEF Reconnect, state_vars
    <3>2. generation[p] \in Nat /\ reconciled[p] \in Nat /\ reconciled[p] <= generation[p]
      BY Zenon DEF BindingInv, BindingTypeOK, Ordered
    <3> QED BY <3>1, <3>2
  <2>2. CASE p[2] = u
    <3>1. Command(p, generation[p], reconnects + 1, 0) \in cmds'
      BY <1>2, <2>1, <2>2, Zenon DEF Reconnect
    <3>2. /\ Command(p, generation[p], reconnects + 1, 0).pair = p
          /\ Command(p, generation[p], reconnects + 1, 0).gen = generation[p]
      BY Zenon DEF Command
    <3> QED BY <1>2, <3>1, <3>2, Zenon DEF Reconnect, state_vars
  <2>3. CASE p[2] # u
    BY <1>2, <2>1, <2>3, Zenon DEF Reconnect, BindingInv, state_vars, PendingHasCommand
  <2> QED BY <2>2, <2>3, Zenon
<1>3. ASSUME NEW w \in Projectors, ProjectorStep(w) \/ Fail(w) \/ ProjectorCrash(w) PROVE PendingHasCommand'
  <2>1. CASE ClaimCommand(w)
    BY <1>0, <2>1, Zenon DEF ClaimCommand, BindingInv, state_vars, PendingHasCommand
  <2>2. CASE PollCommands(w)
    BY <1>0, <2>2, Zenon DEF PollCommands, bindingVars, BindingInv, PendingHasCommand
  <2>3. CASE Snapshot(w)
    BY <1>0, <2>3, Zenon DEF Snapshot, Desired, BindingInv, state_vars, PendingHasCommand
  <2>4. CASE LockState(w)
    BY <1>0, <2>4, Zenon DEF LockState, BindingInv, state_vars, PendingHasCommand
  <2>5. CASE DropStale(w)
    BY <1>0, <2>5, ZenonT(60) DEF DropStale, Finish, BindingInv, state_vars, PendingHasCommand
  <2>6. CASE Unbind(w)
    BY <1>0, <2>6, Zenon DEF Unbind, BindingInv, state_vars, PendingHasCommand
  <2>7. CASE Bind(w)
    BY <1>0, <2>7, Zenon DEF Bind, BindingInv, state_vars, PendingHasCommand
  <2>8. CASE CommitApplied(w)
    BY <1>0, <2>8, Zenon DEF CommitApplied, Finish, BindingInv, BindingTypeOK, PendingHasCommand
  <2>9. CASE Fail(w)
    <3> SUFFICES ASSUME NEW p \in Pairs, generation'[p] # reconciled'[p], p \notin dead'
                 PROVE  \E m \in cmds' : m.pair = p /\ m.gen = generation'[p]
      BY Zenon DEF PendingHasCommand
    <3>1. PICK m \in cmds : m.pair = p /\ m.gen = generation[p]
      BY <2>9, Zenon DEF Fail, BindingInv, state_vars, PendingHasCommand
    <3>2. CASE m # cmd[w]
      BY <2>9, <3>1, <3>2, Zenon DEF Fail, state_vars
    <3>3. CASE m = cmd[w]
      <4>1. Command(m.pair, m.gen, m.n, m.tries + 1) \in cmds'
        BY <2>9, <3>1, <3>3, Zenon DEF Fail
      <4>2. /\ Command(m.pair, m.gen, m.n, m.tries + 1).pair = m.pair
            /\ Command(m.pair, m.gen, m.n, m.tries + 1).gen = m.gen
        BY Zenon DEF Command
      <4> QED BY <2>9, <3>1, <4>1, <4>2, Zenon DEF Fail, state_vars
    <3> QED BY <3>2, <3>3, Zenon
  <2>10. CASE ProjectorCrash(w)
    BY <1>0, <2>10, Zenon DEF ProjectorCrash, Finish, BindingInv, state_vars, PendingHasCommand
  <2> QED BY <1>3, <2>1, <2>2, <2>3, <2>4, <2>5, <2>6, <2>7, <2>8, <2>9, <2>10, Zenon DEF ProjectorStep
<1>4. CASE UNCHANGED bindingVars
  BY <1>4, Zenon DEF bindingVars, BindingInv, PendingHasCommand
<1>5. BindingTypeOK /\ Slugged
  BY Zenon DEF BindingInv
<1> QED BY <1>1, <1>2, <1>3, <1>4, <1>5, ApiShape, Zenon DEF BindingNext

-----------------------------------------------------------------------------
(* The theorems *)

\* The initial state satisfies the invariant.
LEMMA InitBinding == BindingInit => BindingInv
<1> SUFFICES ASSUME BindingInit PROVE BindingInv
  OBVIOUS
<1>1. BindingTypeOK
  <2>1. slug \in [Channels -> Slugs]
    BY Zenon DEF BindingInit
  <2>2. used \in [Channels -> SUBSET Slugs]
    BY <2>1 DEF BindingInit
  <2> QED BY Zenon, <2>1, <2>2 DEF BindingInit, BindingTypeOK
<1>2. Ordered
  <2>1. 0 <= 0
    OBVIOUS
  <2> QED BY Zenon, <2>1 DEF BindingInit, Ordered
<1>3. Slugged
  BY Zenon, PairFacts DEF BindingInit, Slugged, Reading
<1>4. ReadCurrent /\ Progress /\ Warranted
  BY Zenon DEF BindingInit, ReadCurrent, Reading, Progress, Warranted
<1>5. Locked
  BY Zenon, NobodyAssumption DEF BindingInit, Locked, Projecting
<1>6. NoMissingKey /\ PendingHasCommand
  BY Zenon, PairFacts DEF BindingInit, NoMissingKey, Target, Desired, PendingHasCommand
<1> QED BY Zenon, <1>1, <1>2, <1>3, <1>4, <1>5, <1>6 DEF BindingInv

\* The invariant holds in every reachable state.
LEMMA BindingInductive == BindingSpec => []BindingInv
<1>1. BindingInv /\ [BindingNext]_bindingVars => BindingInv'
  BY Zenon, TypeStep, OrderedStep, SluggedStep, ReadCurrentStep, LockedStep, ProgressStep,
      WarrantedStep, MissingStep, PendingStep DEF BindingInv
<1> QED BY InitBinding, <1>1, PTL DEF BindingSpec

\* Whatever order commands are executed in, however often they fail and are retried
\* and however slugs pass between channels, a queue has no key but those of its
\* states and those a pending projection removes; a state whose
\* reconciled_generation is its generation has its key bound, unless another channel
\* once had that slug; and an unreconciled state has a command for its current
\* generation, unless that ran out of attempts.
THEOREM BindingsExact == BindingSpec => []BindingsTracked
<1>1. BindingInv => BindingsTracked
  BY Zenon DEF BindingInv, BindingsTracked, Warranted, Warrants, NoStrayKey
<1> QED BY BindingInductive, <1>1, PTL

\* The worker acts on a current view of channel and membership although its query
\* reads them before it waits for the lock of the state row.
THEOREM ReadsAreCurrent == BindingSpec => [](BindingTypeOK /\ SnapshotStillCurrent)
<1>1. BindingInv => BindingTypeOK /\ SnapshotStillCurrent
  BY Zenon DEF BindingInv, Locked, ReadCurrent, Projecting, Reading, SnapshotStillCurrent, Desired
<1> QED BY BindingInductive, <1>1, PTL

-----------------------------------------------------------------------------
(***************************************************************************)
(* Lists of anything, as hashes, paths, bytes and frames are.              *)
(***************************************************************************)

IsSeq(s) == \E S : s \in Seq(S)

\* The domain of a list, a list from its elements, equality, one element more.
LEMMA ListFacts ==
  ASSUME NEW s, IsSeq(s)
  PROVE  Len(s) \in Nat /\ DOMAIN s = 1..Len(s)
BY DEF IsSeq

\* A function on 1..n is a list of length n.
LEMMA ListOf ==
  ASSUME NEW n \in Nat, NEW s, s = [k \in 1..n |-> s[k]]
  PROVE  IsSeq(s) /\ Len(s) = n
<1>1. s \in [1..n -> {s[k] : k \in 1..n}]
  BY Zenon
<1>2. s \in Seq({s[k] : k \in 1..n}) /\ Len(s) = n
  BY <1>1
<1> QED BY Zenon, <1>2 DEF IsSeq

\* Lists with the same elements are equal.
LEMMA ListEqual ==
  ASSUME NEW s, NEW t, IsSeq(s), IsSeq(t), Len(s) = Len(t), \A q \in 1..Len(s) : s[q] = t[q]
  PROVE  s = t
BY DEF IsSeq

\* What appending does to a list of anything.
LEMMA ListAppend ==
  ASSUME NEW s, NEW e, IsSeq(s)
  PROVE  /\ IsSeq(Append(s, e))
         /\ Len(Append(s, e)) = Len(s) + 1
         /\ Append(s, e)[Len(s) + 1] = e
         /\ \A q \in 1..Len(s) : Append(s, e)[q] = s[q]
<1>1. PICK S : s \in Seq(S)
  BY DEF IsSeq
<1>2. s \in Seq(S \cup {e}) /\ e \in S \cup {e}
  BY <1>1
<1>3. Append(s, e) \in Seq(S \cup {e})
  BY <1>2
<1> QED BY <1>2, <1>3 DEF IsSeq

\* A sequence over a set is one over a larger set.
LEMMA SeqLarger ==
  ASSUME NEW S, NEW T, S \subseteq T, NEW s \in Seq(S)
  PROVE  s \in Seq(T)
OBVIOUS

\* One list is two others joined.
Joined(j, s, t) ==
  /\ IsSeq(j) /\ Len(j) = Len(s) + Len(t)
  /\ \A x \in 1..Len(s) : j[x] = s[x]
  /\ \A x \in 1..Len(t) : j[Len(s) + x] = t[x]

\* What joining two lists gives.
LEMMA ListConcat ==
  ASSUME NEW s, NEW t, IsSeq(s), IsSeq(t)
  PROVE  Joined(s \o t, s, t)
<1>1. PICK S, T : s \in Seq(S) /\ t \in Seq(T)
  BY Zenon DEF IsSeq
<1>2. s \in Seq(S \cup T) /\ t \in Seq(S \cup T)
  BY Zenon, <1>1, SeqLarger
<1>3. s \o t \in Seq(S \cup T)
  BY <1>2
<1>4. Len(s \o t) = Len(s) + Len(t)
  BY <1>2
<1>5. \A x \in 1..Len(s) : (s \o t)[x] = s[x]
  BY <1>2
<1>6. \A x \in 1..Len(t) : (s \o t)[Len(s) + x] = t[x]
  BY <1>2
<1> QED BY Zenon, <1>3, <1>4, <1>5, <1>6 DEF IsSeq, Joined

-----------------------------------------------------------------------------
(***************************************************************************)
(* Downloads are genuine, for every body, chunk size, set of keys, cutting *)
(* of the body into pieces, sequence of rotations and damage that forges   *)
(* no box.                                                                 *)
(*                                                                         *)
(* The argument: a box that opens for index i under a header of this       *)
(* upload and size holds chunk i of the body (Authentic), because only     *)
(* such boxes were ever sealed under that associated data (SealedBefore).  *)
(* The reader checks the index itself, so what it yields is the body from  *)
(* its start (ReaderSound).  The writer's frames and its pending bytes are *)
(* always the body received so far (Streaming), so an undamaged file is    *)
(* the whole one (ContainerInv) and reads to its end (ReaderComplete).     *)
(***************************************************************************)

\* Multiples of the chunk size, and division with remainder.
LEMMA Multiples ==
  ASSUME NEW c \in Nat, NEW i \in Nat, NEW j \in Nat
  PROVE  /\ i * c \in Nat /\ (i + 1) * c = i * c + c /\ (i + j) * c = i * c + j * c
         /\ i <= j => i * c <= j * c
<1>1. i * c \in Nat /\ j * c \in Nat
  OBVIOUS
<1>2. (i + 1) * c = i * c + c /\ (i + j) * c = i * c + j * c
  OBVIOUS
<1>3. ASSUME i <= j PROVE i * c <= j * c
  <2>1. PICK e \in Nat : j = i + e
    BY <1>3
  <2>2. j * c = i * c + e * c /\ e * c \in Nat
    BY <2>1
  <2> QED BY <1>1, <2>2
<1> QED BY Zenon, <1>1, <1>2, <1>3

\* Products of a chunk size, as the provers need them.
LEMMA Distribute ==
  ASSUME NEW c \in Nat, NEW i \in Nat, NEW j \in Nat
  PROVE  (i + j) * c = i * c + j * c
OBVIOUS

\* Quotient and remainder by a chunk size.
LEMMA Division ==
  ASSUME NEW c \in Nat \ {0}, NEW x \in Nat
  PROVE  x \div c \in Nat /\ x % c \in 0..(c - 1) /\ x = (x \div c) * c + (x % c)
OBVIOUS

\* They are determined by their sum.
LEMMA DivisionUnique ==
  ASSUME NEW c \in Nat \ {0}, NEW q \in Nat, NEW r \in 0..(c - 1)
  PROVE  (q * c + r) \div c = q /\ (q * c + r) % c = r
<1> DEFINE x == q * c + r
           a == x \div c
           b == x % c
<1>1. x \in Nat /\ q * c \in Nat
  BY Multiples
<1>2. a \in Nat /\ b \in 0..(c - 1) /\ x = a * c + b
  BY Zenon, <1>1, Division
<1> HIDE DEF a, b
<1>3. ~(a < q)
  <2> SUFFICES ASSUME a < q PROVE FALSE
    BY Zenon
  <2>1. (a + 1) * c <= q * c /\ (a + 1) * c = a * c + c
    BY <1>2, Multiples
  <2> QED BY <1>1, <1>2, <2>1, Multiples
<1>4. ~(q < a)
  <2> SUFFICES ASSUME q < a PROVE FALSE
    BY Zenon
  <2>1. (q + 1) * c <= a * c /\ (q + 1) * c = q * c + c
    BY <1>2, Multiples
  <2> QED BY <1>1, <1>2, <2>1, Multiples
<1>5. a = q
  BY <1>2, <1>3, <1>4
<1>6. b = r
  BY <1>1, <1>2, <1>5
<1> QED BY Zenon, <1>5, <1>6 DEF a, b

\* A later byte is in no earlier chunk.
LEMMA DivisionMonotone ==
  ASSUME NEW c \in Nat \ {0}, NEW x \in Nat, NEW y \in Nat, x <= y
  PROVE  x \div c <= y \div c
<1> DEFINE a == x \div c
           b == y \div c
<1>1. /\ a \in Nat /\ x % c \in 0..(c - 1) /\ x = a * c + (x % c)
      /\ b \in Nat /\ y % c \in 0..(c - 1) /\ y = b * c + (y % c)
  BY Zenon, Division
<1> HIDE DEF a, b
<1>2. ~(b < a)
  <2> SUFFICES ASSUME b < a PROVE FALSE
    BY Zenon
  <2>1. (b + 1) * c <= a * c /\ (b + 1) * c = b * c + c
    BY <1>1, Multiples
  <2> QED BY <1>1, <2>1, Multiples
<1>3. a <= b
  BY <1>1, <1>2
<1> QED BY Zenon, <1>3 DEF a, b

\* Chunk i of a body.
ChunkOf(body, i) == Slice(body, (i - 1) * ChunkSize, ChunkLength(Len(body), i))

\* A box that opens for a chunk of this upload holds that chunk of the body.
Authentic(box, body) ==
  \A c, slot, length :
    box.aad = <<c, slot, length>> /\ c.upload = U /\ c.size = Len(body) =>
      box.plain = ChunkOf(body, slot + 1)

\* Byte p of a body is in one of its frames, at a place of that frame's chunk.
LEMMA BytePlace ==
  ASSUME NEW body, IsSeq(body), NEW p \in 1..Len(body)
  PROVE  /\ FrameOf(p) \in 1..FrameCount(Len(body))
         /\ ChunkOf(body, FrameOf(p))[ByteOf(p)] = body[p]
<1> DEFINE size == Len(body)
           a == (p - 1) \div ChunkSize
           b == (p - 1) % ChunkSize
<1>1. size \in Nat /\ p \in Nat /\ p - 1 \in Nat /\ p <= size /\ ChunkSize \in Nat \ {0}
  BY ListFacts, ContainerAssumption
<1>2. a \in Nat /\ b \in 0..(ChunkSize - 1) /\ p - 1 = a * ChunkSize + b
  BY Zenon, <1>1, Division
<1>3. FrameOf(p) = a + 1 /\ ByteOf(p) = b + 1
  BY Zenon DEF FrameOf, ByteOf
<1> HIDE DEF a, b
<1>4. a + 1 \in 1..FrameCount(size)
  <2> DEFINE y == size + ChunkSize - 1
  <2>1. /\ (a + 1) * ChunkSize + b = (p - 1) + ChunkSize /\ a + 1 \in Nat
        /\ (p - 1) + ChunkSize \in Nat /\ y \in Nat /\ (p - 1) + ChunkSize <= y
    BY <1>1, <1>2, Multiples
  <2>2. ((p - 1) + ChunkSize) \div ChunkSize = a + 1
    BY Zenon, <1>1, <1>2, <2>1, DivisionUnique
  <2>3. a + 1 <= y \div ChunkSize /\ y \div ChunkSize \in Nat
    BY <1>1, <2>1, <2>2, DivisionMonotone, Division
  <2>4. FrameCount(size) = y \div ChunkSize
    BY Zenon DEF FrameCount
  <2> HIDE DEF y
  <2> QED BY <1>2, <2>3, <2>4
<1>5. /\ b + 1 \in 1..ChunkLength(size, a + 1) /\ (a + 1) - 1 = a
      /\ a * ChunkSize + (b + 1) = p
  <2>1. a * ChunkSize \in Nat
    BY Zenon, <1>1, <1>2, Multiples
  <2>2. (a + 1) - 1 = a
    BY <1>2
  <2>3. ChunkLength(size, a + 1) = MinOf(ChunkSize, size - a * ChunkSize)
    BY Zenon, <2>2 DEF ChunkLength
  <2> QED BY <1>1, <1>2, <2>1, <2>2, <2>3 DEF MinOf
<1>6. ChunkOf(body, a + 1) = [o \in 1..ChunkLength(size, a + 1) |-> body[a * ChunkSize + o]]
  BY Zenon, <1>5 DEF ChunkOf, Slice
<1>7. ChunkOf(body, a + 1)[b + 1] = body[p]
  BY Zenon, <1>5, <1>6
<1> QED BY Zenon, <1>3, <1>4, <1>7

\* Bytes further on are in later frames.
LEMMA FrameMonotone ==
  ASSUME NEW p \in Nat \ {0}, NEW q \in 1..p
  PROVE  FrameOf(q) \in Nat /\ FrameOf(p) \in Nat /\ FrameOf(q) <= FrameOf(p)
<1>1. p - 1 \in Nat /\ q - 1 \in Nat /\ q - 1 <= p - 1 /\ ChunkSize \in Nat \ {0}
  BY ContainerAssumption
<1>2. /\ (q - 1) \div ChunkSize <= (p - 1) \div ChunkSize
      /\ (q - 1) \div ChunkSize \in Nat /\ (p - 1) \div ChunkSize \in Nat
  BY Zenon, <1>1, DivisionMonotone, Division
<1> QED BY <1>2 DEF FrameOf

\* A chunk of a body has the length the reader expects.
LEMMA ChunkFacts ==
  ASSUME NEW body, IsSeq(body), NEW i \in 1..FrameCount(Len(body))
  PROVE  /\ ChunkLength(Len(body), i) \in Nat /\ Len(ChunkOf(body, i)) = ChunkLength(Len(body), i)
         /\ IsSeq(ChunkOf(body, i))
<1> DEFINE size == Len(body)
           n == FrameCount(size)
           y == size + ChunkSize - 1
<1>1. size \in Nat /\ ChunkSize \in Nat \ {0} /\ y \in Nat
  BY ListFacts, ContainerAssumption
<1>2. n \in Nat /\ y % ChunkSize \in 0..(ChunkSize - 1) /\ y = n * ChunkSize + (y % ChunkSize)
  BY Zenon, <1>1, Division DEF FrameCount
<1> HIDE DEF n
<1>3. i \in Nat /\ i - 1 \in Nat /\ i <= n
  BY <1>2 DEF n
<1>4. i * ChunkSize = (i - 1) * ChunkSize + ChunkSize /\ i * ChunkSize <= n * ChunkSize
      /\ (i - 1) * ChunkSize \in Nat /\ n * ChunkSize \in Nat
  <2>1. (i - 1) + 1 = i
    BY <1>3
  <2> QED BY Zenon, <1>1, <1>2, <1>3, <2>1, Multiples
<1>5. size - (i - 1) * ChunkSize \in Nat
  BY <1>1, <1>2, <1>4
<1>6. ChunkLength(size, i) \in Nat
  BY Zenon, <1>1, <1>5 DEF ChunkLength, MinOf
<1>7. ChunkOf(body, i) = [o \in 1..ChunkLength(size, i) |-> ChunkOf(body, i)[o]]
  BY Zenon DEF ChunkOf, Slice
<1> QED BY Zenon, <1>6, <1>7, ListOf

\* Equal triples have equal parts.
LEMMA TripleInjective == \A a, b, c, d, e, f : <<a, b, c>> = <<d, e, f>> => a = d /\ b = e /\ c = f
BY Zenon

\* The header and the frames of a whole file.
HeaderFor(h, u, k, size) ==
  /\ h.canonical.upload = u /\ h.canonical.key = k /\ h.canonical.size = size
  /\ Opens(h.tag, <<h.canonical.key, h.canonical.upload>>, <<h.canonical.prefix, "header">>, h.canonical)

\* The fields of a header that was built.
LEMMA HeaderFields ==
  ASSUME NEW u, NEW k, NEW size
  PROVE  HeaderFor(build_upload_encryption_header(u, k, size), u, k, size)
BY Zenon DEF build_upload_encryption_header, Opens, Seal, HeaderFor

Whole(file, u, k, body) ==
  /\ file.header = build_upload_encryption_header(u, k, Len(body))
  /\ file.trailing = FALSE
  /\ file = [header |-> file.header, frames |-> file.frames, trailing |-> file.trailing]
  /\ IsSeq(file.frames) /\ Len(file.frames) = FrameCount(Len(body))
  /\ DOMAIN file.frames = 1..FrameCount(Len(body))
  /\ \A i \in 1..FrameCount(Len(body)) :
       file.frames[i] = encrypt_chunk(file.header, i - 1, ChunkOf(body, i))

\* The number of frames is a natural number.
LEMMA FrameCountNat ==
  ASSUME NEW size \in Nat
  PROVE  FrameCount(size) \in Nat
<1>1. size + ChunkSize - 1 \in Nat /\ ChunkSize \in Nat \ {0}
  BY ContainerAssumption
<1> QED BY Zenon, <1>1, Division DEF FrameCount

\* What encrypting a body leaves in the file.
LEMMA WholeFields ==
  ASSUME NEW u, NEW k, NEW body, IsSeq(body)
  PROVE  Whole(encrypt_plaintext_file(u, k, body), u, k, body)
<1> DEFINE file == encrypt_plaintext_file(u, k, body)
           h == build_upload_encryption_header(u, k, Len(body))
           n == FrameCount(Len(body))
           fs == [i \in 1..n |-> encrypt_chunk(h, i - 1, ChunkOf(body, i))]
<1>1. file = [header |-> h, frames |-> fs, trailing |-> FALSE]
  BY Zenon DEF encrypt_plaintext_file, ChunkOf
<1>2. /\ DOMAIN fs = 1..n /\ fs = [i \in 1..n |-> fs[i]]
      /\ \A i \in 1..n : fs[i] = encrypt_chunk(h, i - 1, ChunkOf(body, i))
  BY Zenon
<1> HIDE DEF file, h, fs
<1>3. file.header = h /\ file.frames = fs /\ file.trailing = FALSE
  BY Zenon, <1>1
<1>4. Len(body) \in Nat
  BY Zenon, ListFacts
<1>5. n \in Nat
  BY Zenon, <1>4, FrameCountNat
<1> HIDE DEF n
<1>6. IsSeq(fs) /\ Len(fs) = n
  BY Zenon, <1>2, <1>5, ListOf
<1>7. /\ file.header = h /\ file.trailing = FALSE
      /\ file = [header |-> file.header, frames |-> file.frames, trailing |-> file.trailing]
      /\ IsSeq(file.frames) /\ Len(file.frames) = n /\ DOMAIN file.frames = 1..n
      /\ \A i \in 1..n : file.frames[i] = encrypt_chunk(file.header, i - 1, ChunkOf(body, i))
  BY Zenon, <1>1, <1>2, <1>3, <1>6
<1> QED BY Zenon, <1>7 DEF Whole, file, h, n

\* What encrypt_chunk puts into a frame.
SealedFor(f, h, slot, chunk) ==
  /\ f.index = slot /\ f.length = Len(chunk)
  /\ f.box.key = <<h.canonical.key, h.canonical.upload>>
  /\ f.box.nonce = <<h.canonical.prefix, slot>>
  /\ f.box.aad = <<h.canonical, slot, Len(chunk)>>

\* What sealing a chunk binds.
LEMMA ChunkBox ==
  ASSUME NEW h, NEW slot, NEW chunk
  PROVE  SealedFor(encrypt_chunk(h, slot, chunk), h, slot, chunk)
BY Zenon DEF encrypt_chunk, Seal, SealedFor

\* What a run of the encryptor over the body seals is authentic.
LEMMA SealedAuthentic ==
  ASSUME NEW body, NEW h, NEW i \in Nat
  PROVE  Authentic(encrypt_chunk(h, i, ChunkOf(body, i + 1)).box, body)
<1> DEFINE b == encrypt_chunk(h, i, ChunkOf(body, i + 1)).box
<1>1. b.plain = ChunkOf(body, i + 1) /\ b.aad = <<h.canonical, i, Len(ChunkOf(body, i + 1))>>
  BY Zenon DEF encrypt_chunk, Seal
<1> HIDE DEF b
<1>2. ASSUME NEW c, NEW slot, NEW length, b.aad = <<c, slot, length>>
      PROVE  slot = i
  BY <1>1, <1>2, TripleInjective
<1> QED BY Zenon, <1>1, <1>2 DEF Authentic, b

\* What the reader yields from a file of authentic boxes, in whatever order, number and
\* company, is the beginning of the body, and all of it if the reader ends well.
LEMMA ReaderSound ==
  ASSUME NEW body, IsSeq(body), NEW file, IsSeq(file.frames),
         \A i \in DOMAIN file.frames : Authentic(file.frames[i].box, body),
         file.header.canonical.upload = U, file.header.canonical.size = Len(body)
  PROVE  LET r == _iter_decrypted_frames(file) IN Begins(r.out, body) /\ (r.ok => r.out = body)
<1> DEFINE r == _iter_decrypted_frames(file)
           c == file.header.canonical
           n == FrameCount(Len(body))
           read == {p \in 1..Len(body) : \A i \in 1..FrameOf(p) : FrameAccepted(file, i)}
           byte(p) == file.frames[FrameOf(p)].box.plain[ByteOf(p)]
<1>1. /\ r.out = [p \in read |-> byte(p)]
      /\ r.ok => \A i \in 1..n : FrameAccepted(file, i)
  BY Zenon DEF _iter_decrypted_frames
<1>2. ASSUME NEW i \in Nat \ {0}, FrameAccepted(file, i)
      PROVE  file.frames[i].box.plain = ChunkOf(body, i)
  <2>1. /\ i <= Len(file.frames) /\ file.frames[i].index = i - 1
        /\ file.frames[i].box.aad = <<c, i - 1, file.frames[i].length>>
    BY Zenon, <1>2 DEF FrameAccepted, Opens
  <2>2. i \in DOMAIN file.frames /\ (i - 1) + 1 = i
    BY <2>1, ListFacts
  <2>3. Authentic(file.frames[i].box, body)
    BY Zenon, <2>2
  <2>4. file.frames[i].box.plain = ChunkOf(body, (i - 1) + 1)
    BY Zenon, <2>1, <2>3 DEF Authentic
  <2> QED BY Zenon, <2>2, <2>4
<1>3. ASSUME NEW p \in read PROVE byte(p) = body[p]
  <2>1. /\ FrameOf(p) \in 1..n /\ ChunkOf(body, FrameOf(p))[ByteOf(p)] = body[p]
    BY Zenon, <1>3, BytePlace
  <2>2. n \in Nat
    BY Zenon, ListFacts, FrameCountNat
  <2>3. FrameOf(p) \in Nat \ {0} /\ FrameOf(p) \in 1..FrameOf(p)
    BY <2>1, <2>2
  <2> QED BY Zenon, <1>2, <1>3, <2>1, <2>3
<1>4. Len(body) \in Nat /\ DOMAIN body = 1..Len(body) /\ body = [p \in DOMAIN body |-> body[p]]
  BY ListFacts DEF IsSeq
<1>5. ASSUME NEW p \in read, NEW q \in 1..p PROVE q \in read
  <2>1. p \in Nat \ {0} /\ q \in 1..Len(body) /\ \A i \in 1..FrameOf(p) : FrameAccepted(file, i)
    BY <1>4
  <2>2. \A i \in 1..FrameOf(q) : i \in 1..FrameOf(p)
    BY <2>1, FrameMonotone
  <2> QED BY Zenon, <2>1, <2>2
<1>6. (\A i \in 1..n : FrameAccepted(file, i)) => read = 1..Len(body)
  <2> SUFFICES ASSUME \A i \in 1..n : FrameAccepted(file, i), NEW p \in 1..Len(body)
               PROVE  p \in read
    BY Zenon
  <2>1. FrameOf(p) \in 1..n /\ n \in Nat
    BY Zenon, BytePlace, ListFacts, FrameCountNat
  <2>2. \A i \in 1..FrameOf(p) : i \in 1..n
    BY <2>1
  <2> QED BY Zenon, <2>2
<1> HIDE DEF read, r, byte
<1>7. Begins(r.out, body)
  <2>1. DOMAIN r.out = read /\ \A p \in read : r.out[p] = body[p]
    BY Zenon, <1>1, <1>3
  <2>2. read \subseteq DOMAIN body
    BY Zenon, <1>4 DEF read
  <2> QED BY Zenon, <1>5, <2>1, <2>2 DEF Begins
<1>8. r.ok => r.out = body
  <2> SUFFICES ASSUME r.ok PROVE r.out = body
    BY Zenon
  <2>1. read = DOMAIN body
    BY Zenon, <1>1, <1>4, <1>6
  <2>2. r.out = [p \in DOMAIN body |-> byte(p)] /\ \A p \in DOMAIN body : byte(p) = body[p]
    BY Zenon, <1>1, <1>3, <2>1
  <2>3. [p \in DOMAIN body |-> byte(p)] = [p \in DOMAIN body |-> body[p]]
    BY Zenon, <2>2
  <2> QED BY Zenon, <1>4, <2>2, <2>3
<1> QED BY Zenon, <1>7, <1>8 DEF r

\* The reader accepts every frame of a whole file, header included.
LEMMA ReaderComplete ==
  ASSUME NEW body, IsSeq(body), NEW k \in ContainerKeys
  PROVE  iter_decrypted_upload_async(encrypt_plaintext_file(U, k, body), U, k, Len(body)).ok
<1>1. PICK file : file = encrypt_plaintext_file(U, k, body)
  BY Zenon
<1> DEFINE c == file.header.canonical
           n == FrameCount(Len(body))
<1>2. Whole(file, U, k, body)
  BY Zenon, <1>1, WholeFields
<1>3. /\ c.upload = U /\ c.key = k /\ c.size = Len(body)
      /\ Opens(file.header.tag, <<c.key, c.upload>>, <<c.prefix, "header">>, c)
  <2>1. file.header = build_upload_encryption_header(U, k, Len(body))
    BY Zenon, <1>2 DEF Whole
  <2>2. HeaderFor(file.header, U, k, Len(body))
    BY Zenon, <2>1, HeaderFields
  <2> QED BY Zenon, <2>2 DEF HeaderFor
<1>4. read_upload_encryption_header(file.header, U, k)
  BY Zenon, <1>3 DEF read_upload_encryption_header
<1>5. ASSUME NEW i \in 1..n PROVE FrameAccepted(file, i)
  <2>1. file.frames[i] = encrypt_chunk(file.header, i - 1, ChunkOf(body, i))
    BY Zenon, <1>2 DEF Whole
  <2>2. /\ file.frames[i].index = i - 1 /\ file.frames[i].length = Len(ChunkOf(body, i))
        /\ file.frames[i].box.key = <<c.key, c.upload>>
        /\ file.frames[i].box.nonce = <<c.prefix, i - 1>>
        /\ file.frames[i].box.aad = <<c, i - 1, Len(ChunkOf(body, i))>>
    <3>1. SealedFor(file.frames[i], file.header, i - 1, ChunkOf(body, i))
      BY Zenon, <2>1, ChunkBox
    <3> QED BY Zenon, <3>1 DEF SealedFor
  <2>3. Len(ChunkOf(body, i)) = ChunkLength(c.size, i)
    BY Zenon, <1>3, ChunkFacts
  <2>4. n \in Nat
    BY Zenon, ListFacts, FrameCountNat
  <2>5. i <= Len(file.frames)
    BY <1>2, <2>4 DEF Whole
  <2> QED BY Zenon, <2>2, <2>3, <2>5 DEF FrameAccepted, Opens
<1>6. _iter_decrypted_frames(file).ok
  <2>1. /\ \A i \in 1..FrameCount(c.size) : FrameAccepted(file, i)
        /\ Len(file.frames) = FrameCount(c.size) /\ ~file.trailing
    BY Zenon, <1>2, <1>3, <1>5 DEF Whole
  <2> QED BY Zenon, <2>1 DEF _iter_decrypted_frames
<1> QED BY Zenon, <1>1, <1>3, <1>4, <1>6 DEF iter_decrypted_upload_async

-----------------------------------------------------------------------------
\* A box the installation sealed: for a chunk of this body under some key, or for
\* another upload.
SealedBefore(box, body) ==
  \/ \E k : \E i \in Nat :
       box = encrypt_chunk(build_upload_encryption_header(U, k, Len(body)), i, ChunkOf(body, i + 1)).box
  \/ \E u, k, size, i, chunk :
       u # U /\ box = encrypt_chunk(build_upload_encryption_header(u, k, size), i, chunk).box

\* Any fault of the disk that forges no box: any header, and sealed boxes in any number
\* and order, each with any index and length field; any number of times.
AnyDamage ==
  /\ Encrypted
  /\ \E header, frames, trailing :
       /\ IsSeq(frames) /\ \A i \in DOMAIN frames : SealedBefore(frames[i].box, cgenuine)
       /\ cfile' = [header |-> header, frames |-> frames, trailing |-> trailing]
  /\ cdamaged' = TRUE
  /\ UNCHANGED <<cphase, csize, csum, ckey, cpending, cbody, cframes, cgenuine>>

\* The stored file with pieces of any size and any such fault.
AnyDamageNext ==
  \/ \E n \in Nat, wrong \in BOOLEAN : Receive(n, wrong)
  \/ Finalize
  \/ \E target \in ContainerKeys : Rewrite(target)
  \/ AnyDamage

AnyDamageSpec == ContainerInit /\ [][AnyDamageNext]_containerVars

\* Frame i holds a full chunk of the body.
Framed(frames, i, header, body) ==
  frames[i] = encrypt_chunk(header, i - 1, Slice(body, (i - 1) * ChunkSize, ChunkSize))

\* While the body arrives: whole chunks are in frames, the rest is pending.
Streaming ==
  /\ IsSeq(cbody) /\ IsSeq(cpending) /\ IsSeq(cframes)
  /\ Len(cpending) < ChunkSize
  /\ Len(cbody) = Len(cframes) * ChunkSize + Len(cpending)
  /\ \A o \in 1..Len(cpending) : cpending[o] = cbody[Len(cframes) * ChunkSize + o]
  /\ \A i \in 1..Len(cframes) : Framed(cframes, i, StoreHeader, cbody)

\* A file of the three parts, every box of which was sealed before.
StoredAs(file, body) ==
  /\ file = [header |-> file.header, frames |-> file.frames, trailing |-> file.trailing]
  /\ IsSeq(file.frames)
  /\ \A i \in DOMAIN file.frames : SealedBefore(file.frames[i].box, body)

\* The stored file is one, and without damage it is the whole body's.
StoredFile ==
  /\ StoredAs(cfile, cgenuine)
  /\ ~cdamaged => ckey \in ContainerKeys /\ cfile = encrypt_plaintext_file(U, ckey, cgenuine)

\* The inductive invariant.
ContainerInv ==
  /\ csize \in Nat
  /\ cphase = "receiving" => Streaming
  /\ cphase = "stored" => IsSeq(cgenuine) /\ Len(cgenuine) = csize
  /\ cphase = "stored" /\ ~Encrypted => cfile = [plain |-> cgenuine]
  /\ Encrypted => StoredFile

\* A box that opens for a chunk of this upload holds that chunk.
LEMMA BoxAuthentic ==
  ASSUME NEW box, NEW body, SealedBefore(box, body)
  PROVE  Authentic(box, body)
<1>1. CASE \E k : \E i \in Nat :
             box = encrypt_chunk(build_upload_encryption_header(U, k, Len(body)), i, ChunkOf(body, i + 1)).box
  BY Zenon, <1>1, SealedAuthentic
<1>2. ASSUME NEW u, NEW k, NEW size, NEW i, NEW chunk, u # U,
             box = encrypt_chunk(build_upload_encryption_header(u, k, size), i, chunk).box
      PROVE  Authentic(box, body)
  <2>1. PICK h : h = build_upload_encryption_header(u, k, size)
    BY Zenon
  <2>2. h.canonical.upload = u
    <3>1. HeaderFor(h, u, k, size)
      BY Zenon, <2>1, HeaderFields
    <3> QED BY Zenon, <3>1 DEF HeaderFor
  <2>3. box.aad = <<h.canonical, i, Len(chunk)>>
    <3>1. SealedFor(encrypt_chunk(h, i, chunk), h, i, chunk)
      BY Zenon, ChunkBox
    <3> QED BY Zenon, <1>2, <2>1, <3>1 DEF SealedFor
  <2>4. ASSUME NEW c, NEW slot, NEW length, box.aad = <<c, slot, length>>
        PROVE  c = h.canonical
    BY <2>3, <2>4, TripleInjective
  <2> QED BY Zenon, <1>2, <2>2, <2>4 DEF Authentic
<1> QED BY Zenon, <1>1, <1>2 DEF SealedBefore

\* Every frame of a whole file of this body, for this upload or another, is sealed.
LEMMA WholeSealed ==
  ASSUME NEW u, NEW k, NEW body, IsSeq(body),
         NEW i \in DOMAIN encrypt_plaintext_file(u, k, body).frames
  PROVE  SealedBefore(encrypt_plaintext_file(u, k, body).frames[i].box, body)
<1>1. PICK file : file = encrypt_plaintext_file(u, k, body)
  BY Zenon
<1> DEFINE n == FrameCount(Len(body))
           h == build_upload_encryption_header(u, k, Len(body))
<1>2. Whole(file, u, k, body)
  BY Zenon, <1>1, WholeFields
<1>3. i \in 1..n /\ file.frames[i] = encrypt_chunk(h, i - 1, ChunkOf(body, i))
  BY Zenon, <1>1, <1>2 DEF Whole
<1>4. n \in Nat
  BY Zenon, ListFacts, FrameCountNat
<1>5. i - 1 \in Nat /\ (i - 1) + 1 = i
  <2> HIDE DEF n, h
  <2> QED BY <1>3, <1>4
<1>6. file.frames[i].box = encrypt_chunk(h, i - 1, ChunkOf(body, (i - 1) + 1)).box
  BY Zenon, <1>3, <1>5
<1>7. SealedBefore(file.frames[i].box, body)
  <2>1. CASE u = U
    BY Zenon, <1>5, <1>6, <2>1 DEF SealedBefore
  <2>2. CASE u # U
    BY Zenon, <1>6, <2>2 DEF SealedBefore
  <2> QED BY Zenon, <2>1, <2>2
<1> QED BY Zenon, <1>1, <1>7

\* Encrypting a body seals every box of the file.
LEMMA WholeStored ==
  ASSUME NEW u, NEW k, NEW body, IsSeq(body)
  PROVE  StoredAs(encrypt_plaintext_file(u, k, body), body)
<1>1. Whole(encrypt_plaintext_file(u, k, body), u, k, body)
  BY Zenon, WholeFields
<1>2. \A i \in DOMAIN encrypt_plaintext_file(u, k, body).frames :
        SealedBefore(encrypt_plaintext_file(u, k, body).frames[i].box, body)
  BY Zenon, WholeSealed
<1> QED BY Zenon, <1>1, <1>2 DEF StoredAs, Whole

SliceOf(t, s, a, n) == IsSeq(t) /\ Len(t) = n /\ \A o \in 1..n : t[o] = s[a + o]

\* The bytes of a slice.
LEMMA SliceFacts ==
  ASSUME NEW s, NEW a, NEW n \in Nat
  PROVE  SliceOf(Slice(s, a, n), s, a, n)
<1>1. Slice(s, a, n) = [o \in 1..n |-> s[a + o]]
  BY Zenon DEF Slice
<1> DEFINE t == Slice(s, a, n)
<1>2. t = [o \in 1..n |-> t[o]] /\ \A o \in 1..n : t[o] = s[a + o]
  BY Zenon, <1>1
<1> HIDE DEF t
<1>3. IsSeq(t) /\ Len(t) = n
  BY Zenon, <1>2, ListOf
<1> QED BY Zenon, <1>2, <1>3 DEF SliceOf, t

\* Chunk i of a body that reaches past it is full, and the last short one is what is left.
LEMMA FullChunk ==
  ASSUME NEW body, NEW f \in Nat, NEW r \in Nat, Len(body) = f * ChunkSize + r, NEW i \in 1..f
  PROVE  ChunkOf(body, i) = Slice(body, (i - 1) * ChunkSize, ChunkSize)
<1>1. ChunkSize \in Nat \ {0}
  BY Zenon, ContainerAssumption
<1>2. (i - 1) * ChunkSize = i * ChunkSize - ChunkSize
  BY <1>1
<1>3. i * ChunkSize <= f * ChunkSize /\ i * ChunkSize \in Nat /\ f * ChunkSize \in Nat
  BY <1>1, Multiples
<1>4. MinOf(ChunkSize, Len(body) - (i - 1) * ChunkSize) = ChunkSize
  BY <1>1, <1>2, <1>3 DEF MinOf
<1> QED BY Zenon, <1>4 DEF ChunkOf, ChunkLength

\* The last chunk is what the full ones leave.
LEMMA LastChunk ==
  ASSUME NEW body, NEW f \in Nat, NEW r \in 0..(ChunkSize - 1), Len(body) = f * ChunkSize + r
  PROVE  ChunkOf(body, f + 1) = Slice(body, f * ChunkSize, r)
<1>1. ChunkSize \in Nat \ {0}
  BY Zenon, ContainerAssumption
<1>2. f * ChunkSize \in Nat /\ (f + 1) - 1 = f
  BY <1>1, Multiples
<1>3. MinOf(ChunkSize, Len(body) - f * ChunkSize) = r
  BY <1>1, <1>2 DEF MinOf
<1> QED BY Zenon, <1>2, <1>3 DEF ChunkOf, ChunkLength

\* How many frames a body has.
LEMMA FramesOf ==
  ASSUME NEW f \in Nat, NEW r \in 0..(ChunkSize - 1)
  PROVE  FrameCount(f * ChunkSize + r) = IF r = 0 THEN f ELSE f + 1
<1>1. ChunkSize \in Nat \ {0}
  BY Zenon, ContainerAssumption
<1>2. f * ChunkSize \in Nat /\ (f + 1) * ChunkSize = f * ChunkSize + ChunkSize
  BY Zenon, <1>1, Multiples
<1>3. CASE r = 0
  <2>1. f * ChunkSize + r + ChunkSize - 1 = f * ChunkSize + (ChunkSize - 1) /\ ChunkSize - 1 \in 0..(ChunkSize - 1)
    BY <1>1, <1>2, <1>3
  <2>2. (f * ChunkSize + (ChunkSize - 1)) \div ChunkSize = f
    BY Zenon, <1>1, <2>1, DivisionUnique
  <2> QED BY Zenon, <1>3, <2>1, <2>2 DEF FrameCount
<1>4. CASE r # 0
  <2>1. f * ChunkSize + r + ChunkSize - 1 = (f + 1) * ChunkSize + (r - 1) /\ r - 1 \in 0..(ChunkSize - 1) /\ f + 1 \in Nat
    BY <1>1, <1>2, <1>4
  <2>2. ((f + 1) * ChunkSize + (r - 1)) \div ChunkSize = f + 1
    BY Zenon, <1>1, <2>1, DivisionUnique
  <2> QED BY Zenon, <1>4, <2>1, <2>2 DEF FrameCount
<1> QED BY Zenon, <1>3, <1>4

-----------------------------------------------------------------------------
\* The invariant holds before the body arrives, and of a legacy file.
LEMMA InitContainer == ContainerInit => ContainerInv
<1> SUFFICES ASSUME ContainerInit PROVE ContainerInv
  BY Zenon
<1>1. csize \in Nat
  BY Zenon, ContainerAssumption DEF ContainerInit
<1>2. IsSeq(Intended) /\ Len(Intended) = csize
  <2>1. Intended = [o \in 1..csize |-> o]
    BY Zenon DEF Intended
  <2>2. Intended = [o \in 1..csize |-> Intended[o]]
    BY Zenon, <2>1
  <2> QED BY Zenon, <1>1, <2>2, ListOf
<1>3. ASSUME cphase = "receiving" PROVE Streaming
  <2>1. cpending = <<>> /\ cbody = <<>> /\ cframes = <<>>
    BY Zenon DEF ContainerInit
  <2>2. IsSeq(<<>>) /\ Len(<<>>) = 0
    BY DEF IsSeq
  <2>3. Len(<<>>) < ChunkSize /\ 0 = 0 * ChunkSize + 0 /\ 1..0 = {}
    BY <2>2, ContainerAssumption
  <2> QED BY Zenon, <2>1, <2>2, <2>3 DEF Streaming
<1>4. ASSUME cphase = "stored" PROVE cfile = [plain |-> Intended] /\ cgenuine = Intended
  BY Zenon, <1>4 DEF ContainerInit
<1>5. ~Encrypted
  <2>1. ASSUME cphase = "stored" PROVE ~("header" \in DOMAIN cfile)
    BY <1>4, <2>1
  <2> QED BY Zenon, <2>1 DEF Encrypted
<1> QED BY Zenon, <1>1, <1>2, <1>3, <1>4, <1>5 DEF ContainerInv

\* A piece of the body: the bytes pending and the piece are what follows the frames.
LEMMA ReceiveStep ==
  ASSUME ContainerInv, NEW n \in Nat, NEW wrong, Receive(n, wrong)
  PROVE  ContainerInv'
<1> DEFINE piece == [i \in 1..n |-> IF wrong /\ i = n THEN 0 ELSE Len(cbody) + i]
           buffer == cpending \o piece
           full == Len(buffer) \div ChunkSize
           rest == Len(buffer) - full * ChunkSize
           start == Len(cframes)
           more == [i \in 1..full |-> encrypt_chunk(StoreHeader, start + i - 1,
                                        Slice(buffer, (i - 1) * ChunkSize, ChunkSize))]
<1>1. /\ cphase = "receiving" /\ UNCHANGED <<csize, csum, ckey, cfile, cgenuine, cdamaged>>
      /\ \/ cphase' = "failed"
         \/ /\ cbody' = cbody \o piece /\ cframes' = cframes \o more
            /\ cpending' = Slice(buffer, full * ChunkSize, rest) /\ UNCHANGED cphase
  BY Zenon DEF Receive, Emitted
<1>2. csize' \in Nat /\ ~(cphase' = "stored") /\ ~Encrypted'
  <2>1. csize' \in Nat /\ ~(cphase' = "stored")
    BY Zenon, <1>1 DEF ContainerInv
  <2> QED BY Zenon, <2>1 DEF Encrypted
<1>3. CASE cphase' = "failed"
  <2>1. ~(cphase' = "receiving")
    BY Zenon, <1>3
  <2> QED BY Zenon, <1>2, <2>1 DEF ContainerInv
<1>4. CASE /\ cbody' = cbody \o piece /\ cframes' = cframes \o more
           /\ cpending' = Slice(buffer, full * ChunkSize, rest) /\ UNCHANGED cphase
  <2>1. /\ IsSeq(cbody) /\ IsSeq(cpending) /\ IsSeq(cframes)
        /\ Len(cpending) < ChunkSize
        /\ Len(cbody) = start * ChunkSize + Len(cpending)
        /\ \A o \in 1..Len(cpending) : cpending[o] = cbody[start * ChunkSize + o]
        /\ \A i \in 1..start : Framed(cframes, i, StoreHeader, cbody)
    BY Zenon, <1>1 DEF ContainerInv, Streaming
  <2>2. IsSeq(piece) /\ Len(piece) = n
    <3>1. piece = [i \in 1..n |-> piece[i]]
      BY Zenon
    <3> QED BY Zenon, <3>1, ListOf
  <2> HIDE DEF piece
  <2>3. /\ IsSeq(buffer) /\ Len(buffer) = Len(cpending) + n
        /\ \A x \in 1..Len(cpending) : buffer[x] = cpending[x]
        /\ \A x \in 1..n : buffer[Len(cpending) + x] = piece[x]
    <3>1. Joined(buffer, cpending, piece)
      BY Zenon, <2>1, <2>2, ListConcat
    <3> HIDE DEF buffer
    <3> QED BY Zenon, <2>2, <3>1 DEF Joined
  <2>4. /\ IsSeq(cbody') /\ Len(cbody') = Len(cbody) + n
        /\ \A x \in 1..Len(cbody) : cbody'[x] = cbody[x]
        /\ \A x \in 1..n : cbody'[Len(cbody) + x] = piece[x]
    <3>1. Joined(cbody', cbody, piece)
      BY Zenon, <1>4, <2>1, <2>2, ListConcat
    <3> QED BY Zenon, <2>2, <3>1 DEF Joined
  <2> HIDE DEF buffer
  <2>5. /\ start \in Nat /\ start * ChunkSize \in Nat /\ Len(cpending) \in Nat /\ Len(cbody) \in Nat
        /\ Len(buffer) \in Nat /\ ChunkSize \in Nat \ {0}
    BY Zenon, <2>1, <2>3, ListFacts, Multiples, ContainerAssumption
  <2>6. /\ full \in Nat /\ rest \in 0..(ChunkSize - 1) /\ Len(buffer) = full * ChunkSize + rest
        /\ full * ChunkSize \in Nat
    <3>1. PICK b \in 0..(ChunkSize - 1) : full \in Nat /\ Len(buffer) = full * ChunkSize + b
      BY Zenon, <2>5, Division
    <3>2. full * ChunkSize \in Nat
      BY Zenon, <2>5, <3>1, Multiples
    <3> DEFINE a == full * ChunkSize
    <3>3. a \in Nat /\ Len(buffer) = a + b /\ rest = Len(buffer) - a
      BY Zenon, <3>1, <3>2
    <3> HIDE DEF a, full, rest
    <3>4. rest = b
      BY <2>5, <3>1, <3>3
    <3> QED BY Zenon, <3>1, <3>2, <3>4
  <2> HIDE DEF full, rest
  <2>7. ASSUME NEW x \in 1..Len(buffer) PROVE buffer[x] = cbody'[start * ChunkSize + x]
    <3>1. CASE x <= Len(cpending)
      <4>1. x \in 1..Len(cpending) /\ start * ChunkSize + x \in 1..Len(cbody)
        BY <2>1, <2>5, <3>1
      <4> QED BY Zenon, <2>1, <2>3, <2>4, <4>1
    <3>2. CASE ~(x <= Len(cpending))
      <4>1. PICK y \in 1..n : x = Len(cpending) + y
        <5>1. x - Len(cpending) \in 1..n /\ x = Len(cpending) + (x - Len(cpending))
          BY <2>3, <2>5, <3>2
        <5> QED BY Zenon, <5>1
      <4>2. Len(cbody) + y = start * ChunkSize + x
        BY <2>1, <2>5, <4>1
      <4> QED BY Zenon, <2>3, <2>4, <4>1, <4>2
    <3> QED BY Zenon, <3>1, <3>2
  <2>8. IsSeq(more) /\ Len(more) = full
    <3>1. more = [i \in 1..full |-> more[i]]
      BY Zenon
    <3> QED BY Zenon, <2>6, <3>1, ListOf
  <2>9. \A e \in 1..full : more[e] = encrypt_chunk(StoreHeader, start + e - 1,
                                       Slice(buffer, (e - 1) * ChunkSize, ChunkSize))
    BY Zenon
  <2> HIDE DEF more
  <2>10. /\ IsSeq(cframes') /\ Len(cframes') = start + full
         /\ \A x \in 1..start : cframes'[x] = cframes[x]
         /\ \A x \in 1..full : cframes'[start + x] = more[x]
    <3>1. Joined(cframes', cframes, more)
      BY Zenon, <1>4, <2>1, <2>8, ListConcat
    <3> QED BY Zenon, <2>8, <3>1 DEF Joined
  <2>11. /\ IsSeq(cpending') /\ Len(cpending') = rest
         /\ \A o \in 1..rest : cpending'[o] = buffer[full * ChunkSize + o]
    <3>1. rest \in Nat
      BY <2>5, <2>6
    <3> QED BY Zenon, <1>4, <3>1, SliceFacts DEF SliceOf
  <2> HIDE DEF start
  <2>12. (start + full) * ChunkSize = start * ChunkSize + full * ChunkSize
    BY Zenon, <2>5, <2>6, Distribute
  <2>13. Len(cpending') < ChunkSize /\ Len(cbody') = Len(cframes') * ChunkSize + Len(cpending')
    <3> DEFINE a == start * ChunkSize
               b == full * ChunkSize
    <3>1. /\ a \in Nat /\ b \in Nat /\ Len(cframes') * ChunkSize = a + b
          /\ Len(buffer) = b + rest /\ Len(cbody) = a + Len(cpending)
      BY Zenon, <2>1, <2>5, <2>6, <2>10, <2>12 DEF start
    <3> HIDE DEF a, b
    <3>2. rest \in Nat /\ rest < ChunkSize
      BY <2>5, <2>6
    <3>3. Len(cbody') = Len(cframes') * ChunkSize + rest
      <4>1. Len(buffer) = Len(cpending) + n /\ Len(cbody') = Len(cbody) + n
        BY Zenon, <2>3, <2>4
      <4>2. b + rest = Len(cpending) + n /\ Len(cbody') = a + Len(cpending) + n
        BY Zenon, <3>1, <4>1
      <4>3. Len(cbody') = a + b + rest
        BY <2>5, <3>1, <3>2, <4>2
      <4> QED BY Zenon, <3>1, <4>3
    <3> QED BY Zenon, <2>11, <3>2, <3>3
  <2>14. \A o \in 1..Len(cpending') : cpending'[o] = cbody'[Len(cframes') * ChunkSize + o]
    <3> SUFFICES ASSUME NEW o \in 1..rest
                 PROVE  cpending'[o] = cbody'[(start + full) * ChunkSize + o]
      BY Zenon, <2>10, <2>11
    <3>1. /\ full * ChunkSize + o \in 1..Len(buffer)
          /\ start * ChunkSize + (full * ChunkSize + o) = (start + full) * ChunkSize + o
      BY <2>5, <2>6, <2>12
    <3> QED BY Zenon, <2>7, <2>11, <3>1
  <2>15. StoreHeader' = StoreHeader
    BY Zenon, <1>1 DEF StoreHeader, StoreKey
  <2>16. ASSUME NEW i \in 1..start
         PROVE  Framed(cframes', i, StoreHeader, cbody')
    <3>1. /\ (i - 1) * ChunkSize \in Nat /\ i * ChunkSize <= start * ChunkSize
          /\ ((i - 1) + 1) * ChunkSize = (i - 1) * ChunkSize + ChunkSize /\ (i - 1) + 1 = i
      BY <2>5, Multiples
    <3>2. \A o \in 1..ChunkSize : (i - 1) * ChunkSize + o \in 1..Len(cbody)
      <4> DEFINE a == start * ChunkSize
                 b == (i - 1) * ChunkSize
      <4>1. /\ a \in Nat /\ b \in Nat /\ b + ChunkSize <= a /\ Len(cbody) = a + Len(cpending)
        BY Zenon, <2>1, <2>5, <3>1 DEF start
      <4> HIDE DEF a, b
      <4>2. \A o \in 1..ChunkSize : b + o \in 1..Len(cbody)
        BY <2>5, <4>1
      <4> QED BY Zenon, <4>2 DEF b
    <3>3. \A o \in 1..ChunkSize : cbody[(i - 1) * ChunkSize + o] = cbody'[(i - 1) * ChunkSize + o]
      BY Zenon, <2>4, <3>2
    <3>4. Slice(cbody, (i - 1) * ChunkSize, ChunkSize) = Slice(cbody', (i - 1) * ChunkSize, ChunkSize)
      BY Zenon, <3>3 DEF Slice
    <3> QED BY Zenon, <2>1, <2>10, <3>4 DEF start, Framed
  <2>17. ASSUME NEW e \in 1..full
         PROVE  Framed(cframes', start + e, StoreHeader, cbody')
    <3>1. /\ (e - 1) * ChunkSize \in Nat /\ e * ChunkSize <= full * ChunkSize
          /\ ((e - 1) + 1) * ChunkSize = (e - 1) * ChunkSize + ChunkSize /\ (e - 1) + 1 = e
          /\ (start + e) - 1 = start + (e - 1)
          /\ (start + (e - 1)) * ChunkSize = start * ChunkSize + (e - 1) * ChunkSize
      BY <2>5, <2>6, Multiples
    <3>2. \A o \in 1..ChunkSize :
            /\ (e - 1) * ChunkSize + o \in 1..Len(buffer)
            /\ start * ChunkSize + ((e - 1) * ChunkSize + o) = ((start + e) - 1) * ChunkSize + o
      BY <2>5, <2>6, <3>1
    <3>3. \A o \in 1..ChunkSize : buffer[(e - 1) * ChunkSize + o] = cbody'[((start + e) - 1) * ChunkSize + o]
      BY Zenon, <2>7, <3>2
    <3>4. Slice(buffer, (e - 1) * ChunkSize, ChunkSize) = Slice(cbody', ((start + e) - 1) * ChunkSize, ChunkSize)
      BY Zenon, <3>3 DEF Slice
    <3>5. cframes'[start + e] = more[e]
      BY Zenon, <2>10
    <3>6. more[e] = encrypt_chunk(StoreHeader, (start + e) - 1,
                      Slice(cbody', ((start + e) - 1) * ChunkSize, ChunkSize))
      BY Zenon, <2>9, <3>1, <3>4
    <3>7. cframes'[start + e] = encrypt_chunk(StoreHeader, (start + e) - 1,
                                  Slice(cbody', ((start + e) - 1) * ChunkSize, ChunkSize))
      BY Zenon, <3>5, <3>6
    <3> QED BY Zenon, <3>7 DEF Framed
  <2>18. \A i \in 1..Len(cframes') : Framed(cframes', i, StoreHeader', cbody')
    <3> SUFFICES ASSUME NEW i \in 1..(start + full)
                 PROVE  Framed(cframes', i, StoreHeader, cbody')
      BY Zenon, <2>10, <2>15
    <3>1. i \in 1..start \/ \E e \in 1..full : i = start + e
      <4>1. i \in 1..start \/ (i - start \in 1..full /\ i = start + (i - start))
        BY <2>5, <2>6
      <4> QED BY Zenon, <4>1
    <3> QED BY Zenon, <2>16, <2>17, <3>1
  <2>19. Streaming'
    BY Zenon, <2>4, <2>10, <2>11, <2>13, <2>14, <2>18 DEF Streaming
  <2> QED BY Zenon, <1>2, <2>19 DEF ContainerInv
<1> QED BY Zenon, <1>1, <1>3, <1>4

\* The end of the stream leaves the whole file of the body received.
LEMMA FinishStep ==
  ASSUME ContainerInv, Finalize
  PROVE  ContainerInv'
<1> DEFINE f == Len(cframes)
           r == Len(cpending)
           last == encrypt_chunk(StoreHeader, f, cpending)
           fs == IF cpending = <<>> THEN cframes ELSE Append(cframes, last)
<1>1. cphase = "receiving" /\ csize' = csize /\ csize \in Nat
  BY Zenon DEF Finalize, ContainerInv
<1>2. CASE cphase' = "failed"
  <2>1. ~(cphase' = "receiving") /\ ~(cphase' = "stored")
    BY Zenon, <1>2
  <2> QED BY Zenon, <1>1, <2>1 DEF ContainerInv, Encrypted
<1>3. CASE /\ Len(cbody) = csize /\ cphase' = "stored" /\ ckey' = StoreKey /\ cgenuine' = cbody
           /\ cfile' = [header |-> StoreHeader, frames |-> fs, trailing |-> FALSE]
  <2>1. /\ IsSeq(cbody) /\ IsSeq(cpending) /\ IsSeq(cframes)
        /\ r < ChunkSize /\ Len(cbody) = f * ChunkSize + r
        /\ \A o \in 1..r : cpending[o] = cbody[f * ChunkSize + o]
        /\ \A i \in 1..f : Framed(cframes, i, StoreHeader, cbody)
    BY Zenon, <1>1 DEF ContainerInv, Streaming
  <2>2. StoreHeader = build_upload_encryption_header(U, StoreKey, Len(cbody))
    BY Zenon, <1>3 DEF StoreHeader
  <2>3. f \in Nat /\ r \in Nat /\ ChunkSize \in Nat \ {0}
    BY Zenon, <2>1, ListFacts, ContainerAssumption
  <2>4. r \in 0..(ChunkSize - 1)
    BY <2>1, <2>3
  <2>5. FrameCount(Len(cbody)) = IF r = 0 THEN f ELSE f + 1
    BY Zenon, <2>1, <2>3, <2>4, FramesOf
  <2>6. ASSUME NEW i \in 1..f
        PROVE  cframes[i] = encrypt_chunk(StoreHeader, i - 1, ChunkOf(cbody, i))
    <3>1. ChunkOf(cbody, i) = Slice(cbody, (i - 1) * ChunkSize, ChunkSize)
      BY Zenon, <2>1, <2>3, FullChunk
    <3>2. Framed(cframes, i, StoreHeader, cbody)
      BY Zenon, <2>1
    <3> QED BY Zenon, <3>1, <3>2 DEF Framed
  <2>7. /\ IsSeq(fs) /\ Len(fs) = FrameCount(Len(cbody))
        /\ \A i \in 1..Len(fs) : fs[i] = encrypt_chunk(StoreHeader, i - 1, ChunkOf(cbody, i))
    <3>1. CASE cpending = <<>>
      <4>1. r = 0
        BY Zenon, <3>1
      <4> QED BY Zenon, <2>1, <2>5, <2>6, <3>1, <4>1
    <3>2. CASE cpending # <<>>
      <4>1. r # 0
        BY <2>1, <3>2 DEF IsSeq
      <4>2. /\ fs = Append(cframes, last) /\ IsSeq(fs) /\ Len(fs) = f + 1
            /\ fs[f + 1] = last /\ \A i \in 1..f : fs[i] = cframes[i]
        <5>1. fs = Append(cframes, last)
          BY Zenon, <3>2
        <5> HIDE DEF fs, last
        <5>2. /\ IsSeq(Append(cframes, last)) /\ Len(Append(cframes, last)) = Len(cframes) + 1
              /\ Append(cframes, last)[Len(cframes) + 1] = last
              /\ \A q \in 1..Len(cframes) : Append(cframes, last)[q] = cframes[q]
          BY <2>1, ListAppend
        <5> QED BY Zenon, <5>1, <5>2
      <4> HIDE DEF fs
      <4>3. ChunkOf(cbody, f + 1) = cpending
        <5>1. ChunkOf(cbody, f + 1) = Slice(cbody, f * ChunkSize, r)
          BY Zenon, <2>1, <2>3, <2>4, LastChunk
        <5>2. /\ IsSeq(Slice(cbody, f * ChunkSize, r)) /\ Len(Slice(cbody, f * ChunkSize, r)) = r
              /\ \A o \in 1..r : Slice(cbody, f * ChunkSize, r)[o] = cbody[f * ChunkSize + o]
          <6>1. SliceOf(Slice(cbody, f * ChunkSize, r), cbody, f * ChunkSize, r)
            BY Zenon, <2>3, SliceFacts
          <6> QED BY Zenon, <6>1 DEF SliceOf
        <5>3. Slice(cbody, f * ChunkSize, r) = cpending
          BY Zenon, <2>1, <5>2, ListEqual
        <5> QED BY Zenon, <5>1, <5>3
      <4>4. fs[f + 1] = encrypt_chunk(StoreHeader, (f + 1) - 1, ChunkOf(cbody, f + 1))
        <5>1. (f + 1) - 1 = f
          BY <2>3
        <5> QED BY Zenon, <4>2, <4>3, <5>1
      <4>5. \A i \in 1..(f + 1) : i \in 1..f \/ i = f + 1
        BY <2>3
      <4>6. \A i \in 1..(f + 1) : fs[i] = encrypt_chunk(StoreHeader, i - 1, ChunkOf(cbody, i))
        BY Zenon, <2>6, <4>2, <4>4, <4>5
      <4>7. FrameCount(Len(cbody)) = f + 1
        BY Zenon, <2>5, <4>1
      <4> QED BY Zenon, <4>2, <4>6, <4>7
    <3> QED BY Zenon, <3>1, <3>2
  <2> HIDE DEF fs
  <2>8. cfile' = encrypt_plaintext_file(U, StoreKey, cbody)
    <3>1. PICK file : file = encrypt_plaintext_file(U, StoreKey, cbody)
      BY Zenon
    <3>2. Whole(file, U, StoreKey, cbody)
      BY Zenon, <2>1, <3>1, WholeFields
    <3>3. /\ file.header = StoreHeader /\ file.trailing = FALSE
          /\ file = [header |-> file.header, frames |-> file.frames, trailing |-> file.trailing]
          /\ IsSeq(file.frames) /\ Len(file.frames) = Len(fs)
          /\ \A i \in 1..Len(fs) : file.frames[i] = encrypt_chunk(StoreHeader, i - 1, ChunkOf(cbody, i))
      BY Zenon, <2>2, <2>7, <3>2 DEF Whole
    <3>4. file.frames = fs
      BY Zenon, <2>7, <3>3, ListEqual
    <3> QED BY Zenon, <1>3, <3>1, <3>3, <3>4
  <2>9. StoreKey \in ContainerKeys
    BY Zenon, ContainerAssumption DEF StoreKey
  <2>10. StoredFile'
    BY Zenon, <1>3, <2>1, <2>8, <2>9, WholeStored DEF StoredFile
  <2>11. Encrypted'
    BY Zenon, <1>3 DEF Encrypted
  <2>12. ~(cphase' = "receiving")
    BY Zenon, <1>3
  <2> QED BY Zenon, <1>1, <1>3, <2>1, <2>10, <2>11, <2>12 DEF ContainerInv
<1> QED BY Zenon, <1>2, <1>3 DEF Finalize

\* A file of sealed boxes that passes the header check yields the body's beginning.
LEMMA StoredReads ==
  ASSUME NEW body, IsSeq(body), NEW file, StoredAs(file, body), NEW k,
         read_upload_encryption_header(file.header, U, k), file.header.canonical.size = Len(body)
  PROVE  LET r == _iter_decrypted_frames(file) IN Begins(r.out, body) /\ (r.ok => r.out = body)
<1>1. IsSeq(file.frames) /\ \A i \in DOMAIN file.frames : Authentic(file.frames[i].box, body)
  BY Zenon, BoxAuthentic DEF StoredAs
<1>2. file.header.canonical.upload = U
  BY Zenon DEF read_upload_encryption_header
<1> QED BY Zenon, <1>1, <1>2, ReaderSound

\* crypto_tool writes the whole file of the body: what it decrypts is what was stored.
LEMMA RewriteStep ==
  ASSUME ContainerInv, NEW target \in ContainerKeys, Rewrite(target)
  PROVE  ContainerInv'
<1>1. /\ cphase = "stored" /\ ckey' = target
      /\ UNCHANGED <<cphase, csize, cgenuine, cdamaged>>
  BY Zenon DEF Rewrite
<1>2. csize \in Nat /\ IsSeq(cgenuine) /\ Len(cgenuine) = csize
  BY Zenon, <1>1 DEF ContainerInv
<1>3. cfile' = encrypt_plaintext_file(U, target, cgenuine)
  <2>1. CASE ~Encrypted
    <3>1. cfile = [plain |-> cgenuine]
      BY Zenon, <1>1, <2>1 DEF ContainerInv
    <3>2. cfile.plain = cgenuine
      BY Zenon, <3>1
    <3>3. cfile' = encrypt_plaintext_file(U, target, cfile.plain)
      BY Zenon, <2>1 DEF Rewrite
    <3> QED BY Zenon, <3>2, <3>3
  <2>2. CASE Encrypted
    <3>1. /\ validate_encrypted_upload_file(cfile, U, csize, Declared)
          /\ cfile' = reencrypt_upload_file(cfile, U, target, csize)
      BY Zenon, <2>2 DEF Rewrite
    <3>2. /\ read_upload_encryption_header(cfile.header, U, NoKey)
          /\ cfile.header.canonical.size = csize /\ _iter_decrypted_frames(cfile).ok
      BY Zenon, <3>1 DEF validate_encrypted_upload_file
    <3>3. StoredAs(cfile, cgenuine)
      BY Zenon, <2>2 DEF ContainerInv, StoredFile
    <3>4. _iter_decrypted_frames(cfile).out = cgenuine
      BY Zenon, <1>2, <3>2, <3>3, StoredReads
    <3>5. read_upload_encryption_header(cfile.header, U, cfile.header.canonical.key)
      BY Zenon, <3>2 DEF read_upload_encryption_header
    <3>6. iter_decrypted_upload_async(cfile, U, cfile.header.canonical.key, csize) = _iter_decrypted_frames(cfile)
      BY Zenon, <3>2, <3>5 DEF iter_decrypted_upload_async
    <3> QED BY Zenon, <3>1, <3>4, <3>6 DEF reencrypt_upload_file
  <2> QED BY Zenon, <2>1, <2>2
<1>4. StoredFile'
  BY Zenon, <1>1, <1>2, <1>3, WholeStored DEF StoredFile
<1>5. Encrypted'
  <2>1. PICK h, fs, t : cfile' = [header |-> h, frames |-> fs, trailing |-> t]
    BY Zenon, <1>4 DEF StoredFile, StoredAs
  <2>2. "header" \in DOMAIN cfile'
    BY Zenon, <2>1
  <2> QED BY Zenon, <1>1, <2>2 DEF Encrypted
<1>6. ~(cphase' = "receiving")
  BY Zenon, <1>1
<1> QED BY Zenon, <1>1, <1>2, <1>4, <1>5, <1>6 DEF ContainerInv

\* No fault that forges no box disturbs the invariant.
LEMMA AnyDamageStep ==
  ASSUME ContainerInv, AnyDamage
  PROVE  ContainerInv'
<1>1. /\ cphase = "stored" /\ cdamaged' = TRUE /\ UNCHANGED <<cphase, csize, cgenuine>>
  BY Zenon DEF AnyDamage, Encrypted
<1>2. PICK header, frames, trailing :
        /\ IsSeq(frames) /\ \A i \in DOMAIN frames : SealedBefore(frames[i].box, cgenuine)
        /\ cfile' = [header |-> header, frames |-> frames, trailing |-> trailing]
  BY Zenon DEF AnyDamage
<1>3. /\ cfile'.header = header /\ cfile'.frames = frames /\ cfile'.trailing = trailing
      /\ "header" \in DOMAIN cfile'
  BY Zenon, <1>2
<1>4. StoredAs(cfile', cgenuine)
  BY Zenon, <1>2, <1>3 DEF StoredAs
<1>5. StoredFile'
  BY Zenon, <1>1, <1>4 DEF StoredFile
<1>6. Encrypted' /\ ~(cphase' = "receiving")
  <2>1. ~(cphase' = "receiving") /\ cphase' = "stored"
    BY Zenon, <1>1
  <2> QED BY Zenon, <1>3, <2>1 DEF Encrypted
<1> QED BY Zenon, <1>1, <1>5, <1>6 DEF ContainerInv

\* Every step keeps the invariant.
LEMMA ContainerInductiveStep ==
  ASSUME ContainerInv, [AnyDamageNext]_containerVars
  PROVE  ContainerInv'
<1>1. CASE UNCHANGED containerVars
  BY Zenon, <1>1 DEF containerVars, ContainerInv, Streaming, StoredFile, Encrypted, StoreHeader, StoreKey
<1>2. CASE AnyDamageNext
  BY Zenon, <1>2, ReceiveStep, FinishStep, RewriteStep, AnyDamageStep DEF AnyDamageNext
<1> QED BY Zenon, <1>1, <1>2

\* What the reader makes of a file that satisfies the invariant.
LEMMA InvGenuine == ContainerInv => DownloadsGenuine
<1> SUFFICES ASSUME ContainerInv, Encrypted
             PROVE  LET r == iter_decrypted_upload_async(cfile, U, ckey, csize) IN
                    Begins(r.out, cgenuine) /\ (r.ok => r.out = cgenuine) /\ (~cdamaged => r.ok)
  BY Zenon DEF DownloadsGenuine
<1> DEFINE r == iter_decrypted_upload_async(cfile, U, ckey, csize)
<1>1. /\ IsSeq(cgenuine) /\ Len(cgenuine) = csize /\ StoredAs(cfile, cgenuine)
      /\ ~cdamaged => ckey \in ContainerKeys /\ cfile = encrypt_plaintext_file(U, ckey, cgenuine)
  BY Zenon DEF ContainerInv, StoredFile, Encrypted
<1>2. Begins(r.out, cgenuine) /\ (r.ok => r.out = cgenuine)
  <2>1. CASE /\ read_upload_encryption_header(cfile.header, U, ckey)
             /\ cfile.header.canonical.size = csize
    <3>1. r = _iter_decrypted_frames(cfile)
      BY Zenon, <2>1 DEF iter_decrypted_upload_async
    <3>2. LET q == _iter_decrypted_frames(cfile) IN Begins(q.out, cgenuine) /\ (q.ok => q.out = cgenuine)
      BY Zenon, <1>1, <2>1, StoredReads
    <3> QED BY Zenon, <3>1, <3>2
  <2>2. CASE ~(/\ read_upload_encryption_header(cfile.header, U, ckey)
               /\ cfile.header.canonical.size = csize)
    <3>1. r = Refused
      BY Zenon, <2>2 DEF iter_decrypted_upload_async
    <3> HIDE DEF r
    <3>2. r.out = <<>> /\ ~r.ok
      BY Zenon, <3>1 DEF Refused
    <3>3. DOMAIN <<>> = {}
      OBVIOUS
    <3> QED BY Zenon, <3>2, <3>3 DEF Begins
  <2> QED BY Zenon, <2>1, <2>2
<1>3. ASSUME ~cdamaged PROVE r.ok
  BY Zenon, <1>1, <1>3, ReaderComplete
<1> QED BY Zenon, <1>2, <1>3

\* Whatever the sizes of the pieces, the body, the number of rotations, and however often
\* and however badly the disk rearranges the boxes the installation ever sealed, under
\* whatever header: a download yields a prefix of the stored body, succeeds only with all
\* of it, and does succeed while the file is undamaged (iter_decrypted_upload_async).
THEOREM AnyDamageReadsGenuine == AnyDamageSpec => []DownloadsGenuine
<1>1. ContainerInit => ContainerInv
  BY Zenon, InitContainer
<1>2. ContainerInv /\ [AnyDamageNext]_containerVars => ContainerInv'
  BY Zenon, ContainerInductiveStep
<1>3. ContainerInv => DownloadsGenuine
  BY Zenon, InvGenuine
<1> QED BY <1>1, <1>2, <1>3, PTL DEF AnyDamageSpec

\* A list of frames whose boxes were sealed before; what keeps one so.
Sealed(frames, body) == IsSeq(frames) /\ \A i \in DOMAIN frames : SealedBefore(frames[i].box, body)

\* Replacing a frame by a sealed one leaves sealed frames.
LEMMA SealedExcept ==
  ASSUME NEW frames, NEW body, Sealed(frames, body), NEW i \in DOMAIN frames,
         NEW e, SealedBefore(e.box, body)
  PROVE  Sealed([frames EXCEPT ![i] = e], body) /\ DOMAIN [frames EXCEPT ![i] = e] = DOMAIN frames
<1> DEFINE t == [frames EXCEPT ![i] = e]
<1>1. Len(frames) \in Nat /\ DOMAIN frames = 1..Len(frames)
  BY Zenon, ListFacts DEF Sealed
<1>2. /\ DOMAIN t = 1..Len(frames) /\ t = [k \in 1..Len(frames) |-> t[k]]
      /\ \A k \in 1..Len(frames) : t[k] = e \/ t[k] = frames[k]
  BY Zenon, <1>1
<1> HIDE DEF t
<1>3. IsSeq(t)
  BY Zenon, <1>1, <1>2, ListOf
<1>4. \A k \in DOMAIN t : SealedBefore(t[k].box, body)
  BY Zenon, <1>1, <1>2 DEF Sealed
<1>5. Sealed(t, body) /\ DOMAIN t = DOMAIN frames
  BY Zenon, <1>1, <1>2, <1>3, <1>4 DEF Sealed
<1> QED BY Zenon, <1>5 DEF t

\* So does losing one.
LEMMA SealedWithout ==
  ASSUME NEW frames, NEW body, Sealed(frames, body), NEW i \in DOMAIN frames
  PROVE  Sealed(Without(frames, i), body)
<1> DEFINE t == Without(frames, i)
           n == Len(frames)
<1>1. n \in Nat /\ DOMAIN frames = 1..n
  BY Zenon, ListFacts DEF Sealed
<1>2. t = [j \in 1..(n - 1) |-> frames[IF j < i THEN j ELSE j + 1]]
  BY Zenon DEF Without
<1>3. /\ DOMAIN t = 1..(n - 1) /\ t = [j \in 1..(n - 1) |-> t[j]]
      /\ \A j \in 1..(n - 1) : t[j] = frames[j] \/ t[j] = frames[j + 1]
  BY Zenon, <1>2
<1> HIDE DEF t, n
<1>4. n - 1 \in Nat /\ \A j \in 1..(n - 1) : j \in 1..n /\ j + 1 \in 1..n
  BY <1>1
<1>5. IsSeq(t)
  BY Zenon, <1>3, <1>4, ListOf
<1>6. \A j \in DOMAIN t : SealedBefore(t[j].box, body)
  BY Zenon, <1>1, <1>3, <1>4 DEF Sealed
<1> QED BY Zenon, <1>5, <1>6 DEF Sealed, t

\* So does repeating one.
LEMMA SealedAppend ==
  ASSUME NEW frames, NEW body, Sealed(frames, body), NEW i \in DOMAIN frames
  PROVE  Sealed(Append(frames, frames[i]), body)
<1> DEFINE t == Append(frames, frames[i])
           n == Len(frames)
<1>1. n \in Nat /\ DOMAIN frames = 1..n
  BY Zenon, ListFacts DEF Sealed
<1>2. IsSeq(t) /\ Len(t) = n + 1 /\ t[n + 1] = frames[i] /\ \A q \in 1..n : t[q] = frames[q]
  BY ListAppend DEF Sealed
<1> HIDE DEF t, n
<1>3. DOMAIN t = 1..(n + 1)
  BY Zenon, <1>2, ListFacts
<1>4. \A q \in 1..(n + 1) : q \in 1..n \/ q = n + 1
  BY <1>1
<1>5. \A q \in DOMAIN t : SealedBefore(t[q].box, body)
  BY Zenon, <1>1, <1>2, <1>3, <1>4 DEF Sealed
<1> QED BY Zenon, <1>2, <1>5 DEF Sealed, t

\* Each fault of the model forges no box.
LEMMA DamageForgesNothing ==
  ASSUME ContainerInv, Damage
  PROVE  AnyDamage
<1> DEFINE frames == cfile.frames
<1>1. /\ Encrypted /\ cdamaged' = TRUE
      /\ UNCHANGED <<cphase, csize, csum, ckey, cpending, cbody, cframes, cgenuine>>
  BY Zenon DEF Damage
<1>2. /\ IsSeq(cgenuine) /\ StoredAs(cfile, cgenuine)
      /\ cfile = encrypt_plaintext_file(U, ckey, cgenuine)
  BY Zenon, <1>1 DEF ContainerInv, StoredFile, Encrypted, Damage
<1>3. /\ Sealed(frames, cgenuine)
      /\ cfile = [header |-> cfile.header, frames |-> frames, trailing |-> cfile.trailing]
  BY Zenon, <1>2 DEF StoredAs, Sealed
<1>4. ASSUME NEW g \in Foreign
      PROVE  /\ g = [header |-> g.header, frames |-> g.frames, trailing |-> g.trailing]
             /\ Sealed(g.frames, cgenuine) /\ DOMAIN g.frames = DOMAIN frames
  <2>1. PICK w, k : g = encrypt_plaintext_file(w, k, cgenuine)
    BY DEF Foreign
  <2>2. StoredAs(g, cgenuine)
    BY Zenon, <1>2, <2>1, WholeStored
  <2>3. Whole(g, w, k, cgenuine) /\ Whole(cfile, U, ckey, cgenuine)
    BY Zenon, <1>2, <2>1, WholeFields
  <2> QED BY Zenon, <2>2, <2>3 DEF StoredAs, Sealed, Whole
<1>5. \E header, fs, trailing :
        Sealed(fs, cgenuine) /\ cfile' = [header |-> header, frames |-> fs, trailing |-> trailing]
  <2>1. ASSUME NEW fs \in DamagedFrames(frames), cfile' = [cfile EXCEPT !.frames = fs]
        PROVE  Sealed(fs, cgenuine) /\ cfile' = [header |-> cfile.header, frames |-> fs, trailing |-> cfile.trailing]
    <3>1. cfile' = [header |-> cfile.header, frames |-> fs, trailing |-> cfile.trailing]
      <4> HIDE DEF frames
      <4> QED BY <1>3, <2>1
    <3> HIDE DEF frames
    <3>2. ASSUME NEW i \in DOMAIN frames, fs = Without(frames, i)
          PROVE  Sealed(fs, cgenuine)
      BY Zenon, <1>3, <3>2, SealedWithout
    <3>3. ASSUME NEW i \in DOMAIN frames, NEW j \in DOMAIN frames, fs = [frames EXCEPT ![i] = frames[j]]
          PROVE  Sealed(fs, cgenuine)
      <4>1. SealedBefore(frames[j].box, cgenuine)
        BY Zenon, <1>3 DEF Sealed
      <4> QED BY Zenon, <1>3, <3>3, <4>1, SealedExcept
    <3>4. ASSUME NEW i \in DOMAIN frames, NEW j \in DOMAIN frames,
                 fs = [frames EXCEPT ![i] = frames[j], ![j] = frames[i]]
          PROVE  Sealed(fs, cgenuine)
      <4> DEFINE t == [frames EXCEPT ![i] = frames[j]]
      <4>1. SealedBefore(frames[j].box, cgenuine) /\ SealedBefore(frames[i].box, cgenuine)
        BY Zenon, <1>3 DEF Sealed
      <4>2. Sealed(t, cgenuine) /\ DOMAIN t = DOMAIN frames
        BY Zenon, <1>3, <4>1, SealedExcept
      <4>3. fs = [t EXCEPT ![j] = frames[i]]
        BY Zenon, <3>4
      <4> HIDE DEF t
      <4>4. j \in DOMAIN t
        BY Zenon, <4>2
      <4> QED BY Zenon, <4>1, <4>2, <4>3, <4>4, SealedExcept
    <3>5. ASSUME NEW i \in DOMAIN frames, fs = Append(frames, frames[i])
          PROVE  Sealed(fs, cgenuine)
      BY Zenon, <1>3, <3>5, SealedAppend
    <3>6. ASSUME NEW g \in Foreign, NEW i \in DOMAIN frames, fs = [frames EXCEPT ![i] = g.frames[i]]
          PROVE  Sealed(fs, cgenuine)
      <4>1. SealedBefore(g.frames[i].box, cgenuine)
        BY Zenon, <1>4 DEF Sealed, frames
      <4> QED BY Zenon, <1>3, <3>6, <4>1, SealedExcept
    <3>7. Sealed(fs, cgenuine)
      <4>1. \/ \E i \in DOMAIN frames : fs = Without(frames, i)
            \/ \E i, j \in DOMAIN frames : fs = [frames EXCEPT ![i] = frames[j]]
            \/ \E i, j \in DOMAIN frames : fs = [frames EXCEPT ![i] = frames[j], ![j] = frames[i]]
            \/ \E i \in DOMAIN frames : fs = Append(frames, frames[i])
            \/ \E g \in Foreign : \E i \in DOMAIN frames : fs = [frames EXCEPT ![i] = g.frames[i]]
        BY <2>1 DEF DamagedFrames
      <4> QED BY Zenon, <3>2, <3>3, <3>4, <3>5, <3>6, <4>1
    <3> QED BY Zenon, <3>1, <3>7
  <2>2. ASSUME NEW g \in Foreign, cfile' = [cfile EXCEPT !.header = g.header]
        PROVE  cfile' = [header |-> g.header, frames |-> frames, trailing |-> cfile.trailing]
    <3> HIDE DEF frames
    <3> QED BY <1>3, <2>2
  <2>3. ASSUME NEW x, cfile' = [cfile EXCEPT !.trailing = x]
        PROVE  cfile' = [header |-> cfile.header, frames |-> frames, trailing |-> x]
    <3> HIDE DEF frames
    <3> QED BY <1>3, <2>3
  <2>4. \/ \E fs \in DamagedFrames(frames) : cfile' = [cfile EXCEPT !.frames = fs]
        \/ \E g \in Foreign : cfile' = [cfile EXCEPT !.header = g.header]
        \/ cfile' = [cfile EXCEPT !.trailing = TRUE]
        \/ cfile' \in Foreign
    BY Zenon DEF Damage
  <2> HIDE DEF frames
  <2>5. CASE \E fs \in DamagedFrames(frames) : cfile' = [cfile EXCEPT !.frames = fs]
    BY Zenon, <2>1, <2>5
  <2>6. CASE \E g \in Foreign : cfile' = [cfile EXCEPT !.header = g.header]
    BY Zenon, <1>3, <2>2, <2>6
  <2>7. CASE cfile' = [cfile EXCEPT !.trailing = TRUE]
    BY Zenon, <1>3, <2>3, <2>7
  <2>8. CASE cfile' \in Foreign
    <3>1. PICK g \in Foreign : cfile' = g
      BY Zenon, <2>8
    <3>2. cfile' = [header |-> g.header, frames |-> g.frames, trailing |-> g.trailing]
      BY Zenon, <1>4, <3>1
    <3>3. Sealed(g.frames, cgenuine)
      BY Zenon, <1>4
    <3> QED BY Zenon, <3>2, <3>3
  <2> QED BY Zenon, <2>4, <2>5, <2>6, <2>7, <2>8
<1> QED BY Zenon, <1>1, <1>5 DEF AnyDamage, Sealed

\* The same of the model that TLC checks, whose pieces and faults are among those.
THEOREM DownloadsAlwaysGenuine == ContainerSpec => []DownloadsGenuine
<1>1. ContainerInit => ContainerInv
  BY Zenon, InitContainer
<1>2. ContainerInv /\ [ContainerNext]_containerVars => ContainerInv'
  <2> SUFFICES ASSUME ContainerInv, [ContainerNext]_containerVars PROVE ContainerInv'
    BY Zenon
  <2>1. \A n \in 1..(ChunkSize + 1) : n \in Nat
    BY ContainerAssumption
  <2>2. [AnyDamageNext]_containerVars
    <3>1. CASE Damage
      BY Zenon, <3>1, DamageForgesNothing DEF AnyDamageNext
    <3> QED BY Zenon, <2>1, <3>1 DEF ContainerNext, AnyDamageNext
  <2> QED BY Zenon, <2>2, ContainerInductiveStep
<1>3. ContainerInv => DownloadsGenuine
  BY Zenon, InvGenuine
<1> QED BY <1>1, <1>2, <1>3, PTL DEF ContainerSpec

=============================================================================
