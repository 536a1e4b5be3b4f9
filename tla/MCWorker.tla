------------------------------ MODULE MCWorker ------------------------------
(***************************************************************************)
(* The outbox worker for TLC: rows that are published, numbered because    *)
(* the claim query orders them, and binding commands.  The two share no    *)
(* state, so each behaviour moves one of them: part says which.  Commands  *)
(* have two parts: those of one channel that can be renamed, with all the  *)
(* faults, and those of two channels of which one may take a slug that the *)
(* other gave up.                                                          *)
(***************************************************************************)
EXTENDS Outbox, BrokerBinding, TLC

CONSTANTS Parts, A, B, a1, a2, b1, u1

VARIABLE part

TwoRows == {1, 2}

workerVars == <<part, vars, bindingVars>>

MCInit == part \in Parts /\ Init /\ BindingInit /\ slug = (A :> a1 @@ B :> b1)

\* One channel moves.
OneChannel == generation'[<<B, u1>>] = 0 /\ slug'[B] = b1 /\ ~deleted'[B]

\* The user has joined two channels when the first of them is renamed; each is
\* renamed once, and one transaction may fail.
TwoChannels ==
  /\ reconnects' = 0 /\ faults' <= 1 /\ deleted' = deleted
  /\ approved' # approved => generation = reconciled /\ \A p \in Pairs : approved'[p] \/ ~approved[p]
  /\ slug' # slug => \A p \in Pairs : approved[p]
  /\ \A p \in Pairs : generation'[p] > 1 => used'[p[1]] # {slug'[p[1]]}

MCNext ==
  \/ part = "rows" /\ Next /\ UNCHANGED <<part, bindingVars>>
  \/ part = "bindings" /\ BindingNext /\ OneChannel /\ UNCHANGED <<part, vars>>
  \/ part = "reuse" /\ BindingNext /\ TwoChannels /\ UNCHANGED <<part, vars>>

\* The publisher loop never ends, time passes, and a request ends by a commit
\* or a rollback: the system does not stop while one of these is possible.
\* Nothing is assumed of which of them goes on, nor of crashes, faults or new
\* requests.
GoesOn ==
  \/ /\ part = "rows"
     /\ \/ \E w \in Workers : WorkerStep(w)
        \/ \E r \in Rows : RetryDue(r)
        \/ \E p \in Operators : OperatorStep(p)
     /\ UNCHANGED <<part, bindingVars>>
  \/ /\ part \in {"bindings", "reuse"}
     /\ \E w \in Projectors : ProjectorStep(w)
     /\ UNCHANGED <<part, vars>>

MCFairSpec == MCInit /\ [][MCNext]_workerVars /\ WF_workerVars(GoesOn)
=============================================================================
