-------------------------- MODULE EmailVerification --------------------------
(***************************************************************************)
(* Verification of a user's mailbox (email_verification_service.py, the     *)
(* address change of routes/users.py and db/cleanup_email_verification.py): *)
(* challenges, the mail that is sent after their commit, concurrent         *)
(* confirmations, expiry and the deletion of history.                       *)
(*                                                                          *)
(* Each request loads the user when it is authenticated and locks the row   *)
(* later.  The session keeps what it has loaded, also when the locking      *)
(* SELECT returns a newer row, and an UPDATE writes only the attributes     *)
(* that differ from what was loaded.  From the lock to the commit a request *)
(* is one step; the delivery of the mail is outside it.                     *)
(***************************************************************************)
EXTENDS Naturals, FiniteSets

CONSTANTS
    People,         \* users
    Mailboxes,      \* canonical addresses
    NoMailbox,      \* users.email IS NULL
    EmailRequests,  \* concurrent requests
    MaxChallenges,  \* bound: challenges created
    MaxMoves,       \* bound: address changes
    NoToken         \* no challenge

Tokens == 1..MaxChallenges

\* A challenge row, and a request with the user as it was loaded.
Challenge ==
    [user : People, mailbox : Mailboxes, state : {"active", "consumed", "revoked"},
     expired : BOOLEAN, old : BOOLEAN]
EmailRequest ==
    [op : {"request", "update", "confirm"}, user : People, token : Tokens \cup {0},
     email : Mailboxes \cup {NoMailbox}, verified : BOOLEAN]

ASSUME EmailConstants ==
    /\ MaxChallenges \in Nat /\ MaxMoves \in Nat
    /\ NoMailbox \notin Mailboxes
    /\ NoToken \notin Challenge /\ NoToken \notin EmailRequest

VARIABLES
    email,      \* users.email
    verified,   \* users with email_verified_at
    challenge,  \* email_verification_challenges by token, NoToken without a row
    issued,     \* challenges created so far
    sending,    \* requests that have committed and wait for the mailer
    failing,    \* requests whose mailer raised
    inbox,      \* tokens that reached their mailbox
    serving,    \* the requests under way: what they are and the user as loaded
    proof,      \* history: the mailbox whose token last verified each user
    uses,       \* history: how often each token verified a user
    moves       \* address changes so far

mailVars == <<issued, sending, failing, inbox>>
emailVars == <<email, verified, challenge, mailVars, serving, proof, uses, moves>>

EmailInit ==
    /\ email \in [People -> Mailboxes \cup {NoMailbox}]
    /\ \A p, q \in People : p # q /\ email[p] = email[q] => email[p] = NoMailbox
    /\ verified = {}
    /\ challenge = [t \in Tokens |-> NoToken]
    /\ issued = 0
    /\ sending = {} /\ failing = {} /\ inbox = {}
    /\ serving = [r \in EmailRequests |-> NoToken]
    /\ proof = [p \in People |-> NoMailbox]
    /\ uses = [t \in Tokens |-> 0]
    /\ moves = 0

Stored(t) == challenge[t] # NoToken
ActiveToken(t) == Stored(t) /\ challenge[t].state = "active"
ActiveOf(p) == {t \in Tokens : ActiveToken(t) /\ challenge[t].user = p}

\* Past the retention, and expired, consumed or revoked.
Stale(t) == Stored(t) /\ challenge[t].old /\ (challenge[t].expired \/ challenge[t].state # "active")

\* SET revoked_at on the tokens of T.
Revoking(T) ==
    [t \in Tokens |-> IF t \in T THEN [challenge[t] EXCEPT !.state = "revoked"] ELSE challenge[t]]

\* get_session_access_context loads the user of request r.
Authenticate(r, op, p, t) ==
    /\ serving[r] = NoToken
    /\ serving' = [serving EXCEPT ![r] =
         [op |-> op, user |-> p, token |-> t, email |-> email[p], verified |-> p \in verified]]
    /\ UNCHANGED <<email, verified, challenge, mailVars, proof, uses, moves>>

Serving(r, op) == serving[r] # NoToken /\ serving[r].op = op
Served(r) == serving' = [serving EXCEPT ![r] = NoToken]

-----------------------------------------------------------------------------
(* POST /email-verification/request *)

NewChallenge(r) ==
    [user |-> serving[r].user, mailbox |-> serving[r].email, state |-> "active",
     expired |-> FALSE, old |-> FALSE]

\* Mutant of RequestVerification: earlier challenges stay usable.
RequestWithoutRevoking(r) ==
    /\ Serving(r, "request")
    /\ serving[r].email # NoMailbox /\ ~serving[r].verified
    /\ issued < MaxChallenges
    /\ issued' = issued + 1
    /\ challenge' = [challenge EXCEPT ![issued + 1] = NewChallenge(r)]
    /\ sending' = sending \cup {issued + 1}
    /\ Served(r)
    /\ UNCHANGED <<email, verified, failing, inbox, proof, uses, moves>>

\* request_verification up to its commit: delete the user's history, revoke the
\* active challenges, create one.
RequestVerification(r) ==
    LET p == serving[r].user IN
    /\ Serving(r, "request")
    /\ serving[r].email # NoMailbox /\ ~serving[r].verified
    /\ issued < MaxChallenges
    /\ issued' = issued + 1
    /\ challenge' = [t \in Tokens |->
         IF t = issued + 1 THEN NewChallenge(r)
         ELSE IF Stale(t) /\ challenge[t].user = p THEN NoToken
         ELSE Revoking(ActiveOf(p))[t]]
    /\ sending' = sending \cup {issued + 1}
    /\ Served(r)
    /\ UNCHANGED <<email, verified, failing, inbox, proof, uses, moves>>

\* There is no address, or it is verified already.
RequestDeclined(r) ==
    /\ Serving(r, "request")
    /\ serving[r].email = NoMailbox \/ serving[r].verified
    /\ Served(r)
    /\ UNCHANGED <<email, verified, challenge, mailVars, proof, uses, moves>>

\* The mailer delivers, raises, or does both: a timeout says nothing of the mail.
Deliver(t) ==
    /\ t \in sending
    /\ sending' = sending \ {t}
    /\ \E arrives, raises \in BOOLEAN :
        /\ arrives \/ raises
        /\ inbox' = IF arrives THEN inbox \cup {t} ELSE inbox
        /\ failing' = IF raises THEN failing \cup {t} ELSE failing
    /\ UNCHANGED <<email, verified, challenge, issued, serving, proof, uses, moves>>

\* _record_delivery_failure.
RecordDeliveryFailure(t) ==
    /\ t \in failing
    /\ failing' = failing \ {t}
    /\ challenge' = IF ActiveToken(t) THEN Revoking({t}) ELSE challenge
    /\ UNCHANGED <<email, verified, issued, sending, inbox, serving, proof, uses, moves>>

\* The process dies before or after the mail is out.
RequestDies(t) ==
    /\ t \in sending \cup failing
    /\ sending' = sending \ {t}
    /\ failing' = failing \ {t}
    /\ UNCHANGED <<email, verified, challenge, issued, inbox, serving, proof, uses, moves>>

-----------------------------------------------------------------------------
(* POST /email-verification/confirm *)

\* Mutant of Confirmable: the address of the challenge is not compared.
ConfirmableAnyMailbox(r) ==
    LET t == serving[r].token IN
    ActiveToken(t) /\ challenge[t].user = serving[r].user /\ ~challenge[t].expired

\* What confirm checks under the locks.  The challenge is loaded there.
Confirmable(r) ==
    LET t == serving[r].token IN
    /\ ActiveToken(t) /\ challenge[t].user = serving[r].user /\ ~challenge[t].expired
    /\ serving[r].email = challenge[t].mailbox

ConfirmSucceeds(r) ==
    LET p == serving[r].user
        t == serving[r].token
    IN
    /\ Serving(r, "confirm")
    /\ Confirmable(r)
    /\ challenge' = [Revoking(ActiveOf(p)) EXCEPT ![t].state = "consumed"]
    /\ verified' = verified \cup {p}
    /\ proof' = [proof EXCEPT ![p] = challenge[t].mailbox]
    /\ uses' = [uses EXCEPT ![t] = @ + 1]
    /\ Served(r)
    /\ UNCHANGED <<email, mailVars, moves>>

\* An expired or outdated active challenge of the user is revoked, unless the
\* audit event in the same transaction fails.
ConfirmRefused(r) ==
    LET t == serving[r].token IN
    /\ Serving(r, "confirm")
    /\ ~Confirmable(r)
    /\ \/ UNCHANGED challenge
       \/ ActiveToken(t) /\ challenge[t].user = serving[r].user /\ challenge' = Revoking({t})
    /\ Served(r)
    /\ UNCHANGED <<email, verified, mailVars, proof, uses, moves>>

-----------------------------------------------------------------------------
(* The address, time and cleanup *)

\* update_me with address e.  email_verified_at = None is written only over a
\* value that was loaded; the unique index refuses an address in use.
UpdateEmail(r, e) ==
    LET p == serving[r].user IN
    /\ Serving(r, "update")
    /\ IF e = serving[r].email \/ (e # NoMailbox /\ \E q \in People \ {p} : email[q] = e)
       THEN UNCHANGED <<email, verified, challenge, moves>>
       ELSE /\ moves < MaxMoves /\ moves' = moves + 1
            /\ email' = [email EXCEPT ![p] = e]
            /\ verified' = IF serving[r].verified THEN verified \ {p} ELSE verified
            /\ challenge' = Revoking(ActiveOf(p))
    /\ Served(r)
    /\ UNCHANGED <<mailVars, proof, uses>>

\* Time: a challenge passes its expires_at, or the retention.
TimePasses(t) ==
    /\ Stored(t)
    /\ challenge' = [challenge EXCEPT ![t].expired = TRUE, ![t].old = challenge[t].expired]
    /\ UNCHANGED <<email, verified, mailVars, serving, proof, uses, moves>>

\* cleanup: a batch of stale rows of any user.
CleanupHistory ==
    /\ \E t \in Tokens : Stale(t)
    /\ challenge' = [t \in Tokens |-> IF Stale(t) THEN NoToken ELSE challenge[t]]
    /\ UNCHANGED <<email, verified, mailVars, serving, proof, uses, moves>>

EmailNext ==
    \/ \E r \in EmailRequests :
        \/ \E p \in People : Authenticate(r, "request", p, 0) \/ Authenticate(r, "update", p, 0)
        \/ \E p \in People, t \in inbox : Authenticate(r, "confirm", p, t)
        \/ RequestVerification(r) \/ RequestDeclined(r)
        \/ ConfirmSucceeds(r) \/ ConfirmRefused(r)
        \/ \E e \in Mailboxes \cup {NoMailbox} : UpdateEmail(r, e)
    \/ \E t \in Tokens : Deliver(t) \/ RecordDeliveryFailure(t) \/ RequestDies(t) \/ TimePasses(t)
    \/ CleanupHistory

EmailSpec == EmailInit /\ [][EmailNext]_emailVars

-----------------------------------------------------------------------------
(* Properties. *)

\* The step is a confirmation with a token of the user.
TokenUsed(p) == \E t \in Tokens : uses'[t] # uses[t] /\ Stored(t) /\ challenge[t].user = p

\* email_verification_service.py: a confirmation proves the address the user has
\* at that moment, although the request compares the one it loaded before, and
\* a challenge may have been created for an address that had changed already.  A
\* second confirmation of the same address counts as one.
ConfirmsCurrentAddress ==
    [][\A p \in People : proof'[p] # proof[p] \/ TokenUsed(p) => proof'[p] = email'[p]]_emailVars

\* email_verification_service.py: a user has at most one token that confirms,
\* in spite of requests, failed deliveries and address changes that race, and
\* no token verifies a user twice, in spite of concurrent confirmations.
TokensSingle ==
    /\ \A p \in People : Cardinality(ActiveOf(p)) <= 1
    /\ \A t \in Tokens : uses[t] <= 1

\* routes/users.py, "A mutable profile field must never inherit the prior
\* address's proof": a verified user's address is the mailbox that received the
\* token the user confirmed last.
VerifiedProvesMailbox == \A p \in verified : proof[p] = email[p]
=============================================================================
