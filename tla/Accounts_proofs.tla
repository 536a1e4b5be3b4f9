-------------------------- MODULE Accounts_proofs ---------------------------
(***************************************************************************)
(* Proofs about the sessions of an account and the verification of its     *)
(* mailbox, for any number of sessions, users, requests and tokens.        *)
(***************************************************************************)
EXTENDS AuthSession, EmailVerification, FiniteSetTheorems, TLAPS

-----------------------------------------------------------------------------
(***************************************************************************)
(* The verification of mailboxes.                                          *)
(***************************************************************************)

EmailTypeOK ==
    /\ email \in [People -> Mailboxes \cup {NoMailbox}]
    /\ verified \subseteq People
    /\ challenge \in [Tokens -> Challenge \cup {NoToken}]
    /\ issued \in 0..MaxChallenges
    /\ sending \subseteq 1..issued /\ failing \subseteq 1..issued /\ inbox \subseteq 1..issued
    /\ serving \in [EmailRequests -> EmailRequest \cup {NoToken}]
    /\ proof \in [People -> Mailboxes \cup {NoMailbox}]
    /\ uses \in [Tokens -> Nat]
    /\ moves \in Nat

\* A token not issued yet has no row and was never used.
TokensFresh == \A t \in Tokens : t > issued => challenge[t] = NoToken /\ uses[t] = 0

\* Two active tokens are of different users.
OneActive ==
    \A t, u \in Tokens :
        ActiveToken(t) /\ ActiveToken(u) /\ challenge[t].user = challenge[u].user => t = u

\* An active token has not verified anyone, and none has twice.
TokensUnused == \A t \in Tokens : uses[t] <= 1 /\ (ActiveToken(t) => uses[t] = 0)

\* A confirmation whose token is still active has loaded the current address:
\* a change of the address since then would have revoked the token.
LoadedBy(r) ==
    LET t == serving[r].token
        p == serving[r].user
    IN  t \in 1..issued /\ (ActiveToken(t) /\ challenge[t].user = p => serving[r].email = email[p])
LoadedCurrent == \A r \in EmailRequests : Serving(r, "confirm") => LoadedBy(r)

EmailInv == EmailTypeOK /\ TokensFresh /\ OneActive /\ TokensUnused /\ LoadedCurrent

\* No challenge becomes active or changes its user.
TokensKept ==
    /\ challenge' \in [Tokens -> Challenge \cup {NoToken}]
    /\ \A t \in Tokens :
        /\ Stored(t)' => Stored(t)
        /\ ActiveToken(t)' => ActiveToken(t) /\ challenge'[t].user = challenge[t].user

\* The invariant holds before the first request.
LEMMA InitEmail == EmailInit => EmailInv
<1> USE EmailConstants
<1> QED BY DEF EmailInit, EmailInv, EmailTypeOK, TokensFresh, OneActive, TokensUnused, LoadedCurrent, ActiveToken,
               Stored, Serving, Tokens

\* SET revoked_at of some of the rows.
LEMMA RevokingKeeps ==
    ASSUME EmailTypeOK, NEW T \in SUBSET Tokens, \A t \in T : Stored(t), challenge' = Revoking(T)
    PROVE  TokensKept /\ \A t \in T : ~ActiveToken(t)'
<1>1. \A t \in T : challenge[t] \in Challenge
  BY Zenon DEF EmailTypeOK, Stored
<1>2. \A t \in T : challenge'[t] \in Challenge /\ challenge'[t].state = "revoked"
  BY Zenon, <1>1 DEF Revoking, Challenge
<1>3. \A t \in Tokens \ T : challenge'[t] = challenge[t]
  BY Zenon DEF Revoking
<1>4. challenge' \in [Tokens -> Challenge \cup {NoToken}]
  <2>1. \A t \in Tokens : challenge'[t] \in Challenge \cup {NoToken}
    BY Zenon, <1>2, <1>3 DEF EmailTypeOK
  <2> QED BY Zenon, <2>1 DEF Revoking
<1> QED BY Zenon, <1>2, <1>3, <1>4 DEF TokensKept, ActiveToken, Stored

\* The clock.
LEMMA TimeKeeps == ASSUME EmailTypeOK, NEW t \in Tokens, TimePasses(t) PROVE TokensKept
<1>1. challenge[t] \in Challenge
  BY Zenon DEF EmailTypeOK, TimePasses, Stored
<1>2. challenge' = [challenge EXCEPT ![t] = [challenge[t] EXCEPT !.expired = TRUE, !.old = challenge[t].expired]]
  BY Zenon, <1>1 DEF TimePasses, EmailTypeOK
<1>3. challenge'[t] = [challenge[t] EXCEPT !.expired = TRUE, !.old = challenge[t].expired]
  BY Zenon, <1>2 DEF EmailTypeOK
<1>4. challenge'[t] \in Challenge /\ challenge'[t].state = challenge[t].state /\ challenge'[t].user = challenge[t].user
  BY Zenon, <1>1, <1>3 DEF Challenge
<1>5. \A u \in Tokens \ {t} : challenge'[u] = challenge[u]
  BY Zenon, <1>2 DEF EmailTypeOK
<1>6. challenge' \in [Tokens -> Challenge \cup {NoToken}]
  BY Zenon, <1>2, <1>3, <1>4 DEF EmailTypeOK
<1> QED BY Zenon, EmailConstants, <1>1, <1>4, <1>5, <1>6 DEF TokensKept, ActiveToken, Stored

\* The deletion of history.
LEMMA CleanupKeeps == ASSUME EmailTypeOK, CleanupHistory PROVE TokensKept
<1>1. challenge' \in [Tokens -> Challenge \cup {NoToken}]
  BY Zenon DEF EmailTypeOK, CleanupHistory
<1> QED BY Zenon, <1>1 DEF CleanupHistory, TokensKept, ActiveToken, Stored

\* What no challenge becoming active leaves in place.
LEMMA KeptTokens ==
    ASSUME EmailInv, TokensKept, issued' = issued, uses' = uses
    PROVE  TokensFresh' /\ OneActive' /\ TokensUnused'
<1>1. TokensFresh'
  BY Zenon DEF EmailInv, TokensFresh, TokensKept, Stored
<1>2. OneActive'
  BY Zenon DEF EmailInv, OneActive, TokensKept
<1>3. TokensUnused'
  BY Zenon DEF EmailInv, TokensUnused, TokensKept
<1> QED BY Zenon, <1>1, <1>2, <1>3

\* A step that activates no challenge, and changes no address, keeps the
\* invariant, whether it ends a request or not.
LEMMA KeptEmail ==
    ASSUME EmailInv, TokensKept, UNCHANGED <<email, verified, issued, proof, uses, moves>>,
           sending' \subseteq 1..issued, failing' \subseteq 1..issued, inbox' \subseteq 1..issued,
           serving' = serving \/ \E r \in EmailRequests : Served(r)
    PROVE  EmailInv'
<1>1. /\ serving' \in [EmailRequests -> EmailRequest \cup {NoToken}]
      /\ \A r \in EmailRequests : serving'[r] # NoToken => serving'[r] = serving[r]
  BY Zenon DEF EmailInv, EmailTypeOK, Served
<1>2. EmailTypeOK'
  BY Zenon, <1>1 DEF EmailInv, EmailTypeOK, TokensKept
<1>3. LoadedCurrent'
  <2> SUFFICES ASSUME NEW r \in EmailRequests, Serving(r, "confirm")' PROVE LoadedBy(r)'
    BY Zenon DEF LoadedCurrent
  <2>1. serving'[r] = serving[r] /\ LoadedBy(r)
    BY Zenon, <1>1 DEF Serving, EmailInv, LoadedCurrent
  <2>2. serving[r].token \in Tokens
    BY <2>1, EmailConstants DEF EmailInv, EmailTypeOK, LoadedBy, Tokens
  <2> QED BY Zenon, <2>1, <2>2 DEF LoadedBy, TokensKept, ActiveToken, Stored
<1> QED BY Zenon, <1>2, <1>3, KeptTokens DEF EmailInv

\* request_verification: the new token is the user's only active one.
LEMMA RequestVerificationStep ==
    ASSUME EmailInv, NEW r \in EmailRequests, RequestVerification(r)
    PROVE  EmailInv'
<1> DEFINE p == serving[r].user
           n == issued + 1
<1>1. serving[r] \in EmailRequest /\ serving[r].email \in Mailboxes /\ p \in People
  BY Zenon DEF RequestVerification, Serving, EmailInv, EmailTypeOK, EmailRequest
<1>2. /\ n \in Tokens /\ issued' = n /\ 1..issued' = 1..issued \cup {n} /\ n \notin 1..issued
      /\ 1..issued \subseteq Tokens
  <2>1. issued \in Nat /\ issued < MaxChallenges /\ issued' = issued + 1
    BY EmailConstants DEF RequestVerification, EmailInv, EmailTypeOK
  <2> QED BY <2>1, EmailConstants DEF Tokens
<1>3. /\ NewChallenge(r) \in Challenge /\ NewChallenge(r) # NoToken
      /\ NewChallenge(r).user = p /\ NewChallenge(r).state = "active"
  <2>1. /\ NewChallenge(r) \in Challenge
        /\ NewChallenge(r).user = p /\ NewChallenge(r).state = "active"
    BY Zenon, <1>1 DEF NewChallenge, Challenge
  <2> QED BY Zenon, <2>1, EmailConstants
<1>4. challenge'[n] = NewChallenge(r)
  BY Zenon, <1>2 DEF RequestVerification
<1>5. \A t \in Tokens \ {n} :
        challenge'[t] = IF Stale(t) /\ challenge[t].user = p THEN NoToken
                        ELSE IF t \in ActiveOf(p) THEN [challenge[t] EXCEPT !.state = "revoked"]
                        ELSE challenge[t]
  BY Zenon DEF RequestVerification, Revoking
<1>6. \A t \in ActiveOf(p) : challenge[t] \in Challenge /\ [challenge[t] EXCEPT !.state = "revoked"] \in Challenge
                             /\ [challenge[t] EXCEPT !.state = "revoked"].state = "revoked"
  <2>1. \A t \in ActiveOf(p) : challenge[t] \in Challenge
    BY Zenon DEF ActiveOf, ActiveToken, Stored, EmailInv, EmailTypeOK
  <2> QED BY Zenon, <2>1 DEF Challenge
<1>7. \A t \in Tokens \ {n} :
        /\ challenge'[t] \in Challenge \cup {NoToken}
        /\ Stored(t)' => Stored(t)
        /\ ActiveToken(t)' => ActiveToken(t) /\ challenge'[t] = challenge[t] /\ challenge[t].user # p
  BY Zenon, <1>5, <1>6 DEF EmailInv, EmailTypeOK, Stored, ActiveToken, ActiveOf
<1>8. /\ serving'[r] = NoToken /\ \A q \in EmailRequests \ {r} : serving'[q] = serving[q]
      /\ serving' \in [EmailRequests -> EmailRequest \cup {NoToken}]
  BY Zenon DEF RequestVerification, Served, EmailInv, EmailTypeOK
<1>9. UNCHANGED <<email, verified, failing, inbox, proof, uses, moves>> /\ sending' = sending \cup {n}
  BY Zenon DEF RequestVerification
<1>10. EmailTypeOK'
  <2>1. challenge' \in [Tokens -> Challenge \cup {NoToken}]
    <3>1. \A t \in Tokens : challenge'[t] \in Challenge \cup {NoToken}
      BY Zenon, <1>3, <1>4, <1>7
    <3> QED BY Zenon, <3>1 DEF RequestVerification
  <2>2. issued' \in 0..MaxChallenges
    BY <1>2, EmailConstants DEF Tokens, EmailInv, EmailTypeOK
  <2> QED BY Zenon, <1>2, <1>8, <1>9, <2>1, <2>2 DEF EmailInv, EmailTypeOK
<1>11. \A t \in Tokens : t > issued' => t > issued /\ t # n
  BY <1>2, EmailConstants DEF Tokens, EmailInv, EmailTypeOK
<1>12. TokensFresh'
  BY Zenon, <1>7, <1>9, <1>11 DEF EmailInv, TokensFresh, Stored
<1>13. OneActive'
  BY Zenon, <1>3, <1>4, <1>7 DEF EmailInv, OneActive
<1>14. TokensUnused'
  <2>1. uses[n] = 0
    BY <1>2, EmailConstants DEF EmailInv, EmailTypeOK, TokensFresh, Tokens
  <2> QED BY Zenon, <1>7, <1>9, <2>1 DEF EmailInv, TokensUnused
<1>15. LoadedCurrent'
  <2> SUFFICES ASSUME NEW q \in EmailRequests, Serving(q, "confirm")' PROVE LoadedBy(q)'
    BY Zenon DEF LoadedCurrent
  <2>1. serving'[q] = serving[q] /\ LoadedBy(q)
    BY Zenon, <1>8 DEF Serving, EmailInv, LoadedCurrent
  <2>2. serving[q].token \in 1..issued
    BY Zenon, <2>1 DEF LoadedBy
  <2> QED BY Zenon, <1>2, <1>7, <1>9, <2>1, <2>2 DEF LoadedBy, ActiveToken, Stored
<1> QED BY Zenon, <1>10, <1>12, <1>13, <1>14, <1>15 DEF EmailInv

\* confirm_verification: the token is consumed and the user's others revoked.
LEMMA ConfirmSucceedsStep ==
    ASSUME EmailInv, NEW r \in EmailRequests, ConfirmSucceeds(r)
    PROVE  EmailInv'
<1> DEFINE p == serving[r].user
           t == serving[r].token
           R == Revoking(ActiveOf(p))
<1>1. serving[r] \in EmailRequest /\ p \in People
  BY Zenon DEF ConfirmSucceeds, Serving, EmailInv, EmailTypeOK, EmailRequest
<1>2. t \in Tokens /\ ActiveToken(t) /\ challenge[t].user = p /\ challenge[t] \in Challenge
  BY EmailConstants DEF ConfirmSucceeds, Confirmable, Serving, EmailInv, EmailTypeOK, LoadedCurrent, LoadedBy, Tokens,
     ActiveToken, Stored
<1>3. t \in ActiveOf(p) /\ \A u \in ActiveOf(p) : challenge[u] \in Challenge /\ u \in Tokens
  BY Zenon, <1>2 DEF ActiveOf, ActiveToken, Stored, EmailInv, EmailTypeOK
<1>4. \A u \in ActiveOf(p) : R[u] \in Challenge /\ R[u].state = "revoked"
  BY Zenon, <1>3 DEF Revoking, Challenge
<1>5. \A u \in Tokens \ ActiveOf(p) : R[u] = challenge[u]
  BY Zenon DEF Revoking
<1>6. R \in [Tokens -> Challenge \cup {NoToken}]
  <2>1. \A u \in Tokens : R[u] \in Challenge \cup {NoToken}
    BY Zenon, <1>4, <1>5 DEF EmailInv, EmailTypeOK
  <2> QED BY Zenon, <2>1 DEF Revoking
<1>7. challenge' = [R EXCEPT ![t] = [R[t] EXCEPT !.state = "consumed"]]
  BY Zenon DEF ConfirmSucceeds
<1> HIDE DEF R
<1>8. [R[t] EXCEPT !.state = "consumed"] \in Challenge /\ [R[t] EXCEPT !.state = "consumed"].state = "consumed"
  BY <1>3, <1>4 DEF Challenge
<1>9. challenge'[t] \in Challenge /\ challenge'[t].state = "consumed"
  BY Zenon, <1>2, <1>6, <1>7, <1>8
<1>10. \A u \in Tokens \ {t} : challenge'[u] = R[u]
  BY Zenon, <1>6, <1>7
<1>11. TokensKept /\ \A u \in ActiveOf(p) : ~ActiveToken(u)'
  <2>1. challenge' \in [Tokens -> Challenge \cup {NoToken}]
    BY Zenon, <1>6, <1>7, <1>8
  <2>2. \A u \in ActiveOf(p) : Stored(u) /\ challenge'[u].state # "active"
    BY Zenon, <1>3, <1>4, <1>9, <1>10 DEF ActiveOf, ActiveToken
  <2>3. \A u \in Tokens \ ActiveOf(p) : challenge'[u] = challenge[u]
    BY Zenon, <1>3, <1>5, <1>10
  <2> QED BY Zenon, <2>1, <2>2, <2>3 DEF TokensKept, ActiveToken, Stored
<1>12. /\ serving' \in [EmailRequests -> EmailRequest \cup {NoToken}]
       /\ serving'[r] = NoToken /\ \A q \in EmailRequests \ {r} : serving'[q] = serving[q]
  BY Zenon DEF ConfirmSucceeds, Served, EmailInv, EmailTypeOK
<1>13. uses' \in [Tokens -> Nat] /\ uses'[t] = 1 /\ \A u \in Tokens \ {t} : uses'[u] = uses[u]
  BY <1>2 DEF ConfirmSucceeds, EmailInv, EmailTypeOK, TokensUnused
<1>14. UNCHANGED <<email, issued, sending, failing, inbox, moves>>
  BY Zenon DEF ConfirmSucceeds, mailVars
<1>15. EmailTypeOK'
  <2>1. verified' \subseteq People /\ proof' \in [People -> Mailboxes \cup {NoMailbox}]
    BY Zenon, <1>1, <1>2 DEF ConfirmSucceeds, EmailInv, EmailTypeOK, Challenge
  <2> QED BY Zenon, <1>11, <1>12, <1>13, <1>14, <2>1 DEF EmailInv, EmailTypeOK, TokensKept
<1>16. TokensFresh'
  <2>1. t <= issued /\ issued \in Nat
    BY DEF ConfirmSucceeds, EmailInv, EmailTypeOK, LoadedCurrent, LoadedBy
  <2>2. \A u \in Tokens : u > issued => u # t /\ ~Stored(u)' /\ uses[u] = 0
    BY Zenon, <1>2, <1>11, <2>1, EmailConstants DEF EmailInv, TokensFresh, TokensKept, Stored, Tokens
  <2> QED BY Zenon, <1>13, <1>14, <2>2 DEF TokensFresh, Stored
<1>17. OneActive'
  BY Zenon, <1>11 DEF EmailInv, OneActive, TokensKept
<1>18. TokensUnused'
  BY <1>3, <1>11, <1>13 DEF EmailInv, TokensUnused, TokensKept
<1>19. LoadedCurrent'
  <2> SUFFICES ASSUME NEW q \in EmailRequests, Serving(q, "confirm")' PROVE LoadedBy(q)'
    BY DEF LoadedCurrent
  <2>1. serving'[q] = serving[q] /\ LoadedBy(q)
    BY Zenon, <1>12 DEF Serving, EmailInv, LoadedCurrent
  <2>2. serving[q].token \in Tokens
    BY <2>1, EmailConstants DEF EmailInv, EmailTypeOK, LoadedBy, Tokens
  <2> QED BY Zenon, <1>11, <1>14, <2>1, <2>2 DEF LoadedBy, TokensKept, ActiveToken, Stored
<1> QED BY <1>15, <1>16, <1>17, <1>18, <1>19 DEF EmailInv

\* update_me: a new address revokes every active token of its user.
LEMMA UpdateEmailStep ==
    ASSUME EmailInv, NEW r \in EmailRequests, NEW e \in Mailboxes \cup {NoMailbox}, UpdateEmail(r, e)
    PROVE  EmailInv'
<1> DEFINE p == serving[r].user
<1>1. serving[r] \in EmailRequest /\ p \in People
  BY Zenon DEF UpdateEmail, Serving, EmailInv, EmailTypeOK, EmailRequest
<1>2. /\ serving' \in [EmailRequests -> EmailRequest \cup {NoToken}]
      /\ \A q \in EmailRequests : serving'[q] # NoToken => serving'[q] = serving[q]
  BY Zenon DEF UpdateEmail, Served, EmailInv, EmailTypeOK
<1>3. UNCHANGED <<issued, sending, failing, inbox, proof, uses>>
  BY Zenon DEF UpdateEmail, mailVars
<1>4. CASE UNCHANGED <<email, verified, challenge, moves>>
  <2>1. TokensKept
    BY Zenon, <1>4 DEF TokensKept, EmailInv, EmailTypeOK, ActiveToken, Stored
  <2> QED BY Zenon, <1>3, <1>4, <2>1, KeptEmail DEF UpdateEmail, EmailInv, EmailTypeOK
<1>5. CASE /\ moves' = moves + 1 /\ email' = [email EXCEPT ![p] = e]
           /\ verified' \in {verified, verified \ {p}} /\ challenge' = Revoking(ActiveOf(p))
  <2>1. ActiveOf(p) \in SUBSET Tokens /\ \A t \in ActiveOf(p) : Stored(t)
    BY Zenon DEF ActiveOf, ActiveToken
  <2>2. TokensKept /\ \A t \in ActiveOf(p) : ~ActiveToken(t)'
    BY Zenon, <1>5, <2>1, RevokingKeeps DEF EmailInv
  <2>3. EmailTypeOK'
    <3>1. email' \in [People -> Mailboxes \cup {NoMailbox}] /\ verified' \subseteq People /\ moves' \in Nat
      BY <1>1, <1>5 DEF EmailInv, EmailTypeOK
    <3> QED BY Zenon, <1>2, <1>3, <2>2, <3>1 DEF EmailInv, EmailTypeOK, TokensKept
  <2>4. LoadedCurrent'
    <3> SUFFICES ASSUME NEW q \in EmailRequests, Serving(q, "confirm")' PROVE LoadedBy(q)'
      BY Zenon DEF LoadedCurrent
    <3> DEFINE t == serving[q].token
    <3>1. serving'[q] = serving[q] /\ LoadedBy(q) /\ serving[q] \in EmailRequest
      BY Zenon, <1>2 DEF Serving, EmailInv, EmailTypeOK, LoadedCurrent
    <3>2. t \in Tokens /\ t \in 1..issued'
      BY <1>3, <3>1, EmailConstants DEF EmailInv, EmailTypeOK, LoadedBy, Tokens
    <3>3. CASE serving[q].user = p
      <4>1. ~(Stored(t) /\ challenge[t].state = "active" /\ challenge[t].user = p) \/ t \in ActiveOf(p)
        BY Zenon, <3>2 DEF ActiveOf, ActiveToken
      <4> QED BY Zenon, <2>2, <3>1, <3>2, <3>3, <4>1 DEF LoadedBy, TokensKept, ActiveToken, Stored
    <3>4. CASE serving[q].user # p
      <4>1. email'[serving[q].user] = email[serving[q].user]
        BY Zenon, <1>5, <3>1, <3>4 DEF EmailInv, EmailTypeOK, EmailRequest
      <4> QED BY Zenon, <2>2, <3>1, <3>2, <4>1 DEF LoadedBy, TokensKept, ActiveToken, Stored
    <3> QED BY Zenon, <3>3, <3>4
  <2> QED BY Zenon, <1>3, <2>2, <2>3, <2>4, KeptTokens DEF EmailInv
<1> QED BY Zenon, <1>4, <1>5 DEF UpdateEmail

\* get_session_access_context: a confirmation loads the current address.
LEMMA AuthenticateStep ==
    ASSUME EmailInv, NEW r \in EmailRequests, NEW op \in {"request", "update", "confirm"}, NEW p \in People,
           NEW t \in inbox \cup {0}, op = "confirm" => t \in inbox, Authenticate(r, op, p, t)
    PROVE  EmailInv'
<1> DEFINE v == p \in verified
           x == [op |-> op, user |-> p, token |-> t, email |-> email[p], verified |-> v]
<1>1. inbox \subseteq 1..issued /\ 1..issued \subseteq Tokens
  BY EmailConstants DEF EmailInv, EmailTypeOK, Tokens
<1>2. x \in EmailRequest /\ x.op = op /\ x.user = p /\ x.token = t /\ x.email = email[p]
  <2>1. v \in BOOLEAN /\ t \in Tokens \cup {0} /\ email[p] \in Mailboxes \cup {NoMailbox}
    BY <1>1 DEF EmailInv, EmailTypeOK
  <2> HIDE DEF v
  <2> QED BY Zenon, <2>1 DEF EmailRequest
<1>3. serving' = [serving EXCEPT ![r] = x] /\ UNCHANGED <<email, verified, challenge, mailVars, proof, uses, moves>>
  BY Zenon DEF Authenticate
<1> HIDE DEF x
<1>4. /\ serving' \in [EmailRequests -> EmailRequest \cup {NoToken}]
      /\ serving'[r] = x /\ \A q \in EmailRequests \ {r} : serving'[q] = serving[q]
  BY Zenon, <1>2, <1>3 DEF EmailInv, EmailTypeOK
<1>5. EmailTypeOK'
  BY Zenon, <1>3, <1>4 DEF EmailInv, EmailTypeOK, mailVars
<1>6. LoadedCurrent'
  <2> SUFFICES ASSUME NEW q \in EmailRequests, Serving(q, "confirm")' PROVE LoadedBy(q)'
    BY Zenon DEF LoadedCurrent
  <2>1. CASE q = r
    BY Zenon, <1>1, <1>2, <1>3, <1>4, <2>1 DEF Serving, LoadedBy, mailVars
  <2>2. CASE q # r
    BY Zenon, <1>3, <1>4, <2>2 DEF Serving, LoadedBy, ActiveToken, Stored, EmailInv, LoadedCurrent, mailVars
  <2> QED BY Zenon, <2>1, <2>2
<1>7. TokensKept
  BY Zenon, <1>3 DEF TokensKept, EmailInv, EmailTypeOK, ActiveToken, Stored
<1> QED BY Zenon, <1>3, <1>5, <1>6, <1>7, KeptTokens DEF EmailInv, mailVars

\* Every step of a request keeps it.
LEMMA EmailInductive == EmailInv /\ [EmailNext]_emailVars => EmailInv'
<1> SUFFICES ASSUME EmailInv, [EmailNext]_emailVars PROVE EmailInv'
  BY Zenon
<1>1. ASSUME NEW r \in EmailRequests, NEW p \in People,
             Authenticate(r, "request", p, 0) \/ Authenticate(r, "update", p, 0)
      PROVE  EmailInv'
  BY Zenon, <1>1, AuthenticateStep
<1>2. ASSUME NEW r \in EmailRequests, NEW p \in People, NEW t \in inbox, Authenticate(r, "confirm", p, t)
      PROVE  EmailInv'
  BY Zenon, <1>2, AuthenticateStep
<1>3. ASSUME NEW r \in EmailRequests, RequestVerification(r) PROVE EmailInv'
  BY Zenon, <1>3, RequestVerificationStep
<1>4. ASSUME challenge' = challenge PROVE TokensKept
  BY Zenon, <1>4 DEF TokensKept, EmailInv, EmailTypeOK, ActiveToken, Stored
<1>5. ASSUME NEW r \in EmailRequests, RequestDeclined(r) PROVE EmailInv'
  BY Zenon, <1>4, <1>5, KeptEmail DEF RequestDeclined, EmailInv, EmailTypeOK, mailVars
<1>6. ASSUME NEW r \in EmailRequests, ConfirmSucceeds(r) PROVE EmailInv'
  BY <1>6, ConfirmSucceedsStep
<1>7. ASSUME NEW r \in EmailRequests, ConfirmRefused(r) PROVE EmailInv'
  <2> DEFINE t == serving[r].token
  <2>1. CASE challenge' = challenge
    BY Zenon, <1>4, <1>7, <2>1, KeptEmail DEF ConfirmRefused, EmailInv, EmailTypeOK, mailVars
  <2>2. CASE ActiveToken(t) /\ challenge' = Revoking({t})
    <3>1. t \in Tokens
      BY <1>7, EmailConstants DEF ConfirmRefused, EmailInv, EmailTypeOK, LoadedCurrent, LoadedBy, Tokens
    <3>2. TokensKept
      BY <2>2, <3>1, RevokingKeeps DEF EmailInv, ActiveToken
    <3> QED BY Zenon, <1>7, <3>2, KeptEmail DEF ConfirmRefused, EmailInv, EmailTypeOK, mailVars
  <2> QED BY Zenon, <1>7, <2>1, <2>2 DEF ConfirmRefused
<1>8. ASSUME NEW r \in EmailRequests, NEW e \in Mailboxes \cup {NoMailbox}, UpdateEmail(r, e) PROVE EmailInv'
  BY Zenon, <1>8, UpdateEmailStep
<1>9. ASSUME NEW t \in Tokens, Deliver(t) PROVE EmailInv'
  BY Zenon, <1>4, <1>9, KeptEmail DEF Deliver, EmailInv, EmailTypeOK
<1>10. ASSUME NEW t \in Tokens, RecordDeliveryFailure(t) PROVE EmailInv'
  <2>1. TokensKept
    <3>1. CASE ActiveToken(t)
      BY <1>10, <3>1, RevokingKeeps DEF RecordDeliveryFailure, EmailInv, ActiveToken
    <3>2. CASE ~ActiveToken(t)
      BY Zenon, <1>4, <1>10, <3>2 DEF RecordDeliveryFailure
    <3> QED BY Zenon, <3>1, <3>2
  <2> QED BY Zenon, <1>10, <2>1, KeptEmail DEF RecordDeliveryFailure, EmailInv, EmailTypeOK
<1>11. ASSUME NEW t \in Tokens, RequestDies(t) PROVE EmailInv'
  BY Zenon, <1>4, <1>11, KeptEmail DEF RequestDies, EmailInv, EmailTypeOK
<1>12. ASSUME NEW t \in Tokens, TimePasses(t) PROVE EmailInv'
  BY Zenon, <1>12, TimeKeeps, KeptEmail DEF TimePasses, EmailInv, EmailTypeOK, mailVars
<1>13. CASE CleanupHistory
  BY Zenon, <1>13, CleanupKeeps, KeptEmail DEF CleanupHistory, EmailInv, EmailTypeOK, mailVars
<1>14. CASE UNCHANGED emailVars
  BY Zenon, <1>4, <1>14, KeptEmail DEF emailVars, EmailInv, EmailTypeOK, mailVars
<1> QED BY Zenon, <1>1, <1>2, <1>3, <1>5, <1>6, <1>7, <1>8, <1>9, <1>10, <1>11, <1>12, <1>13, <1>14 DEF EmailNext

\* request_verification and confirm_verification: for any number of users,
\* requests and tokens, a user has at most one token that confirms, and no token
\* verifies a user twice.
THEOREM TokensAreSingle == EmailSpec => []TokensSingle
<1>1. EmailInv => TokensSingle
  <2> SUFFICES ASSUME EmailInv, NEW p \in People PROVE Cardinality(ActiveOf(p)) <= 1
    BY Zenon DEF EmailInv, TokensUnused, TokensSingle
  <2>1. CASE ActiveOf(p) = {}
    BY <2>1, FS_EmptySet
  <2>2. ASSUME NEW t \in ActiveOf(p) PROVE Cardinality(ActiveOf(p)) <= 1
    <3>1. ActiveOf(p) = {t}
      BY Zenon DEF ActiveOf, EmailInv, OneActive
    <3> QED BY <3>1, FS_Singleton
  <2> QED BY Zenon, <2>1, <2>2
<1> QED BY InitEmail, EmailInductive, <1>1, PTL DEF EmailSpec

\* confirm_verification compares the address loaded before the lock; the step
\* that verifies a user still proves the address the user has at that moment.
THEOREM ConfirmationIsCurrent == EmailSpec => ConfirmsCurrentAddress
<1> DEFINE A == \A p \in People : proof'[p] # proof[p] \/ TokenUsed(p) => proof'[p] = email'[p]
<1>1. EmailInv /\ [EmailNext]_emailVars => [A]_emailVars
  <2> SUFFICES ASSUME EmailInv, EmailNext, NEW p \in People, proof'[p] # proof[p] \/ TokenUsed(p)
               PROVE  proof'[p] = email'[p]
    BY Zenon DEF emailVars
  <2>1. PICK r \in EmailRequests : ConfirmSucceeds(r)
    <3>1. proof' # proof \/ uses' # uses
      BY Zenon DEF TokenUsed
    <3> QED BY Zenon, <3>1 DEF EmailNext, Authenticate, RequestVerification, RequestDeclined, ConfirmRefused,
           UpdateEmail, Deliver, RecordDeliveryFailure, RequestDies, TimePasses, CleanupHistory
  <2>2. p = serving[r].user /\ proof'[p] = challenge[serving[r].token].mailbox /\ email' = email
    <3>1. /\ proof' = [proof EXCEPT ![serving[r].user] = challenge[serving[r].token].mailbox]
          /\ uses' = [uses EXCEPT ![serving[r].token] = @ + 1] /\ email' = email
          /\ challenge[serving[r].token].user = serving[r].user
      BY Zenon, <2>1 DEF ConfirmSucceeds, Confirmable
    <3>2. TokenUsed(p) => \E t \in Tokens : t = serving[r].token /\ challenge[t].user = p
      BY Zenon, <3>1 DEF TokenUsed, EmailInv, EmailTypeOK
    <3>3. p = serving[r].user
      BY Zenon, <3>1, <3>2 DEF EmailInv, EmailTypeOK
    <3> QED BY Zenon, <3>1, <3>3 DEF EmailInv, EmailTypeOK
  <2>3. serving[r].email = email[p]
    BY Zenon, <2>1, <2>2 DEF ConfirmSucceeds, Confirmable, EmailInv, LoadedCurrent, LoadedBy
  <2> QED BY Zenon, <2>1, <2>2, <2>3 DEF ConfirmSucceeds, Confirmable
<1> QED BY InitEmail, EmailInductive, <1>1, PTL DEF EmailSpec, ConfirmsCurrentAddress

-----------------------------------------------------------------------------
(***************************************************************************)
(* Sessions.                                                               *)
(*                                                                         *)
(* The argument: a handler that has read a session holds its row (RowLocked), *)
(* so what it exchanges is the current token and each exchange is newer than *)
(* the one before (ExchangedInOrder); a password change sees every session *)
(* that is not private to an open transaction (SnapshotComplete).          *)
(***************************************************************************)

USE AuthConstants

AuthTypeOK ==
    /\ active \in BOOLEAN
    /\ password \in Nat
    /\ session \in [Sessions -> SessionRow \cup {NoRow}]
    /\ exchanged \in [Sessions -> Seq(Nat)]
    /\ rowLock \in [Sessions -> AuthRequests \cup {NoRow}]
    /\ authReq \in [AuthRequests -> AuthRequest \cup {NoRow}]

\* The request is between the lock of its session row and its commit.
Refreshing(r) == At(r, "refresh") \/ At(r, "rotating")

\* A refresh holds the lock of its row until it ends, and the row has the token
\* the refresh was shown: nobody else writes the token or removes the row.
RowLocked ==
    /\ \A r \in AuthRequests : Refreshing(r) =>
        /\ rowLock[authReq[r].row] = r
        /\ authReq[r].row \in Visible
        /\ authReq[r].token = session[authReq[r].row].token
    /\ \A s \in Sessions : rowLock[s] # NoRow =>
        Refreshing(rowLock[s]) /\ authReq[rowLock[s]].row = s

\* A flushed session row is of one login alone until that login commits.
InsertedPrivate ==
    /\ \A r \in AuthRequests : At(r, "inserted") => authReq[r].row \notin Visible
    /\ \A r, q \in AuthRequests :
        At(r, "inserted") /\ At(q, "inserted") /\ authReq[r].row = authReq[q].row => r = q

\* The tokens exchanged are the versions before the current one, in order.
ExchangedInOrder ==
    \A s \in Sessions :
        /\ Len(exchanged[s]) = IF s \in Visible THEN session[s].token ELSE 0
        /\ \A i \in 1..Len(exchanged[s]) : exchanged[s][i] = i - 1

\* The UPDATE of a password change has every session not yet revoked, and no
\* login can add one.
SnapshotComplete ==
    \A r \in AuthRequests : At(r, "changing") =>
        Unrevoked \subseteq authReq[r].rows /\ \A q \in AuthRequests : ~At(q, "inserted")

\* An UPDATE of every session has rows that are there, and rows stay.
Updating(r) == At(r, "revoking") \/ At(r, "changing") \/ At(r, "deactivating")
RowsThere == \A r \in AuthRequests : Updating(r) => authReq[r].rows \subseteq Visible

AuthInv ==
    /\ AuthTypeOK /\ RowLocked /\ InsertedPrivate /\ ExchangedInOrder
    /\ SnapshotComplete /\ RowsThere

\* What revocations and the clock do to the rows: none is added or removed, no
\* token changes, a revoked one stays so and no deadline moves away.
RowsKept ==
    /\ session' \in [Sessions -> SessionRow \cup {NoRow}]
    /\ Visible' = Visible
    /\ \A s \in Visible :
        /\ session'[s].token = session[s].token
        /\ session[s].revoked => session'[s].revoked
        /\ session'[s].absolute <= session[s].absolute

\* The invariant holds before the first login.
LEMMA InitAuth == AuthInit => AuthInv
  BY DEF AuthInit, AuthInv, AuthTypeOK, RowLocked, InsertedPrivate, ExchangedInOrder,
         SnapshotComplete, RowsThere, Updating, Refreshing, At, Visible

\* UPDATE ... SET revoked_at of some sessions.
LEMMA RevokeKeeps ==
    ASSUME AuthTypeOK, NEW S \in SUBSET Visible, session' = Revoke(S)
    PROVE  RowsKept
<1>1. \A s \in Sessions : session'[s] = IF s \in S THEN [session[s] EXCEPT !.revoked = TRUE] ELSE session[s]
  BY Zenon DEF Revoke
<1>2. \A s \in Visible : session[s] \in SessionRow
  BY Zenon DEF AuthTypeOK, Visible
<1>3. \A s \in S : /\ session'[s] \in SessionRow
                   /\ session'[s].token = session[s].token
                   /\ session'[s].absolute = session[s].absolute
                   /\ session'[s].revoked
  BY ZenonT(30), <1>1, <1>2 DEF SessionRow, Visible
<1>4. session' \in [Sessions -> SessionRow \cup {NoRow}]
  <2>1. \A s \in Sessions : session'[s] \in SessionRow \cup {NoRow}
    BY Zenon, <1>1, <1>3 DEF AuthTypeOK
  <2> QED BY Zenon, <2>1 DEF Revoke
<1>5. Visible' = Visible
  BY Zenon, <1>1, <1>3 DEF Visible
<1> QED BY <1>1, <1>2, <1>3, <1>4, <1>5 DEF RowsKept, Visible, SessionRow

\* The passing of time.
LEMMA TickKeeps == ASSUME AuthTypeOK, Tick PROVE RowsKept
<1>1. \A s \in Visible : session[s] \in SessionRow
  BY Zenon DEF AuthTypeOK, Visible
<1>2. \A s \in Visible :
        session'[s] = [session[s] EXCEPT !.idle = IF @ > 0 THEN @ - 1 ELSE 0,
                                         !.absolute = IF @ > 0 THEN @ - 1 ELSE 0]
  BY Zenon DEF Tick, Visible
<1>3. \A s \in Visible : /\ session'[s] \in SessionRow
                         /\ session'[s].token = session[s].token
                         /\ session'[s].revoked = session[s].revoked
                         /\ session'[s].absolute <= session[s].absolute
  <2> TAKE s \in Visible
  <2> DEFINE Less(x) == IF x > 0 THEN x - 1 ELSE 0
  <2>1. session[s].idle \in Nat /\ session[s].absolute \in Nat
    BY Zenon, <1>1 DEF SessionRow
  <2>2. Less(session[s].idle) \in Nat /\ Less(session[s].absolute) \in Nat
        /\ Less(session[s].absolute) <= session[s].absolute
    BY <2>1
  <2>3. session'[s] = [session[s] EXCEPT !.idle = Less(@), !.absolute = Less(@)]
    BY Zenon, <1>2
  <2> HIDE DEF Less
  <2> QED BY Zenon, <1>1, <2>2, <2>3 DEF SessionRow
<1>4. \A s \in Sessions \ Visible : session'[s] = NoRow
  BY Zenon DEF Tick
<1>5. Visible' = Visible
  BY Zenon, <1>3, <1>4 DEF Visible
<1>6. session' \in [Sessions -> SessionRow \cup {NoRow}]
  <2>1. \A s \in Sessions : session'[s] \in SessionRow \cup {NoRow}
    BY Zenon, <1>3, <1>4
  <2> QED BY Zenon, <2>1 DEF Tick
<1> QED BY Zenon, <1>3, <1>5, <1>6 DEF RowsKept

\* A step that keeps the rows, and ends at most one request with its locks,
\* keeps the invariant.
LEMMA KeptStep ==
    ASSUME AuthInv, RowsKept, exchanged' = exchanged, active' \in BOOLEAN, password' \in Nat,
           \/ UNCHANGED <<authReq, rowLock>>
           \/ \E r \in AuthRequests : Finish(r) /\ rowLock' = Unlock(r)
    PROVE  AuthInv'
<1>1. \A q \in AuthRequests : authReq'[q] # NoRow => authReq'[q] = authReq[q]
  BY Zenon DEF AuthInv, AuthTypeOK, Finish
<1>2. \A q \in AuthRequests, op \in STRING : At(q, op)' => At(q, op)
  BY Zenon, <1>1 DEF At
<1>3. AuthTypeOK'
  BY Zenon DEF AuthInv, AuthTypeOK, Finish, Unlock, RowsKept
<1>4. RowLocked'
  <2>1. CASE UNCHANGED <<authReq, rowLock>>
    BY ZenonT(30), <2>1 DEF AuthInv, RowLocked, Refreshing, At, RowsKept
  <2>2. ASSUME NEW r \in AuthRequests, Finish(r), rowLock' = Unlock(r)
        PROVE  RowLocked'
    <3>1. \A q \in AuthRequests : Refreshing(q)' => q # r /\ authReq'[q] = authReq[q] /\ Refreshing(q)
      BY Zenon, <1>1, <2>2 DEF Refreshing, At, Finish, AuthInv, AuthTypeOK
    <3>2. \A q \in AuthRequests \ {r} : authReq'[q] = authReq[q] /\ Refreshing(q)' = Refreshing(q)
      BY Zenon, <2>2 DEF Refreshing, At, Finish, AuthInv, AuthTypeOK
    <3>3. \A q \in AuthRequests : Refreshing(q) => authReq[q].row \in Sessions
      BY Zenon DEF AuthInv, RowLocked, Visible
    <3> QED BY <2>2, <3>1, <3>2, <3>3 DEF AuthInv, AuthTypeOK, RowLocked, Unlock, RowsKept
  <2> QED BY Zenon, <2>1, <2>2
<1>5. InsertedPrivate'
  BY <1>1, <1>2 DEF AuthInv, InsertedPrivate, RowsKept, At
<1>6. ExchangedInOrder'
  BY Zenon DEF AuthInv, ExchangedInOrder, RowsKept
<1>7. SnapshotComplete'
  BY Zenon, <1>1, <1>2 DEF AuthInv, SnapshotComplete, RowsKept, Unrevoked, At
<1>8. RowsThere'
  BY Zenon, <1>1, <1>2 DEF AuthInv, RowsThere, Updating, RowsKept, At
<1> QED BY Zenon, <1>3, <1>4, <1>5, <1>6, <1>7, <1>8 DEF AuthInv

\* A step of one request that writes neither rows nor locks, and is not a
\* refresh, keeps the invariant if its next state fits in.
LEMMA RequestStep ==
    ASSUME AuthInv, UNCHANGED <<active, password, session, exchanged, rowLock>>,
           NEW r \in AuthRequests, NEW x \in AuthRequest,
           authReq' = [authReq EXCEPT ![r] = x],
           ~Refreshing(r), x.op \notin {"refresh", "rotating"},
           x.op = "inserted" =>
               /\ x.row \notin Visible
               /\ \A q \in AuthRequests : ~(At(q, "inserted") /\ authReq[q].row = x.row)
               /\ \A q \in AuthRequests : ~At(q, "changing"),
           x.op \in {"revoking", "changing", "deactivating"} => x.rows = Unrevoked,
           x.op = "changing" => \A q \in AuthRequests : ~At(q, "inserted")
    PROVE  AuthInv'
<1>1. /\ authReq'[r] = x /\ x # NoRow
      /\ \A q \in AuthRequests \ {r} : authReq'[q] = authReq[q]
      /\ \A s \in Sessions : rowLock[s] # r
  BY DEF AuthInv, AuthTypeOK, RowLocked
<1>2. Visible' = Visible /\ Unrevoked' = Unrevoked /\ Unrevoked \subseteq Visible
  BY Zenon DEF Visible, Unrevoked
<1>3. AuthTypeOK'
  BY Zenon DEF AuthInv, AuthTypeOK
<1>4. RowLocked'
  BY <1>1, <1>2 DEF AuthInv, AuthTypeOK, RowLocked, Refreshing, At
<1>5. InsertedPrivate'
  BY <1>1, <1>2 DEF AuthInv, InsertedPrivate, At
<1>6. ExchangedInOrder'
  BY Zenon, <1>2 DEF AuthInv, ExchangedInOrder
<1>7. SnapshotComplete'
  BY Zenon, <1>1, <1>2 DEF AuthInv, SnapshotComplete, At
<1>8. RowsThere'
  BY Zenon, <1>1, <1>2 DEF AuthInv, RowsThere, Updating, At
<1> QED BY Zenon, <1>3, <1>4, <1>5, <1>6, <1>7, <1>8 DEF AuthInv

\* The three UPDATEs of every session commit when no row of theirs is locked.
LEMMA RevokeCommitStep ==
    ASSUME AuthInv, NEW r \in AuthRequests, Updating(r), RevokeCommit(r),
           active' \in BOOLEAN, password' \in Nat
    PROVE  AuthInv'
<1>1. authReq[r].rows \in SUBSET Visible
  BY Zenon DEF AuthInv, RowsThere
<1>2. RowsKept
  BY Zenon, <1>1, RevokeKeeps DEF AuthInv, RevokeCommit
<1>3. \A s \in Sessions : rowLock[s] # r
  BY DEF AuthInv, AuthTypeOK, RowLocked, Refreshing, Updating, At
<1>4. rowLock' = Unlock(r)
  BY Zenon, <1>3 DEF RevokeCommit, Unlock, AuthInv, AuthTypeOK
<1> QED BY Zenon, <1>2, <1>4, KeptStep DEF RevokeCommit

\* login: the row of the committed session was nobody else's.
LEMMA LoginCommitStep ==
    ASSUME AuthInv, NEW r \in AuthRequests, LoginCommit(r)
    PROVE  AuthInv'
<1> DEFINE s == authReq[r].row
           row == [revoked |-> FALSE, idle |-> NewIdle(AbsoluteTTL), absolute |-> AbsoluteTTL, token |-> 0]
<1>1. s \in Sessions /\ s \notin Visible
  BY Zenon DEF LoginCommit, At, AuthInv, AuthTypeOK, AuthRequest, InsertedPrivate
<1>2. row \in SessionRow /\ row.token = 0
  BY Zenon DEF SessionRow, NewIdle
<1> HIDE DEF row
<1>3. session' = [session EXCEPT ![s] = row]
  BY Zenon DEF LoginCommit, row
<1>4. Visible' = Visible \cup {s} /\ \A t \in Visible : session'[t] = session[t]
  BY <1>1, <1>2, <1>3 DEF AuthInv, AuthTypeOK, Visible
<1>5. session'[s] = row
  BY Zenon, <1>1, <1>3 DEF AuthInv, AuthTypeOK
<1>6. authReq'[r] = NoRow /\ \A q \in AuthRequests \ {r} : authReq'[q] = authReq[q]
  BY Zenon DEF LoginCommit, Finish, AuthInv, AuthTypeOK
<1>7. \A q \in AuthRequests : ~At(q, "changing")
  BY Zenon DEF LoginCommit, AuthInv, SnapshotComplete
<1>8. AuthTypeOK'
  <2>1. session' \in [Sessions -> SessionRow \cup {NoRow}]
    BY Zenon, <1>2, <1>3 DEF AuthInv, AuthTypeOK
  <2>2. /\ authReq' \in [AuthRequests -> AuthRequest \cup {NoRow}]
        /\ UNCHANGED <<active, password, exchanged, rowLock>>
    BY Zenon DEF LoginCommit, Finish, AuthInv, AuthTypeOK
  <2> QED BY Zenon, <2>1, <2>2 DEF AuthInv, AuthTypeOK
<1>9. RowLocked'
  <2>1. \A q \in AuthRequests : q # r => Refreshing(q)' = Refreshing(q)
    BY Zenon, <1>6 DEF Refreshing, At
  <2>2. ~Refreshing(r) /\ ~Refreshing(r)'
    BY Zenon, <1>6 DEF LoginCommit, Refreshing, At
  <2>3. rowLock' = rowLock /\ \A t \in Sessions : rowLock[t] # NoRow => rowLock[t] \in AuthRequests \ {r}
    BY <2>2 DEF LoginCommit, AuthInv, AuthTypeOK, RowLocked
  <2> QED BY <1>4, <1>6, <2>1, <2>2, <2>3 DEF AuthInv, RowLocked
<1>10. InsertedPrivate'
  BY <1>4, <1>6 DEF AuthInv, InsertedPrivate, At, LoginCommit
<1>11. ExchangedInOrder'
  BY Zenon, <1>1, <1>2, <1>4, <1>5 DEF AuthInv, ExchangedInOrder, LoginCommit
<1>12. SnapshotComplete'
  BY Zenon, <1>6, <1>7 DEF SnapshotComplete, At
<1>13. RowsThere'
  BY Zenon, <1>4, <1>6 DEF AuthInv, RowsThere, Updating, At
<1> QED BY Zenon, <1>8, <1>9, <1>10, <1>11, <1>12, <1>13 DEF AuthInv

\* refresh: the row moves on to the next version of its token, and keeps its
\* deadline.
LEMMA RefreshRotates ==
    ASSUME AuthInv, NEW r \in AuthRequests, RefreshCommit(r), NEW s, s = authReq[r].row
    PROVE  /\ s \in Visible /\ s \in Sessions /\ session[s] \in SessionRow
           /\ rowLock[s] = r /\ authReq[r].token = session[s].token
           /\ session' \in [Sessions -> SessionRow \cup {NoRow}]
           /\ session'[s] \in SessionRow
           /\ session'[s].token = session[s].token + 1
           /\ session'[s].revoked = session[s].revoked
           /\ session'[s].absolute = session[s].absolute
           /\ \A t \in Sessions \ {s} : session'[t] = session[t]
           /\ Visible' = Visible /\ Unrevoked' = Unrevoked
<1> DEFINE idle == NewIdle(session[s].absolute)
<1>1. s \in Visible /\ authReq[r].token = session[s].token /\ rowLock[s] = r
  BY Zenon DEF RefreshCommit, Refreshing, AuthInv, RowLocked
<1>2. session[s] \in SessionRow /\ s \in Sessions /\ idle \in Nat
  BY Zenon, <1>1 DEF Visible, AuthInv, AuthTypeOK, NewIdle, SessionRow
<1> HIDE DEF idle
<1>3. session' = [session EXCEPT ![s] = [session[s] EXCEPT !.token = session[s].token + 1, !.idle = idle]]
  BY Zenon, <1>1, <1>2 DEF RefreshCommit, AuthInv, AuthTypeOK, idle
<1>4. /\ session'[s] \in SessionRow
      /\ session'[s].token = session[s].token + 1
      /\ session'[s].revoked = session[s].revoked
      /\ session'[s].absolute = session[s].absolute
  <2>1. session'[s] = [session[s] EXCEPT !.token = session[s].token + 1, !.idle = idle]
    BY Zenon, <1>2, <1>3 DEF AuthInv, AuthTypeOK
  <2>2. session[s].token + 1 \in Nat
    BY <1>2 DEF SessionRow
  <2> QED BY Zenon, <1>2, <2>1, <2>2 DEF SessionRow
<1>5. \A t \in Sessions \ {s} : session'[t] = session[t]
  BY Zenon, <1>3 DEF AuthInv, AuthTypeOK
<1>6. Visible' = Visible /\ Unrevoked' = Unrevoked
  BY <1>1, <1>2, <1>4, <1>5 DEF Visible, Unrevoked
<1>7. session' \in [Sessions -> SessionRow \cup {NoRow}]
  BY Zenon, <1>2, <1>3, <1>4 DEF AuthInv, AuthTypeOK
<1> QED BY Zenon, <1>1, <1>2, <1>4, <1>5, <1>6, <1>7

\* refresh: the version exchanged is the current one.
LEMMA RefreshCommitStep ==
    ASSUME AuthInv, NEW r \in AuthRequests, RefreshCommit(r)
    PROVE  AuthInv'
<1> DEFINE s == authReq[r].row
<1>1. s \in Visible /\ authReq[r].token = session[s].token /\ rowLock[s] = r
  BY RefreshRotates
<1>2. session[s] \in SessionRow /\ s \in Sessions
  BY Zenon, RefreshRotates
<1>4. session'[s].token = session[s].token + 1
  BY Zenon, RefreshRotates
<1>5. \A t \in Sessions \ {s} : session'[t] = session[t]
  BY RefreshRotates
<1>6. Visible' = Visible /\ Unrevoked' = Unrevoked
  BY Zenon, RefreshRotates
<1>7. authReq'[r] = NoRow /\ \A q \in AuthRequests \ {r} : authReq'[q] = authReq[q]
  BY Zenon DEF RefreshCommit, Finish, AuthInv, AuthTypeOK
<1>8. AuthTypeOK'
  <2>1. session' \in [Sessions -> SessionRow \cup {NoRow}]
    BY Zenon, RefreshRotates
  <2>2. exchanged' \in [Sessions -> Seq(Nat)]
    BY <1>1, <1>2 DEF RefreshCommit, AuthInv, AuthTypeOK, SessionRow
  <2>3. rowLock' \in [Sessions -> AuthRequests \cup {NoRow}]
    BY Zenon DEF RefreshCommit, Unlock, AuthInv, AuthTypeOK
  <2>4. authReq' \in [AuthRequests -> AuthRequest \cup {NoRow}] /\ UNCHANGED <<active, password>>
    BY Zenon DEF RefreshCommit, Finish, AuthInv, AuthTypeOK
  <2> QED BY Zenon, <2>1, <2>2, <2>3, <2>4 DEF AuthInv, AuthTypeOK
<1>9. RowLocked'
  <2>1. \A q \in AuthRequests \ {r} : Refreshing(q)' = Refreshing(q)
    BY Zenon, <1>7 DEF Refreshing, At
  <2>2. ~Refreshing(r)'
    BY Zenon, <1>7 DEF Refreshing, At
  <2>3. \A t \in Sessions : rowLock'[t] = IF rowLock[t] = r THEN NoRow ELSE rowLock[t]
    BY Zenon DEF RefreshCommit, Unlock
  <2>4. \A q \in AuthRequests \ {r} : Refreshing(q) => authReq[q].row \in Sessions \ {s}
    BY Zenon, <1>1 DEF AuthInv, RowLocked, Visible
  <2> QED BY <1>5, <1>6, <1>7, <2>1, <2>2, <2>3, <2>4 DEF AuthInv, AuthTypeOK, RowLocked
<1>10. InsertedPrivate'
  BY Zenon, <1>6, <1>7 DEF AuthInv, InsertedPrivate, At
<1>11. ExchangedInOrder'
  <2>1. exchanged' = [exchanged EXCEPT ![s] = Append(@, authReq[r].token)]
    BY Zenon DEF RefreshCommit
  <2>2. exchanged[s] \in Seq(Nat) /\ exchanged'[s] = Append(exchanged[s], session[s].token)
    BY Zenon, <1>1, <1>2, <2>1 DEF AuthInv, AuthTypeOK
  <2>3. session[s].token \in Nat /\ Len(exchanged[s]) = session[s].token
    BY Zenon, <1>1, <1>2 DEF SessionRow, AuthInv, ExchangedInOrder
  <2>4. /\ Len(exchanged'[s]) = session'[s].token
        /\ \A i \in 1..Len(exchanged'[s]) : exchanged'[s][i] = i - 1
    <3>1. \A i \in 1..Len(exchanged[s]) : exchanged[s][i] = i - 1
      BY Zenon, <1>2 DEF AuthInv, ExchangedInOrder
    <3> DEFINE xs == exchanged[s]
               tok == session[s].token
    <3>2. xs \in Seq(Nat) /\ tok \in Nat /\ Len(xs) = tok /\ \A i \in 1..Len(xs) : xs[i] = i - 1
      BY Zenon, <2>2, <2>3, <3>1
    <3>3. exchanged'[s] = Append(xs, tok) /\ session'[s].token = tok + 1
      BY Zenon, <1>4, <2>2
    <3> HIDE DEF xs, tok
    <3>4. Len(Append(xs, tok)) = tok + 1 /\ \A i \in 1..Len(Append(xs, tok)) : Append(xs, tok)[i] = i - 1
      BY <3>2
    <3> QED BY Zenon, <3>3, <3>4
  <2>5. \A t \in Sessions \ {s} : exchanged'[t] = exchanged[t]
    BY Zenon, <2>1 DEF AuthInv, AuthTypeOK
  <2>6. \A t \in Sessions \ {s} :
          /\ Len(exchanged'[t]) = IF t \in Visible' THEN session'[t].token ELSE 0
          /\ \A i \in 1..Len(exchanged'[t]) : exchanged'[t][i] = i - 1
    BY <1>5, <1>6, <2>5 DEF AuthInv, ExchangedInOrder
  <2> QED BY Zenon, <1>1, <1>6, <2>4, <2>6 DEF ExchangedInOrder
<1>12. SnapshotComplete'
  BY Zenon, <1>6, <1>7 DEF AuthInv, SnapshotComplete, At
<1>13. RowsThere'
  BY Zenon, <1>6, <1>7 DEF AuthInv, RowsThere, Updating, At
<1> QED BY Zenon, <1>8, <1>9, <1>10, <1>11, <1>12, <1>13 DEF AuthInv

\* refresh: FOR UPDATE on the session row.
LEMMA RefreshLockStep ==
    ASSUME AuthInv, NEW r \in AuthRequests, NEW s \in Sessions, NEW n \in 0..MaxToken,
           RefreshLock(r, s, n)
    PROVE  AuthInv'
<1> DEFINE x == [op |-> "refresh", row |-> s, token |-> n]
<1>1. x \in AuthRequest /\ x # NoRow /\ x.op = "refresh" /\ x.row = s /\ x.token = n
  BY DEF AuthRequest
<1> HIDE DEF x
<1>2. /\ authReq'[r] = x
      /\ \A q \in AuthRequests \ {r} : authReq'[q] = authReq[q]
      /\ authReq' \in [AuthRequests -> AuthRequest \cup {NoRow}]
  BY Zenon, <1>1 DEF RefreshLock, x, AuthInv, AuthTypeOK
<1>3. /\ s \in Visible /\ session[s].token = n /\ authReq[r] = NoRow /\ rowLock[s] = NoRow
      /\ rowLock' = [rowLock EXCEPT ![s] = r]
      /\ UNCHANGED <<active, password, session, exchanged>>
  BY Zenon DEF RefreshLock, assert_active_session, Unrevoked
<1>4. Visible' = Visible /\ Unrevoked' = Unrevoked
  BY Zenon, <1>3 DEF Visible, Unrevoked
<1>5. AuthTypeOK'
  BY Zenon, <1>2, <1>3 DEF AuthInv, AuthTypeOK
<1>6. RowLocked'
  <2>1. Refreshing(r)' /\ \A q \in AuthRequests \ {r} : Refreshing(q)' = Refreshing(q)
    BY Zenon, <1>1, <1>2 DEF Refreshing, At
  <2>2. rowLock'[s] = r /\ \A t \in Sessions \ {s} : rowLock'[t] = rowLock[t]
    BY Zenon, <1>3 DEF AuthInv, AuthTypeOK
  <2>3. \A t \in Sessions : rowLock[t] # NoRow => rowLock[t] \in AuthRequests \ {r}
    BY <1>3 DEF AuthInv, AuthTypeOK, RowLocked, Refreshing, At
  <2>4. \A q \in AuthRequests \ {r} : Refreshing(q) => authReq[q].row \in Sessions \ {s}
    BY <1>3 DEF AuthInv, RowLocked, Visible
  <2> QED BY <1>1, <1>2, <1>3, <1>4, <2>1, <2>2, <2>3, <2>4 DEF AuthInv, RowLocked
<1>7. InsertedPrivate'
  BY Zenon, <1>1, <1>2, <1>4 DEF AuthInv, InsertedPrivate, At
<1>8. ExchangedInOrder'
  BY Zenon, <1>3, <1>4 DEF AuthInv, ExchangedInOrder
<1>9. SnapshotComplete'
  BY Zenon, <1>1, <1>2, <1>4 DEF AuthInv, SnapshotComplete, At
<1>10. RowsThere'
  BY Zenon, <1>1, <1>2, <1>4 DEF AuthInv, RowsThere, Updating, At
<1> QED BY Zenon, <1>5, <1>6, <1>7, <1>8, <1>9, <1>10 DEF AuthInv

\* refresh: the user is read, the lock is still held.
LEMMA RefreshReadStep ==
    ASSUME AuthInv, NEW r \in AuthRequests, RefreshRead(r)
    PROVE  AuthInv'
<1> DEFINE x == [authReq[r] EXCEPT !.op = "rotating"]
<1>1. authReq[r] \in [op : {"refresh", "rotating"}, row : Sessions, token : Nat]
  BY Zenon DEF RefreshRead, At, AuthInv, AuthTypeOK, AuthRequest
<1>2. /\ x \in AuthRequest /\ x # NoRow /\ x.op = "rotating"
      /\ x.row = authReq[r].row /\ x.token = authReq[r].token
  BY Zenon, <1>1 DEF AuthRequest
<1>3. authReq' = [authReq EXCEPT ![r] = x]
  BY Zenon DEF RefreshRead
<1> HIDE DEF x
<1>4. /\ authReq'[r] = x
      /\ \A q \in AuthRequests \ {r} : authReq'[q] = authReq[q]
      /\ authReq' \in [AuthRequests -> AuthRequest \cup {NoRow}]
  BY Zenon, <1>2, <1>3 DEF AuthInv, AuthTypeOK
<1>5. Refreshing(r) /\ UNCHANGED <<active, password, session, exchanged, rowLock>>
  BY Zenon DEF RefreshRead, Refreshing
<1>6. Visible' = Visible /\ Unrevoked' = Unrevoked
  BY Zenon, <1>5 DEF Visible, Unrevoked
<1>7. AuthTypeOK'
  BY Zenon, <1>4, <1>5 DEF AuthInv, AuthTypeOK
<1>8. RowLocked'
  <2>1. Refreshing(r)' /\ \A q \in AuthRequests \ {r} : Refreshing(q)' = Refreshing(q)
    BY Zenon, <1>2, <1>4 DEF Refreshing, At
  <2>2. \A q \in AuthRequests : authReq'[q].row = authReq[q].row /\ authReq'[q].token = authReq[q].token
    BY Zenon, <1>2, <1>4
  <2>3. \A t \in Sessions : rowLock[t] # NoRow => rowLock[t] \in AuthRequests
    BY Zenon DEF AuthInv, AuthTypeOK
  <2> QED BY <1>5, <1>6, <2>1, <2>2, <2>3 DEF AuthInv, RowLocked
<1>9. InsertedPrivate'
  BY <1>2, <1>4, <1>6 DEF AuthInv, InsertedPrivate, At
<1>10. ExchangedInOrder'
  BY Zenon, <1>5, <1>6 DEF AuthInv, ExchangedInOrder
<1>11. SnapshotComplete'
  BY Zenon, <1>2, <1>4, <1>6 DEF AuthInv, SnapshotComplete, At
<1>12. RowsThere'
  BY Zenon, <1>2, <1>4, <1>6 DEF AuthInv, RowsThere, Updating, At
<1> QED BY <1>7, <1>8, <1>9, <1>10, <1>11, <1>12 DEF AuthInv

\* Every step of a request keeps it.
LEMMA AuthInductive == AuthInv /\ [AuthNext]_authVars => AuthInv'
<1> SUFFICES ASSUME AuthInv, [AuthNext]_authVars PROVE AuthInv'
  BY Zenon
<1>1. ASSUME NEW r \in AuthRequests, LoginRead(r) PROVE AuthInv'
  <2>1. [op |-> "login"] \in AuthRequest
    BY Zenon, <1>1 DEF AuthRequest
  <2> QED BY Zenon, <1>1, <2>1, RequestStep DEF LoginRead, Refreshing, At
<1>2. ASSUME NEW r \in AuthRequests, NEW s \in Sessions, LoginInsert(r, s) PROVE AuthInv'
  <2>1. [op |-> "inserted", row |-> s] \in AuthRequest
    BY Zenon DEF AuthRequest
  <2> QED BY Zenon, <1>2, <2>1, RequestStep DEF LoginInsert, Refreshing, At
<1>3. ASSUME NEW r \in AuthRequests, LoginCommit(r) PROVE AuthInv'
  BY Zenon, <1>3, LoginCommitStep
<1>4. ASSUME NEW r \in AuthRequests, NEW s \in Sessions, NEW n \in 0..MaxToken, RefreshLock(r, s, n)
      PROVE  AuthInv'
  BY Zenon, <1>4, RefreshLockStep
<1>5. ASSUME NEW r \in AuthRequests, RefreshRead(r) PROVE AuthInv'
  BY Zenon, <1>5, RefreshReadStep
<1>6. ASSUME NEW r \in AuthRequests, RefreshRefused(r) PROVE AuthInv'
  <2>1. {authReq[r].row} \in SUBSET Visible
    BY Zenon, <1>6 DEF RefreshRefused, AuthInv, RowLocked, Refreshing
  <2>2. RowsKept
    BY Zenon, <1>6, <2>1, RevokeKeeps DEF RefreshRefused, AuthInv
  <2> QED BY Zenon, <1>6, <2>2, KeptStep DEF RefreshRefused, AuthInv, AuthTypeOK
<1>7. ASSUME NEW r \in AuthRequests, RefreshCommit(r) PROVE AuthInv'
  BY <1>7, RefreshCommitStep
<1>8. ASSUME NEW r \in AuthRequests, RevokeAllStart(r) PROVE AuthInv'
  <2>1. [op |-> "revoking", rows |-> Unrevoked] \in AuthRequest
    BY Zenon, <1>8 DEF AuthRequest, Unrevoked, Visible
  <2> QED BY Zenon, <1>8, <2>1, RequestStep DEF RevokeAllStart, Refreshing, At
<1>9. ASSUME NEW r \in AuthRequests, RevokeAllCommit(r) PROVE AuthInv'
  BY Zenon, <1>9, RevokeCommitStep DEF RevokeAllCommit, Updating, AuthInv, AuthTypeOK
<1>10. ASSUME NEW r \in AuthRequests, ChangeAuthenticate(r) PROVE AuthInv'
  <2>1. [op |-> "change", password |-> password] \in AuthRequest
    BY Zenon, <1>10 DEF AuthRequest, AuthInv, AuthTypeOK
  <2> QED BY Zenon, <1>10, <2>1, RequestStep DEF ChangeAuthenticate, Refreshing, At
<1>11. ASSUME NEW r \in AuthRequests, ChangeStart(r) PROVE AuthInv'
  <2>1. authReq[r].password \in Nat
    BY Zenon, <1>11 DEF ChangeStart, At, AuthInv, AuthTypeOK, AuthRequest
  <2>2. [op |-> "changing", password |-> authReq[r].password, rows |-> Unrevoked] \in AuthRequest
    BY Zenon, <2>1 DEF AuthRequest, Unrevoked, Visible
  <2> QED BY Zenon, <1>11, <2>2, RequestStep DEF ChangeStart, Refreshing, At
<1>12. ASSUME NEW r \in AuthRequests, ChangeCommit(r) PROVE AuthInv'
  BY <1>12, RevokeCommitStep DEF ChangeCommit, Updating, AuthInv, AuthTypeOK
<1>13. ASSUME NEW r \in AuthRequests, DeactivateStart(r) PROVE AuthInv'
  <2>1. [op |-> "deactivating", rows |-> Unrevoked] \in AuthRequest
    BY Zenon, <1>13 DEF AuthRequest, Unrevoked, Visible
  <2> QED BY Zenon, <1>13, <2>1, RequestStep DEF DeactivateStart, Refreshing, At
<1>14. ASSUME NEW r \in AuthRequests, DeactivateCommit(r) PROVE AuthInv'
  BY Zenon, <1>14, RevokeCommitStep DEF DeactivateCommit, Updating, AuthInv, AuthTypeOK
<1>15. ASSUME NEW s \in Sessions, logout(s) \/ revoke_session(s) \/ \E n \in 0..MaxToken : RefreshReplay(s, n)
       PROVE  AuthInv'
  <2>1. {s} \in SUBSET Visible /\ session' = Revoke({s})
    BY Zenon, <1>15 DEF logout, revoke_session, RefreshReplay, assert_active_session, Unrevoked
  <2>2. RowsKept
    BY Zenon, <2>1, RevokeKeeps DEF AuthInv
  <2> QED BY Zenon, <1>15, <2>2, KeptStep DEF logout, revoke_session, RefreshReplay, AuthInv, AuthTypeOK
<1>16. CASE Reactivate
  <2>1. RowsKept
    BY <1>16 DEF Reactivate, RowsKept, AuthInv, AuthTypeOK, Visible, SessionRow
  <2> QED BY Zenon, <1>16, <2>1, KeptStep DEF Reactivate, AuthInv, AuthTypeOK
<1>17. CASE Tick
  BY Zenon, <1>17, TickKeeps, KeptStep DEF Tick, AuthInv, AuthTypeOK
<1>18. CASE UNCHANGED authVars
  <2>1. AuthTypeOK'
    BY Zenon, <1>18 DEF authVars, AuthInv, AuthTypeOK
  <2>2. RowLocked'
    BY Zenon, <1>18 DEF authVars, AuthInv, RowLocked, Refreshing, At, Visible
  <2>3. InsertedPrivate'
    BY Zenon, <1>18 DEF authVars, AuthInv, InsertedPrivate, At, Visible
  <2>4. ExchangedInOrder'
    BY Zenon, <1>18 DEF authVars, AuthInv, ExchangedInOrder, Visible
  <2>5. SnapshotComplete'
    BY Zenon, <1>18 DEF authVars, AuthInv, SnapshotComplete, RowsThere, Updating, At, Visible, Unrevoked
  <2>6. RowsThere'
    BY Zenon, <1>18 DEF authVars, AuthInv, RowsThere, Updating, Refreshing, At, Visible, Unrevoked
  <2> QED BY Zenon, <2>1, <2>2, <2>3, <2>4, <2>5, <2>6 DEF AuthInv
<1> QED BY Zenon, <1>1, <1>2, <1>3, <1>4, <1>5, <1>6, <1>7, <1>8, <1>9, <1>10, <1>11, <1>12, <1>13, <1>14, <1>15,
           <1>16, <1>17, <1>18 DEF AuthNext

\* refresh and _get_valid_refresh_session: for any number of requests and any
\* interleaving, no refresh token is exchanged for a new pair twice.
THEOREM NoTokenExchangedTwice == AuthSpec => []TokenExchangedOnce
<1>1. AuthInv => TokenExchangedOnce
  <2> SUFFICES ASSUME AuthInv, NEW s \in Sessions, NEW i \in DOMAIN exchanged[s],
                      NEW j \in DOMAIN exchanged[s], exchanged[s][i] = exchanged[s][j]
               PROVE  i = j
    BY Zenon DEF TokenExchangedOnce
  <2>1. DOMAIN exchanged[s] = 1..Len(exchanged[s]) /\ Len(exchanged[s]) \in Nat
    BY DEF AuthInv, AuthTypeOK
  <2>2. exchanged[s][i] = i - 1 /\ exchanged[s][j] = j - 1
    BY Zenon, <2>1 DEF AuthInv, ExchangedInOrder
  <2>3. i \in Nat /\ j \in Nat
    BY <2>1
  <2>4. i - 1 = j - 1
    BY Zenon, <2>2
  <2> QED BY <2>3, <2>4
<1> QED BY InitAuth, AuthInductive, <1>1, PTL DEF AuthSpec

\* change_password: the step that commits a new password leaves no session of
\* the account unrevoked, whatever logins and refreshes are in flight.
THEOREM PasswordChangeRevokesAll == AuthSpec => PasswordChangeEndsSessions
<1> DEFINE A == password' # password => \A s \in Visible : session'[s].revoked
<1>1. AuthInv /\ [AuthNext]_authVars => [A]_authVars
  <2> SUFFICES ASSUME AuthInv, AuthNext, password' # password, NEW s \in Visible
               PROVE  session'[s].revoked
    BY Zenon DEF authVars
  <2>1. PICK r \in AuthRequests : ChangeCommit(r)
    BY Zenon DEF AuthNext, LoginRead, LoginInsert, LoginCommit, RefreshLock, RefreshRead, RefreshRefused, RefreshCommit,
           RevokeAllStart, RevokeAllCommit, ChangeAuthenticate, ChangeStart, DeactivateStart, DeactivateCommit,
           logout, revoke_session, RefreshReplay, Reactivate, Tick
  <2>2. session[s] \in SessionRow /\ s \in Sessions
    BY Zenon DEF Visible, AuthInv, AuthTypeOK
  <2>3. session[s].revoked \/ s \in authReq[r].rows
    BY Zenon, <2>1 DEF ChangeCommit, AuthInv, SnapshotComplete, Unrevoked
  <2>4. session'[s] = IF s \in authReq[r].rows THEN [session[s] EXCEPT !.revoked = TRUE] ELSE session[s]
    BY Zenon, <2>1, <2>2 DEF ChangeCommit, RevokeCommit, Revoke
  <2> QED BY Zenon, <2>2, <2>3, <2>4 DEF SessionRow
<1> QED BY InitAuth, AuthInductive, <1>1, PTL DEF AuthSpec, PasswordChangeEndsSessions

\* What the steps do to the session rows.
LEMMA AuthEffects ==
    ASSUME AuthInv, [AuthNext]_authVars
    PROVE  \/ \E r \in AuthRequests : LoginCommit(r) \/ RefreshCommit(r)
           \/ RowsKept
           \/ session' = session
<1>1. ASSUME NEW r \in AuthRequests, RevokeAllCommit(r) \/ ChangeCommit(r) \/ DeactivateCommit(r)
      PROVE  RowsKept
  <2>1. authReq[r].rows \in SUBSET Visible
    BY Zenon, <1>1 DEF RevokeAllCommit, ChangeCommit, DeactivateCommit, AuthInv, RowsThere, Updating
  <2> QED BY Zenon, <1>1, <2>1, RevokeKeeps
          DEF RevokeAllCommit, ChangeCommit, DeactivateCommit, RevokeCommit, AuthInv
<1>2. ASSUME NEW r \in AuthRequests, RefreshRefused(r) PROVE RowsKept
  <2>1. {authReq[r].row} \in SUBSET Visible
    BY Zenon, <1>2 DEF RefreshRefused, AuthInv, RowLocked, Refreshing
  <2> QED BY Zenon, <1>2, <2>1, RevokeKeeps DEF RefreshRefused, AuthInv
<1>3. ASSUME NEW s \in Sessions, logout(s) \/ revoke_session(s) \/ \E n \in 0..MaxToken : RefreshReplay(s, n)
      PROVE  RowsKept
  <2>1. {s} \in SUBSET Visible /\ session' = Revoke({s})
    BY Zenon, <1>3 DEF logout, revoke_session, RefreshReplay, assert_active_session, Unrevoked
  <2> QED BY Zenon, <2>1, RevokeKeeps DEF AuthInv
<1>4. CASE Tick
  BY Zenon, <1>4, TickKeeps DEF AuthInv
<1>5. CASE Reactivate \/ UNCHANGED authVars
  BY Zenon, <1>5 DEF Reactivate, authVars
<1> QED BY Zenon, <1>1, <1>2, <1>3, <1>4, <1>5
        DEF AuthNext, LoginRead, LoginInsert, RefreshLock, RefreshRead, RevokeAllStart, ChangeAuthenticate,
            ChangeStart, DeactivateStart

\* A step that keeps the rows ends some of the live sessions.
LEMMA KeptLife ==
    ASSUME AuthTypeOK, RowsKept
    PROVE  \E S \in SUBSET Sessions : Abstract!End(S)
<1> DEFINE S == {s \in Sessions : Life[s] = "live" /\ Life'[s] # "live"}
<1>1. \A s \in S : Life[s] = "live"
  BY Zenon
<1>2. \A s \in Sessions : Life'[s] = IF s \in S THEN "ended" ELSE Life[s]
  <2> TAKE s \in Sessions
  <2>1. CASE s \notin Visible
    BY Zenon, <2>1 DEF RowsKept, Visible, Unrevoked, Life
  <2>2. CASE s \in Visible
    <3>1. session[s] \in SessionRow /\ session'[s] \in SessionRow /\ session'[s] # NoRow /\ session[s] # NoRow
      BY Zenon, <2>2 DEF AuthTypeOK, RowsKept, Visible
    <3>2. s \in Unrevoked' => s \in Unrevoked
      BY Zenon, <2>2 DEF RowsKept, Unrevoked
    <3>3. session'[s].absolute > 0 => session[s].absolute > 0
      BY <2>2, <3>1 DEF RowsKept, SessionRow
    <3> QED BY Zenon, <3>1, <3>2, <3>3 DEF Life
  <2> QED BY Zenon, <2>1, <2>2
<1>3. Life' = [s \in Sessions |-> IF s \in S THEN "ended" ELSE Life[s]]
  BY Zenon, <1>2 DEF Life
<1> HIDE DEF S
<1>4. S \in SUBSET Sessions
  BY Zenon DEF S
<1> QED BY Zenon, <1>1, <1>3, <1>4 DEF Abstract!End

\* A step that writes neither the deadline nor the revocation of a row.
LEMMA SameLife ==
    ASSUME Visible' = Visible,
           \A s \in Visible : session'[s].revoked = session[s].revoked /\ session'[s].absolute = session[s].absolute
    PROVE  Life' = Life
<1>1. \A s \in Sessions : /\ (session'[s] = NoRow) = (session[s] = NoRow)
                          /\ (s \in Unrevoked') = (s \in Unrevoked)
  BY Zenon DEF Visible, Unrevoked
<1>2. \A s \in Sessions : s \in Unrevoked => session'[s].absolute = session[s].absolute
  BY Zenon DEF Unrevoked
<1> QED BY <1>1, <1>2 DEF Life

\* The sessions of an account implement SessionLife: each is opened once and
\* ends once, by revocation or at its deadline, and no handler revives it.
THEOREM SessionsImplementLife == AuthSpec => ImplementsSessionLife
<1>1. AuthInit => Abstract!LifeInit
  BY Zenon DEF AuthInit, Abstract!LifeInit, Life, Unrevoked, Visible
<1>2. AuthInv /\ [AuthNext]_authVars => [Abstract!LifeNext]_Life
  <2> SUFFICES ASSUME AuthInv, [AuthNext]_authVars PROVE Abstract!LifeNext \/ Life' = Life
    BY Zenon
  <2>1. ASSUME NEW r \in AuthRequests, LoginCommit(r) PROVE Abstract!LifeNext
    <3> DEFINE s == authReq[r].row
               row == [revoked |-> FALSE, idle |-> NewIdle(AbsoluteTTL), absolute |-> AbsoluteTTL, token |-> 0]
    <3>1. s \in Sessions /\ session[s] = NoRow
      BY Zenon, <2>1 DEF LoginCommit, At, AuthInv, AuthTypeOK, AuthRequest, InsertedPrivate, Visible
    <3>2. row \in SessionRow /\ row.absolute > 0 /\ ~row.revoked
      BY DEF SessionRow, NewIdle
    <3>3. session' = [session EXCEPT ![s] = row]
      BY Zenon, <2>1 DEF LoginCommit
    <3> HIDE DEF row
    <3>4. session'[s] = row /\ \A t \in Sessions \ {s} : session'[t] = session[t]
      BY Zenon, <3>1, <3>3 DEF AuthInv, AuthTypeOK
    <3>5. Life[s] = "none" /\ Life'[s] = "live"
      BY Zenon, <3>1, <3>2, <3>4 DEF Life, Unrevoked, Visible
    <3>6. \A t \in Sessions \ {s} : Life'[t] = Life[t]
      BY Zenon, <3>4 DEF Life, Unrevoked, Visible
    <3>7. Life' = [Life EXCEPT ![s] = "live"]
      BY <3>5, <3>6 DEF Life
    <3> QED BY Zenon, <3>1, <3>5, <3>7 DEF Abstract!LifeNext, Abstract!Open
  <2>2. CASE RowsKept
    BY Zenon, <2>2, KeptLife DEF AuthInv, Abstract!LifeNext
  <2>3. CASE session' = session
    BY Zenon, <2>3, SameLife DEF Visible
  <2>4. ASSUME NEW r \in AuthRequests, RefreshCommit(r) PROVE Life' = Life
    <3>1. \A t \in Visible : session'[t].revoked = session[t].revoked /\ session'[t].absolute = session[t].absolute
      BY Zenon, <2>4, RefreshRotates DEF Visible
    <3> QED BY Zenon, <2>4, <3>1, RefreshRotates, SameLife
  <2> QED BY Zenon, <2>1, <2>2, <2>3, <2>4, AuthEffects
<1> QED BY InitAuth, AuthInductive, <1>1, <1>2, PTL DEF AuthSpec, ImplementsSessionLife, Abstract!LifeSpec
=============================================================================
