----------------------------- MODULE AuthSession -----------------------------
(***************************************************************************)
(* The sessions of one account: login, refresh with rotation and replay     *)
(* detection, logout, revocation, password change and deactivation, from    *)
(* backend/app/services/auth_service.py and admin_service.py.               *)
(*                                                                          *)
(* A handler is split where another transaction can come between its        *)
(* statements: an unlocked read and the write that relies on it, a row lock *)
(* and the commit, an UPDATE's snapshot and its commit (READ COMMITTED: a   *)
(* row committed after the snapshot escapes the UPDATE).  Inserting a       *)
(* session takes the FOR KEY SHARE lock of its user row, which FOR UPDATE   *)
(* excludes and the update of other columns does not.                       *)
(***************************************************************************)
EXTENDS Naturals, Sequences

CONSTANTS
    Sessions, AuthRequests,
    IdleTTL, AbsoluteTTL,   \* refresh_ttl_days, session_absolute_ttl_days, in ticks
    MaxToken, MaxPassword,  \* bounds on rotations and password changes
    NoRow

\* A user_sessions row: what is left of its idle and absolute lifetimes, and the
\* version of refresh_token_hash.
SessionRow == [revoked : BOOLEAN, idle : Nat, absolute : Nat, token : Nat]

\* What a request in flight has read.
AuthRequest ==
    [op : {"login"}] \cup [op : {"inserted"}, row : Sessions]
    \cup [op : {"refresh", "rotating"}, row : Sessions, token : Nat]
    \cup [op : {"revoking", "deactivating"}, rows : SUBSET Sessions]
    \cup [op : {"change"}, password : Nat]
    \cup [op : {"changing"}, password : Nat, rows : SUBSET Sessions]

ASSUME AuthConstants ==
    /\ IdleTTL \in Nat \ {0} /\ AbsoluteTTL \in Nat \ {0}
    /\ MaxToken \in Nat /\ MaxPassword \in Nat
    /\ NoRow \notin AuthRequests /\ NoRow \notin SessionRow /\ NoRow \notin AuthRequest

VARIABLES
    active,     \* User.is_active
    password,   \* User.password_hash, as a version
    session,    \* UserSession rows
    exchanged,  \* history: the tokens of each session answered with a new pair
    rowLock,    \* the refresh holding each session row FOR UPDATE
    authReq     \* what each request in flight has got to

authVars == <<active, password, session, exchanged, rowLock, authReq>>

AuthInit ==
    /\ active = TRUE
    /\ password = 0
    /\ session = [s \in Sessions |-> NoRow]
    /\ exchanged = [s \in Sessions |-> <<>>]
    /\ rowLock = [s \in Sessions |-> NoRow]
    /\ authReq = [r \in AuthRequests |-> NoRow]

At(r, op) == authReq[r] # NoRow /\ authReq[r].op = op
Finish(r) == authReq' = [authReq EXCEPT ![r] = NoRow]

Visible == {s \in Sessions : session[s] # NoRow}
Unrevoked == {s \in Visible : ~session[s].revoked}

\* _assert_active_session
assert_active_session(s) ==
    s \in Unrevoked /\ session[s].idle > 0 /\ session[s].absolute > 0

Revoke(S) == [s \in Sessions |-> IF s \in S THEN [session[s] EXCEPT !.revoked = TRUE] ELSE session[s]]

\* A transaction that has written the user row holds it until its commit.
UserRowFree == \A r \in AuthRequests : ~At(r, "changing") /\ ~At(r, "deactivating")

-----------------------------------------------------------------------------
(* login *)

\* The user is read without a lock, the password verified.
LoginRead(r) ==
    /\ authReq[r] = NoRow
    /\ active
    /\ authReq' = [authReq EXCEPT ![r] = [op |-> "login"]]
    /\ UNCHANGED <<active, password, session, exchanged, rowLock>>

\* The flush: the row is there for this transaction only, the user row shared.
LoginInsert(r, s) ==
    /\ At(r, "login")
    /\ s \notin Visible
    /\ \A q \in AuthRequests : ~(At(q, "inserted") /\ authReq[q].row = s)
    /\ \A q \in AuthRequests : ~At(q, "changing")
    /\ authReq' = [authReq EXCEPT ![r] = [op |-> "inserted", row |-> s]]
    /\ UNCHANGED <<active, password, session, exchanged, rowLock>>

\* min(now + refresh_ttl, absolute_expires_at)
NewIdle(absolute) == IF IdleTTL < absolute THEN IdleTTL ELSE absolute

LoginCommit(r) ==
    /\ At(r, "inserted")
    /\ session' = [session EXCEPT ![authReq[r].row] =
          [revoked |-> FALSE, idle |-> NewIdle(AbsoluteTTL), absolute |-> AbsoluteTTL, token |-> 0]]
    /\ Finish(r)
    /\ UNCHANGED <<active, password, exchanged, rowLock>>

-----------------------------------------------------------------------------
(* refresh and logout: _get_valid_refresh_session with lock=True.  A client *)
(* may present any token it was ever given.                                 *)

\* Mutant of RefreshLock: the row is read without FOR UPDATE.
RefreshLockNone(r, s, n) ==
    /\ authReq[r] = NoRow
    /\ assert_active_session(s)
    /\ n = session[s].token /\ n < MaxToken
    /\ authReq' = [authReq EXCEPT ![r] = [op |-> "refresh", row |-> s, token |-> n]]
    /\ UNCHANGED <<active, password, session, exchanged, rowLock>>

\* The presented token is the current one.
RefreshLock(r, s, n) ==
    /\ authReq[r] = NoRow
    /\ rowLock[s] = NoRow
    /\ assert_active_session(s)
    /\ n = session[s].token /\ n < MaxToken
    /\ rowLock' = [rowLock EXCEPT ![s] = r]
    /\ authReq' = [authReq EXCEPT ![r] = [op |-> "refresh", row |-> s, token |-> n]]
    /\ UNCHANGED <<active, password, session, exchanged>>

\* It is not: the session is revoked and the replay recorded.
RefreshReplay(s, n) ==
    /\ rowLock[s] = NoRow
    /\ assert_active_session(s)
    /\ n < session[s].token
    /\ session' = Revoke({s})
    /\ UNCHANGED <<active, password, exchanged, rowLock, authReq>>

Unlock(r) == [s \in Sessions |-> IF rowLock[s] = r THEN NoRow ELSE rowLock[s]]

\* The plain read of the user ...
RefreshRead(r) ==
    /\ At(r, "refresh")
    /\ active
    /\ authReq' = [authReq EXCEPT ![r].op = "rotating"]
    /\ UNCHANGED <<active, password, session, exchanged, rowLock>>

\* ... which finds the account deactivated.
RefreshRefused(r) ==
    /\ At(r, "refresh")
    /\ ~active
    /\ session' = Revoke({authReq[r].row})
    /\ rowLock' = Unlock(r)
    /\ Finish(r)
    /\ UNCHANGED <<active, password, exchanged>>

\* Mutant of RefreshCommit: the absolute deadline slides too.
RefreshCommitSliding(r) ==
    LET s == authReq[r].row IN
    /\ At(r, "rotating")
    /\ session' = [session EXCEPT ![s].token = @ + 1, ![s].idle = IdleTTL, ![s].absolute = AbsoluteTTL]
    /\ exchanged' = [exchanged EXCEPT ![s] = Append(@, authReq[r].token)]
    /\ rowLock' = Unlock(r)
    /\ Finish(r)
    /\ UNCHANGED <<active, password>>

\* Rotation: the idle lifetime slides, the absolute one does not.
RefreshCommit(r) ==
    LET s == authReq[r].row IN
    /\ At(r, "rotating")
    /\ session' = [session EXCEPT ![s].token = @ + 1, ![s].idle = NewIdle(session[s].absolute)]
    /\ exchanged' = [exchanged EXCEPT ![s] = Append(@, authReq[r].token)]
    /\ rowLock' = Unlock(r)
    /\ Finish(r)
    /\ UNCHANGED <<active, password>>

\* With the current token or, as a replay, an older one.
logout(s) ==
    /\ rowLock[s] = NoRow
    /\ assert_active_session(s)
    /\ session' = Revoke({s})
    /\ UNCHANGED <<active, password, exchanged, rowLock, authReq>>

\* The row is read unlocked, its update waits for the lock.
revoke_session(s) ==
    /\ s \in Unrevoked
    /\ rowLock[s] = NoRow
    /\ session' = Revoke({s})
    /\ UNCHANGED <<active, password, exchanged, rowLock, authReq>>

-----------------------------------------------------------------------------
(* UPDATE user_sessions SET revoked_at of every session of the user: it has *)
(* the rows of its snapshot, waits for the locked ones and commits.         *)

RevokeCommit(r) ==
    /\ \A s \in authReq[r].rows : rowLock[s] = NoRow
    /\ session' = Revoke(authReq[r].rows)
    /\ Finish(r)
    /\ UNCHANGED <<exchanged, rowLock>>

\* logout_all, and revoke_user_sessions by a superadmin.
RevokeAllStart(r) ==
    /\ authReq[r] = NoRow
    /\ authReq' = [authReq EXCEPT ![r] = [op |-> "revoking", rows |-> Unrevoked]]
    /\ UNCHANGED <<active, password, session, exchanged, rowLock>>

RevokeAllCommit(r) ==
    /\ At(r, "revoking")
    /\ RevokeCommit(r)
    /\ UNCHANGED <<active, password>>

\* The password request authenticates: its database session now holds the user
\* as loaded here.
ChangeAuthenticate(r) ==
    /\ authReq[r] = NoRow
    /\ active
    /\ \E s \in Sessions : assert_active_session(s)
    /\ authReq' = [authReq EXCEPT ![r] = [op |-> "change", password |-> password]]
    /\ UNCHANGED <<active, password, session, exchanged, rowLock>>

\* Mutant of ChangeStart: the user row is not taken FOR UPDATE.
ChangeStartUnlocked(r) ==
    /\ At(r, "change")
    /\ password < MaxPassword
    /\ authReq' = [authReq EXCEPT ![r] = [op |-> "changing", password |-> authReq[r].password, rows |-> Unrevoked]]
    /\ UNCHANGED <<active, password, session, exchanged, rowLock>>

\* The user row FOR UPDATE.  The object is not refreshed by it: the submitted
\* password is verified against the hash loaded before.  Then the UPDATE.
ChangeStart(r) ==
    /\ At(r, "change")
    /\ password < MaxPassword
    /\ UserRowFree
    /\ \A q \in AuthRequests : ~At(q, "inserted")
    /\ authReq' = [authReq EXCEPT ![r] = [op |-> "changing", password |-> authReq[r].password, rows |-> Unrevoked]]
    /\ UNCHANGED <<active, password, session, exchanged, rowLock>>

ChangeCommit(r) ==
    /\ At(r, "changing")
    /\ RevokeCommit(r)
    /\ password' = password + 1
    /\ UNCHANGED active

\* set_user_active(False).  The update of is_active does not exclude the key
\* share of a login.
DeactivateStart(r) ==
    /\ authReq[r] = NoRow
    /\ active
    /\ UserRowFree
    /\ authReq' = [authReq EXCEPT ![r] = [op |-> "deactivating", rows |-> Unrevoked]]
    /\ UNCHANGED <<active, password, session, exchanged, rowLock>>

DeactivateCommit(r) ==
    /\ At(r, "deactivating")
    /\ RevokeCommit(r)
    /\ active' = FALSE
    /\ UNCHANGED password

\* set_user_active(True)
Reactivate ==
    /\ ~active
    /\ UserRowFree
    /\ active' = TRUE
    /\ UNCHANGED <<password, session, exchanged, rowLock, authReq>>

-----------------------------------------------------------------------------
\* Time passes for every session.
Tick ==
    /\ \E s \in Visible : session[s].absolute > 0
    /\ session' = [s \in Sessions |->
          IF s \in Visible
          THEN [session[s] EXCEPT !.idle = IF @ > 0 THEN @ - 1 ELSE 0,
                                  !.absolute = IF @ > 0 THEN @ - 1 ELSE 0]
          ELSE NoRow]
    /\ UNCHANGED <<active, password, exchanged, rowLock, authReq>>

AuthNext ==
    \/ \E r \in AuthRequests :
        \/ LoginRead(r) \/ (\E s \in Sessions : LoginInsert(r, s)) \/ LoginCommit(r)
        \/ \E s \in Sessions, n \in 0..MaxToken : RefreshLock(r, s, n)
        \/ RefreshRead(r) \/ RefreshRefused(r) \/ RefreshCommit(r)
        \/ RevokeAllStart(r) \/ RevokeAllCommit(r)
        \/ ChangeAuthenticate(r) \/ ChangeStart(r) \/ ChangeCommit(r)
        \/ DeactivateStart(r) \/ DeactivateCommit(r)
    \/ \E s \in Sessions :
        logout(s) \/ revoke_session(s) \/ \E n \in 0..MaxToken : RefreshReplay(s, n)
    \/ Reactivate
    \/ Tick

AuthSpec == AuthInit /\ [][AuthNext]_authVars

-----------------------------------------------------------------------------
(* Properties. *)

\* auth_service.py: "two uses of the same token cannot both win": no refresh
\* token is answered with a new pair twice, however the requests interleave.
TokenExchangedOnce ==
    \A s \in Sessions : \A i, j \in DOMAIN exchanged[s] :
        exchanged[s][i] = exchanged[s][j] => i = j

\* auth_service.py: when a password change commits, no session the account has
\* by then survives it, whatever logins and refreshes are in flight.
PasswordChangeEndsSessions ==
    [][password' # password => \A s \in Visible : session'[s].revoked]_authVars

\* Revocation and the absolute deadline are final: sessions implement SessionLife.
Life ==
    [s \in Sessions |->
        CASE session[s] = NoRow -> "none"
          [] s \in Unrevoked /\ session[s].absolute > 0 -> "live"
          [] OTHER -> "ended"]

Abstract == INSTANCE SessionLife WITH life <- Life

ImplementsSessionLife == Abstract!LifeSpec
=============================================================================
