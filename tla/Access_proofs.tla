--------------------------- MODULE Access_proofs ----------------------------
(***************************************************************************)
(* Proofs about who belongs to a channel and who is sent its events, for any *)
(* number of users, invites, requests, sockets and events.                 *)
(***************************************************************************)
EXTENDS Membership, WSDelivery, FiniteSetTheorems, TLAPS

-----------------------------------------------------------------------------
(***************************************************************************)
(* Memberships and invites.                                                *)
(*                                                                         *)
(* Every action has one of four effects on the memberships (RoleEffect) and *)
(* one of a few on the invites (InviteEffect); the invariant is shown for the *)
(* effects.                                                                *)
(***************************************************************************)

StoredPermissions == (SUBSET Keys) \cup {Null}

\* What a step may do to roles, permissions and bindings.
RoleEffect ==
    \/ UNCHANGED <<role, perms, deleted, channelGeneration, desired>>
    \/ /\ ~deleted /\ deleted' = deleted
       /\ \E u \in Accounts, r \in Roles, p \in StoredPermissions :
            ChangeRole(u, r, p) /\ (r # "admin" => p = Null)
    \/ ~deleted /\ deleted' = TRUE /\ TouchApproved("unbound")
    \/ deleted /\ deleted' = FALSE /\ TouchApproved("bound")

\* What a step may do to the invites and the requests that create them.
InviteEffect ==
    \/ UNCHANGED <<invites, req, userLock>>
    \/ \E i \in Invites :
        /\ invites[i] # NoOne
        /\ \/ invites' = [invites EXCEPT ![i].revoked = TRUE]
           \/ invites' = [invites EXCEPT ![i].expired = TRUE]
           \/ Spend(i) /\ ~(Targeted(i) /\ invites[i].accepted)
        /\ UNCHANGED <<req, userLock>>
    \/ \E r \in InviteRequests :
        \/ \E u \in Accounts : CreateInviteCheck(r, u)
        \/ CreateInviteCount(r)
        \/ \E i \in Invites, t \in Accounts \cup {NoOne} : CreateInviteInsert(r, i, t)

\* A request that has counted holds the lock of its user, and leaves room for
\* the invite it is about to insert.
QuotaLocked ==
    /\ \A r \in InviteRequests :
        req[r] # NoOne /\ req[r].counted => userLock[req[r].user] = r
    /\ \A u \in Accounts : userLock[u] # NoOne => Cardinality(ActiveInvites(u)) < MaxInvites

MembershipInv ==
    /\ MembershipTypeOK
    /\ DesiredMatchesRole
    /\ PermissionsOnlyForAdmins
    /\ TargetedInviteOnce
    /\ InviteQuota
    /\ QuotaLocked

\* The invariant holds of a new channel.
LEMMA InitMembership == MembershipInit => MembershipInv
<1> SUFFICES ASSUME MembershipInit PROVE MembershipInv
  BY Zenon
<1> USE MembershipConstants DEF MembershipInit
<1>1. MembershipTypeOK
  <2>1. role \in [Accounts -> Roles] /\ desired \in [Accounts -> {"none", "bound", "unbound"}]
    BY Zenon DEF Roles
  <2>2. /\ perms \in [Accounts -> (SUBSET Keys) \cup {Null}]
        /\ invites \in [Invites -> InviteRow \cup {NoOne}]
        /\ req \in [InviteRequests -> [user : Accounts, counted : BOOLEAN] \cup {NoOne}]
        /\ userLock \in [Accounts -> InviteRequests \cup {NoOne}]
    BY Zenon
  <2>3. channelGeneration \in 1..MaxChannelGeneration /\ mode \in JoinModes
    OBVIOUS
  <2>4. deleted \in BOOLEAN
    BY Zenon
  <2> QED BY Zenon, <2>1, <2>2, <2>3, <2>4 DEF MembershipTypeOK
<1>2. DesiredMatchesRole /\ PermissionsOnlyForAdmins
  BY Zenon DEF DesiredMatchesRole, PermissionsOnlyForAdmins, Approved
<1>3. TargetedInviteOnce
  BY Zenon DEF TargetedInviteOnce
<1>4. \A u \in Accounts : ActiveInvites(u) = {}
  BY Zenon DEF ActiveInvites, InviteActive
<1>5. InviteQuota
  <2>1. Cardinality({}) = 0 /\ 0 <= MaxInvites
    BY FS_EmptySet
  <2> QED BY <1>4, <2>1, Zenon DEF InviteQuota
<1>6. QuotaLocked
  BY Zenon DEF QuotaLocked
<1> QED BY Zenon, <1>1, <1>2, <1>3, <1>5, <1>6 DEF MembershipInv

-----------------------------------------------------------------------------
\* The permissions a handler stores are well formed.
LEMMA NormalizedStored ==
    ASSUME NEW p \in StoredPermissions
    PROVE  normalize_admin_permissions(p) \in StoredPermissions
BY Zenon DEF normalize_admin_permissions, StoredPermissions, DefaultPermissions, Keys

\* Every handler changes roles and invites in one of the ways of the groups above.
LEMMA Effects ==
    ASSUME MembershipTypeOK, [MembershipNext]_membershipVars
    PROVE  RoleEffect /\ InviteEffect /\ mode' \in JoinModes
<1> DEFINE R == RoleEffect /\ InviteEffect /\ mode' \in JoinModes
<1>0. /\ mode \in JoinModes /\ deleted \in BOOLEAN
      /\ {"none", "pending", "member", "admin"} \subseteq Roles
      /\ Null \in StoredPermissions /\ SUBSET Keys \subseteq StoredPermissions
      /\ \A u \in Accounts : perms[u] \in StoredPermissions
  BY Zenon DEF MembershipTypeOK, Roles, StoredPermissions
<1>1. CASE UNCHANGED membershipVars
  BY Zenon, <1>0, <1>1 DEF membershipVars, RoleEffect, InviteEffect
<1>2. ASSUME NEW u \in Accounts, NEW i \in Invites, revoke_invite(u, i)
      PROVE  R
  BY <1>0, <1>2, Zenon DEF revoke_invite, RoleEffect, InviteEffect
<1>3. ASSUME NEW u \in Accounts, NEW i \in Invites, accept_invite(u, i)
      PROVE  R
  <2>1. RoleEffect
    BY Zenon, <1>0, <1>3 DEF accept_invite, RoleEffect
  <2>2. InviteEffect
    BY Zenon, <1>3 DEF accept_invite, InviteEffect, validate_invite
  <2> QED BY Zenon, <1>0, <1>3, <2>1, <2>2 DEF accept_invite
<1>4. ASSUME NEW i \in Invites, InviteExpires(i)
      PROVE  R
  BY <1>0, <1>4, Zenon DEF InviteExpires, RoleEffect, InviteEffect
<1>5. ASSUME NEW r \in InviteRequests,
             \/ \E u \in Accounts : CreateInviteCheck(r, u)
             \/ CreateInviteCount(r)
             \/ \E i \in Invites, t \in Accounts \cup {NoOne} : CreateInviteInsert(r, i, t)
      PROVE  R
  <2>1. InviteEffect
    BY Zenon, <1>5 DEF InviteEffect
  <2>2. UNCHANGED <<role, perms, mode, deleted, channelGeneration, desired>>
    BY Zenon, <1>5 DEF CreateInviteCheck, CreateInviteCount, CreateInviteInsert
  <2> QED BY Zenon, <1>0, <2>1, <2>2 DEF RoleEffect
<1>6. ASSUME NEW u \in Accounts, join_channel(u)
      PROVE  R
  <2>1. /\ ~deleted /\ deleted' = deleted /\ mode' = mode /\ UNCHANGED <<req, userLock>>
        /\ ChangeRole(u, "member", Null) \/ ChangeRole(u, "pending", Null)
    BY Zenon, <1>6 DEF join_channel
  <2>2. RoleEffect
    BY Zenon, <1>0, <2>1 DEF RoleEffect
  <2>3. UNCHANGED invites \/ \E i \in Invites : validate_invite(i, u) /\ Spend(i)
    BY Zenon, <1>6 DEF join_channel
  <2>4. InviteEffect
    BY Zenon, <2>1, <2>3 DEF InviteEffect, validate_invite
  <2> QED BY Zenon, <1>0, <2>1, <2>2, <2>4
<1>7. ASSUME NEW u \in Accounts, leave_channel(u)
      PROVE  R
  BY Zenon, <1>0, <1>7 DEF leave_channel, RoleEffect, InviteEffect
<1>8. ASSUME NEW a \in Accounts, NEW t \in Accounts,
             \/ approve_member(a, t) \/ add_member_direct(a, t) \/ demote_member(a, t)
             \/ remove_member(a, t)
      PROVE  R
  <2>1. /\ ~deleted /\ UNCHANGED <<mode, deleted, invites, req, userLock>>
        /\ ChangeRole(t, "member", Null) \/ ChangeRole(t, "none", Null)
    BY Zenon, <1>8 DEF approve_member, add_member_direct, demote_member, remove_member
  <2> QED BY Zenon, <1>0, <2>1 DEF RoleEffect, InviteEffect
<1>9. ASSUME NEW a \in Accounts, NEW t \in Accounts, promote_member(a, t)
      PROVE  R
  <2>1. normalize_admin_permissions(perms[t]) \in StoredPermissions
    BY Zenon, <1>0, NormalizedStored
  <2>2. /\ ~deleted /\ UNCHANGED <<mode, deleted, invites, req, userLock>>
        /\ ChangeRole(t, "admin", normalize_admin_permissions(perms[t]))
    BY Zenon, <1>9 DEF promote_member
  <2> QED BY Zenon, <1>0, <2>1, <2>2 DEF RoleEffect, InviteEffect
<1>10. ASSUME NEW a \in Accounts, NEW t \in Accounts, NEW p \in PermChoices,
              update_admin_permissions(a, t, p)
       PROVE  R
  <2>1. p \in StoredPermissions
    BY Zenon, <1>0, MembershipConstants
  <2>2. /\ ~deleted /\ UNCHANGED <<mode, deleted, invites, req, userLock>>
        /\ ChangeRole(t, "admin", p)
    BY Zenon, <1>10 DEF update_admin_permissions
  <2> QED BY Zenon, <1>0, <2>1, <2>2 DEF RoleEffect, InviteEffect
<1>11. ASSUME NEW a \in Accounts, NEW m \in JoinModes, update_channel(a, m)
       PROVE  R
  BY Zenon, <1>11 DEF update_channel, RoleEffect, InviteEffect
<1>12. CASE delete_channel
  BY <1>0, <1>12, Zenon DEF delete_channel, RoleEffect, InviteEffect
<1>13. CASE restore_channel
  BY <1>0, <1>13, Zenon DEF restore_channel, RoleEffect, InviteEffect
<1> QED BY Zenon, <1>1, <1>2, <1>3, <1>4, <1>5, <1>6, <1>7, <1>8, <1>9, <1>10, <1>11, <1>12, <1>13
        DEF MembershipNext

-----------------------------------------------------------------------------
\* Every effect on the memberships keeps roles, permissions and bindings in step.
LEMMA RoleStep ==
    ASSUME MembershipInv, RoleEffect
    PROVE  /\ role' \in [Accounts -> Roles]
           /\ perms' \in [Accounts -> (SUBSET Keys) \cup {Null}]
           /\ deleted' \in BOOLEAN
           /\ channelGeneration' \in 1..MaxChannelGeneration
           /\ desired' \in [Accounts -> {"none", "bound", "unbound"}]
           /\ DesiredMatchesRole'
           /\ PermissionsOnlyForAdmins'
<1> USE DEF MembershipInv, MembershipTypeOK, DesiredMatchesRole, PermissionsOnlyForAdmins
<1>1. CASE UNCHANGED <<role, perms, deleted, channelGeneration, desired>>
  BY Zenon, <1>1
<1>2. ASSUME ~deleted, deleted' = deleted,
             NEW u \in Accounts, NEW r \in Roles, NEW p \in StoredPermissions,
             ChangeRole(u, r, p), r # "admin" => p = Null
      PROVE  /\ role' \in [Accounts -> Roles]
             /\ perms' \in [Accounts -> (SUBSET Keys) \cup {Null}]
             /\ channelGeneration' \in 1..MaxChannelGeneration
             /\ desired' \in [Accounts -> {"none", "bound", "unbound"}]
             /\ DesiredMatchesRole'
             /\ PermissionsOnlyForAdmins'
  <2>1. role' = [role EXCEPT ![u] = r] /\ perms' = [perms EXCEPT ![u] = p]
    BY Zenon, <1>2 DEF ChangeRole
  <2>2. desired' = [desired EXCEPT ![u] = IF r \in Approved THEN "bound" ELSE "unbound"]
    BY Zenon, <1>2 DEF ChangeRole
  <2>3. channelGeneration' \in 1..MaxChannelGeneration
    BY <1>2, MembershipConstants DEF ChangeRole
  <2>4. DesiredMatchesRole'
    BY Zenon, <1>2, <2>1, <2>2
  <2>5. PermissionsOnlyForAdmins'
    BY Zenon, <1>2, <2>1
  <2> QED BY Zenon, <1>2, <2>1, <2>2, <2>3, <2>4, <2>5 DEF StoredPermissions
<1>3. ASSUME NEW state \in {"bound", "unbound"}, TouchApproved(state),
             state = "bound" => deleted /\ ~deleted',
             state = "unbound" => ~deleted /\ deleted'
      PROVE  /\ role' \in [Accounts -> Roles]
             /\ perms' \in [Accounts -> (SUBSET Keys) \cup {Null}]
             /\ channelGeneration' \in 1..MaxChannelGeneration
             /\ desired' \in [Accounts -> {"none", "bound", "unbound"}]
             /\ DesiredMatchesRole'
             /\ PermissionsOnlyForAdmins'
  <2>1. role' = role /\ perms' = perms
    BY Zenon, <1>3 DEF TouchApproved
  <2>2. desired' = [u \in Accounts |-> IF role[u] \in Approved THEN state ELSE desired[u]]
    BY Zenon, <1>3 DEF TouchApproved
  <2>3. channelGeneration' \in 1..MaxChannelGeneration
    BY <1>3, MembershipConstants DEF TouchApproved
  <2>4. DesiredMatchesRole'
    BY Zenon, <1>3, <2>1, <2>2
  <2> QED BY Zenon, <1>3, <2>1, <2>2, <2>3, <2>4
<1>4. CASE \/ ~deleted /\ deleted' = TRUE /\ TouchApproved("unbound")
           \/ deleted /\ deleted' = FALSE /\ TouchApproved("bound")
  <2>1. deleted' \in BOOLEAN
    BY <1>4, Zenon
  <2> QED BY Zenon, <1>3, <1>4, <2>1
<1> QED BY <1>1, <1>2, <1>3, <1>4, Zenon DEF RoleEffect

\* Invites only ever become less active, except for the one a request inserts.
LEMMA InviteStep ==
    ASSUME MembershipInv, InviteEffect
    PROVE  /\ invites' \in [Invites -> InviteRow \cup {NoOne}]
           /\ req' \in [InviteRequests -> [user : Accounts, counted : BOOLEAN] \cup {NoOne}]
           /\ userLock' \in [Accounts -> InviteRequests \cup {NoOne}]
           /\ TargetedInviteOnce'
           /\ InviteQuota'
           /\ QuotaLocked'
<1> USE MembershipConstants DEF MembershipInv, MembershipTypeOK, TargetedInviteOnce
<1> DEFINE Goal == /\ invites' \in [Invites -> InviteRow \cup {NoOne}]
                   /\ req' \in [InviteRequests -> [user : Accounts, counted : BOOLEAN] \cup {NoOne}]
                   /\ userLock' \in [Accounts -> InviteRequests \cup {NoOne}]
                   /\ TargetedInviteOnce'
                   /\ InviteQuota'
                   /\ QuotaLocked'
<1>0. \A u \in Accounts : IsFiniteSet(ActiveInvites(u)) /\ Cardinality(ActiveInvites(u)) \in Nat
  <2> SUFFICES ASSUME NEW u \in Accounts
               PROVE  IsFiniteSet(ActiveInvites(u)) /\ Cardinality(ActiveInvites(u)) \in Nat
    BY Zenon
  <2>1. ActiveInvites(u) \subseteq Invites
    BY Zenon DEF ActiveInvites
  <2> QED BY Zenon, <2>1, FS_Subset, FS_CardinalityType
<1>1. ASSUME \A u \in Accounts : ActiveInvites(u)' \subseteq ActiveInvites(u), NEW u \in Accounts
      PROVE  /\ Cardinality(ActiveInvites(u)') <= Cardinality(ActiveInvites(u))
             /\ Cardinality(ActiveInvites(u)') \in Nat
  <2>1. /\ IsFiniteSet(ActiveInvites(u)')
        /\ Cardinality(ActiveInvites(u)') <= Cardinality(ActiveInvites(u))
    BY Zenon, <1>0, <1>1, FS_Subset
  <2> QED BY Zenon, <2>1, FS_CardinalityType
<1>2. CASE UNCHANGED <<invites, req, userLock>>
  <2>1. \A u \in Accounts : ActiveInvites(u)' = ActiveInvites(u)
    BY Zenon, <1>2 DEF ActiveInvites, InviteActive, Targeted
  <2> QED BY Zenon, <1>2, <2>1 DEF InviteQuota, QuotaLocked, Targeted
<1>3. ASSUME NEW i \in Invites, invites[i] # NoOne, UNCHANGED <<req, userLock>>,
             \/ invites' = [invites EXCEPT ![i].revoked = TRUE]
             \/ invites' = [invites EXCEPT ![i].expired = TRUE]
             \/ Spend(i) /\ ~(Targeted(i) /\ invites[i].accepted)
      PROVE  Goal
  <2>1. invites[i] \in InviteRow
    BY Zenon, <1>3
  <2>2. invites' \in [Invites -> InviteRow \cup {NoOne}]
    <3>1. ASSUME NEW row \in InviteRow, invites' = [invites EXCEPT ![i] = row]
          PROVE  invites' \in [Invites -> InviteRow \cup {NoOne}]
      BY Zenon, <3>1
    <3>2. CASE invites' = [invites EXCEPT ![i].revoked = TRUE]
      <4>1. [invites[i] EXCEPT !.revoked = TRUE] \in InviteRow
        BY <2>1, Zenon DEF InviteRow
      <4> QED BY Zenon, <3>1, <3>2, <4>1
    <3>3. CASE invites' = [invites EXCEPT ![i].expired = TRUE]
      <4>1. [invites[i] EXCEPT !.expired = TRUE] \in InviteRow
        BY <2>1, Zenon DEF InviteRow
      <4> QED BY Zenon, <3>1, <3>3, <4>1
    <3>4. CASE Spend(i)
      <4>1. (invites[i].accepted \/ Targeted(i)) \in BOOLEAN /\ invites[i].uses + 1 \in Nat
        BY <2>1 DEF InviteRow
      <4>2. [invites[i] EXCEPT !.accepted = invites[i].accepted \/ Targeted(i),
                               !.uses = invites[i].uses + 1] \in InviteRow
        BY <2>1, <4>1, Zenon DEF InviteRow
      <4>3. invites' = [invites EXCEPT ![i] =
              [invites[i] EXCEPT !.accepted = invites[i].accepted \/ Targeted(i),
                                 !.uses = invites[i].uses + 1]]
        BY Zenon, <2>1, <3>4 DEF Spend, InviteRow
      <4> QED BY Zenon, <3>1, <4>2, <4>3
    <3> QED BY Zenon, <1>3, <3>2, <3>3, <3>4
  <2>3. TargetedInviteOnce'
    <3> SUFFICES ASSUME NEW j \in Invites, invites'[j] # NoOne, Targeted(j)'
                 PROVE  invites'[j].uses = IF invites'[j].accepted THEN 1 ELSE 0
      BY Zenon DEF TargetedInviteOnce
    <3>1. CASE j # i
      BY Zenon, <1>3, <3>1 DEF Spend, Targeted
    <3>2. CASE j = i /\ Spend(i) /\ ~(Targeted(i) /\ invites[i].accepted)
      BY <2>1, <3>2 DEF InviteRow, Spend, Targeted
    <3>3. CASE /\ j = i
               /\ \/ invites' = [invites EXCEPT ![i].revoked = TRUE]
                  \/ invites' = [invites EXCEPT ![i].expired = TRUE]
      BY <1>3, <2>1, <3>3 DEF InviteRow, Targeted
    <3> QED BY Zenon, <1>3, <3>1, <3>2, <3>3
  <2>4. \A u \in Accounts : ActiveInvites(u)' \subseteq ActiveInvites(u)
    BY <1>3, <2>1 DEF InviteRow, Spend, Targeted, ActiveInvites, InviteActive
  <2>5. InviteQuota'
    BY <1>0, <1>1, <2>2, <2>4 DEF InviteQuota
  <2>6. QuotaLocked'
    BY <1>0, <1>1, <1>3, <2>4 DEF QuotaLocked
  <2> QED BY Zenon, <1>3, <2>2, <2>3, <2>5, <2>6
<1>4. ASSUME NEW r \in InviteRequests, NEW u \in Accounts, CreateInviteCheck(r, u)
      PROVE  Goal
  <2>1. /\ UNCHANGED <<invites, userLock>>
        /\ req' = [req EXCEPT ![r] = [user |-> u, counted |-> FALSE]]
    BY Zenon, <1>4 DEF CreateInviteCheck
  <2>2. \A v \in Accounts : ActiveInvites(v)' = ActiveInvites(v)
    BY Zenon, <2>1 DEF ActiveInvites, InviteActive, Targeted
  <2>3. [user |-> u, counted |-> FALSE] \in [user : Accounts, counted : BOOLEAN]
    BY Zenon
  <2>4. QuotaLocked'
    BY Zenon, <2>1, <2>2 DEF QuotaLocked
  <2> QED BY Zenon, <2>1, <2>2, <2>3, <2>4 DEF InviteQuota, Targeted
<1>5. ASSUME NEW r \in InviteRequests, CreateInviteCount(r)
      PROVE  Goal
  <2> DEFINE u == req[r].user
  <2>1. /\ u \in Accounts /\ req[r] \in [user : Accounts, counted : BOOLEAN]
        /\ userLock[u] = NoOne /\ UNCHANGED invites
    BY <1>5 DEF CreateInviteCount
  <2>2. \A v \in Accounts : ActiveInvites(v)' = ActiveInvites(v)
    BY Zenon, <2>1 DEF ActiveInvites, InviteActive, Targeted
  <2>3. CASE Cardinality(ActiveInvites(u)) >= MaxInvites
    <3>1. req' = [req EXCEPT ![r] = NoOne] /\ UNCHANGED userLock
      BY Zenon, <1>5, <2>3 DEF CreateInviteCount
    <3> QED BY Zenon, <2>1, <2>2, <3>1 DEF InviteQuota, QuotaLocked, Targeted
  <2>4. CASE ~(Cardinality(ActiveInvites(u)) >= MaxInvites)
    <3>1. /\ req' = [req EXCEPT ![r].counted = TRUE]
          /\ userLock' = [userLock EXCEPT ![u] = r]
      BY Zenon, <1>5, <2>4 DEF CreateInviteCount
    <3>2. req' \in [InviteRequests -> [user : Accounts, counted : BOOLEAN] \cup {NoOne}]
      BY <2>1, <3>1, ZenonT(30)
    <3>3. Cardinality(ActiveInvites(u)) < MaxInvites
      BY <1>0, <2>1, <2>4
    <3>4. \A q \in InviteRequests : req'[q] # NoOne /\ req'[q].counted => userLock'[req'[q].user] = q
      <4> SUFFICES ASSUME NEW q \in InviteRequests, req'[q] # NoOne, req'[q].counted
                   PROVE  userLock'[req'[q].user] = q
        BY Zenon
      <4>1. CASE q = r
        BY Zenon, <2>1, <3>1, <4>1
      <4>2. CASE q # r
        <5>1. req'[q] = req[q] /\ userLock[req[q].user] = q /\ req[q].user \in Accounts
          BY Zenon, <3>1, <4>2 DEF QuotaLocked
        <5>2. req[q].user # u
          BY Zenon, <2>1, <5>1
        <5> QED BY Zenon, <3>1, <5>1, <5>2
      <4> QED BY Zenon, <4>1, <4>2
    <3>5. QuotaLocked'
      BY <2>1, <2>2, <3>1, <3>3, <3>4 DEF QuotaLocked
    <3> QED BY Zenon, <2>1, <2>2, <3>1, <3>2, <3>5 DEF InviteQuota, Targeted
  <2> QED BY Zenon, <2>3, <2>4
<1>6. ASSUME NEW r \in InviteRequests, NEW i \in Invites, NEW t \in Accounts \cup {NoOne},
             CreateInviteInsert(r, i, t)
      PROVE  Goal
  <2>0. PICK u \in Accounts : u = req[r].user
    BY Zenon, <1>6 DEF CreateInviteInsert
  <2> DEFINE row == [creator |-> u, target |-> t, revoked |-> FALSE, accepted |-> FALSE,
                    expired |-> FALSE, uses |-> 0]
  <2>1. /\ userLock[u] = r /\ invites[i] = NoOne
        /\ invites' = [invites EXCEPT ![i] = row]
        /\ req' = [req EXCEPT ![r] = NoOne]
        /\ userLock' = [userLock EXCEPT ![u] = NoOne]
    BY <1>6, <2>0, ZenonT(30) DEF CreateInviteInsert, QuotaLocked
  <2>2. row \in InviteRow
    BY Zenon, <2>1 DEF InviteRow
  <2>3. TargetedInviteOnce'
    BY Zenon, <2>1 DEF Targeted
  <2>4. \A v \in Accounts : v # u => ActiveInvites(v)' \subseteq ActiveInvites(v)
    BY Zenon, <2>1 DEF ActiveInvites, InviteActive, Targeted
  <2>5. ActiveInvites(u)' \subseteq ActiveInvites(u) \cup {i}
    BY Zenon, <2>1 DEF ActiveInvites, InviteActive, Targeted
  <2>6. Cardinality(ActiveInvites(u)) < MaxInvites
    BY Zenon, <2>1 DEF QuotaLocked
  <2>7. Cardinality(ActiveInvites(u)') <= MaxInvites
    <3>0. i \notin ActiveInvites(u)
      BY Zenon, <2>1 DEF ActiveInvites, InviteActive
    <3>1. /\ IsFiniteSet(ActiveInvites(u) \cup {i})
          /\ Cardinality(ActiveInvites(u) \cup {i}) <= Cardinality(ActiveInvites(u)) + 1
      <4>1. /\ IsFiniteSet(ActiveInvites(u) \cup {i})
            /\ Cardinality(ActiveInvites(u) \cup {i}) = Cardinality(ActiveInvites(u)) + 1
        BY <1>0, <3>0, FS_AddElement, Zenon
      <4> QED BY <1>0, <4>1
    <3>2. /\ IsFiniteSet(ActiveInvites(u)')
          /\ Cardinality(ActiveInvites(u)') <= Cardinality(ActiveInvites(u) \cup {i})
      BY Zenon, <2>5, <3>1, FS_Subset
    <3>3. /\ Cardinality(ActiveInvites(u) \cup {i}) \in Nat
          /\ Cardinality(ActiveInvites(u)') \in Nat
      BY Zenon, <3>1, <3>2, FS_CardinalityType
    <3> QED BY <1>0, <2>1, <2>6, <3>1, <3>2, <3>3
  <2>8. ASSUME NEW v \in Accounts, v # u
        PROVE  /\ Cardinality(ActiveInvites(v)') <= Cardinality(ActiveInvites(v))
               /\ Cardinality(ActiveInvites(v)') \in Nat
    <3>1. /\ IsFiniteSet(ActiveInvites(v)')
          /\ Cardinality(ActiveInvites(v)') <= Cardinality(ActiveInvites(v))
      BY Zenon, <1>0, <2>4, <2>8, FS_Subset
    <3> QED BY Zenon, <3>1, FS_CardinalityType
  <2>9. InviteQuota'
    <3> SUFFICES ASSUME NEW v \in Accounts
                 PROVE  Cardinality(ActiveInvites(v)') <= MaxInvites
      BY Zenon DEF InviteQuota
    <3>1. CASE v = u
      BY Zenon, <2>7, <3>1
    <3>2. CASE v # u
      BY <1>0, <2>8, <3>2 DEF InviteQuota
    <3> QED BY Zenon, <3>1, <3>2
  <2>10. QuotaLocked'
    <3>1. \A q \in InviteRequests : req'[q] # NoOne /\ req'[q].counted => userLock'[req'[q].user] = q
      BY Zenon, <2>1 DEF QuotaLocked
    <3>2. ASSUME NEW v \in Accounts, userLock'[v] # NoOne
          PROVE  Cardinality(ActiveInvites(v)') < MaxInvites
      <4>1. v # u /\ userLock[v] # NoOne
        BY Zenon, <2>1, <3>2
      <4> QED BY <1>0, <2>8, <4>1 DEF QuotaLocked
    <3> QED BY Zenon, <3>1, <3>2 DEF QuotaLocked
  <2> QED BY Zenon, <2>1, <2>2, <2>3, <2>9, <2>10
<1> QED BY Zenon, <1>2, <1>3, <1>4, <1>5, <1>6 DEF InviteEffect

\* Every step of a handler keeps the invariant.
LEMMA MembershipInductive == MembershipInv /\ [MembershipNext]_membershipVars => MembershipInv'
<1> SUFFICES ASSUME MembershipInv, [MembershipNext]_membershipVars PROVE MembershipInv'
  BY Zenon
<1>1. RoleEffect /\ InviteEffect /\ mode' \in JoinModes
  BY Zenon, Effects DEF MembershipInv
<1> QED BY Zenon, <1>1, RoleStep, InviteStep DEF MembershipInv, MembershipTypeOK

-----------------------------------------------------------------------------
\* channel_service.py, outbox_service.py: roles, admin permissions and desired
\* bindings agree through every handler, deletion and restoration included.
THEOREM RolesAndBindingsAgree ==
    MembershipSpec => [](MembershipTypeOK /\ DesiredMatchesRole /\ PermissionsOnlyForAdmins)
<1>1. MembershipInv => MembershipTypeOK /\ DesiredMatchesRole /\ PermissionsOnlyForAdmins
  BY Zenon DEF MembershipInv
<1> QED BY InitMembership, MembershipInductive, <1>1, PTL DEF MembershipSpec

\* create_invite and _validate_invite: the quota of active invites holds for any
\* number of requests that run at once, because each counts under the lock of
\* its user's row, and a targeted invite grants at most one membership.
THEOREM InvitesStayBounded == MembershipSpec => []InvitesBounded
<1>1. MembershipInv => InvitesBounded
  BY Zenon DEF MembershipInv, InvitesBounded
<1> QED BY InitMembership, MembershipInductive, <1>1, PTL DEF MembershipSpec

\* _enqueue_membership_update: no change of roles, permissions or deletion goes
\* without a membership generation of its own.
THEOREM EveryChangeVersioned == MembershipSpec => AccessVersioned
<1> DEFINE A == <<role, perms, deleted>>' # <<role, perms, deleted>> => channelGeneration' = channelGeneration + 1
<1>1. MembershipInv /\ [MembershipNext]_membershipVars => [A]_membershipVars
  <2> SUFFICES ASSUME MembershipInv, [MembershipNext]_membershipVars PROVE A
    BY Zenon
  <2>1. RoleEffect
    BY Zenon, Effects DEF MembershipInv
  <2> QED BY Zenon, <2>1 DEF RoleEffect, ChangeRole, TouchApproved
<1> QED BY InitMembership, MembershipInductive, <1>1, PTL DEF MembershipSpec, AccessVersioned

\* The membership handlers implement ChannelAccess, the view the realtime gate
\* takes of a channel, for every user.
THEOREM HandlersImplementAccess == MembershipSpec => ImplementsChannelAccess
<1> DEFINE S == \A u \in Accounts : [View(u)!ChangeAccess]_<<Access(u), channelGeneration>>
<1>1. MembershipInit => \A u \in Accounts : View(u)!AccessInit
  BY Zenon DEF MembershipInit, Access, View!AccessInit
<1>2. MembershipInv /\ [MembershipNext]_membershipVars => [S]_membershipVars
  <2> SUFFICES ASSUME MembershipInv, [MembershipNext]_membershipVars, NEW u \in Accounts
               PROVE  [View(u)!ChangeAccess]_<<Access(u), channelGeneration>>
    BY Zenon
  <2>1. RoleEffect
    BY Zenon, Effects DEF MembershipInv
  <2>2. CASE channelGeneration < MaxChannelGeneration /\ channelGeneration' = channelGeneration + 1
    BY Zenon, <2>2 DEF View!ChangeAccess, Access
  <2>3. CASE UNCHANGED <<role, perms, deleted, channelGeneration, desired>>
    BY Zenon, <2>3 DEF Access
  <2> QED BY Zenon, <2>1, <2>2, <2>3 DEF RoleEffect, ChangeRole, TouchApproved
<1> QED BY InitMembership, MembershipInductive, <1>1, <1>2, PTL DEF MembershipSpec, ImplementsChannelAccess

-----------------------------------------------------------------------------
(***************************************************************************)
(* Delivery over the socket.                                               *)
(*                                                                         *)
(* The argument: a generation that reaches a cache or is about to (the result *)
(* of a query in flight) is one at which the user had access, and neither the *)
(* history nor the tag of an event ever changes. An event is sent only     *)
(* against such a generation that is not older than its own.               *)
(***************************************************************************)

\* What a query in flight found was access at that generation.
QueryWasAuthorized ==
    \A s \in Sockets :
        /\ forward[s] # None /\ forward[s].seen # None => accessAt[forward[s].seen]
        /\ subscribe[s] # None /\ subscribe[s].seen # None => accessAt[subscribe[s].seen]

\* The last entry of the history is the present, and no event is from the future.
HistoryCurrent ==
    /\ accessAt[generation] = access
    /\ \A e \in DOMAIN published : published[e] <= generation

DeliveryInv ==
    /\ TypeOK
    /\ HistoryCurrent
    /\ QueryWasAuthorized
    /\ CacheWasAuthorized
    /\ QueryNotBehind
    /\ SentWithAccess

\* models.py: the first state has one generation and no socket.
LEMMA InitDelivery == Init => DeliveryInv
<1> SUFFICES ASSUME Init PROVE DeliveryInv
  OBVIOUS
<1> USE WSConstants
<1>1. generation = 1 /\ 1..generation = {1}
  BY DEF Init, AccessInit
<1>2. TypeOK
  BY <1>1 DEF Init, AccessInit, TypeOK, Generations
<1>3. HistoryCurrent
  BY <1>1 DEF Init, HistoryCurrent
<1>4. QueryWasAuthorized /\ CacheWasAuthorized /\ QueryNotBehind /\ SentWithAccess
  BY Zenon DEF Init, QueryWasAuthorized, CacheWasAuthorized, QueryNotBehind, SentWithAccess
<1> QED
  BY Zenon, <1>2, <1>3, <1>4 DEF DeliveryInv

\* channel_service.py: a membership change adds a generation and rewrites none.
LEMMA ChangeIInv == DeliveryInv /\ Change => DeliveryInv'
<1> SUFFICES ASSUME DeliveryInv, Change PROVE DeliveryInv'
  BY Zenon
<1> USE WSConstants
<1>1. /\ generation \in Nat /\ generation >= 1
      /\ generation' = generation + 1 /\ generation' \in Generations
      /\ access' \in BOOLEAN
      /\ 1..generation \subseteq 1..generation'
  BY DEF DeliveryInv, TypeOK, Change, ChangeAccess, Generations
<1>2. UNCHANGED <<published, subs, cached, fresh, forward, subscribe, sent>>
  BY Zenon DEF Change, socketVars
<1>3. DOMAIN accessAt = 1..generation /\ accessAt \in [1..generation -> BOOLEAN]
  BY Zenon DEF DeliveryInv, TypeOK
<1>4. /\ accessAt' \in [1..generation' -> BOOLEAN]
      /\ \A g \in 1..generation : accessAt'[g] = accessAt[g]
      /\ accessAt'[generation'] = access'
  BY <1>1, <1>3 DEF Change
<1>5. TypeOK'
  BY Zenon, <1>1, <1>2, <1>4 DEF DeliveryInv, TypeOK
<1>6. HistoryCurrent'
  <2>1. \A e \in DOMAIN published : published[e] \in Nat
    BY DEF DeliveryInv, TypeOK, Generations
  <2> QED
    BY <1>1, <1>2, <1>4, <2>1 DEF DeliveryInv, HistoryCurrent
<1>7. QueryWasAuthorized'
  BY Zenon, <1>2, <1>4 DEF DeliveryInv, TypeOK, QueryWasAuthorized
<1>8. CacheWasAuthorized' /\ QueryNotBehind'
  BY <1>2, <1>4 DEF DeliveryInv, TypeOK, CacheWasAuthorized, QueryNotBehind
<1>9. SentWithAccess'
  <2> SUFFICES ASSUME NEW s \in Sockets, NEW e \in sent[s]
               PROVE  \E g \in DOMAIN accessAt' : g >= published[e] /\ accessAt'[g]
    BY Zenon, <1>2 DEF SentWithAccess
  <2>1. PICK g \in DOMAIN accessAt : g >= published[e] /\ accessAt[g]
    BY Zenon DEF DeliveryInv, SentWithAccess
  <2> QED
    BY Zenon, <2>1, <1>1, <1>3, <1>4
<1> QED
  BY Zenon, <1>5, <1>6, <1>7, <1>8, <1>9 DEF DeliveryInv

\* outbox_service.py: an event is tagged with the generation of its transaction.
LEMMA PublishIInv == DeliveryInv /\ Publish => DeliveryInv'
<1> SUFFICES ASSUME DeliveryInv, Publish PROVE DeliveryInv'
  OBVIOUS
<1> USE WSConstants
<1>1. UNCHANGED <<access, generation, accessAt, subs, cached, fresh, forward, subscribe, sent>>
  BY Zenon DEF Publish, socketVars
<1>2. published \in Seq(Generations) /\ generation \in Generations
  BY Zenon DEF DeliveryInv, TypeOK
<1>3. /\ published' \in Seq(Generations)
      /\ Len(published') = Len(published) + 1 /\ Len(published') <= MaxEvents
      /\ DOMAIN published \subseteq DOMAIN published'
      /\ \A e \in DOMAIN published : published'[e] = published[e]
      /\ \A e \in DOMAIN published' : e \in DOMAIN published \/ published'[e] = generation
  <2> DEFINE p == published
             g == generation
  <2>1. published' = Append(p, g) /\ Len(p) < MaxEvents
    BY Zenon DEF Publish
  <2>2. p \in Seq(Generations) /\ g \in Generations /\ MaxEvents \in Nat
    BY Zenon, <1>2, WSConstants
  <2> HIDE DEF p, g
  <2>3. /\ Append(p, g) \in Seq(Generations)
        /\ Len(Append(p, g)) = Len(p) + 1 /\ Len(p) + 1 <= MaxEvents
    BY <2>1, <2>2
  <2>4. DOMAIN p \subseteq DOMAIN Append(p, g) /\ \A e \in DOMAIN p : Append(p, g)[e] = p[e]
    BY <2>2
  <2>5. \A e \in DOMAIN Append(p, g) : e \in DOMAIN p \/ Append(p, g)[e] = g
    BY <2>2
  <2> QED BY Zenon, <2>1, <2>3, <2>4, <2>5 DEF p, g
<1>4. TypeOK'
  BY Zenon, <1>1, <1>3 DEF DeliveryInv, TypeOK
<1>5. HistoryCurrent'
  <2>1. generation <= generation
    BY <1>2 DEF Generations
  <2> QED BY Zenon, <1>1, <1>3, <2>1 DEF DeliveryInv, HistoryCurrent
<1>6. QueryWasAuthorized' /\ CacheWasAuthorized'
  BY Zenon, <1>1 DEF DeliveryInv, QueryWasAuthorized, CacheWasAuthorized
<1>7. QueryNotBehind'
  BY Zenon, <1>1, <1>3 DEF DeliveryInv, TypeOK, QueryNotBehind
<1>8. SentWithAccess'
  BY Zenon, <1>1, <1>3 DEF DeliveryInv, TypeOK, SentWithAccess
<1> QED
  BY Zenon, <1>4, <1>5, <1>6, <1>7, <1>8 DEF DeliveryInv

\* ws_manager.py: the steps of a socket's forward loop.
LEMMA ForwardIInv ==
    ASSUME DeliveryInv, NEW s \in Sockets,
           \/ \E e \in DOMAIN published : ForwardCached(s, e) \/ ForwardQuery(s, e)
           \/ ForwardDenied(s) \/ ForwardAllowed(s) \/ RemovalNotice(s)
    PROVE  DeliveryInv'
<1> USE WSConstants
<1>0. None \notin 1..generation /\ generation \in 1..generation
  BY DEF DeliveryInv, TypeOK, Generations
<1>1. CASE \E e \in DOMAIN published : ForwardCached(s, e)
  <2>1. PICK e \in DOMAIN published : ForwardCached(s, e)
    BY Zenon, <1>1
  <2>2. UNCHANGED <<access, generation, accessAt, published, subs, cached, fresh, forward, subscribe>>
    BY Zenon, <2>1 DEF ForwardCached
  <2>3. cached[s] \in 1..generation /\ accessAt[cached[s]] /\ published[e] <= cached[s]
    BY Zenon, <2>1 DEF DeliveryInv, TypeOK, ForwardCached, CacheAdmits, CacheWasAuthorized
  <2>4. cached[s] \in DOMAIN accessAt /\ cached[s] \in Int /\ published[e] \in Int
    BY <2>3 DEF DeliveryInv, TypeOK, Generations
  <2>5. TypeOK'
    BY Zenon, <2>1, <2>2 DEF DeliveryInv, TypeOK, ForwardCached
  <2>6. SentWithAccess'
    BY Zenon, <2>1, <2>2, <2>3, <2>4 DEF DeliveryInv, TypeOK, SentWithAccess, ForwardCached
  <2> QED
    BY Zenon, <2>2, <2>5, <2>6 DEF DeliveryInv, HistoryCurrent, QueryWasAuthorized, CacheWasAuthorized, QueryNotBehind
<1>2. CASE \E e \in DOMAIN published : ForwardQuery(s, e)
  <2>1. PICK e \in DOMAIN published : ForwardQuery(s, e)
    BY Zenon, <1>2
  <2>2. UNCHANGED <<access, generation, accessAt, published, subs, cached, fresh, subscribe, sent>>
    BY Zenon, <2>1 DEF ForwardQuery
  <2>3. /\ CurrentGeneration \in (1..generation) \cup {None}
        /\ CurrentGeneration # None => accessAt[CurrentGeneration] /\ published[e] <= CurrentGeneration
    BY Zenon, <1>0, <2>1 DEF DeliveryInv, HistoryCurrent, CurrentGeneration
  <2>4. /\ forward'[s] = [event |-> e, seen |-> CurrentGeneration, own |-> TRUE]
        /\ \A t \in Sockets : t # s => forward'[t] = forward[t]
    BY Zenon, <2>1 DEF DeliveryInv, TypeOK, ForwardQuery
  <2>5. TypeOK'
    BY Zenon, <2>1, <2>2, <2>3 DEF DeliveryInv, TypeOK, ForwardQuery
  <2>6. QueryWasAuthorized' /\ QueryNotBehind'
    <3>1. forward'[s].seen = CurrentGeneration /\ forward'[s].event = e
      BY <2>4
    <3>2. forward'[s].seen # None => accessAt'[forward'[s].seen] /\ published'[forward'[s].event] <= forward'[s].seen
      BY Zenon, <2>2, <2>3, <3>1
    <3>3. QueryWasAuthorized'
      BY Zenon, <2>2, <2>4, <3>2 DEF DeliveryInv, QueryWasAuthorized
    <3>4. QueryNotBehind'
      BY Zenon, <2>2, <2>4, <3>2 DEF DeliveryInv, QueryNotBehind
    <3> QED BY Zenon, <3>3, <3>4
  <2> QED
    BY Zenon, <2>2, <2>5, <2>6 DEF DeliveryInv, HistoryCurrent, CacheWasAuthorized, SentWithAccess
<1>3. CASE ForwardDenied(s)
  <2>1. UNCHANGED <<access, generation, accessAt, published, subscribe, sent>>
    BY Zenon, <1>3 DEF ForwardDenied
  <2>2. TypeOK'
    BY Zenon, <1>3, <2>1 DEF DeliveryInv, TypeOK, ForwardDenied
  <2>3. \A t \in Sockets : forward'[t] \in {forward[t], None} /\ cached'[t] \in {cached[t], None}
    BY Zenon, <1>3 DEF DeliveryInv, TypeOK, ForwardDenied
  <2> QED
    BY Zenon, <2>1, <2>2, <2>3 DEF DeliveryInv, HistoryCurrent, QueryWasAuthorized, CacheWasAuthorized, QueryNotBehind, SentWithAccess
<1>4. CASE ForwardAllowed(s)
  <2> DEFINE e == forward[s].event
             seen == forward[s].seen
  <2>1. UNCHANGED <<access, generation, accessAt, published, subs, subscribe>>
    BY Zenon, <1>4 DEF ForwardAllowed
  <2>2. e \in DOMAIN published /\ seen \in 1..generation /\ accessAt[seen] /\ published[e] <= seen
    BY Zenon, <1>4 DEF DeliveryInv, TypeOK, ForwardAllowed, QueryWasAuthorized, QueryNotBehind
  <2>3. seen \in DOMAIN accessAt /\ seen \in Int /\ published[e] \in Int
    BY <2>2 DEF DeliveryInv, TypeOK, Generations
  <2>4. /\ \A t \in Sockets : forward'[t] \in {forward[t], None}
        /\ \A t \in Sockets : cached'[t] \in {cached[t], seen}
        /\ \A t \in Sockets : sent'[t] \subseteq sent[t] \cup {e}
    BY <1>4 DEF DeliveryInv, TypeOK, ForwardAllowed
  <2>5. TypeOK'
    <3>1. forward' = [forward EXCEPT ![s] = None]
      BY Zenon, <1>4 DEF ForwardAllowed
    <3>2. fresh' \subseteq Sockets
      BY <1>4 DEF DeliveryInv, TypeOK, ForwardAllowed
    <3>3. \/ cached' = cached
          \/ cached' = [cached EXCEPT ![s] = IF forward[s].own THEN seen ELSE cached[s]]
      BY Zenon, <1>4 DEF ForwardAllowed
    <3>4. cached' \in [Sockets -> (1..generation) \cup {None}]
      BY Zenon, <2>2, <3>3 DEF DeliveryInv, TypeOK
    <3>5. sent' = sent \/ sent' = [sent EXCEPT ![s] = sent[s] \cup {e}]
      BY Zenon, <1>4 DEF ForwardAllowed
    <3>6. sent' \in [Sockets -> SUBSET DOMAIN published]
      BY <2>2, <3>5 DEF DeliveryInv, TypeOK
    <3> QED
      BY Zenon, <2>1, <3>1, <3>2, <3>4, <3>6 DEF DeliveryInv, TypeOK
  <2>6. SentWithAccess'
    BY <2>1, <2>2, <2>3, <2>4 DEF DeliveryInv, SentWithAccess
  <2>7. QueryWasAuthorized' /\ QueryNotBehind'
    BY Zenon, <2>1, <2>4 DEF DeliveryInv, QueryWasAuthorized, QueryNotBehind
  <2>8. CacheWasAuthorized'
    BY Zenon, <2>1, <2>2, <2>4 DEF DeliveryInv, CacheWasAuthorized
  <2> QED
    BY Zenon, <2>1, <2>5, <2>6, <2>7, <2>8 DEF DeliveryInv, HistoryCurrent
<1>5. CASE RemovalNotice(s)
  <2>1. UNCHANGED <<access, generation, accessAt, published, forward, subscribe, sent>>
    BY Zenon, <1>5 DEF RemovalNotice
  <2>2. TypeOK'
    BY Zenon, <1>5, <2>1 DEF DeliveryInv, TypeOK, RemovalNotice
  <2>3. \A t \in Sockets : cached'[t] \in {cached[t], None}
    BY Zenon, <1>5 DEF DeliveryInv, TypeOK, RemovalNotice
  <2> QED
    BY Zenon, <2>1, <2>2, <2>3 DEF DeliveryInv, HistoryCurrent, QueryWasAuthorized, CacheWasAuthorized, QueryNotBehind, SentWithAccess
<1> QED
  BY Zenon, <1>1, <1>2, <1>3, <1>4, <1>5

\* ws_manager.py: the steps of a socket's inbound loop, and its cache's expiry.
LEMMA InboundIInv ==
    ASSUME DeliveryInv, NEW s \in Sockets,
           SubscribeQuery(s) \/ SubscribeInstall(s) \/ Unsubscribe(s) \/ CacheExpires(s)
    PROVE  DeliveryInv'
<1> USE WSConstants
<1>0. None \notin 1..generation /\ generation \in 1..generation
  BY DEF DeliveryInv, TypeOK, Generations
<1>1. CASE SubscribeQuery(s)
  <2>1. UNCHANGED <<access, generation, accessAt, published, subs, cached, fresh, forward, sent>>
    BY Zenon, <1>1 DEF SubscribeQuery
  <2>2. /\ CurrentGeneration \in (1..generation) \cup {None}
        /\ CurrentGeneration # None => accessAt[CurrentGeneration]
    BY Zenon, <1>0 DEF DeliveryInv, HistoryCurrent, CurrentGeneration
  <2>3. /\ subscribe'[s] = [seen |-> CurrentGeneration]
        /\ \A t \in Sockets : t # s => subscribe'[t] = subscribe[t]
    BY Zenon, <1>1 DEF DeliveryInv, TypeOK, SubscribeQuery
  <2>4. TypeOK'
    BY Zenon, <1>1, <2>1, <2>2 DEF DeliveryInv, TypeOK, SubscribeQuery
  <2>5. QueryWasAuthorized'
    <3>1. subscribe'[s].seen = CurrentGeneration
      BY <2>3
    <3>2. subscribe'[s].seen # None => accessAt'[subscribe'[s].seen]
      BY Zenon, <2>1, <2>2, <3>1
    <3> QED BY Zenon, <2>1, <2>3, <3>2 DEF DeliveryInv, QueryWasAuthorized
  <2> QED
    BY Zenon, <2>1, <2>4, <2>5 DEF DeliveryInv, HistoryCurrent, CacheWasAuthorized, QueryNotBehind, SentWithAccess
<1>2. CASE SubscribeInstall(s)
  <2>1. UNCHANGED <<access, generation, accessAt, published, sent>>
    BY Zenon, <1>2 DEF SubscribeInstall
  <2>2. subscribe[s] # None /\ subscribe[s].seen \in (1..generation) \cup {None}
    BY Zenon, <1>2 DEF DeliveryInv, TypeOK, SubscribeInstall
  <2>3. /\ cached' = [cached EXCEPT ![s] = subscribe[s].seen]
        /\ subscribe' = [subscribe EXCEPT ![s] = None]
        /\ subs' \subseteq Sockets /\ fresh' \subseteq Sockets
    BY Zenon, <1>2 DEF DeliveryInv, TypeOK, SubscribeInstall
  <2>4. \A t \in Sockets : forward'[t] = forward[t]
                           \/ (forward[t] # None /\ forward'[t] = [forward[t] EXCEPT !.own = FALSE])
    <3> DEFINE f == IF forward[s] = None THEN None ELSE [forward[s] EXCEPT !.own = FALSE]
    <3>1. forward' = [forward EXCEPT ![s] = f]
      BY Zenon, <1>2 DEF SubscribeInstall, Disown
    <3>2. forward'[s] = f /\ \A t \in Sockets : t # s => forward'[t] = forward[t]
      <4> HIDE DEF f
      <4> QED
        BY Zenon, <3>1 DEF DeliveryInv, TypeOK
    <3>3. CASE forward[s] = None
      BY Zenon, <3>2, <3>3
    <3>4. CASE forward[s] # None
      BY Zenon, <3>2, <3>4
    <3> QED
      BY Zenon, <3>3, <3>4
  <2>5. \A t \in Sockets : forward[t] # None =>
            [forward[t] EXCEPT !.own = FALSE] \in
                [event : DOMAIN published, seen : (1..generation) \cup {None}, own : BOOLEAN]
    BY Zenon DEF DeliveryInv, TypeOK
  <2>6. forward' = [t \in Sockets |-> forward'[t]]
    <3>1. DOMAIN forward = Sockets
      BY Zenon DEF DeliveryInv, TypeOK
    <3> QED
      BY <1>2, <3>1, Zenon DEF SubscribeInstall, Disown
  <2>7. forward' \in [Sockets -> [event : DOMAIN published, seen : (1..generation) \cup {None}, own : BOOLEAN]
                                 \cup {None}]
    BY <2>4, <2>5, <2>6 DEF DeliveryInv, TypeOK
  <2>8. TypeOK'
    BY Zenon, <2>1, <2>2, <2>3, <2>7 DEF DeliveryInv, TypeOK
  <2>9. \A t \in Sockets : forward[t] # None /\ forward'[t] = [forward[t] EXCEPT !.own = FALSE] =>
            forward'[t].seen = forward[t].seen /\ forward'[t].event = forward[t].event
    BY Zenon DEF DeliveryInv, TypeOK
  <2>10. \A t \in Sockets : subscribe'[t] \in {subscribe[t], None}
    BY Zenon, <2>3 DEF DeliveryInv, TypeOK
  <2>11. QueryWasAuthorized'
    BY Zenon, <2>1, <2>4, <2>9, <2>10 DEF DeliveryInv, QueryWasAuthorized
  <2>12. QueryNotBehind'
    BY Zenon, <2>1, <2>4, <2>9 DEF DeliveryInv, QueryNotBehind
  <2>13. CacheWasAuthorized'
    BY Zenon, <2>1, <2>2, <2>3 DEF DeliveryInv, TypeOK, CacheWasAuthorized, QueryWasAuthorized
  <2> QED
    BY Zenon, <2>1, <2>8, <2>11, <2>12, <2>13 DEF DeliveryInv, HistoryCurrent, SentWithAccess
<1>3. CASE Unsubscribe(s)
  <2>1. UNCHANGED <<access, generation, accessAt, published, forward, subscribe, sent>>
    BY Zenon, <1>3 DEF Unsubscribe
  <2>2. TypeOK'
    BY Zenon, <1>3, <2>1 DEF DeliveryInv, TypeOK, Unsubscribe
  <2>3. \A t \in Sockets : cached'[t] \in {cached[t], None}
    BY Zenon, <1>3 DEF DeliveryInv, TypeOK, Unsubscribe
  <2> QED
    BY Zenon, <2>1, <2>2, <2>3 DEF DeliveryInv, HistoryCurrent, QueryWasAuthorized, CacheWasAuthorized, QueryNotBehind, SentWithAccess
<1>4. CASE CacheExpires(s)
  <2>1. UNCHANGED <<access, generation, accessAt, published, cached, forward, subscribe, sent>>
    BY Zenon, <1>4 DEF CacheExpires
  <2>2. TypeOK'
    BY Zenon, <1>4, <2>1 DEF DeliveryInv, TypeOK, CacheExpires
  <2> QED
    BY Zenon, <2>1, <2>2 DEF DeliveryInv, HistoryCurrent, QueryWasAuthorized, CacheWasAuthorized, QueryNotBehind, SentWithAccess
<1> QED
  BY Zenon, <1>1, <1>2, <1>3, <1>4

\* The gate's invariant holds throughout.
LEMMA DeliveryInductive == Spec => []DeliveryInv
<1>1. Init => DeliveryInv
  BY Zenon, InitDelivery
<1>2. DeliveryInv /\ [Next]_vars => DeliveryInv'
  <2> SUFFICES ASSUME DeliveryInv, [Next]_vars PROVE DeliveryInv'
    OBVIOUS
  <2>1. CASE Change
    BY Zenon, <2>1, ChangeIInv
  <2>2. CASE Publish
    BY <2>2, PublishIInv
  <2>3. CASE \E s \in Sockets :
               \/ \E e \in DOMAIN published : ForwardCached(s, e) \/ ForwardQuery(s, e)
               \/ ForwardDenied(s) \/ ForwardAllowed(s) \/ RemovalNotice(s)
    BY Zenon, <2>3, ForwardIInv
  <2>4. CASE \E s \in Sockets :
               SubscribeQuery(s) \/ SubscribeInstall(s) \/ Unsubscribe(s) \/ CacheExpires(s)
    BY Zenon, <2>4, InboundIInv
  <2>5. CASE UNCHANGED vars
    BY Zenon, <2>5 DEF vars, DeliveryInv, TypeOK, HistoryCurrent, QueryWasAuthorized, CacheWasAuthorized, QueryNotBehind, SentWithAccess
  <2> QED
    BY Zenon, <2>1, <2>2, <2>3, <2>4, <2>5 DEF Next
<1> QED
  BY <1>1, <1>2, PTL DEF Spec

\* ws_manager.py: nothing published after a user lost the channel for good is
\* ever forwarded to one of their sockets.
THEOREM DeliveryAuthorized == Spec => []SentWithAccess
BY DeliveryInductive, PTL DEF DeliveryInv

\* ws_manager.py: the cache holds authorised generations only, and the refusal of
\* an event ahead of the generation just read never happens.
THEOREM CacheSound == Spec => []GateSound
BY DeliveryInductive, PTL DEF DeliveryInv, GateSound
=============================================================================
