----------------------------- MODULE Membership -----------------------------
(***************************************************************************)
(* Roles, admin permissions and invites of one channel: the membership      *)
(* handlers of backend/app/services/channel_service.py and the channel      *)
(* suspension of admin_service.py.                                          *)
(*                                                                          *)
(* Every handler that changes a membership first takes the channel row FOR  *)
(* UPDATE and keeps it until its commit, so it is one action.  create_invite *)
(* takes the lock of its user instead, after an unlocked look at the role.  *)
(***************************************************************************)
EXTENDS Integers, FiniteSets

CONSTANTS
    Accounts, Owner,    \* the accounts, and the one that created the channel
    Invites,         \* invite rows that can be created
    InviteRequests,        \* concurrent create_invite requests
    PermChoices,     \* the permission sets an owner assigns
    MaxInvites,      \* max_active_invites_per_user
    MaxChannelGeneration,   \* bound on membership changes
    NoOne

\* ADMIN_PERMISSION_KEYS without can_publish, which no handler here reads, and
\* the NULL of a membership without admin permissions.
Null == {"NULL"}
Keys == {"can_invite", "can_approve", "can_manage_members", "can_edit_channel"}
DefaultPermissions == {"can_invite", "can_approve", "can_manage_members"}

ASSUME MembershipConstants ==
    /\ Owner \in Accounts
    /\ IsFiniteSet(Invites)
    /\ PermChoices \subseteq SUBSET Keys
    /\ MaxInvites \in Nat
    /\ MaxChannelGeneration \in Nat \ {0}
    /\ NoOne \notin Accounts /\ NoOne \notin InviteRequests

Roles == {"none", "pending", "member", "admin", "owner"}
Approved == {"owner", "admin", "member"}
JoinModes == {"open", "approval_required", "invite_only"}

VARIABLES
    role,        \* ChannelMembership.role, "none" without a row
    perms,       \* ChannelMembership.admin_permissions
    mode,        \* Channel.join_mode
    deleted,     \* Channel.deleted_at is set
    channelGeneration,  \* Channel.membership_generation
    desired,     \* BrokerBindingState.desired_bound, "none" without a row
    invites,     \* ChannelInvite rows
    req,         \* what each create_invite request has got to
    userLock     \* the create_invite holding the row lock of each user

membershipVars == <<role, perms, mode, deleted, channelGeneration, desired, invites, req, userLock>>

\* create_channel: the owner is a member and bound from the start.
MembershipInit ==
    /\ role = [u \in Accounts |-> IF u = Owner THEN "owner" ELSE "none"]
    /\ perms = [u \in Accounts |-> Null]
    /\ mode \in JoinModes
    /\ deleted = FALSE
    /\ channelGeneration = 1
    /\ desired = [u \in Accounts |-> IF u = Owner THEN "bound" ELSE "none"]
    /\ invites = [i \in Invites |-> NoOne]
    /\ req = [r \in InviteRequests |-> NoOne]
    /\ userLock = [u \in Accounts |-> NoOne]

-----------------------------------------------------------------------------
(* rbac.py *)

\* A stored permission map has every key.
normalize_admin_permissions(p) == IF p = Null THEN DefaultPermissions ELSE p

build_permissions(u) ==
    CASE role[u] = "owner" -> Keys
      [] role[u] = "admin" -> normalize_admin_permissions(perms[u])
      [] OTHER -> {}

can_remove(actor, target) ==
    \/ role[actor] = "owner" /\ role[target] # "owner"
    \/ role[actor] = "admin" /\ role[target] \in {"member", "pending"}

-----------------------------------------------------------------------------
(* The bookkeeping of a membership change: _enqueue_membership_update bumps *)
(* the generation and derives the desired binding from the new role.        *)

\* Mutant of ChangeRole: the binding is only touched when a member is added.
ChangeBindOnly(u, r, p) ==
    /\ channelGeneration < MaxChannelGeneration
    /\ role' = [role EXCEPT ![u] = r]
    /\ perms' = [perms EXCEPT ![u] = p]
    /\ channelGeneration' = channelGeneration + 1
    /\ desired' = [desired EXCEPT ![u] = IF r \in Approved THEN "bound" ELSE @]

ChangeRole(u, r, p) ==
    /\ channelGeneration < MaxChannelGeneration
    /\ role' = [role EXCEPT ![u] = r]
    /\ perms' = [perms EXCEPT ![u] = p]
    /\ channelGeneration' = channelGeneration + 1
    /\ desired' = [desired EXCEPT ![u] = IF r \in Approved THEN "bound" ELSE "unbound"]

\* Mutant of TouchApproved: deleting and restoring keep the generation.
TouchApprovedQuietly(state) ==
    /\ channelGeneration < MaxChannelGeneration
    /\ channelGeneration' = channelGeneration
    /\ desired' = [u \in Accounts |-> IF role[u] \in Approved THEN state ELSE desired[u]]
    /\ UNCHANGED <<role, perms>>

\* delete_channel and restore_channel touch the bindings of the approved members.
TouchApproved(state) ==
    /\ channelGeneration < MaxChannelGeneration
    /\ channelGeneration' = channelGeneration + 1
    /\ desired' = [u \in Accounts |-> IF role[u] \in Approved THEN state ELSE desired[u]]
    /\ UNCHANGED <<role, perms>>

-----------------------------------------------------------------------------
(* Invites *)

Targeted(i) == invites[i].target # NoOne

\* An invite that counts against its creator's quota.
InviteActive(i, u) ==
    /\ invites[i] # NoOne
    /\ invites[i].creator = u
    /\ ~invites[i].revoked
    /\ ~invites[i].expired
    /\ ~(Targeted(i) /\ invites[i].accepted)

\* _validate_invite, with the invite row locked.  A target is the invited user
\* or the verified holder of the invited address.
validate_invite(i, u) ==
    /\ invites[i] # NoOne
    /\ ~invites[i].revoked
    /\ ~(Targeted(i) /\ invites[i].accepted)
    /\ ~invites[i].expired
    /\ invites[i].target \in {NoOne, u}

\* accepted_at is set for a targeted invite only; uses counts the memberships
\* an invite has granted, as the audit events do.
Spend(i) ==
    invites' = [invites EXCEPT ![i].accepted = @ \/ Targeted(i), ![i].uses = @ + 1]

\* create_invite, up to its lock: the channel and the role are read unlocked.
CreateInviteCheck(r, u) ==
    /\ req[r] = NoOne
    /\ ~deleted
    /\ "can_invite" \in build_permissions(u)
    /\ req' = [req EXCEPT ![r] = [user |-> u, counted |-> FALSE]]
    /\ UNCHANGED <<role, perms, mode, deleted, channelGeneration, desired, invites, userLock>>

ActiveInvites(u) == {i \in Invites : InviteActive(i, u)}

\* Mutant of CreateInviteCount: the user row is not locked before counting.
CreateInviteCountUnlocked(r) ==
    /\ req[r] # NoOne /\ ~req[r].counted
    /\ IF Cardinality(ActiveInvites(req[r].user)) >= MaxInvites
       THEN req' = [req EXCEPT ![r] = NoOne]
       ELSE req' = [req EXCEPT ![r].counted = TRUE]
    /\ UNCHANGED <<role, perms, mode, deleted, channelGeneration, desired, invites, userLock>>

\* The user row FOR UPDATE, then the quota.
CreateInviteCount(r) ==
    /\ req[r] # NoOne /\ ~req[r].counted
    /\ userLock[req[r].user] = NoOne
    /\ IF Cardinality(ActiveInvites(req[r].user)) >= MaxInvites
       THEN req' = [req EXCEPT ![r] = NoOne] /\ UNCHANGED userLock
       ELSE /\ req' = [req EXCEPT ![r].counted = TRUE]
            /\ userLock' = [userLock EXCEPT ![req[r].user] = r]
    /\ UNCHANGED <<role, perms, mode, deleted, channelGeneration, desired, invites>>

CreateInviteInsert(r, i, target) ==
    /\ req[r] # NoOne /\ req[r].counted
    /\ invites[i] = NoOne
    /\ invites' = [invites EXCEPT ![i] =
          [creator |-> req[r].user, target |-> target,
           revoked |-> FALSE, accepted |-> FALSE, expired |-> FALSE, uses |-> 0]]
    /\ req' = [req EXCEPT ![r] = NoOne]
    /\ userLock' = [userLock EXCEPT ![req[r].user] = IF @ = r THEN NoOne ELSE @]
    /\ UNCHANGED <<role, perms, mode, deleted, channelGeneration, desired>>

revoke_invite(actor, i) ==
    /\ ~deleted
    /\ "can_invite" \in build_permissions(actor)
    /\ invites[i] # NoOne
    /\ ~invites[i].revoked
    /\ ~(Targeted(i) /\ invites[i].accepted)
    /\ invites' = [invites EXCEPT ![i].revoked = TRUE]
    /\ UNCHANGED <<role, perms, mode, deleted, channelGeneration, desired, req, userLock>>

\* expires_at passes.
InviteExpires(i) ==
    /\ invites[i] # NoOne
    /\ ~invites[i].expired
    /\ invites' = [invites EXCEPT ![i].expired = TRUE]
    /\ UNCHANGED <<role, perms, mode, deleted, channelGeneration, desired, req, userLock>>

\* A generic invite does nothing for an approved member; a targeted one makes
\* whoever it is for a plain member.
accept_invite(u, i) ==
    /\ ~deleted
    /\ validate_invite(i, u)
    /\ Targeted(i) \/ role[u] \notin Approved
    /\ ChangeRole(u, "member", Null)
    /\ Spend(i)
    /\ UNCHANGED <<mode, deleted, req, userLock>>

-----------------------------------------------------------------------------
(* Memberships *)

join_channel(u) ==
    /\ ~deleted
    /\ role[u] = "none"
    /\ \/ /\ mode = "invite_only"
          /\ \E i \in Invites : validate_invite(i, u) /\ Spend(i)
          /\ ChangeRole(u, "member", Null)
       \/ /\ mode = "approval_required"
          /\ ChangeRole(u, "pending", Null)
          /\ UNCHANGED invites
       \/ /\ mode = "open"
          /\ ChangeRole(u, "member", Null)
          /\ UNCHANGED invites
    /\ UNCHANGED <<mode, deleted, req, userLock>>

approve_member(actor, target) ==
    /\ ~deleted
    /\ "can_approve" \in build_permissions(actor)
    /\ role[target] = "pending"
    /\ ChangeRole(target, "member", Null)
    /\ UNCHANGED <<mode, deleted, invites, req, userLock>>

\* The target may already have any role: it becomes a plain member.
add_member_direct(actor, target) ==
    /\ ~deleted
    /\ "can_manage_members" \in build_permissions(actor)
    /\ ChangeRole(target, "member", Null)
    /\ UNCHANGED <<mode, deleted, invites, req, userLock>>

promote_member(actor, target) ==
    /\ ~deleted
    /\ role[actor] = "owner"
    /\ role[target] = "member"
    /\ ChangeRole(target, "admin", normalize_admin_permissions(perms[target]))
    /\ UNCHANGED <<mode, deleted, invites, req, userLock>>

demote_member(actor, target) ==
    /\ ~deleted
    /\ role[actor] = "owner"
    /\ role[target] = "admin"
    /\ ChangeRole(target, "member", Null)
    /\ UNCHANGED <<mode, deleted, invites, req, userLock>>

update_admin_permissions(actor, target, p) ==
    /\ ~deleted
    /\ role[actor] = "owner"
    /\ role[target] = "admin"
    /\ ChangeRole(target, "admin", p)
    /\ UNCHANGED <<mode, deleted, invites, req, userLock>>

remove_member(actor, target) ==
    /\ ~deleted
    /\ role[target] # "none"
    /\ "can_manage_members" \in build_permissions(actor)
    /\ can_remove(actor, target)
    /\ ChangeRole(target, "none", Null)
    /\ UNCHANGED <<mode, deleted, invites, req, userLock>>

leave_channel(u) ==
    /\ ~deleted
    /\ role[u] \notin {"none", "owner"}
    /\ ChangeRole(u, "none", Null)
    /\ UNCHANGED <<mode, deleted, invites, req, userLock>>

-----------------------------------------------------------------------------
(* The channel *)

\* update_channel, of which only the join mode matters here.
update_channel(actor, m) ==
    /\ ~deleted
    /\ "can_edit_channel" \in build_permissions(actor)
    /\ mode' = m
    /\ UNCHANGED <<role, perms, deleted, channelGeneration, desired, invites, req, userLock>>

\* By the owner, or by a superadmin who need not be a member.
delete_channel ==
    /\ ~deleted
    /\ deleted' = TRUE
    /\ TouchApproved("unbound")
    /\ UNCHANGED <<mode, invites, req, userLock>>

restore_channel ==
    /\ deleted
    /\ deleted' = FALSE
    /\ TouchApproved("bound")
    /\ UNCHANGED <<mode, invites, req, userLock>>

MembershipNext ==
    \/ \E u \in Accounts, i \in Invites : revoke_invite(u, i) \/ accept_invite(u, i)
    \/ \E i \in Invites : InviteExpires(i)
    \/ \E r \in InviteRequests :
        \/ \E u \in Accounts : CreateInviteCheck(r, u)
        \/ CreateInviteCount(r)
        \/ \E i \in Invites, t \in Accounts \cup {NoOne} : CreateInviteInsert(r, i, t)
    \/ \E u \in Accounts : join_channel(u) \/ leave_channel(u)
    \/ \E a, t \in Accounts :
        \/ approve_member(a, t) \/ add_member_direct(a, t) \/ promote_member(a, t)
        \/ demote_member(a, t) \/ remove_member(a, t)
        \/ \E p \in PermChoices : update_admin_permissions(a, t, p)
    \/ \E a \in Accounts, m \in JoinModes : update_channel(a, m)
    \/ delete_channel
    \/ restore_channel

MembershipSpec == MembershipInit /\ [][MembershipNext]_membershipVars

-----------------------------------------------------------------------------
(* Properties. *)

InviteRow ==
    [creator : Accounts, target : Accounts \cup {NoOne},
     revoked : BOOLEAN, accepted : BOOLEAN, expired : BOOLEAN, uses : Nat]

\* The variables have their types.
MembershipTypeOK ==
    /\ role \in [Accounts -> Roles]
    /\ perms \in [Accounts -> (SUBSET Keys) \cup {Null}]
    /\ mode \in JoinModes
    /\ deleted \in BOOLEAN
    /\ channelGeneration \in 1..MaxChannelGeneration
    /\ desired \in [Accounts -> {"none", "bound", "unbound"}]
    /\ invites \in [Invites -> InviteRow \cup {NoOne}]
    /\ req \in [InviteRequests -> [user : Accounts, counted : BOOLEAN] \cup {NoOne}]
    /\ userLock \in [Accounts -> InviteRequests \cup {NoOne}]

\* outbox_service.py: through every join, role change, removal, deletion and
\* restoration the desired broker binding of a user is "bound" exactly when
\* the channel is active and the user an approved member of it.
DesiredMatchesRole ==
    \A u \in Accounts : desired[u] = "bound" <=> ~deleted /\ role[u] \in Approved

\* rbac.py: admin permissions exist for admins only, so that a role gained
\* later never starts from the permissions of an earlier one.
PermissionsOnlyForAdmins == \A u \in Accounts : role[u] # "admin" => perms[u] = Null

\* channel_service.py: a creator never has more active invites than the quota,
\* however many create_invite requests run at once.
InviteQuota == \A u \in Accounts : Cardinality(ActiveInvites(u)) <= MaxInvites

\* channel_service.py, outbox_service.py: whatever changes who may do what in
\* the channel also gets a membership generation of its own.  The realtime
\* gate and its caches rely on nothing else.
AccessVersioned ==
    [][<<role, perms, deleted>>' # <<role, perms, deleted>>
         => channelGeneration' = channelGeneration + 1]_membershipVars

\* channel_service.py: a targeted invite grants one membership at most, through
\* joins, acceptances, removals and returns, and is marked accepted when it has.
TargetedInviteOnce ==
    \A i \in Invites :
        invites[i] # NoOne /\ Targeted(i) =>
            invites[i].uses = IF invites[i].accepted THEN 1 ELSE 0

\* Both bounds on invites.
InvitesBounded == InviteQuota /\ TargetedInviteOnce

\* The realtime gate's view of the channel is an abstraction of these handlers:
\* for every user, whatever opens or closes the channel to them is one step of
\* ChannelAccess, with a generation of its own.
Access(u) == ~deleted /\ role[u] \in Approved

View(u) == INSTANCE ChannelAccess
    WITH access <- Access(u), generation <- channelGeneration, MaxGeneration <- MaxChannelGeneration

ImplementsChannelAccess ==
    /\ \A u \in Accounts : View(u)!AccessInit
    /\ [][\A u \in Accounts : [View(u)!ChangeAccess]_<<Access(u), channelGeneration>>]_membershipVars

\* channel_service.py: "owner cannot leave channel without transferring
\* ownership", and no handler transfers it: the creator stays the owner.
OwnerKept == role[Owner] = "owner"
=============================================================================
