--------------------------- MODULE ChannelAccess ---------------------------
(***************************************************************************)
(* What the realtime gate relies on, for one user and one channel: whether  *)
(* the user may read the channel never changes without a new value of       *)
(* Channel.membership_generation.  The Membership module implements it.     *)
(***************************************************************************)
EXTENDS Naturals

CONSTANT MaxGeneration  \* bound on membership changes

VARIABLES
    access,     \* the channel is active and the user owner, admin or member
    generation  \* Channel.membership_generation

AccessInit ==
    /\ access \in BOOLEAN
    /\ generation = 1

\* A committed membership change, of this user or another: the generation is
\* bumped in the same transaction.
ChangeAccess ==
    /\ generation < MaxGeneration
    /\ generation' = generation + 1
    /\ access' \in BOOLEAN

AccessSpec == AccessInit /\ [][ChangeAccess]_<<access, generation>>
=============================================================================
