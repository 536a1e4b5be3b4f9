----------------------------- MODULE MCClients ------------------------------
(***************************************************************************)
(* What a client depends on, for TLC, in three parts: the sockets of a user *)
(* with two sessions and two tickets, on two instances; POST /sync over a   *)
(* private and a public channel; and the history commands of a socket over  *)
(* the same channels.  No behaviour mixes them: part says which one it is.  *)
(***************************************************************************)
EXTENDS SocketLifecycle, CatchUp

CONSTANT Parts

VARIABLE part

clientsVars == <<part, lifecycleVars, catchUpVars>>

MCInit == part \in Parts /\ SocketInit /\ CatchUpInit

SocketPart == part = "sockets" /\ UNCHANGED <<part, catchUpVars>>
SyncPart == part = "sync" /\ UNCHANGED <<part, lifecycleVars, socketState>>

\* The commands of a socket: no sync, no reload of the channel list, and one
\* message in the second channel.
CommandPart ==
  /\ part = "commands" /\ UNCHANGED <<part, lifecycleVars>>
  /\ request' # Idle => request'.kind # "sync"
  /\ known' = known /\ lastSeq'[2] <= 1

MCNext ==
  \/ SocketPart /\ SocketNext
  \/ SyncPart /\ CatchUpNext
  \/ CatchUpNext /\ CommandPart

\* Handlers proceed, timers fire and closed sockets are given up; a request is
\* answered, and the client syncs again and again.
MCFair ==
  /\ \A w \in Sockets : WF_clientsVars(SocketPart /\ SocketStep(w))
  /\ WF_clientsVars(SyncPart /\ AnswerStep)
  /\ SF_clientsVars(SyncPart /\ SyncBegin)

MCSpec == MCInit /\ [][MCNext]_clientsVars /\ MCFair

\* message_service.py: a client that keeps syncing gets every live message of
\* its channels, although all of them share the limit of a request.
CatchesUp ==
  \A m \in Rooms \X (1..MaxSeq) :
    part = "sync" /\ Missing(m) ~> ~Missing(m) \/ known \cap joined \cap removed # {}
=============================================================================
