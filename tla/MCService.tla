------------------------------ MODULE MCService ------------------------------
(***************************************************************************)
(* The request handlers of the backend for TLC: memberships of a channel,  *)
(* its messages, the gate in front of a socket and the history pages of    *)
(* REST; the sessions of an account, the                                   *)
(* verification of e-mail addresses, the rate limiter and the budget of a  *)
(* socket.  They share no state, so each behaviour moves one of them: part *)
(* says which.  Membership and Messages have two parts each: longer        *)
(* histories with one invite request at a time and concurrent ones; two    *)
(* messages without reactions and one with them.                           *)
(***************************************************************************)
EXTENDS Membership, Messages, WSDelivery, History,
        AuthSession, EmailVerification, RateLimit, TLC

CONSTANTS Parts, o, a1, a2, b1, b2, c1, c2

VARIABLE part

MCPermChoices == {{"can_invite", "can_edit_channel"}}

channelVars == <<membershipVars, messageVars, vars, historyVars>>
accountVars == <<authVars, emailVars, rateVars>>
serviceVars == <<part, channelVars, accountVars>>

\* The parts that do not move start in one arbitrary initial state.
Still ==
  /\ part \notin {"membership", "invites"} => mode = "open"
  /\ part # "gate" => access
  /\ Cardinality({p \in People : email[p] # NoMailbox}) = IF part = "email" THEN 1 ELSE 0

MCInit ==
  /\ part \in Parts
  /\ MembershipInit /\ MessagesInit /\ Init /\ HistoryInit
  /\ AuthInit /\ EmailInit /\ RateInit
  /\ Still

ChannelPart(p) ==
  /\ part = p
  /\ p \notin {"membership", "invites"} => UNCHANGED membershipVars
  /\ p \notin {"messages", "reactions"} => UNCHANGED messageVars
  /\ p # "gate" => UNCHANGED vars
  /\ p # "history" => UNCHANGED historyVars

ChannelsNext ==
  \/ ChannelPart("membership") /\ MembershipNext /\ Cardinality({r \in InviteRequests : req'[r] # NoOne}) <= 1
  \/ ChannelPart("invites") /\ MembershipNext /\ channelGeneration' <= 2
  \/ ChannelPart("messages") /\ MessagesNext /\ \A r \in Active' : tx'[r].op \notin {"react", "unreact"}
  \/ ChannelPart("reactions") /\ MessagesNext /\ last_seq_id' <= 1
  \/ ChannelPart("gate") /\ Next
  \/ ChannelPart("history") /\ HistoryNext

\* Of the two people one asks for challenges, one mail at a time is on its way.
OneSubject ==
  /\ Cardinality({challenge'[t].user : t \in {u \in Tokens : challenge'[u] # NoToken}}) <= 1
  /\ Cardinality(sending' \cup failing') <= 1

AccountsNext ==
  \/ part = "sessions" /\ AuthNext /\ UNCHANGED <<emailVars, rateVars>>
  \/ part = "email" /\ EmailNext /\ OneSubject /\ UNCHANGED <<authVars, rateVars>>
  \/ part = "limiter" /\ (Elapse \/ LimitNext \/ (RedisFlips /\ clock <= 2)) /\ UNCHANGED <<authVars, emailVars>>
  \/ part = "budget" /\ (Elapse \/ BucketNext) /\ UNCHANGED <<authVars, emailVars>>

MCNext ==
  \/ ChannelsNext /\ UNCHANGED <<part, accountVars>>
  \/ AccountsNext /\ UNCHANGED <<part, channelVars>>

MCSpec == MCInit /\ [][MCNext]_serviceVars

\* Every part has up to three sets whose members are interchangeable; the parts
\* take them from the same model values.
MCSymmetry == UNION {Permutations(S) : S \in {{a1, a2}, {b1, b2}, {c1, c2}}}
=============================================================================
