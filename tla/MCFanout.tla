------------------------------ MODULE MCFanout ------------------------------
(***************************************************************************)
(* Presence and the worker's fan-out for TLC, in two parts: the presence   *)
(* of a user with two connections, possibly on two instances; and the      *)
(* fan-out beside the presence of one connection, on the same Redis.       *)
(***************************************************************************)
EXTENDS Fanout

CONSTANTS Parts, u1, c1, c2

VARIABLE part

MCOwner == [c \in {c1, c2} |-> u1]

allVars == <<part, vars, fanoutVars>>

MCInit == part \in Parts /\ Init /\ FanoutInit /\ (part = "presence" => legacy = {})

Alone == part = "presence" /\ UNCHANGED <<part, fanoutVars>>
Beside == part = "fanout" /\ UNCHANGED <<part, fanoutVars>>
Fans == part = "fanout" /\ UNCHANGED <<part, vars>>

MCNext ==
  \/ Alone /\ Next
  \/ Beside /\ PresenceNext /\ conn'[c2] = "new"
  \/ Fans /\ FanoutNext

Presents == Alone \/ (Beside /\ redisUp)

\* Time passes, heartbeats start and reapers run on every instance; the worker
\* is started, Redis comes back and a cancelled consumer ends.  The second
\* connection only moves in the first part.
Timely ==
  /\ WF_allVars((Alone \/ Beside) /\ Tick)
  /\ WF_allVars((Alone \/ Beside) /\ Beat(c1))
  /\ WF_allVars(Presents /\ Reap(c1))
  /\ WF_allVars((Alone /\ Beat(c2)) \/ (Fans /\ (Bootstrap \/ RedisBack)))
  /\ WF_allVars((Alone /\ Reap(c2)) \/ (Fans /\ \E u \in Users : Closed(u)))

\* A refresh reaches Redis again and again, and the worker scans while the user
\* is online.  The steps of a consumer take milliseconds, the leases and scans
\* that interrupt it seconds.
Persistent ==
  /\ SF_allVars(Presents /\ BeatLands(c1))
  /\ SF_allVars((Alone /\ BeatLands(c2)) \/ (Fans /\ online # {} /\ Scan))
  /\ SF_allVars(Fans /\ \E u \in Users : Consume(u))
  /\ SF_allVars(Fans /\ \E u \in Users : Push(u))
  /\ SF_allVars(Fans /\ \E u \in Users : Take(u))
  /\ SF_allVars(Fans /\ \E u \in Users : PublishRedis(u))
  /\ SF_allVars(Fans /\ \E u \in Users : Ack(u))

MCSpec == MCInit /\ [][MCNext]_allVars /\ Timely /\ Persistent
=============================================================================
