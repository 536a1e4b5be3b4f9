----------------------------- MODULE SessionLife -----------------------------
(***************************************************************************)
(* What the rest of the system may assume of a login session: it is opened  *)
(* once, ends once, by revocation or at its absolute deadline, and is never *)
(* live again.  AuthSession implements it; sockets are built on it.         *)
(***************************************************************************)
CONSTANT Sessions

VARIABLE life

LifeInit == life = [s \in Sessions |-> "none"]

Open(s) == life[s] = "none" /\ life' = [life EXCEPT ![s] = "live"]

\* Any number of sessions end together.
End(S) ==
    /\ \A s \in S : life[s] = "live"
    /\ life' = [s \in Sessions |-> IF s \in S THEN "ended" ELSE life[s]]

LifeNext == (\E s \in Sessions : Open(s)) \/ (\E S \in SUBSET Sessions : End(S))

LifeSpec == LifeInit /\ [][LifeNext]_life
=============================================================================
