----------------------------- MODULE MCEvaluation -----------------------------
(* Instances of Evaluation for TLC. *)
EXTENDS Evaluation, TLC

CONSTANTS t1, t2
TwoThreads == {t1, t2}
Symmetry == Permutations(TwoThreads)

(* They share the jitter clock, and not the limits. *)
UdpAndIp == {"udp", "ip"}

(* A packet on its way for a unit, and one of a sender whose clock is a     *)
(* unit ahead.                                                              *)
LateOrAhead == {1, -1}

JustOne == {1}
JustTwo == {2}

OneThreadAtATime == \A t, u \in Threads : hand[t] # Idle /\ hand[u] # Idle => t = u

NoLimits == \A p \in Protocols, q \in Parameters : limits[p][q] = 0

(* Bound: the instance looks at one kind of interference at a time.         *)
ThreadsAndTime ==
  legs = 0 /\ configured = 0 /\ NoLimits /\ packet_type = "udp"

SettingsAndLimits ==
  legs = 0 /\ now = 0 /\ OneThreadAtATime

LegBesideRun ==
  now = 0 /\ configured = 0 /\ NoLimits /\ run <= 1 /\ OneThreadAtATime

Interference == ThreadsAndTime \/ SettingsAndLimits \/ LegBesideRun

================================================================================
