------------------------------- MODULE MCDebrief -------------------------------
(* Instances of Debrief for TLC. *)
EXTENDS Debrief, TLC

CONSTANTS h0, h1

TwoHosts == {h0, h1}

OwnRunIds == (h0 :> 1) @@ (h1 :> 2)

================================================================================
