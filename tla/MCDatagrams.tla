------------------------------ MODULE MCDatagrams ------------------------------
(* Instances of Datagrams for TLC. *)
EXTENDS Datagrams, TLC

CONSTANTS c0, c1

TwoClients == {c0, c1}

OwnIds == (c0 :> 0) @@ (c1 :> 1)

================================================================================
