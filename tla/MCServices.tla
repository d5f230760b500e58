------------------------------- MODULE MCServices -------------------------------
(* Two operators, two addresses and as many listeners, two monitor ids.    *)
EXTENDS Services

CONSTANTS o1, o2, local, public

TwoOperators == {o1, o2}
TwoAddresses == {local, public}

=============================================================================
