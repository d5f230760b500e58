------------------------------- MODULE MCCommands -------------------------------
(* The shell, two requests, and one administrator's address.               *)
EXTENDS Commands

CONSTANTS r1, r2, ann, torn

TwoRequests == {r1, r2}
OneEmail == {ann}
TornFile == {torn}

=============================================================================
