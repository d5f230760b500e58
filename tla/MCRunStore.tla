------------------------------ MODULE MCRunStore ------------------------------
(* Instances of RunStore for TLC. *)
EXTENDS RunStore

CONSTANTS shell, profile

OneSession == {shell}
OneRunner == {profile}

================================================================================
