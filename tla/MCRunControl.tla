------------------------------ MODULE MCRunControl ------------------------------
(* Instances of RunControl for TLC. *)
EXTENDS RunControl

CONSTANT shell

OneOperator == {shell}

================================================================================
