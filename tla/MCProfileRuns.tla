----------------------------- MODULE MCProfileRuns -----------------------------
(* Instances of ProfileRuns for TLC. *)
EXTENDS ProfileRuns

CONSTANTS p0, p1

TwoPosts == {p0, p1}

================================================================================
