------------------------------- MODULE MCSelftest -------------------------------
(* Instances of Selftest for TLC. *)
EXTENDS Selftest

CONSTANTS shell, s0

OneOperator == {shell}
OneSelftest == {s0}

(* Bound: the runs of the session itself have no threads; those that have   *)
(* are in MCRunControl.                                                    *)
SessionIsQuiet ==
  /\ ~server_enabled
  /\ \A r \in Runs \ legs : thread[r] \in {"none", "done"}

=============================================================================
