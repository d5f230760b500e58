-------------------------------- MODULE Selftest --------------------------------
(***************************************************************************)
(* The selftest command (src/src/cli.rs) next to the start and stop of     *)
(* RunControl.  It takes the session's running flag and returns; a thread  *)
(* of its own then makes one short run, a leg, over each transport, with   *)
(* the session's stopping flag, metrics and database, and without the      *)
(* session knowing of it: run_id and run_started stay those of the last    *)
(* run that was started.  A row of the external database under id 0, of a  *)
(* stop when nothing was ever started, belongs to no run and is left out.  *)
(***************************************************************************)
EXTENDS RunControl

CONSTANT Selftests  (* threads that make the legs of a selftest            *)

VARIABLES
  leg,        (* the next statement of each selftest                       *)
  leg_run,    (* the local run_id of each                                  *)
  legs        (* history: the runs that were legs                          *)

selftestVars == <<leg, leg_run, legs>>
allVars == <<vars, selftestVars>>

(* selftest_leg: 526, 536, 537-538, 541-561, 568, 569, 575-576, 578-599,   *)
(* 600, 601; run_selftest: 490-507.                                        *)
LegStatements ==
  {"draw", "clear", "reset", "spawn", "row", "gate", "halt", "evaluate", "complete", "record", "next"}

SelftestInit ==
  /\ Init
  /\ leg = [s \in Selftests |-> "off"]
  /\ leg_run = [s \in Selftests |-> 0]
  /\ legs = {}

Alive == pc[Shell] # "gone"

-----------------------------------------------------------------------------

(* The statement a leg executes, and the one it goes on with.              *)
LegGoto(s, from, to) == Alive /\ leg[s] = from /\ leg' = [leg EXCEPT ![s] = to]

(* A selftest that finds a run active is refused; one that finds no        *)
(* transport gives the flag back.                                          *)
BeginSelftest(s) ==
  /\ \E o \in Operators : Idle(o)
  /\ ~running
  /\ LegGoto(s, "off", "draw")
  /\ running' = TRUE
  /\ UNCHANGED <<stopping, run_started, run_id, server_enabled, storeVars, pc, mine, gate,
                 trafficVars, counted, outcome, leg_run, legs>>

(* Mutant: the leg is published as the session's run.                      *)
LegDrawPublished(s) ==
  /\ drawn < MaxRuns
  /\ LegGoto(s, "draw", "clear")
  /\ drawn' = drawn + 1
  /\ run_id' = drawn + 1
  /\ leg_run' = [leg_run EXCEPT ![s] = drawn + 1]
  /\ legs' = legs \union {drawn + 1}
  /\ UNCHANGED <<stopping, running, run_started, server_enabled, rows, external, pc, mine, gate,
                 trafficVars, counted, outcome>>

LegDraw(s) ==
  /\ drawn < MaxRuns
  /\ LegGoto(s, "draw", "clear")
  /\ drawn' = drawn + 1
  /\ leg_run' = [leg_run EXCEPT ![s] = drawn + 1]
  /\ legs' = legs \union {drawn + 1}
  /\ UNCHANGED <<flagVars, server_enabled, rows, external, pc, mine, gate, trafficVars, counted,
                 outcome>>

LegClear(s) ==
  /\ LegGoto(s, "clear", "reset")
  /\ stopping' = FALSE
  /\ UNCHANGED <<running, run_started, run_id, server_enabled, storeVars, pc, mine, gate,
                 trafficVars, counted, outcome, leg_run, legs>>

LegReset(s) ==
  /\ LegGoto(s, "reset", "spawn")
  /\ counted' = {}
  /\ UNCHANGED <<flagVars, server_enabled, storeVars, pc, mine, gate, trafficVars, outcome,
                 leg_run, legs>>

(* A server and one client of it, whatever the session has enabled.        *)
LegSpawn(s) ==
  /\ LegGoto(s, "spawn", "row")
  /\ server' = [server EXCEPT ![leg_run[s]] = "binding"]
  /\ thread' = [thread EXCEPT ![leg_run[s]] = "gated"]
  /\ UNCHANGED <<flagVars, server_enabled, storeVars, pc, mine, gate, counted, outcome, leg_run,
                 legs>>

LegRow(s) ==
  /\ LegGoto(s, "row", "gate")
  /\ rows' = [rows EXCEPT ![leg_run[s]] = "running"]
  /\ UNCHANGED <<flagVars, server_enabled, drawn, external, pc, mine, gate, trafficVars, counted,
                 outcome, leg_run, legs>>

LegGate(s) ==
  /\ LegGoto(s, "gate", "halt")
  /\ gate' = gate \union {leg_run[s]}
  /\ UNCHANGED <<flagVars, server_enabled, storeVars, pc, mine, trafficVars, counted, outcome,
                 leg_run, legs>>

(* Mutant: a leg that finds itself stopped has nothing left to do.         *)
LegHaltsOnce(s) ==
  /\ LegGoto(s, "halt", IF stopping THEN "next" ELSE "evaluate")
  /\ stopping' = TRUE
  /\ UNCHANGED <<running, run_started, run_id, server_enabled, storeVars, pc, mine, gate,
                 trafficVars, counted, outcome, leg_run, legs>>

(* After SELFTEST_SECONDS.                                                 *)
LegHalt(s) ==
  /\ LegGoto(s, "halt", "evaluate")
  /\ stopping' = TRUE
  /\ UNCHANGED <<running, run_started, run_id, server_enabled, storeVars, pc, mine, gate,
                 trafficVars, counted, outcome, leg_run, legs>>

(* evaluate_run and run_debrief.                                           *)
LegEvaluate(s) ==
  /\ LegGoto(s, "evaluate", "complete")
  /\ outcome' = [outcome EXCEPT ![leg_run[s]] = counted]
  /\ UNCHANGED <<flagVars, server_enabled, storeVars, pc, mine, gate, trafficVars, counted,
                 leg_run, legs>>

LegComplete(s, verdict) ==
  /\ LegGoto(s, "complete", "record")
  /\ Close(leg_run[s], verdict)
  /\ UNCHANGED <<flagVars, server_enabled, drawn, external, pc, mine, gate, trafficVars, counted,
                 outcome, leg_run, legs>>

LegRecord(s) ==
  /\ LegGoto(s, "record", "next")
  /\ external' = [external EXCEPT ![leg_run[s]] = @ + 1]
  /\ UNCHANGED <<flagVars, server_enabled, drawn, rows, pc, mine, gate, trafficVars, counted,
                 outcome, leg_run, legs>>

(* After a second, in which threads may or may not have ended.             *)
NextLeg(s) ==
  /\ LegGoto(s, "next", "draw")
  /\ UNCHANGED <<vars, leg_run, legs>>

EndSelftest(s) ==
  /\ LegGoto(s, "next", "off")
  /\ running' = FALSE
  /\ UNCHANGED <<stopping, run_started, run_id, server_enabled, storeVars, pc, mine, gate,
                 trafficVars, counted, outcome, leg_run, legs>>

-----------------------------------------------------------------------------

Leg(s) ==
  \/ LegDraw(s)
  \/ LegClear(s)
  \/ LegReset(s)
  \/ LegSpawn(s)
  \/ LegRow(s)
  \/ LegGate(s)
  \/ LegHalt(s)
  \/ LegEvaluate(s)
  \/ \E verdict \in {"ok", "fail"} : LegComplete(s, verdict)
  \/ LegRecord(s)
  \/ NextLeg(s)
  \/ EndSelftest(s)

(* What the session and the traffic threads do meanwhile.                  *)
SessionStep ==
  /\ Next
  /\ UNCHANGED selftestVars

SelftestNext ==
  \/ SessionStep
  \/ \E s \in Selftests : BeginSelftest(s) \/ Leg(s)

SelftestSpec == SelftestInit /\ [][SelftestNext]_allVars

(* A selftest goes on whatever the session does; its sleeps and its        *)
(* debrief end.                                                            *)
SelftestFairSpec == SelftestSpec /\ \A s \in Selftests : WF_allVars(Leg(s))

-----------------------------------------------------------------------------

(* Whatever stops, starts and Esc come in between, a leg's row in the       *)
(* external database is written once, when the leg has its verdict, and    *)
(* its traffic is counted only when it has a row (selftest_leg, cli.rs).   *)
LegsRecordedOnce ==
  \A r \in legs :
    /\ external[r] <= 1
    /\ rows[r] = "running" => external[r] = 0
    /\ r \in counted => rows[r] # "none"

(* Each leg goes from "start to verdict" (doc/netmark.md:313), stopped in  *)
(* between or not, unless the process ends.                                *)
LegsGetVerdict ==
  \A r \in Runs : r \in legs /\ rows[r] = "running" ~> rows[r] # "running" \/ ~Alive

=============================================================================
