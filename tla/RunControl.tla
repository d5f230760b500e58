------------------------------- MODULE RunControl -------------------------------
(***************************************************************************)
(* Session (src/src/session.rs) and the threads it starts: the start and   *)
(* stop commands, which the interactive shell executes, or under --serve   *)
(* the requests of the web CLI in their own threads without a common lock; *)
(* Esc, `server disable` and the end of the interactive loop (main.rs; the *)
(* model has a shell and requests together, more than any process); the    *)
(* traffic threads of each run, its start gate and the flag that all runs  *)
(* of a session share.  Rows are SqlState's and live in RunStore in full:  *)
(* here no other process opens the file and no statement fails.            *)
(***************************************************************************)
EXTENDS Naturals

CONSTANTS
  Operators,  (* threads that execute session commands                     *)
  Shell,      (* the one among them that is the interactive main loop      *)
  MaxRuns     (* bound on the runs ever drawn                              *)

ASSUME ControlAssumption ==
  /\ Shell \in Operators
  /\ MaxRuns \in Nat

Runs == 1 .. MaxRuns

VARIABLES
  stopping,        (* Session.stopping                                      *)
  running,         (* Session.running                                       *)
  run_started,     (* is Session.run_started set?                           *)
  run_id,          (* Session.run_id                                        *)
  server_enabled,  (* Session.server_enabled                                *)
  drawn,           (* run ids drawn so far                                  *)
  rows,            (* runs.result by id                                     *)
  external,        (* rows written to the external database, by run id      *)
  pc,              (* the next statement of each operator's command         *)
  mine,            (* the local run_id of each operator's command           *)
  gate,            (* runs whose StartGate is open                          *)
  thread,          (* the client thread of each run                         *)
  server,          (* the server thread of each run                         *)
  counted,         (* runs whose threads have counted since reset_run       *)
  outcome          (* history: counted, as a run's verdict saw it           *)

flagVars == <<stopping, running, run_started, run_id>>
storeVars == <<drawn, rows, external>>
trafficVars == <<thread, server>>
vars == <<flagVars, server_enabled, storeVars, pc, mine, gate, trafficVars, counted, outcome>>

(* start: 448, 462, 463, 466, 467, 469, 473-500, 501, 502, 503.            *)
Starting == {"draw", "publish", "clear", "reset", "spawn", "row", "run", "gate"}

(* stop: 512, 513, 514-521, 522-552, 553, 554.                             *)
Stopping == {"flag", "halt", "take", "evaluate", "complete", "record"}

TypeOK ==
  /\ stopping \in BOOLEAN
  /\ running \in BOOLEAN
  /\ run_started \in BOOLEAN
  /\ run_id \in 0 .. MaxRuns
  /\ server_enabled \in BOOLEAN
  /\ drawn \in 0 .. MaxRuns
  /\ rows \in [Runs -> {"none", "running", "ok", "fail", "aborted"}]
  /\ external \in [Runs -> Nat]
  /\ pc \in [Operators -> {"ready", "gone"} \union Starting \union Stopping]
  /\ mine \in [Operators -> 0 .. MaxRuns]
  /\ gate \subseteq Runs
  /\ thread \in [Runs -> {"none", "gated", "looping", "sending", "done"}]
  /\ server \in [Runs -> {"none", "binding", "gated", "looping", "receiving", "done"}]
  /\ counted \subseteq Runs
  /\ outcome \in [Runs -> SUBSET Runs]

Init ==
  /\ stopping = FALSE
  /\ running = FALSE
  /\ run_started = FALSE
  /\ run_id = 0
  /\ server_enabled = FALSE
  /\ drawn = 0
  /\ rows = [r \in Runs |-> "none"]
  /\ external = [r \in Runs |-> 0]
  /\ pc = [o \in Operators |-> "ready"]
  /\ mine = [o \in Operators |-> 0]
  /\ gate = {}
  /\ thread = [r \in Runs |-> "none"]
  /\ server = [r \in Runs |-> "none"]
  /\ counted = {}
  /\ outcome = [r \in Runs |-> {}]

-----------------------------------------------------------------------------

Goto(o, from, to) == pc[o] = from /\ pc' = [pc EXCEPT ![o] = to]

(* A start that finds a run active is refused; so is one of a transport    *)
(* that is turned off, which changes nothing either.                       *)
CheckIdle(o) ==
  /\ ~running
  /\ Goto(o, "ready", "draw")
  /\ UNCHANGED <<flagVars, server_enabled, storeVars, mine, gate, trafficVars, counted, outcome>>

DrawId(o) ==
  /\ drawn < MaxRuns
  /\ Goto(o, "draw", "publish")
  /\ drawn' = drawn + 1
  /\ mine' = [mine EXCEPT ![o] = drawn + 1]
  /\ UNCHANGED <<flagVars, server_enabled, rows, external, gate, trafficVars, counted, outcome>>

PublishId(o) ==
  /\ Goto(o, "publish", "clear")
  /\ run_id' = mine[o]
  /\ UNCHANGED <<stopping, running, run_started, server_enabled, storeVars, mine, gate,
                 trafficVars, counted, outcome>>

ClearStopping(o) ==
  /\ Goto(o, "clear", "reset")
  /\ stopping' = FALSE
  /\ UNCHANGED <<running, run_started, run_id, server_enabled, storeVars, mine, gate,
                 trafficVars, counted, outcome>>

ResetRun(o) ==
  /\ Goto(o, "reset", "spawn")
  /\ counted' = {}
  /\ run_started' = TRUE
  /\ UNCHANGED <<stopping, running, run_id, server_enabled, storeVars, mine, gate,
                 trafficVars, outcome>>

(* Mutant: the threads do not wait for the gate.                           *)
SpawnUngated(o, any_client) ==
  /\ Goto(o, "spawn", "row")
  /\ server' = IF server_enabled THEN [server EXCEPT ![mine[o]] = "looping"] ELSE server
  /\ thread' = IF any_client THEN [thread EXCEPT ![mine[o]] = "looping"] ELSE thread
  /\ UNCHANGED <<flagVars, server_enabled, storeVars, mine, gate, counted, outcome>>

(* The server thread, if the server is enabled, and the clients' threads,  *)
(* if any client is.                                                       *)
SpawnThreads(o, any_client) ==
  /\ Goto(o, "spawn", "row")
  /\ server' = IF server_enabled THEN [server EXCEPT ![mine[o]] = "binding"] ELSE server
  /\ thread' = IF any_client THEN [thread EXCEPT ![mine[o]] = "gated"] ELSE thread
  /\ UNCHANGED <<flagVars, server_enabled, storeVars, mine, gate, counted, outcome>>

InsertRow(o) ==
  /\ Goto(o, "row", "run")
  /\ rows' = [rows EXCEPT ![mine[o]] = "running"]
  /\ UNCHANGED <<flagVars, server_enabled, drawn, external, mine, gate, trafficVars, counted,
                 outcome>>

SetRunning(o) ==
  /\ Goto(o, "run", "gate")
  /\ running' = TRUE
  /\ UNCHANGED <<stopping, run_started, run_id, server_enabled, storeVars, mine, gate,
                 trafficVars, counted, outcome>>

OpenGate(o) ==
  /\ Goto(o, "gate", "ready")
  /\ gate' = gate \union {mine[o]}
  /\ UNCHANGED <<flagVars, server_enabled, storeVars, mine, trafficVars, counted, outcome>>

-----------------------------------------------------------------------------

(* A stop that finds no run active is refused.                             *)
CheckRunning(o) ==
  /\ running
  /\ Goto(o, "ready", "flag")
  /\ UNCHANGED <<flagVars, server_enabled, storeVars, mine, gate, trafficVars, counted, outcome>>

SetStopping(o) ==
  /\ Goto(o, "flag", "halt")
  /\ stopping' = TRUE
  /\ UNCHANGED <<running, run_started, run_id, server_enabled, storeVars, mine, gate,
                 trafficVars, counted, outcome>>

(* Mutant: running stays set until the next start.                         *)
KeepRunning(o) ==
  /\ Goto(o, "halt", "take")
  /\ UNCHANGED <<flagVars, server_enabled, storeVars, mine, gate, trafficVars, counted, outcome>>

ClearRunning(o) ==
  /\ Goto(o, "halt", "take")
  /\ running' = FALSE
  /\ UNCHANGED <<stopping, run_started, run_id, server_enabled, storeVars, mine, gate,
                 trafficVars, counted, outcome>>

(* Mutant: run_started is read and left in place.                          *)
PeekRun(o) ==
  /\ Goto(o, "take", "evaluate")
  /\ mine' = [mine EXCEPT ![o] = run_id]
  /\ UNCHANGED <<flagVars, server_enabled, storeVars, gate, trafficVars, counted, outcome>>

(* The id is read anew, and run_started is taken.                          *)
TakeRun(o) ==
  /\ Goto(o, "take", "evaluate")
  /\ mine' = [mine EXCEPT ![o] = run_id]
  /\ run_started' = FALSE
  /\ UNCHANGED <<stopping, running, run_id, server_enabled, storeVars, gate, trafficVars,
                 counted, outcome>>

(* evaluate_run and run_debrief.                                           *)
Evaluate(o) ==
  /\ Goto(o, "evaluate", "complete")
  /\ outcome' = [outcome EXCEPT ![mine[o]] = counted]
  /\ UNCHANGED <<flagVars, server_enabled, storeVars, mine, gate, trafficVars, counted>>

(* Mutant: every row is closed as completed.                               *)
CloseAsCompleted(id, verdict) ==
  rows' = [rows EXCEPT ![id] = IF @ = "running" THEN "completed" ELSE @]

Close(id, verdict) ==
  rows' = [rows EXCEPT ![id] = IF @ = "running" THEN verdict ELSE @]

CompleteRow(o, verdict) ==
  /\ Goto(o, "complete", "record")
  /\ Close(mine[o], verdict)
  /\ UNCHANGED <<flagVars, server_enabled, drawn, external, mine, gate, trafficVars, counted,
                 outcome>>

(* record_final_metrics.                                                   *)
RecordFinal(o) ==
  /\ Goto(o, "record", "ready")
  /\ external' = [external EXCEPT ![mine[o]] = @ + 1]
  /\ UNCHANGED <<flagVars, server_enabled, drawn, rows, mine, gate, trafficVars, counted, outcome>>

-----------------------------------------------------------------------------

Idle(o) == pc[o] = "ready"

(* Esc in the shell: only the two flags.                                   *)
Esc ==
  /\ Idle(Shell)
  /\ running
  /\ stopping' = TRUE
  /\ running' = FALSE
  /\ UNCHANGED <<run_started, run_id, server_enabled, storeVars, pc, mine, gate, trafficVars,
                 counted, outcome>>

ServerEnable ==
  /\ \E o \in Operators : Idle(o)
  /\ ~server_enabled
  /\ server_enabled' = TRUE
  /\ UNCHANGED <<flagVars, storeVars, pc, mine, gate, trafficVars, counted, outcome>>

ServerDisable ==
  /\ \E o \in Operators : Idle(o)
  /\ server_enabled
  /\ server_enabled' = FALSE
  /\ stopping' = TRUE
  /\ UNCHANGED <<running, run_started, run_id, storeVars, pc, mine, gate, trafficVars,
                 counted, outcome>>

(* quit: a run that was never stopped is closed as aborted; then the       *)
(* process ends, and with it every thread.                                 *)
Quit ==
  /\ Idle(Shell)
  /\ stopping' = TRUE
  /\ running' = FALSE
  /\ IF run_started
     THEN /\ outcome' = [outcome EXCEPT ![run_id] = counted]
          /\ Close(run_id, "aborted")
          /\ external' = [external EXCEPT ![run_id] = @ + 1]
     ELSE UNCHANGED <<outcome, rows, external>>
  /\ pc' = [o \in Operators |-> "gone"]
  /\ thread' = [r \in Runs |-> "done"]
  /\ server' = [r \in Runs |-> "done"]
  /\ UNCHANGED <<run_started, run_id, server_enabled, drawn, mine, gate, counted>>

-----------------------------------------------------------------------------

PortFree == \A r \in Runs : server[r] \notin {"gated", "looping", "receiving"}

ServerBind(r) ==
  /\ server[r] = "binding"
  /\ server' = [server EXCEPT ![r] = IF PortFree THEN "gated" ELSE "done"]
  /\ UNCHANGED <<flagVars, server_enabled, storeVars, pc, mine, gate, thread, counted, outcome>>

(* Mutant: the flag is not looked at.                                      *)
PassRegardless(states, r, busy) ==
  \/ /\ states[r] = "gated"
     /\ r \in gate
     /\ states' = [states EXCEPT ![r] = "looping"]
     /\ UNCHANGED counted
  \/ /\ states[r] = "looping"
     /\ states' = [states EXCEPT ![r] = busy]
     /\ UNCHANGED counted
  \/ /\ states[r] = busy
     /\ states' = [states EXCEPT ![r] = "looping"]
     /\ counted' = counted \union {r}

(* One iteration of a traffic thread: past its gate it looks at the flag,  *)
(* and once it has seen it clear it moves its packet and counts it.  A     *)
(* runtime that is over, or an error, ends a thread as well.               *)
Pass(states, r, busy) ==
  \/ /\ states[r] = "gated"
     /\ r \in gate
     /\ states' = [states EXCEPT ![r] = "looping"]
     /\ UNCHANGED counted
  \/ /\ states[r] = "looping"
     /\ ~stopping
     /\ states' = [states EXCEPT ![r] = busy]
     /\ UNCHANGED counted
  \/ /\ states[r] = busy
     /\ states' = [states EXCEPT ![r] = "looping"]
     /\ counted' = counted \union {r}
  \/ /\ states[r] = "looping"
     /\ states' = [states EXCEPT ![r] = "done"]
     /\ UNCHANGED counted

ClientThread(r) ==
  /\ Pass(thread, r, "sending")
  /\ UNCHANGED <<flagVars, server_enabled, storeVars, pc, mine, gate, server, outcome>>

ServerThread(r) ==
  /\ Pass(server, r, "receiving")
  /\ UNCHANGED <<flagVars, server_enabled, storeVars, pc, mine, gate, thread, outcome>>

-----------------------------------------------------------------------------

StartRun(o) ==
  \/ DrawId(o)
  \/ PublishId(o)
  \/ ClearStopping(o)
  \/ ResetRun(o)
  \/ \E any_client \in BOOLEAN : SpawnThreads(o, any_client)
  \/ InsertRow(o)
  \/ SetRunning(o)
  \/ OpenGate(o)

StopRun(o) ==
  \/ SetStopping(o)
  \/ ClearRunning(o)
  \/ TakeRun(o)
  \/ Evaluate(o)
  \/ \E verdict \in {"ok", "fail"} : CompleteRow(o, verdict)
  \/ RecordFinal(o)

Next ==
  \/ \E o \in Operators : CheckIdle(o) \/ StartRun(o) \/ CheckRunning(o) \/ StopRun(o)
  \/ Esc
  \/ ServerEnable
  \/ ServerDisable
  \/ Quit
  \/ \E r \in Runs : ServerBind(r) \/ ClientThread(r) \/ ServerThread(r)

Spec == Init /\ [][Next]_vars

(* A command that was begun goes on, and traffic threads keep looking at   *)
(* the flag; nobody has to give a command.                                 *)
Fairness ==
  /\ \A o \in Operators : WF_vars(StartRun(o)) /\ WF_vars(StopRun(o))
  /\ \A r \in Runs : WF_vars(ServerBind(r)) /\ WF_vars(ClientThread(r)) /\ WF_vars(ServerThread(r))

FairSpec == Spec /\ Fairness

-----------------------------------------------------------------------------

(* Traffic is counted only for a run that has its row: the gate opens      *)
(* after everything of the run is in place (start_run, StartGate), so a    *)
(* crash cannot leave traffic without a record.                            *)
TrafficHasRow == \A r \in counted : rows[r] # "none"

(* A run has at most one row in the external database (lib.rs,             *)
(* record_final_metrics).                                                  *)
OneExternalRow == \A r \in Runs : external[r] <= 1

(* A run that was given its verdict is not the one in progress.            *)
ClosedIsStopped ==
  \A r \in Runs : rows[r] \in {"ok", "fail"} => ~(running /\ run_id = r)

(* A run's verdict reflects only that run (core.rs, reset_run).            *)
OutcomeIsOwn == \A r \in Runs : outcome[r] \subseteq {r}

(* A stop that lasts ends every traffic thread of every run, and frees the *)
(* server's port.                                                          *)
StopEndsTraffic ==
  <>[]stopping => <>[](\A r \in Runs : thread[r] \notin {"looping", "sending"}
                                       /\ server[r] \notin {"looping", "receiving"})

================================================================================
