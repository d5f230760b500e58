-------------------------------- MODULE RunStore --------------------------------
(***************************************************************************)
(* SqlState (src/src/core.rs): the local SQLite file and every SqlState    *)
(* that has it open.  An interactive or --serve process holds one          *)
(* (Sessions) for as long as it lives; every executed profile, from the    *)
(* command line or from POST /api/v1/runs in the same process, opens one   *)
(* of its own (Runners).  A step is one SQL statement: SQLite serialises   *)
(* statements, and nothing holds a transaction across two of them.         *)
(***************************************************************************)
EXTENDS Naturals

CONSTANTS
  Sessions,          (* SqlStates of interactive and --serve processes      *)
  Runners,           (* SqlStates of executed profiles                      *)
  MaxId,             (* bound on run ids                                    *)
  MaxLegacy,         (* bound on the ids of rows written before run_counter *)
  StatementsMayFail  (* may a statement fail (disk full, locked file)?      *)

ASSUME StoreAssumption ==
  /\ Sessions \intersect Runners = {}
  /\ MaxId \in Nat
  /\ MaxLegacy \in 0 .. MaxId
  /\ StatementsMayFail \in BOOLEAN

VARIABLES
  next_id,   (* run_counter.next_id                                       *)
  rows,      (* runs.result by id; "none" where there is no row           *)
  phase,     (* how far each SqlState is in its open / draw / insert cycle *)
  run_id     (* SqlState.run_id and Session.run_id: the last id drawn     *)

vars == <<next_id, rows, phase, run_id>>

Instances == Sessions \union Runners

Ids == 1 .. MaxId

Verdicts == {"ok", "fail", "aborted"}

Results == {"none", "running"} \union Verdicts

(* "off"       not open, or the process is down                            *)
(* "opening"   enable() has run its counter statement, not yet its update  *)
(* "ready"     enabled, no run in progress                                 *)
(* "drawn"     next_run_id() returned, start_run() still to come           *)
(* "open"      start_run() has inserted the row                            *)
(* "abandoned" Esc stopped the traffic of an open run, its row untouched   *)
Phases == {"off", "opening", "ready", "drawn", "open", "abandoned"}

TypeOK ==
  /\ next_id \in 1 .. (MaxId + 1)
  /\ rows \in [Ids -> Results]
  /\ phase \in [Instances -> Phases]
  /\ run_id \in [Instances -> Nat]

(* The file is new, or was written before run_counter existed.             *)
Init ==
  /\ next_id = 1
  /\ rows \in [Ids -> Results]
  /\ \A id \in Ids : id > MaxLegacy => rows[id] = "none"
  /\ phase = [i \in Instances |-> "off"]
  /\ run_id = [i \in Instances |-> 0]

-----------------------------------------------------------------------------

(* Mutant: the counter is set to MAX(id) + 1, even below its value.        *)
CounterFromRows(n) ==
  /\ \A id \in Ids : rows[id] # "none" => id < n
  /\ n # 1 => rows[n - 1] # "none"

(* MAX(next_id, COALESCE(MAX(id) + 1, 1)) of the rows.                     *)
CounterCovers(n) ==
  /\ n >= next_id
  /\ \A id \in Ids : rows[id] # "none" => id < n
  /\ n # next_id => rows[n - 1] # "none"

EnableCounter(i) ==
  /\ phase[i] = "off"
  /\ phase' = [phase EXCEPT ![i] = "opening"]
  /\ \/ \E n \in 1 .. (MaxId + 1) : CounterCovers(n) /\ next_id' = n
     \/ StatementsMayFail /\ UNCHANGED next_id
  /\ UNCHANGED <<rows, run_id>>

(* Mutant: stale rows get a literal of their own.                          *)
EnableInterrupts(i) ==
  /\ phase[i] = "opening"
  /\ phase' = [phase EXCEPT ![i] = "ready"]
  /\ rows' = [id \in Ids |-> IF rows[id] = "running" THEN "interrupted" ELSE rows[id]]
  /\ UNCHANGED <<next_id, run_id>>

EnableAbort(i) ==
  /\ phase[i] = "opening"
  /\ phase' = [phase EXCEPT ![i] = "ready"]
  /\ \/ rows' = [id \in Ids |-> IF rows[id] = "running" THEN "aborted" ELSE rows[id]]
     \/ StatementsMayFail /\ UNCHANGED rows
  /\ UNCHANGED <<next_id, run_id>>

(* A session asks for run_id + 1 and a fresh profile run for 1 when the    *)
(* counter cannot be read.                                                 *)
Fallback(i) == IF i \in Sessions THEN run_id[i] + 1 ELSE 1

NextRunId(i) ==
  /\ phase[i] \in {"ready", "abandoned"}
  /\ phase' = [phase EXCEPT ![i] = "drawn"]
  /\ \/ /\ next_id \in Ids
        /\ next_id' = next_id + 1
        /\ run_id' = [run_id EXCEPT ![i] = next_id]
     \/ /\ StatementsMayFail
        /\ Fallback(i) \in Ids
        /\ run_id' = [run_id EXCEPT ![i] = Fallback(i)]
        /\ UNCHANGED next_id
  /\ UNCHANGED <<rows>>

(* Mutant: INSERT OR REPLACE.                                              *)
StartRunReplaces(i) ==
  /\ phase[i] = "drawn"
  /\ phase' = [phase EXCEPT ![i] = "open"]
  /\ rows' = [rows EXCEPT ![run_id[i]] = "running"]
  /\ UNCHANGED <<next_id, run_id>>

(* An id that already has a row is a primary key error, which is ignored.  *)
StartRun(i) ==
  /\ phase[i] = "drawn"
  /\ phase' = [phase EXCEPT ![i] = "open"]
  /\ \/ rows' = [rows EXCEPT ![run_id[i]] = IF @ = "none" THEN "running" ELSE @]
     \/ StatementsMayFail /\ UNCHANGED rows
  /\ UNCHANGED <<next_id, run_id>>

(* Mutant: no AND result = 'running'.                                      *)
UpdateAnyRow(i, verdict) ==
  rows' = [rows EXCEPT ![run_id[i]] = IF @ = "none" THEN @ ELSE verdict]

(* UPDATE ... WHERE id = run_id AND result = 'running'.                    *)
UpdateRow(i, verdict) ==
  \/ rows' = [rows EXCEPT ![run_id[i]] = IF @ = "running" THEN verdict ELSE @]
  \/ StatementsMayFail /\ UNCHANGED rows

(* The SqlState is dropped; a row it left open stays as it is.             *)
Drop(i) ==
  /\ phase' = [phase EXCEPT ![i] = "off"]
  /\ run_id' = [run_id EXCEPT ![i] = 0]

CompleteRun(i, verdict) ==
  /\ phase[i] = "open"
  /\ UpdateRow(i, verdict)
  /\ IF i \in Sessions
     THEN phase' = [phase EXCEPT ![i] = "ready"] /\ UNCHANGED run_id
     ELSE Drop(i)
  /\ UNCHANGED next_id

Esc(i) ==
  /\ i \in Sessions
  /\ phase[i] = "open"
  /\ phase' = [phase EXCEPT ![i] = "abandoned"]
  /\ UNCHANGED <<next_id, rows, run_id>>

(* Leaving the interactive loop with run_started still set.                *)
Exit(i) ==
  /\ i \in Sessions
  /\ phase[i] \in {"open", "abandoned"}
  /\ UpdateRow(i, "aborted")
  /\ Drop(i)
  /\ UNCHANGED next_id

(* The process is killed, or execute_profile returns early on an error of  *)
(* its before hook or of wait_until.                                       *)
Crash(i) ==
  /\ phase[i] # "off"
  /\ Drop(i)
  /\ UNCHANGED <<next_id, rows>>

(* Mutant: the counter is cleaned with the rows.                           *)
CleanCounterToo(i) ==
  /\ i \in Sessions
  /\ phase[i] \in {"ready", "open", "abandoned"}
  /\ rows' = [id \in Ids |-> "none"]
  /\ next_id' = 1
  /\ UNCHANGED <<phase, run_id>>

Clean(i) ==
  /\ i \in Sessions
  /\ phase[i] \in {"ready", "open", "abandoned"}
  /\ rows' = [id \in Ids |-> "none"]
  /\ UNCHANGED <<next_id, phase, run_id>>

Next ==
  \E i \in Instances :
    \/ EnableCounter(i)
    \/ EnableAbort(i)
    \/ NextRunId(i)
    \/ StartRun(i)
    \/ \E verdict \in {"ok", "fail"} : CompleteRun(i, verdict)
    \/ Esc(i)
    \/ Exit(i)
    \/ Crash(i)
    \/ Clean(i)

Spec == Init /\ [][Next]_vars

-----------------------------------------------------------------------------

(* No two open SqlStates ever hold the same run id, whatever was crashed,  *)
(* cleaned or re-enabled in between: next_run_id draws from one counter    *)
(* that enable() lifts above every stored row.                             *)
IdsUnique ==
  \A i, j \in Instances : i # j /\ run_id[i] # 0 => run_id[i] # run_id[j]

(* A result once stored is never overwritten by another one; only `clean`  *)
(* removes it (complete_run's WHERE, and test                              *)
(* completion_does_not_overwrite_finished_result).                         *)
FinishedIsFinal ==
  [][\A id \in Ids : rows[id] \in Verdicts => rows'[id] \in {rows[id], "none"}]_vars

(* The entry of an id in the abstract ledger.                              *)
Entry(id) ==
  IF rows[id] # "none" THEN rows[id]
  ELSE IF id >= next_id THEN "unissued"
  ELSE IF \E i \in Instances : phase[i] = "drawn" /\ run_id[i] = id THEN "issued"
  ELSE "gone"

Ledger == INSTANCE RunLedger WITH ledger <- [id \in Ids |-> Entry(id)]

(* With statements that do not fail the table keeps the ledger's promise:  *)
(* ids increase and are never reused, a row is opened once by the id's     *)
(* owner and closed at most once.                                          *)
ImplementsLedger == Ledger!Spec

================================================================================
