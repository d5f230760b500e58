---------------------------- MODULE RunControlProofs ----------------------------
(***************************************************************************)
(* Proofs about RunControl and Selftest.  What the start gate promises     *)
(* holds for any number of threads executing commands at once; the         *)
(* promises about a run's single verdict and single external row are       *)
(* proved for a session whose only operator is its shell, the case the     *)
(* code is written for; what a selftest promises of its legs, for any      *)
(* operators and any number of selftests next to them.                     *)
(***************************************************************************)
EXTENDS Selftest, TLAPS

(* From the draw on, a start holds an id; its row is there when the gate   *)
(* opens, and only an open gate lets a traffic thread through.             *)
GateInv ==
  /\ TypeOK
  /\ \A o \in Operators :
       /\ pc[o] \in Starting \ {"draw"} => mine[o] \in Runs
       /\ pc[o] \in {"run", "gate"} => rows[mine[o]] # "none"
  /\ \A r \in gate : rows[r] # "none"
  /\ \A r \in Runs : thread[r] \in {"looping", "sending"} => rows[r] # "none"
  /\ \A r \in Runs : server[r] \in {"looping", "receiving"} => rows[r] # "none"
  /\ \A r \in counted : rows[r] # "none"

(* It holds at first.                                                      *)
LEMMA GateInit == ASSUME Init PROVE GateInv
<1> USE ControlAssumption DEF Starting, Stopping
<1>1. TypeOK
  <2>1. 0 \in 0 .. MaxRuns
    OBVIOUS
  <2>2. pc \in [Operators -> {"ready", "gone"} \union Starting \union Stopping]
    BY DEF Init
  <2>3. mine \in [Operators -> 0 .. MaxRuns] /\ external \in [Runs -> Nat]
    BY <2>1 DEF Init
  <2>4. outcome \in [Runs -> SUBSET Runs]
    BY DEF Init
  <2>5. QED
    BY <2>1, <2>2, <2>3, <2>4 DEF Init, TypeOK
<1>2. QED
  BY <1>1 DEF Init, GateInv

(* No step of the session, its threads or its end breaks it.               *)
LEMMA GateStep == ASSUME GateInv, [Next]_vars PROVE GateInv'
<1> USE ControlAssumption DEF Starting, Stopping
<1>ty. TypeOK
  BY DEF GateInv
<1>1. ASSUME NEW o \in Operators, CheckIdle(o) \/ CheckRunning(o) PROVE GateInv'
  <2>1. /\ pc[o] = "ready"
        /\ pc' = [pc EXCEPT ![o] = "draw"] \/ pc' = [pc EXCEPT ![o] = "flag"]
        /\ UNCHANGED <<flagVars, server_enabled, storeVars, mine, gate, trafficVars, counted, outcome>>
    BY <1>1 DEF CheckIdle, CheckRunning, Goto
  <2>2. TypeOK'
    BY <2>1, <1>ty DEF TypeOK, flagVars, storeVars, trafficVars
  <2>3. QED
    BY <2>1, <2>2, <1>ty DEF GateInv, TypeOK, storeVars, trafficVars
<1>2. ASSUME NEW o \in Operators, DrawId(o) PROVE GateInv'
  <2>1. /\ drawn < MaxRuns /\ drawn' = drawn + 1
        /\ pc' = [pc EXCEPT ![o] = "publish"]
        /\ mine' = [mine EXCEPT ![o] = drawn + 1]
        /\ UNCHANGED <<flagVars, server_enabled, rows, external, gate, trafficVars, counted, outcome>>
    BY <1>2 DEF DrawId, Goto
  <2>2. drawn + 1 \in Runs
    BY <2>1, <1>ty DEF TypeOK, Runs
  <2>3. TypeOK'
    <3>1. mine' \in [Operators -> 0 .. MaxRuns] /\ drawn' \in 0 .. MaxRuns
      BY <2>1, <2>2, <1>ty DEF TypeOK, Runs
    <3>2. QED
      BY <2>1, <3>1, <1>ty DEF TypeOK, flagVars, trafficVars
  <2>4. QED
    BY <2>1, <2>2, <2>3, <1>ty DEF GateInv, TypeOK, trafficVars
<1>3. ASSUME NEW o \in Operators,
             PublishId(o) \/ ClearStopping(o) \/ ResetRun(o) \/ SetRunning(o)
      PROVE  GateInv'
  <2>1. /\ \/ pc[o] = "publish" /\ pc' = [pc EXCEPT ![o] = "clear"]
           \/ pc[o] = "clear" /\ pc' = [pc EXCEPT ![o] = "reset"]
           \/ pc[o] = "reset" /\ pc' = [pc EXCEPT ![o] = "spawn"]
           \/ pc[o] = "run" /\ pc' = [pc EXCEPT ![o] = "gate"]
        /\ stopping' \in BOOLEAN /\ running' \in BOOLEAN /\ run_started' \in BOOLEAN
        /\ run_id' \in 0 .. MaxRuns
        /\ counted' \subseteq counted
        /\ UNCHANGED <<server_enabled, storeVars, mine, gate, trafficVars, outcome>>
    <3>1. CASE PublishId(o)
      BY <3>1, <1>ty DEF PublishId, Goto, TypeOK
    <3>2. CASE ClearStopping(o)
      BY <3>2, <1>ty DEF ClearStopping, Goto, TypeOK
    <3>3. CASE ResetRun(o)
      BY <3>3, <1>ty DEF ResetRun, Goto, TypeOK
    <3>4. CASE SetRunning(o)
      BY <3>4, <1>ty DEF SetRunning, Goto, TypeOK
    <3>5. QED
      BY <1>3, <3>1, <3>2, <3>3, <3>4
  <2>2. TypeOK'
    BY <2>1, <1>ty DEF TypeOK, storeVars, trafficVars
  <2>3. \A p \in Operators \ {o} : pc'[p] = pc[p]
    BY <2>1, <1>ty DEF TypeOK
  <2>4. pc[o] \in Starting \ {"draw"}
    BY <2>1
  <2>5. pc'[o] \in {"run", "gate"} => pc[o] = "run"
    BY <2>1, <1>ty DEF TypeOK
  <2>6. UNCHANGED <<rows, mine, gate, thread, server>>
    BY <2>1 DEF storeVars, trafficVars
  <2>7. ASSUME NEW p \in Operators
        PROVE  /\ pc'[p] \in Starting \ {"draw"} => mine[p] \in Runs
               /\ pc'[p] \in {"run", "gate"} => rows[mine[p]] # "none"
    <3>1. CASE p = o
      BY <3>1, <2>4, <2>5 DEF GateInv
    <3>2. CASE p # o
      BY <3>2, <2>3 DEF GateInv
    <3>3. QED
      BY <3>1, <3>2
  <2>8. QED
    BY <2>1, <2>2, <2>6, <2>7 DEF GateInv
<1>4. ASSUME NEW o \in Operators, NEW any_client \in BOOLEAN, SpawnThreads(o, any_client)
      PROVE  GateInv'
  <2>1. /\ pc[o] = "spawn" /\ pc' = [pc EXCEPT ![o] = "row"]
        /\ server' = server \/ server' = [server EXCEPT ![mine[o]] = "binding"]
        /\ thread' = thread \/ thread' = [thread EXCEPT ![mine[o]] = "gated"]
        /\ UNCHANGED <<flagVars, server_enabled, storeVars, mine, gate, counted, outcome>>
    BY <1>4 DEF SpawnThreads, Goto
  <2>2. TypeOK'
    BY <2>1, <1>ty DEF TypeOK, flagVars, storeVars
  <2>3. \A r \in Runs : /\ thread'[r] \in {"looping", "sending"} => thread'[r] = thread[r]
                        /\ server'[r] \in {"looping", "receiving"} => server'[r] = server[r]
    BY <2>1, <1>ty DEF TypeOK
  <2>4. \A p \in Operators : pc'[p] = pc[p] \/ (p = o /\ pc'[p] = "row")
    BY <2>1, <1>ty DEF TypeOK
  <2>5. QED
    BY <2>1, <2>2, <2>3, <2>4 DEF GateInv, storeVars
<1>5. ASSUME NEW o \in Operators, InsertRow(o) PROVE GateInv'
  <2>1. /\ pc[o] = "row" /\ pc' = [pc EXCEPT ![o] = "run"]
        /\ rows' = [rows EXCEPT ![mine[o]] = "running"]
        /\ UNCHANGED <<flagVars, server_enabled, drawn, external, mine, gate, trafficVars, counted, outcome>>
    BY <1>5 DEF InsertRow, Goto
  <2>2. mine[o] \in Runs
    BY <2>1 DEF GateInv
  <2>3. TypeOK'
    BY <2>1, <1>ty DEF TypeOK, flagVars, trafficVars
  <2>4. \A r \in Runs : rows[r] # "none" => rows'[r] # "none"
    BY <2>1, <1>ty DEF TypeOK
  <2>5. rows'[mine[o]] # "none"
    BY <2>1, <2>2, <1>ty DEF TypeOK
  <2>6. \A p \in Operators : pc'[p] = pc[p] \/ (p = o /\ pc'[p] = "run")
    BY <2>1, <1>ty DEF TypeOK
  <2>7. \A p \in Operators : pc'[p] \in {"run", "gate"} => rows'[mine[p]] # "none"
    BY <2>4, <2>5, <2>6 DEF GateInv
  <2>8. \A p \in Operators : pc'[p] \in Starting \ {"draw"} => mine[p] \in Runs
    BY <2>2, <2>6 DEF GateInv
  <2>9. QED
    BY <2>1, <2>3, <2>4, <2>7, <2>8, <1>ty DEF GateInv, trafficVars, TypeOK
<1>6. ASSUME NEW o \in Operators, OpenGate(o) PROVE GateInv'
  <2>1. /\ pc[o] = "gate" /\ pc' = [pc EXCEPT ![o] = "ready"]
        /\ gate' = gate \union {mine[o]}
        /\ UNCHANGED <<flagVars, server_enabled, storeVars, mine, trafficVars, counted, outcome>>
    BY <1>6 DEF OpenGate, Goto
  <2>2. mine[o] \in Runs /\ rows[mine[o]] # "none"
    BY <2>1 DEF GateInv
  <2>3. TypeOK'
    BY <2>1, <2>2, <1>ty DEF TypeOK, flagVars, storeVars, trafficVars
  <2>4. QED
    BY <2>1, <2>2, <2>3, <1>ty DEF GateInv, TypeOK, storeVars, trafficVars
<1>7. ASSUME NEW o \in Operators, StopRun(o) PROVE GateInv'
  <2>1. /\ \E to \in {"halt", "take", "evaluate", "complete", "record", "ready"} :
             pc' = [pc EXCEPT ![o] = to]
        /\ pc[o] \in Stopping
        /\ stopping' \in BOOLEAN /\ running' \in BOOLEAN /\ run_started' \in BOOLEAN
        /\ mine' = mine \/ mine' = [mine EXCEPT ![o] = run_id]
        /\ rows' = rows \/ \E verdict \in {"ok", "fail"} : Close(mine[o], verdict)
        /\ external' = external \/ external' = [external EXCEPT ![mine[o]] = @ + 1]
        /\ outcome' = outcome \/ outcome' = [outcome EXCEPT ![mine[o]] = counted]
        /\ UNCHANGED <<run_id, server_enabled, drawn, gate, trafficVars, counted>>
    BY <1>7, <1>ty DEF StopRun, SetStopping, ClearRunning, TakeRun, Evaluate, CompleteRow,
                       RecordFinal, Goto, TypeOK, flagVars, storeVars
  <2>2. rows' \in [Runs -> {"none", "running", "ok", "fail", "aborted"}]
        /\ \A r \in Runs : rows[r] # "none" => rows'[r] # "none"
    BY <2>1, <1>ty DEF TypeOK, Close
  <2>3. /\ pc' \in [Operators -> {"ready", "gone"} \union Starting \union Stopping]
        /\ mine' \in [Operators -> 0 .. MaxRuns]
        /\ external' \in [Runs -> Nat]
        /\ outcome' \in [Runs -> SUBSET Runs]
    <3>1. external' \in [Runs -> Nat]
      BY <2>1, <1>ty DEF TypeOK
    <3>2. outcome' \in [Runs -> SUBSET Runs]
      BY <2>1, <1>ty DEF TypeOK
    <3>3. mine' \in [Operators -> 0 .. MaxRuns]
      BY <2>1, <1>ty DEF TypeOK
    <3>4. QED
      BY <3>1, <3>2, <3>3, <2>1, <1>ty DEF TypeOK
  <2>4. TypeOK'
    BY <2>1, <2>2, <2>3, <1>ty DEF TypeOK, trafficVars
  <2>5. \A p \in Operators : pc'[p] \in Starting => pc'[p] = pc[p] /\ mine'[p] = mine[p]
    <3> SUFFICES ASSUME NEW p \in Operators, pc'[p] \in Starting
                 PROVE  pc'[p] = pc[p] /\ mine'[p] = mine[p]
      OBVIOUS
    <3>1. p # o
      BY <2>1, <1>ty DEF TypeOK
    <3>2. QED
      BY <3>1, <2>1, <1>ty DEF TypeOK
  <2>6. QED
    BY <2>1, <2>2, <2>4, <2>5, <1>ty DEF GateInv, trafficVars, TypeOK
<1>8. CASE Esc \/ ServerEnable \/ ServerDisable
  BY <1>8 DEF Esc, ServerEnable, ServerDisable, GateInv, TypeOK, flagVars, storeVars, trafficVars
<1>9. CASE Quit
  <2>1. /\ pc' = [o \in Operators |-> "gone"]
        /\ thread' = [r \in Runs |-> "done"]
        /\ server' = [r \in Runs |-> "done"]
        /\ rows' = rows \/ Close(run_id, "aborted")
        /\ external' = external \/ external' = [external EXCEPT ![run_id] = @ + 1]
        /\ outcome' = outcome \/ outcome' = [outcome EXCEPT ![run_id] = counted]
        /\ stopping' \in BOOLEAN /\ running' \in BOOLEAN
        /\ UNCHANGED <<run_started, run_id, server_enabled, drawn, mine, gate, counted>>
    BY <1>9 DEF Quit
  <2>2. rows' \in [Runs -> {"none", "running", "ok", "fail", "aborted"}]
        /\ \A r \in Runs : rows[r] # "none" => rows'[r] # "none"
    BY <2>1, <1>ty DEF TypeOK, Close
  <2>3. external' \in [Runs -> Nat]
    BY <2>1, <1>ty DEF TypeOK
  <2>4. outcome' \in [Runs -> SUBSET Runs]
    BY <2>1, <1>ty DEF TypeOK
  <2>5. TypeOK'
    BY <2>1, <2>2, <2>3, <2>4, <1>ty DEF TypeOK
  <2>6. QED
    BY <2>1, <2>2, <2>5, <1>ty DEF GateInv, TypeOK
<1>10. ASSUME NEW r \in Runs, ServerBind(r) PROVE GateInv'
  <2>1. /\ server' = [server EXCEPT ![r] = "gated"] \/ server' = [server EXCEPT ![r] = "done"]
        /\ UNCHANGED <<flagVars, server_enabled, storeVars, pc, mine, gate, thread, counted, outcome>>
    BY <1>10 DEF ServerBind
  <2>2. \A s \in Runs : server'[s] \in {"looping", "receiving"} => server'[s] = server[s]
    BY <2>1, <1>ty DEF TypeOK
  <2>3. TypeOK'
    BY <2>1, <1>ty DEF TypeOK, flagVars, storeVars
  <2>4. QED
    BY <2>1, <2>2, <2>3 DEF GateInv, storeVars
<1>11. ASSUME NEW r \in Runs, ClientThread(r) PROVE GateInv'
  <2>1. /\ \E to \in {"looping", "sending", "done"} : thread' = [thread EXCEPT ![r] = to]
        /\ thread[r] = "gated" => r \in gate
        /\ thread[r] \in {"gated", "looping", "sending"}
        /\ counted' \in {counted, counted \union {r}}
        /\ UNCHANGED <<flagVars, server_enabled, storeVars, pc, mine, gate, server, outcome>>
    BY <1>11 DEF ClientThread, Pass
  <2>2. rows[r] # "none"
    BY <2>1 DEF GateInv
  <2>3. TypeOK'
    BY <2>1, <1>ty DEF TypeOK, flagVars, storeVars
  <2>4. \A s \in Runs : s # r => thread'[s] = thread[s]
    BY <2>1, <1>ty DEF TypeOK
  <2>5. QED
    BY <2>1, <2>2, <2>3, <2>4 DEF GateInv, storeVars
<1>12. ASSUME NEW r \in Runs, ServerThread(r) PROVE GateInv'
  <2>1. /\ \E to \in {"looping", "receiving", "done"} : server' = [server EXCEPT ![r] = to]
        /\ server[r] = "gated" => r \in gate
        /\ server[r] \in {"gated", "looping", "receiving"}
        /\ counted' \in {counted, counted \union {r}}
        /\ UNCHANGED <<flagVars, server_enabled, storeVars, pc, mine, gate, thread, outcome>>
    BY <1>12 DEF ServerThread, Pass
  <2>2. rows[r] # "none"
    BY <2>1 DEF GateInv
  <2>3. TypeOK'
    BY <2>1, <1>ty DEF TypeOK, flagVars, storeVars
  <2>4. \A s \in Runs : s # r => server'[s] = server[s]
    BY <2>1, <1>ty DEF TypeOK
  <2>5. QED
    BY <2>1, <2>2, <2>3, <2>4 DEF GateInv, storeVars
<1>13. CASE UNCHANGED vars
  BY <1>13 DEF vars, GateInv, TypeOK, flagVars, storeVars, trafficVars
<1>14. QED
  BY <1>1, <1>2, <1>3, <1>4, <1>5, <1>6, <1>7, <1>8, <1>9, <1>10, <1>11, <1>12, <1>13
     DEF Next, StartRun

LEMMA GateInvariant == Spec => []GateInv
<1>1. GateInv /\ [Next]_vars => GateInv'
  BY GateStep
<1>2. QED
  BY <1>1, GateInit, PTL DEF Spec

(* Every variable keeps its type.                                          *)
THEOREM TypeCorrect == Spec => []TypeOK
<1>1. GateInv => TypeOK
  BY DEF GateInv
<1>2. QED
  BY <1>1, GateInvariant, PTL

(* No traffic is counted for a run without a row, however many commands    *)
(* are executed at once.                                                   *)
THEOREM TrafficIsRecorded == Spec => []TrafficHasRow
<1>1. GateInv => TrafficHasRow
  BY DEF GateInv, TrafficHasRow
<1>2. QED
  BY <1>1, GateInvariant, PTL

-----------------------------------------------------------------------------

At(places) == pc[Shell] \in places

(* With one operator the command in progress knows everything that can     *)
(* happen to the run it is about.                                          *)
ShellInv ==
  /\ run_id <= drawn
  /\ \A r \in Runs : external[r] > 0 => r <= run_id
  /\ \A r \in Runs : rows[r] # "none" => r <= run_id
  /\ running => run_started /\ run_id \in Runs /\ rows[run_id] = "running"
  /\ run_started /\ ~At({"gone"}) => run_id \in Runs /\ external[run_id] = 0
  /\ At({"publish"}) => mine[Shell] = drawn /\ run_id < drawn
  /\ At(Starting \ {"draw", "publish"}) => mine[Shell] = run_id /\ run_id \in Runs
  /\ At({"clear", "reset"}) => external[run_id] = 0
  /\ At({"clear", "reset", "spawn", "row"}) => rows[run_id] = "none"
  /\ At({"spawn", "row", "run", "gate"}) => run_started
  /\ At({"run", "gate"}) => rows[run_id] = "running"
  /\ At({"flag", "halt", "take"}) => run_started
  /\ At({"evaluate", "complete", "record"}) =>
       mine[Shell] = run_id /\ run_id \in Runs /\ external[run_id] = 0 /\ ~run_started
  /\ At({"draw", "publish", "clear", "reset", "spawn", "row", "run"}) => ~running
  /\ At({"take", "evaluate", "complete", "record", "gone"}) => ~running
  /\ \A r \in Runs : external[r] <= 1

LEMMA ShellInvariant ==
  ASSUME Operators = {Shell}
  PROVE  Spec => []ShellInv
<1> USE ControlAssumption DEF Starting, Stopping, At
<1>1. Init => ShellInv
  BY DEF Init, ShellInv, Runs
<1>2. TypeOK /\ ShellInv /\ [Next]_vars => ShellInv'
  <2> SUFFICES ASSUME TypeOK, ShellInv, [Next]_vars PROVE ShellInv'
    OBVIOUS
  <2> USE DEF Runs
  <2>pc. /\ pc \in [Operators -> {"ready", "gone"} \union Starting \union Stopping]
         /\ mine \in [Operators -> 0 .. MaxRuns]
         /\ \A o \in Operators : o = Shell
    BY DEF TypeOK
  <2>nt. /\ run_id \in 0 .. MaxRuns /\ drawn \in 0 .. MaxRuns
         /\ external \in [Runs -> Nat]
         /\ rows \in [Runs -> {"none", "running", "ok", "fail", "aborted"}]
    BY DEF TypeOK
  <2>1. CASE CheckIdle(Shell)
    BY <2>1, <2>pc DEF CheckIdle, Goto, ShellInv, flagVars, storeVars
  <2>2. CASE DrawId(Shell)
    <3>1. drawn' = drawn + 1 /\ pc'[Shell] = "publish" /\ mine'[Shell] = drawn + 1
          /\ pc[Shell] = "draw" /\ UNCHANGED <<flagVars, rows, external>>
      BY <2>2, <2>pc DEF DrawId, Goto
    <3>2. QED
      BY <3>1, <2>nt DEF ShellInv, flagVars
  <2>3. CASE PublishId(Shell)
    <3>1. run_id' = mine[Shell] /\ pc'[Shell] = "clear" /\ pc[Shell] = "publish"
          /\ UNCHANGED <<stopping, running, run_started, storeVars, mine>>
      BY <2>3, <2>pc DEF PublishId, Goto
    <3>2. run_id' = drawn /\ run_id < drawn /\ drawn \in Runs /\ ~running
      BY <3>1, <2>nt DEF ShellInv
    <3>3. rows[drawn] = "none" /\ external[drawn] = 0
      BY <3>2, <2>nt DEF ShellInv
    <3>4. QED
      BY <3>1, <3>2, <3>3, <2>nt DEF ShellInv, storeVars
  <2>4. CASE ClearStopping(Shell)
    BY <2>4, <2>pc DEF ClearStopping, Goto, ShellInv, storeVars
  <2>5. CASE ResetRun(Shell)
    BY <2>5, <2>pc DEF ResetRun, Goto, ShellInv, storeVars
  <2>6. ASSUME NEW any_client \in BOOLEAN, SpawnThreads(Shell, any_client) PROVE ShellInv'
    BY <2>6, <2>pc DEF SpawnThreads, Goto, ShellInv, flagVars, storeVars
  <2>7. CASE InsertRow(Shell)
    <3>1. rows' = [rows EXCEPT ![run_id] = "running"] /\ pc'[Shell] = "run" /\ pc[Shell] = "row"
          /\ UNCHANGED <<flagVars, drawn, external, mine>>
      BY <2>7, <2>pc DEF InsertRow, Goto, ShellInv
    <3>2. run_id \in Runs /\ ~running
      BY <3>1 DEF ShellInv
    <3>3. rows'[run_id] = "running" /\ \A r \in Runs : r # run_id => rows'[r] = rows[r]
      BY <3>1, <3>2, <2>nt
    <3>4. QED
      BY <3>1, <3>2, <3>3, <2>nt DEF ShellInv, flagVars
  <2>8. CASE SetRunning(Shell)
    BY <2>8, <2>pc DEF SetRunning, Goto, ShellInv, storeVars
  <2>9. CASE OpenGate(Shell)
    BY <2>9, <2>pc DEF OpenGate, Goto, ShellInv, flagVars, storeVars
  <2>10. CASE CheckRunning(Shell)
    BY <2>10, <2>pc DEF CheckRunning, Goto, ShellInv, flagVars, storeVars
  <2>11. CASE SetStopping(Shell)
    BY <2>11, <2>pc DEF SetStopping, Goto, ShellInv, storeVars
  <2>12. CASE ClearRunning(Shell)
    BY <2>12, <2>pc DEF ClearRunning, Goto, ShellInv, storeVars
  <2>13. CASE TakeRun(Shell)
    BY <2>13, <2>pc DEF TakeRun, Goto, ShellInv, storeVars
  <2>14. CASE Evaluate(Shell)
    BY <2>14, <2>pc DEF Evaluate, Goto, ShellInv, flagVars, storeVars
  <2>15. ASSUME NEW verdict \in {"ok", "fail"}, CompleteRow(Shell, verdict) PROVE ShellInv'
    <3>1. pc'[Shell] = "record" /\ pc[Shell] = "complete" /\ Close(mine[Shell], verdict)
          /\ UNCHANGED <<flagVars, drawn, external, mine>>
      BY <2>15, <2>pc DEF CompleteRow, Goto
    <3>2. mine[Shell] = run_id /\ run_id \in Runs /\ ~running
      BY <3>1 DEF ShellInv
    <3>3. \A r \in Runs : rows'[r] # "none" => rows[r] # "none"
      BY <3>1, <3>2, <2>nt DEF Close
    <3>4. QED
      BY <3>1, <3>2, <3>3, <2>nt DEF ShellInv, flagVars
  <2>16. CASE RecordFinal(Shell)
    <3>1. pc'[Shell] = "ready" /\ pc[Shell] = "record"
          /\ external' = [external EXCEPT ![mine[Shell]] = @ + 1]
          /\ UNCHANGED <<flagVars, drawn, rows, mine>>
      BY <2>16, <2>pc DEF RecordFinal, Goto
    <3>2. mine[Shell] = run_id /\ run_id \in Runs /\ external[run_id] = 0 /\ ~run_started /\ ~running
      BY <3>1 DEF ShellInv
    <3>3. external'[run_id] = 1 /\ \A r \in Runs : r # run_id => external'[r] = external[r]
      BY <3>1, <3>2, <2>nt
    <3>4. QED
      BY <3>1, <3>2, <3>3, <2>nt DEF ShellInv, flagVars
  <2>17. CASE Esc
    BY <2>17 DEF Esc, Idle, ShellInv, storeVars
  <2>18. CASE ServerEnable \/ ServerDisable
    BY <2>18 DEF ServerEnable, ServerDisable, ShellInv, flagVars, storeVars
  <2>19. CASE Quit
    <3>1. pc'[Shell] = "gone" /\ pc[Shell] = "ready" /\ ~running'
          /\ UNCHANGED <<run_started, run_id, drawn, mine>>
      BY <2>19, <2>pc DEF Quit, Idle
    <3>2. CASE run_started
      <4>1. run_id \in Runs /\ external[run_id] = 0
        BY <3>1, <3>2 DEF ShellInv
      <4>2. external' = [external EXCEPT ![run_id] = @ + 1] /\ Close(run_id, "aborted")
        BY <2>19, <3>2 DEF Quit
      <4>3. external'[run_id] = 1 /\ \A r \in Runs : r # run_id => external'[r] = external[r]
        BY <4>1, <4>2, <2>nt
      <4>4. \A r \in Runs : rows'[r] # "none" => rows[r] # "none"
        BY <4>2, <2>nt DEF Close
      <4>5. QED
        BY <3>1, <4>1, <4>3, <4>4, <2>nt DEF ShellInv
    <3>3. CASE ~run_started
      BY <3>1, <3>3, <2>19 DEF Quit, ShellInv
    <3>4. QED
      BY <3>2, <3>3
  <2>20. ASSUME NEW r \in Runs, ServerBind(r) \/ ClientThread(r) \/ ServerThread(r) PROVE ShellInv'
    BY <2>20 DEF ServerBind, ClientThread, ServerThread, ShellInv, flagVars, storeVars
  <2>21. CASE UNCHANGED vars
    BY <2>21 DEF vars, ShellInv, flagVars, storeVars
  <2>22. QED
    BY <2>1, <2>2, <2>3, <2>4, <2>5, <2>6, <2>7, <2>8, <2>9, <2>10, <2>11, <2>12, <2>13, <2>14,
       <2>15, <2>16, <2>17, <2>18, <2>19, <2>20, <2>21, <2>pc DEF Next, StartRun, StopRun
<1>3. QED
  BY <1>1, <1>2, TypeCorrect, PTL DEF Spec

(* A session driven by its shell alone writes at most one external row per *)
(* run, whatever is stopped, restarted, interrupted by Esc or quit.        *)
THEOREM OneRowPerRun ==
  ASSUME Operators = {Shell}
  PROVE  Spec => []OneExternalRow
<1>1. ShellInv => OneExternalRow
  BY DEF ShellInv, OneExternalRow
<1>2. QED
  BY <1>1, ShellInvariant, PTL

(* Driven by its shell alone, a session never gives the run in progress    *)
(* its verdict.                                                            *)
THEOREM VerdictEndsRun ==
  ASSUME Operators = {Shell}
  PROVE  Spec => []ClosedIsStopped
<1>1. ShellInv => ClosedIsStopped
  BY DEF ShellInv, ClosedIsStopped
<1>2. QED
  BY <1>1, ShellInvariant, PTL

-----------------------------------------------------------------------------

LegTypes ==
  /\ leg \in [Selftests -> {"off"} \union LegStatements]
  /\ leg_run \in [Selftests -> 0 .. MaxRuns]
  /\ legs \subseteq 1 .. drawn

(* A leg's id belongs to the selftest that drew it, and to no command of   *)
(* the session.                                                            *)
LegOwners ==
  /\ \A s \in Selftests : leg[s] \in LegStatements \ {"draw"} => leg_run[s] \in legs
  /\ \A s, t \in Selftests : leg_run[s] \in legs /\ leg_run[s] = leg_run[t] => s = t
  /\ run_id \in (0 .. drawn) \ legs
  /\ \A s \in Selftests : leg_run[s] <= drawn
  /\ \A o \in Operators : mine[o] \in (0 .. drawn) \ legs

(* A leg writes its row before its gate opens, and closes it before its    *)
(* one external row is written.                                            *)
LegRows ==
  /\ \A s \in Selftests :
       /\ leg[s] = "gate" => rows[leg_run[s]] # "none"
       /\ leg[s] \in LegStatements \ {"draw", "next"} => external[leg_run[s]] = 0
       /\ leg[s] = "record" => rows[leg_run[s]] # "running"
  /\ \A r \in legs : external[r] <= 1 /\ (rows[r] = "running" => external[r] = 0)
  /\ \A r \in Runs : r > drawn => external[r] = 0

LegInv == GateInv /\ LegTypes /\ LegOwners /\ LegRows

(* What the session does meanwhile touches no leg's rows.                  *)
LEMMA SessionLeavesLegs ==
  ASSUME LegInv, [Next]_vars, UNCHANGED selftestVars
  PROVE  LegInv'
<1> USE ControlAssumption DEF flagVars, storeVars, trafficVars, selftestVars
<1>ty. TypeOK
  BY DEF LegInv, GateInv
<1>1. GateInv'
  BY GateStep DEF LegInv
<1>2. /\ drawn' \in Nat /\ drawn <= drawn'
      /\ run_id' \in (0 .. drawn') \ legs
      /\ \A o \in Operators : mine'[o] \in (0 .. drawn') \ legs
      /\ \A r \in Runs : r > drawn \/ r \in legs => rows'[r] = rows[r] /\ external'[r] = external[r]
  <2> DEFINE Apart == /\ drawn' \in Nat /\ drawn <= drawn'
                      /\ run_id' \in (0 .. drawn') \ legs
                      /\ \A o \in Operators : mine'[o] \in (0 .. drawn') \ legs
                      /\ \A r \in Runs : r > drawn \/ r \in legs =>
                           rows'[r] = rows[r] /\ external'[r] = external[r]
  <2>own. /\ drawn \in Nat /\ legs \subseteq 1 .. drawn /\ legs \subseteq Runs
          /\ run_id \in (0 .. drawn) \ legs
          /\ \A o \in Operators : mine[o] \in (0 .. drawn) \ legs
    BY <1>ty DEF LegInv, LegOwners, LegTypes, TypeOK, Runs
  <2>1. ASSUME UNCHANGED <<drawn, run_id, mine, rows, external>> PROVE Apart
    BY <2>1, <2>own
  <2>2. ASSUME NEW o \in Operators, DrawId(o) PROVE Apart
    <3>1. drawn' = drawn + 1 /\ mine' = [mine EXCEPT ![o] = drawn + 1]
          /\ UNCHANGED <<run_id, rows, external>>
      BY <2>2 DEF DrawId
    <3>2. \A p \in Operators : mine'[p] = IF p = o THEN drawn + 1 ELSE mine[p]
      BY <3>1, <1>ty DEF TypeOK
    <3>3. QED
      BY <3>1, <3>2, <2>own
  <2>3. ASSUME NEW o \in Operators, PublishId(o) PROVE Apart
    BY <2>3, <2>own DEF PublishId
  <2>4. ASSUME NEW o \in Operators, InsertRow(o) PROVE Apart
    <3>1. rows' = [rows EXCEPT ![mine[o]] = "running"] /\ UNCHANGED <<drawn, run_id, mine, external>>
      BY <2>4 DEF InsertRow
    <3>2. QED
      BY <3>1, <2>own, <1>ty DEF TypeOK
  <2>5. ASSUME NEW o \in Operators, TakeRun(o) PROVE Apart
    <3>1. \A p \in Operators : mine'[p] = IF p = o THEN run_id ELSE mine[p]
      BY <2>5, <1>ty DEF TakeRun, TypeOK
    <3>2. QED
      BY <2>5, <3>1, <2>own DEF TakeRun
  <2>6. ASSUME NEW o \in Operators, NEW verdict \in {"ok", "fail"}, CompleteRow(o, verdict) PROVE Apart
    <3>1. rows' = [rows EXCEPT ![mine[o]] = IF @ = "running" THEN verdict ELSE @]
          /\ UNCHANGED <<drawn, run_id, mine, external>>
      BY <2>6 DEF CompleteRow, Close
    <3>2. QED
      BY <3>1, <2>own, <1>ty DEF TypeOK
  <2>7. ASSUME NEW o \in Operators, RecordFinal(o) PROVE Apart
    <3>1. external' = [external EXCEPT ![mine[o]] = @ + 1] /\ UNCHANGED <<drawn, run_id, mine, rows>>
      BY <2>7 DEF RecordFinal
    <3>2. QED
      BY <3>1, <2>own, <1>ty DEF TypeOK
  <2>8. CASE Quit
    <3>1. \/ UNCHANGED <<rows, external>>
          \/ /\ rows' = [rows EXCEPT ![run_id] = IF @ = "running" THEN "aborted" ELSE @]
             /\ external' = [external EXCEPT ![run_id] = @ + 1]
      BY <2>8 DEF Quit, Close
    <3>2. UNCHANGED <<drawn, run_id, mine>>
      BY <2>8 DEF Quit
    <3>3. \A r \in Runs : r > drawn \/ r \in legs => rows'[r] = rows[r] /\ external'[r] = external[r]
      BY <3>1, <2>own, <1>ty DEF TypeOK
    <3>4. QED
      BY <3>2, <3>3, <2>own
  <2>9. ASSUME NEW o \in Operators,
               \/ CheckIdle(o) \/ CheckRunning(o) \/ ClearStopping(o) \/ ResetRun(o)
               \/ \E any_client \in BOOLEAN : SpawnThreads(o, any_client)
               \/ SetRunning(o) \/ OpenGate(o) \/ SetStopping(o) \/ ClearRunning(o) \/ Evaluate(o)
        PROVE  Apart
    BY <2>1, <2>9 DEF CheckIdle, CheckRunning, ClearStopping, ResetRun, SpawnThreads, SetRunning,
                      OpenGate, SetStopping, ClearRunning, Evaluate
  <2>10. CASE Esc \/ ServerEnable \/ ServerDisable \/ UNCHANGED vars
    BY <2>1, <2>10 DEF Esc, ServerEnable, ServerDisable, vars
  <2>11. ASSUME NEW r \in Runs, ServerBind(r) \/ ClientThread(r) \/ ServerThread(r) PROVE Apart
    BY <2>1, <2>11 DEF ServerBind, ClientThread, ServerThread
  <2>12. QED
    BY <2>2, <2>3, <2>4, <2>5, <2>6, <2>7, <2>8, <2>9, <2>10, <2>11 DEF Next, StartRun, StopRun
<1>3. LegTypes'
  BY <1>2, <1>ty DEF LegInv, LegTypes, TypeOK
<1>4. LegOwners'
  BY <1>2, <1>ty DEF LegInv, LegTypes, LegOwners, TypeOK
<1>5. LegRows'
  <2>1. \A s \in Selftests : leg[s] \in LegStatements \ {"draw", "next"} => leg_run[s] \in legs
    BY DEF LegInv, LegOwners
  <2>2. \A s \in Selftests : leg[s] \in {"gate", "record"} => leg_run[s] \in legs
    BY <2>1 DEF LegStatements
  <2>3. QED
    BY <1>2, <1>ty, <2>1, <2>2 DEF LegInv, LegRows, LegTypes, TypeOK, Runs
<1>6. QED
  BY <1>1, <1>3, <1>4, <1>5 DEF LegInv

(* A step of a selftest keeps what the start gate promises: it opens a     *)
(* gate only after its row is there, and removes no row.                   *)
LEMMA LegKeepsGate ==
  ASSUME LegInv, NEW s \in Selftests, BeginSelftest(s) \/ Leg(s)
  PROVE  GateInv'
<1> USE ControlAssumption DEF flagVars, storeVars, trafficVars
<1>ty. TypeOK /\ LegTypes /\ (leg[s] \in LegStatements \ {"draw"} => leg_run[s] \in Runs)
  BY DEF LegInv, GateInv, LegTypes, LegOwners, TypeOK, Runs
<1>1. CASE BeginSelftest(s) \/ LegClear(s) \/ LegHalt(s) \/ LegReset(s) \/ NextLeg(s) \/ EndSelftest(s)
  <2>1. /\ stopping' \in BOOLEAN /\ running' \in BOOLEAN /\ counted' \subseteq counted
        /\ UNCHANGED <<run_started, run_id, server_enabled, storeVars, pc, mine, gate, trafficVars,
                       outcome>>
    BY <1>1, <1>ty DEF BeginSelftest, LegClear, LegHalt, LegReset, NextLeg, EndSelftest, TypeOK, vars
  <2>2. QED
    BY <2>1, <1>ty DEF LegInv, GateInv, TypeOK
<1>2. CASE LegDraw(s)
  BY <1>2, <1>ty DEF LegDraw, LegInv, GateInv, TypeOK
<1>3. CASE LegSpawn(s)
  <2>1. /\ server' = [server EXCEPT ![leg_run[s]] = "binding"]
        /\ thread' = [thread EXCEPT ![leg_run[s]] = "gated"]
        /\ UNCHANGED <<flagVars, server_enabled, storeVars, pc, mine, gate, counted, outcome>>
    BY <1>3 DEF LegSpawn
  <2>2. TypeOK'
    BY <2>1, <1>ty DEF TypeOK
  <2>3. \A r \in Runs : /\ thread'[r] \in {"looping", "sending"} => thread'[r] = thread[r]
                        /\ server'[r] \in {"looping", "receiving"} => server'[r] = server[r]
    BY <2>1, <1>ty DEF TypeOK
  <2>4. QED
    BY <2>1, <2>2, <2>3 DEF LegInv, GateInv
<1>4. CASE LegRow(s) \/ \E verdict \in {"ok", "fail"} : LegComplete(s, verdict)
  <2>1. /\ \/ rows' = [rows EXCEPT ![leg_run[s]] = "running"]
           \/ \E verdict \in {"ok", "fail"} : Close(leg_run[s], verdict)
        /\ UNCHANGED <<flagVars, server_enabled, drawn, external, pc, mine, gate, trafficVars, counted,
                       outcome>>
    BY <1>4 DEF LegRow, LegComplete
  <2>2. rows' \in [Runs -> {"none", "running", "ok", "fail", "aborted"}]
        /\ \A r \in Runs : rows[r] # "none" => rows'[r] # "none"
    BY <2>1, <1>ty DEF TypeOK, Close
  <2>3. TypeOK'
    BY <2>1, <2>2, <1>ty DEF TypeOK
  <2>4. gate \subseteq Runs /\ counted \subseteq Runs
        /\ \A o \in Operators : pc[o] \in {"run", "gate"} => mine[o] \in Runs
    BY <1>ty DEF TypeOK, LegInv, GateInv, Starting
  <2>5. QED
    BY <2>1, <2>2, <2>3, <2>4 DEF LegInv, GateInv
<1>5. CASE LegGate(s)
  <2>1. leg_run[s] \in Runs /\ rows[leg_run[s]] # "none"
    BY <1>5, <1>ty DEF LegGate, LegGoto, LegInv, LegRows, LegStatements
  <2>2. QED
    BY <1>5, <2>1, <1>ty DEF LegGate, LegInv, GateInv, TypeOK
<1>6. CASE LegEvaluate(s) \/ LegRecord(s)
  <2>1. /\ outcome' = outcome \/ outcome' = [outcome EXCEPT ![leg_run[s]] = counted]
        /\ external' = external \/ external' = [external EXCEPT ![leg_run[s]] = @ + 1]
        /\ UNCHANGED <<flagVars, server_enabled, drawn, rows, pc, mine, gate, trafficVars, counted>>
    BY <1>6 DEF LegEvaluate, LegRecord
  <2>2. outcome' \in [Runs -> SUBSET Runs]
    BY <2>1, <1>ty DEF TypeOK
  <2>3. external' \in [Runs -> Nat]
    BY <2>1, <1>ty DEF TypeOK
  <2>4. TypeOK'
    BY <2>1, <2>2, <2>3, <1>ty DEF TypeOK
  <2>5. QED
    BY <2>1, <2>4 DEF LegInv, GateInv
<1>7. QED
  BY <1>1, <1>2, <1>3, <1>4, <1>5, <1>6 DEF Leg

(* Nor does it touch the row of another leg or of a session's run.         *)
LEMMA LegStep ==
  ASSUME LegInv, NEW s \in Selftests, BeginSelftest(s) \/ Leg(s)
  PROVE  LegInv'
<1> USE ControlAssumption DEF flagVars, storeVars, trafficVars
<1>gate. GateInv'
  BY LegKeepsGate
<1>ty. TypeOK /\ LegTypes /\ LegOwners /\ legs \subseteq Runs
  BY DEF LegInv, GateInv, LegTypes, TypeOK, Runs
<1>mine. \A t \in Selftests : leg[t] \in LegStatements \ {"draw"} => leg_run[t] \in legs
  BY <1>ty DEF LegOwners
<1>others. \A t \in Selftests \ {s} : leg'[t] = leg[t]
  BY <1>ty DEF BeginSelftest, Leg, LegDraw, LegClear, LegReset, LegSpawn, LegRow, LegGate, LegHalt,
               LegEvaluate, LegComplete, LegRecord, NextLeg, EndSelftest, LegGoto, LegTypes
<1>1. CASE BeginSelftest(s) \/ NextLeg(s) \/ EndSelftest(s)
  <2>1. /\ leg'[s] \in {"draw", "off"} /\ leg' \in [Selftests -> {"off"} \union LegStatements]
        /\ UNCHANGED <<drawn, run_id, mine, rows, external, leg_run, legs>>
    BY <1>1, <1>ty DEF BeginSelftest, NextLeg, EndSelftest, LegGoto, LegTypes, LegStatements, vars
  <2>2. QED
    BY <2>1, <1>gate, <1>others, <1>ty DEF LegInv, LegTypes, LegOwners, LegRows, LegStatements
<1>2. CASE LegDraw(s)
  <2>1. /\ leg'[s] = "clear" /\ leg' \in [Selftests -> {"off"} \union LegStatements]
        /\ drawn' = drawn + 1 /\ drawn < MaxRuns /\ drawn + 1 \in Runs \ legs
        /\ leg_run' = [leg_run EXCEPT ![s] = drawn + 1]
        /\ legs' = legs \union {drawn + 1}
        /\ UNCHANGED <<run_id, mine, rows, external>>
    BY <1>2, <1>ty DEF LegDraw, LegGoto, LegTypes, LegStatements, TypeOK, Runs
  <2>2. \A t \in Selftests : leg_run'[t] = IF t = s THEN drawn + 1 ELSE leg_run[t]
    BY <2>1, <1>ty DEF LegTypes
  <2>3. external[drawn + 1] = 0
    BY <2>1, <1>ty DEF LegInv, LegRows, TypeOK
  <2>4. LegTypes'
    <3>1. leg_run' \in [Selftests -> 0 .. MaxRuns]
      BY <2>1, <1>ty DEF LegTypes, Runs
    <3>2. legs' \subseteq 1 .. drawn'
      BY <2>1, <1>ty DEF LegTypes, TypeOK
    <3>3. QED
      BY <2>1, <3>1, <3>2 DEF LegTypes
  <2>5. LegOwners'
    <3>1. \A t \in Selftests : leg_run[t] # drawn + 1
      BY <1>ty DEF LegOwners, LegTypes, TypeOK
    <3>2. \A t \in Selftests : leg'[t] \in LegStatements \ {"draw"} => leg_run'[t] \in legs'
      BY <2>1, <2>2, <1>mine, <1>others
    <3>3. \A t, u \in Selftests : leg_run'[t] \in legs' /\ leg_run'[t] = leg_run'[u] => t = u
      BY <2>1, <2>2, <3>1, <1>ty DEF LegOwners
    <3>4. run_id' \in (0 .. drawn') \ legs' /\ \A o \in Operators : mine'[o] \in (0 .. drawn') \ legs'
      BY <2>1, <1>ty DEF LegOwners, TypeOK
    <3>5. \A t \in Selftests : leg_run'[t] <= drawn'
      BY <2>1, <2>2, <1>ty DEF LegOwners, LegTypes, TypeOK
    <3>6. QED
      BY <3>2, <3>3, <3>4, <3>5 DEF LegOwners
  <2>6. LegRows'
    <3>1. \A t \in Selftests : t # s => leg'[t] = leg[t] /\ leg_run'[t] = leg_run[t]
      BY <2>2, <1>others
    <3>2. \A r \in legs' : external[r] <= 1 /\ (rows[r] = "running" => external[r] = 0)
      BY <2>1, <2>3 DEF LegInv, LegRows
    <3>3. \A r \in Runs : r > drawn' => external[r] = 0
      BY <2>1, <1>ty DEF LegInv, LegRows, TypeOK, Runs
    <3>4. \A t \in Selftests :
            /\ leg'[t] = "gate" => rows[leg_run'[t]] # "none"
            /\ leg'[t] \in LegStatements \ {"draw", "next"} => external[leg_run'[t]] = 0
            /\ leg'[t] = "record" => rows[leg_run'[t]] # "running"
      BY <2>1, <2>2, <2>3, <3>1 DEF LegInv, LegRows
    <3>5. QED
      BY <2>1, <3>2, <3>3, <3>4 DEF LegRows
  <2>7. QED
    BY <1>gate, <2>4, <2>5, <2>6 DEF LegInv
<1>3. CASE LegClear(s) \/ LegReset(s) \/ LegSpawn(s) \/ LegGate(s) \/ LegHalt(s) \/ LegEvaluate(s)
  <2>1. /\ leg[s] \in LegStatements \ {"draw", "next"}
        /\ leg'[s] \in LegStatements \ {"draw", "next", "gate", "record"}
        /\ leg' \in [Selftests -> {"off"} \union LegStatements]
        /\ UNCHANGED <<drawn, run_id, mine, rows, external, leg_run, legs>>
    BY <1>3, <1>ty DEF LegClear, LegReset, LegSpawn, LegGate, LegHalt, LegEvaluate, LegGoto, LegTypes,
                       LegStatements
  <2>2. QED
    BY <2>1, <1>gate, <1>mine, <1>others, <1>ty DEF LegInv, LegTypes, LegOwners, LegRows
<1>4. CASE LegRow(s) \/ \E verdict \in {"ok", "fail"} : LegComplete(s, verdict)
  <2>1. /\ \/ /\ leg[s] = "row" /\ leg'[s] = "gate"
              /\ rows' = [rows EXCEPT ![leg_run[s]] = "running"]
           \/ /\ leg[s] = "complete" /\ leg'[s] = "record"
              /\ \E verdict \in {"ok", "fail"} : Close(leg_run[s], verdict)
        /\ leg' \in [Selftests -> {"off"} \union LegStatements]
        /\ UNCHANGED <<drawn, run_id, mine, external, leg_run, legs>>
    BY <1>4, <1>ty DEF LegRow, LegComplete, LegGoto, LegTypes, LegStatements
  <2>2. leg_run[s] \in legs /\ external[leg_run[s]] = 0 /\ leg'[s] \in LegStatements
    BY <2>1, <1>mine DEF LegInv, LegRows, LegStatements
  <2>3. /\ \A r \in Runs : r # leg_run[s] => rows'[r] = rows[r]
        /\ leg'[s] = "gate" => rows'[leg_run[s]] # "none"
        /\ leg'[s] = "record" => rows'[leg_run[s]] # "running"
    BY <2>1, <2>2, <1>ty DEF Close, TypeOK
  <2>4. LegTypes' /\ LegOwners'
    BY <2>1, <2>2, <1>ty, <1>mine, <1>others DEF LegTypes, LegOwners
  <2>5. LegRows'
    <3>1. \A t \in Selftests : t # s /\ leg_run[t] \in legs => leg_run[t] # leg_run[s]
      BY <1>ty DEF LegOwners
    <3>2. \A t \in Selftests : leg[t] \in {"gate", "record"} => leg_run[t] \in legs
      BY <1>mine DEF LegStatements
    <3>3. \A t \in Selftests \ {s} :
            /\ leg'[t] = "gate" => rows'[leg_run[t]] # "none"
            /\ leg'[t] \in LegStatements \ {"draw", "next"} => external[leg_run[t]] = 0
            /\ leg'[t] = "record" => rows'[leg_run[t]] # "running"
      BY <2>3, <3>1, <3>2, <1>others, <1>ty DEF LegInv, LegRows
    <3>4. \A r \in legs : external[r] <= 1 /\ (rows'[r] = "running" => external[r] = 0)
      BY <2>2, <2>3, <1>ty DEF LegInv, LegRows
    <3>5. QED
      BY <2>1, <2>2, <2>3, <3>3, <3>4 DEF LegInv, LegRows
  <2>6. QED
    BY <1>gate, <2>4, <2>5 DEF LegInv
<1>5. CASE LegRecord(s)
  <2>1. /\ leg[s] = "record" /\ leg'[s] = "next"
        /\ external' = [external EXCEPT ![leg_run[s]] = @ + 1]
        /\ leg' \in [Selftests -> {"off"} \union LegStatements]
        /\ UNCHANGED <<drawn, run_id, mine, rows, leg_run, legs>>
    BY <1>5, <1>ty DEF LegRecord, LegGoto, LegTypes, LegStatements
  <2>2. /\ leg_run[s] \in legs /\ external[leg_run[s]] = 0 /\ rows[leg_run[s]] # "running"
        /\ leg_run[s] <= drawn
    BY <2>1, <1>mine, <1>ty DEF LegInv, LegRows, LegOwners, LegStatements
  <2>3. external'[leg_run[s]] = 1 /\ \A r \in Runs : r # leg_run[s] => external'[r] = external[r]
    BY <2>1, <2>2, <1>ty DEF TypeOK
  <2>4. LegTypes' /\ LegOwners'
    BY <2>1, <2>2, <1>ty, <1>mine, <1>others DEF LegTypes, LegOwners
  <2>5. LegRows'
    <3>1. \A t \in Selftests : t # s /\ leg_run[t] \in legs => leg_run[t] # leg_run[s]
      BY <1>ty DEF LegOwners
    <3>2. \A t \in Selftests : leg[t] \in {"gate", "record"} => leg_run[t] \in legs
      BY <1>mine DEF LegStatements
    <3>3. \A t \in Selftests \ {s} :
            /\ leg'[t] = "gate" => rows[leg_run[t]] # "none"
            /\ leg'[t] \in LegStatements \ {"draw", "next"} => external'[leg_run[t]] = 0
            /\ leg'[t] = "record" => rows[leg_run[t]] # "running"
      BY <2>3, <3>1, <3>2, <1>mine, <1>others, <1>ty DEF LegInv, LegRows
    <3>4. \A r \in legs : external'[r] <= 1 /\ (rows[r] = "running" => external'[r] = 0)
      BY <2>2, <2>3, <1>ty DEF LegInv, LegRows
    <3>5. \A r \in Runs : r > drawn => external'[r] = 0
      <4>1. \A r \in Runs : r > drawn => r # leg_run[s]
        BY <2>2, <1>ty DEF LegTypes, TypeOK, Runs
      <4>2. QED
        BY <2>3, <4>1 DEF LegInv, LegRows
    <3>6. QED
      BY <2>1, <3>3, <3>4, <3>5 DEF LegRows
  <2>6. QED
    BY <1>gate, <2>4, <2>5 DEF LegInv
<1>6. QED
  BY <1>1, <1>2, <1>3, <1>4, <1>5 DEF Leg

(* Both together, at every step.                                           *)
LEMMA LegInvariant == SelftestSpec => []LegInv
<1>1. SelftestInit => LegInv
  <2> SUFFICES ASSUME SelftestInit PROVE LegInv
    OBVIOUS
  <2>1. GateInv /\ TypeOK
    BY GateInit DEF SelftestInit, GateInv
  <2>2. LegTypes
    BY ControlAssumption DEF SelftestInit, Init, LegTypes
  <2>3. LegOwners /\ LegRows
    BY DEF SelftestInit, Init, LegOwners, LegRows, LegStatements
  <2>4. QED
    BY <2>1, <2>2, <2>3 DEF LegInv
<1>2. LegInv /\ [SelftestNext]_allVars => LegInv'
  <2> SUFFICES ASSUME LegInv, [SelftestNext]_allVars PROVE LegInv'
    OBVIOUS
  <2>1. CASE SessionStep \/ UNCHANGED allVars
    BY <2>1, SessionLeavesLegs DEF SessionStep, allVars
  <2>2. ASSUME NEW s \in Selftests, BeginSelftest(s) \/ Leg(s) PROVE LegInv'
    BY <2>2, LegStep
  <2>3. QED
    BY <2>1, <2>2 DEF SelftestNext
<1>3. QED
  BY <1>1, <1>2, PTL DEF SelftestSpec

(* Whatever any number of commands and of selftests do in between, a leg's *)
(* row in the external database is written once, after its verdict, and    *)
(* its traffic is counted only when it has a row.                          *)
THEOREM LegsAreRecorded == SelftestSpec => []LegsRecordedOnce
<1>1. LegInv => LegsRecordedOnce
  BY DEF LegInv, GateInv, LegRows, LegsRecordedOnce
<1>2. QED
  BY <1>1, LegInvariant, PTL

================================================================================
