-------------------------------- MODULE Services --------------------------------
(***************************************************************************)
(* The two services an operator switches on and off while the process      *)
(* runs: the monitor (src/src/monitor.rs) and the acceptor of the REST API *)
(* (src/src/restapi.rs).  Both are a flag that commands set and a thread   *)
(* polls.  The shell executes its commands one after the other; under      *)
(* --serve requests of the web CLI execute them, and any two may overlap.  *)
(* Who waits for whom at the mutexes is in Commands.  The rows that starts *)
(* and stops of the monitor leave in monitor_status are counted here, and  *)
(* so are those that a failing statement or `clean` takes away.            *)
(***************************************************************************)
EXTENDS Integers, FiniteSets

CONSTANTS
  Operators,   (* threads that execute commands                            *)
  Addresses,   (* what `restapi enable` can be given                       *)
  MaxListeners,  (* bound on the listeners open at once                    *)
  MaxStarts    (* bound on the monitor ids drawn                           *)

Listeners == 1 .. MaxListeners

NoAddress == "none"

ASSUME ServicesAssumption ==
  /\ IsFiniteSet(Operators)
  /\ NoAddress \notin Addresses
  /\ MaxListeners \in Nat
  /\ MaxStarts \in Nat

VARIABLES
  pc,           (* the next statement of each operator's command           *)
  interactive,  (* the shell, which starts the monitor's worker, or --serve *)
  monitoring,   (* MonitorState.running                                    *)
  monitor_id,   (* MonitorState.monitor_id                                 *)
  next_id,      (* MonitorState.next_monitor_id                            *)
  target,       (* is MonitorState.target set?                             *)
  drawn,        (* the id each operator's start or stop has in hand        *)
  started,      (* ids of the started rows of monitor_status               *)
  stopped,      (* how many stopped rows there are                         *)
  lost_started, (* history: ids whose started row was not stored or was    *)
                (* cleaned                                                 *)
  lost_stopped, (* history: how many stopped rows were not stored, or were *)
                (* cleaned                                                 *)
  worker,       (* the monitor's worker                                    *)
  serving,      (* RestApi.running                                         *)
  address,      (* RestApi.address                                         *)
  wanted,       (* the address and listener each operator's enable works on *)
  listener,     (* the address of each open listener                       *)
  accepting,    (* listeners that have their thread                        *)
  broken,       (* history: has an accept failed?                          *)
  overlapped    (* history: have two enables been under way at once?       *)

statusRows == <<started, stopped, lost_started, lost_stopped>>
monitorVars == <<monitoring, monitor_id, next_id, target, drawn, statusRows, worker>>
acceptorVars == <<serving, address, wanted, listener, accepting, broken, overlapped>>
vars == <<pc, interactive, monitorVars, acceptorVars>>

(* start: 48, 49, 56; stop: 65, 71 (src/src/monitor.rs).                   *)
Monitoring == {"draw", "publish", "record_started", "load", "record_stopped"}

(* enable: 195, 200, 201, 203 (src/src/restapi.rs).                        *)
Enabling == {"bind", "address", "running", "spawn"}

Open == {i \in Listeners : listener[i] # NoAddress}

(* start_if_enabled of the shell, and --serve, which exits if it fails.    *)
Init ==
  /\ pc = [o \in Operators |-> "ready"]
  /\ interactive \in BOOLEAN
  /\ monitoring = FALSE
  /\ monitor_id = 0
  /\ next_id = 1
  /\ target = FALSE
  /\ drawn = [o \in Operators |-> 0]
  /\ started = {}
  /\ stopped = 0
  /\ lost_started = {}
  /\ lost_stopped = 0
  /\ worker = "idle"
  /\ wanted = [o \in Operators |-> [address |-> NoAddress, listener |-> 0]]
  /\ \/ /\ interactive
        /\ serving = FALSE
        /\ address = NoAddress
        /\ listener = [i \in Listeners |-> NoAddress]
        /\ accepting = {}
     \/ /\ serving = TRUE
        /\ address \in Addresses
        /\ \E i \in Listeners : /\ listener = [j \in Listeners |-> IF j = i THEN address ELSE NoAddress]
                              /\ accepting = {i}
  /\ broken = FALSE
  /\ overlapped = FALSE

(* The shell begins a command when it is through with the last one.        *)
MayBegin(o) == pc[o] = "ready" /\ (interactive => \A p \in Operators : pc[p] = "ready")

Goto(o, from, to) == pc[o] = from /\ pc' = [pc EXCEPT ![o] = to]

-----------------------------------------------------------------------------
(* The monitor.                                                            *)

(* A start that finds it running does nothing.                             *)
MonitorStart(o) ==
  /\ ~monitoring
  /\ next_id + Cardinality({p \in Operators : pc[p] = "draw"}) <= MaxStarts
  /\ MayBegin(o) /\ Goto(o, "ready", "draw")
  /\ monitoring' = TRUE
  /\ UNCHANGED <<interactive, monitor_id, next_id, target, drawn, statusRows, worker, acceptorVars>>

(* Mutant: the id is the last one published, plus one.                     *)
DrawAfterPublished(o) ==
  /\ Goto(o, "draw", "publish")
  /\ drawn' = [drawn EXCEPT ![o] = monitor_id + 1]
  /\ next_id' = next_id + 1
  /\ UNCHANGED <<interactive, monitoring, monitor_id, target, statusRows, worker, acceptorVars>>

DrawId(o) ==
  /\ Goto(o, "draw", "publish")
  /\ drawn' = [drawn EXCEPT ![o] = next_id]
  /\ next_id' = next_id + 1
  /\ UNCHANGED <<interactive, monitoring, monitor_id, target, statusRows, worker, acceptorVars>>

PublishId(o) ==
  /\ Goto(o, "publish", "record_started")
  /\ monitor_id' = drawn[o]
  /\ UNCHANGED <<interactive, monitoring, next_id, target, drawn, statusRows, worker, acceptorVars>>

(* record_monitor_status does nothing while SQL is not enabled, and an     *)
(* error of its statement is ignored.                                      *)
RecordStarted(o) ==
  /\ Goto(o, "record_started", "ready")
  /\ \/ started' = started \union {drawn[o]} /\ UNCHANGED lost_started
     \/ lost_started' = lost_started \union {drawn[o]} /\ UNCHANGED started
  /\ drawn' = [drawn EXCEPT ![o] = 0]
  /\ UNCHANGED <<interactive, monitoring, monitor_id, next_id, target, stopped, lost_stopped, worker,
                 acceptorVars>>

(* `monitor stop`, Ctrl-C and the end of the interactive loop.             *)
MonitorStop(o) ==
  /\ monitoring
  /\ MayBegin(o) /\ Goto(o, "ready", "load")
  /\ monitoring' = FALSE
  /\ UNCHANGED <<interactive, monitor_id, next_id, target, drawn, statusRows, worker, acceptorVars>>

LoadId(o) ==
  /\ Goto(o, "load", "record_stopped")
  /\ drawn' = [drawn EXCEPT ![o] = monitor_id]
  /\ UNCHANGED <<interactive, monitoring, monitor_id, next_id, target, statusRows, worker, acceptorVars>>

RecordStopped(o) ==
  /\ Goto(o, "record_stopped", "ready")
  /\ \/ stopped' = stopped + 1 /\ UNCHANGED lost_stopped
     \/ lost_stopped' = lost_stopped + 1 /\ UNCHANGED stopped
  /\ drawn' = [drawn EXCEPT ![o] = 0]
  /\ UNCHANGED <<interactive, monitoring, monitor_id, next_id, target, started, lost_started, worker,
                 acceptorVars>>

(* `clean` deletes the rows, whatever commands are in between.             *)
Clean(o) ==
  /\ MayBegin(o)
  /\ started' = {} /\ lost_started' = lost_started \union started
  /\ stopped' = 0 /\ lost_stopped' = lost_stopped + stopped
  /\ UNCHANGED <<pc, interactive, monitoring, monitor_id, next_id, target, drawn, worker, acceptorVars>>

(* The worker keeps the mutex of the target until its check is written.    *)
SetTarget(o) ==
  /\ MayBegin(o)
  /\ worker # "calling"
  /\ target' = TRUE
  /\ UNCHANGED <<pc, interactive, monitoring, monitor_id, next_id, drawn, statusRows, worker,
                 acceptorVars>>

WorkerLooks ==
  /\ interactive
  /\ worker = "idle"
  /\ monitoring
  /\ worker' = "asking"
  /\ UNCHANGED <<pc, interactive, monitoring, monitor_id, next_id, target, drawn, statusRows,
                 acceptorVars>>

(* Mutant: without a target it looks for one again, and not at the flag.   *)
WorkerRetries ==
  /\ worker = "asking"
  /\ worker' = IF target THEN "calling" ELSE "asking"
  /\ UNCHANGED <<pc, interactive, monitoring, monitor_id, next_id, target, drawn, statusRows,
                 acceptorVars>>

WorkerCalls ==
  /\ worker = "asking"
  /\ worker' = IF target THEN "calling" ELSE "idle"
  /\ UNCHANGED <<pc, interactive, monitoring, monitor_id, next_id, target, drawn, statusRows,
                 acceptorVars>>

(* The call answers, fails or times out, is logged, stored, and slept on.  *)
WorkerRecords ==
  /\ worker = "calling"
  /\ worker' = "idle"
  /\ UNCHANGED <<pc, interactive, monitoring, monitor_id, next_id, target, drawn, statusRows,
                 acceptorVars>>

-----------------------------------------------------------------------------
(* The acceptor of the REST API.                                           *)

(* An enable that finds it running is an error and changes nothing.        *)
Enable(o) ==
  /\ ~serving
  /\ MayBegin(o) /\ Goto(o, "ready", "bind")
  /\ \E a \in Addresses : wanted' = [wanted EXCEPT ![o].address = a]
  /\ overlapped' = (overlapped \/ \E p \in Operators : pc[p] \in Enabling)
  /\ UNCHANGED <<interactive, monitorVars, serving, address, listener, accepting, broken>>

(* An address something listens on, here or elsewhere, cannot be bound.    *)
Bind(o) ==
  /\ \E i \in Listeners \ Open :
       /\ \A j \in Open : listener[j] # wanted[o].address
       /\ Goto(o, "bind", "address")
       /\ listener' = [listener EXCEPT ![i] = wanted[o].address]
       /\ wanted' = [wanted EXCEPT ![o].listener = i]
  /\ UNCHANGED <<interactive, monitorVars, serving, address, accepting, broken, overlapped>>

(* Mutant: the thread binds, so the command goes on without a listener.    *)
BindFailsLater(o) ==
  /\ Goto(o, "bind", "address")
  /\ UNCHANGED <<interactive, monitorVars, acceptorVars>>

BindFails(o) ==
  /\ Goto(o, "bind", "ready")
  /\ wanted' = [wanted EXCEPT ![o].address = NoAddress]
  /\ UNCHANGED <<interactive, monitorVars, serving, address, listener, accepting, broken, overlapped>>

SetAddress(o) ==
  /\ Goto(o, "address", "running")
  /\ address' = wanted[o].address
  /\ UNCHANGED <<interactive, monitorVars, serving, wanted, listener, accepting, broken, overlapped>>

SetRunning(o) ==
  /\ Goto(o, "running", "spawn")
  /\ serving' = TRUE
  /\ UNCHANGED <<interactive, monitorVars, address, wanted, listener, accepting, broken, overlapped>>

Spawn(o) ==
  /\ Goto(o, "spawn", "ready")
  /\ accepting' = accepting \union {wanted[o].listener}
  /\ wanted' = [wanted EXCEPT ![o] = [address |-> NoAddress, listener |-> 0]]
  /\ UNCHANGED <<interactive, monitorVars, serving, address, listener, broken, overlapped>>

Disable(o) ==
  /\ MayBegin(o)
  /\ serving' = FALSE
  /\ UNCHANGED <<pc, interactive, monitorVars, address, wanted, listener, accepting, broken, overlapped>>

(* Mutant: the listener belongs to the RestApi and outlives its thread.    *)
CloseNothing(i) ==
  /\ i \in accepting
  /\ accepting' = accepting \ {i}
  /\ UNCHANGED <<pc, interactive, monitorVars, serving, address, wanted, listener, overlapped>>

(* Its thread leaves the loop, which closes the listener.                  *)
Close(i) ==
  /\ i \in accepting
  /\ accepting' = accepting \ {i}
  /\ listener' = [listener EXCEPT ![i] = NoAddress]
  /\ UNCHANGED <<pc, interactive, monitorVars, serving, address, wanted, overlapped>>

(* The thread looks at the flag before every accept, and sleeps 20 ms when *)
(* there is nothing to accept; a round that goes on changes nothing.       *)
AcceptorStops(i) == ~serving /\ Close(i) /\ UNCHANGED broken

AcceptFails(i) == Close(i) /\ broken' = TRUE

-----------------------------------------------------------------------------

Command(o) ==
  \/ DrawId(o)
  \/ PublishId(o)
  \/ RecordStarted(o)
  \/ LoadId(o)
  \/ RecordStopped(o)
  \/ Bind(o)
  \/ BindFails(o)
  \/ SetAddress(o)
  \/ SetRunning(o)
  \/ Spawn(o)

Worker == WorkerLooks \/ WorkerCalls \/ WorkerRecords

Next ==
  \/ \E o \in Operators :
       \/ MonitorStart(o)
       \/ MonitorStop(o)
       \/ SetTarget(o)
       \/ Clean(o)
       \/ Enable(o)
       \/ Disable(o)
       \/ Command(o)
  \/ Worker
  \/ \E i \in Listeners : AcceptorStops(i) \/ AcceptFails(i)

Spec == Init /\ [][Next]_vars

(* A command that was begun goes on, a call returns within its timeout and *)
(* the threads poll; nobody has to give a command, and no accept to fail.  *)
Fairness ==
  /\ \A o \in Operators : WF_vars(Command(o))
  /\ WF_vars(Worker)
  /\ \A i \in Listeners : WF_vars(AcceptorStops(i))

FairSpec == Spec /\ Fairness

-----------------------------------------------------------------------------

(* Types; a listener with a thread is open, and one without belongs to the *)
(* one enable that bound it (enable, restapi.rs).                          *)
TypeOK ==
  /\ pc \in [Operators -> {"ready"} \union Monitoring \union Enabling]
  /\ interactive \in BOOLEAN
  /\ monitoring \in BOOLEAN
  /\ monitor_id \in 0 .. MaxStarts
  /\ next_id \in 1 .. MaxStarts + 1
  /\ target \in BOOLEAN
  /\ drawn \in [Operators -> 0 .. MaxStarts]
  /\ started \subseteq 1 .. MaxStarts
  /\ stopped \in Nat
  /\ lost_started \subseteq 1 .. MaxStarts
  /\ lost_stopped \in Nat
  /\ worker \in {"idle", "asking", "calling"}
  /\ serving \in BOOLEAN
  /\ address \in Addresses \union {NoAddress}
  /\ wanted \in [Operators -> [address : Addresses \union {NoAddress}, listener : 0 .. MaxListeners]]
  /\ listener \in [Listeners -> Addresses \union {NoAddress}]
  /\ accepting \subseteq Open
  /\ \A i \in Open \ accepting : \E o \in Operators : wanted[o].listener = i
  /\ broken \in BOOLEAN
  /\ overlapped \in BOOLEAN

(* monitor_status has one row for each time the monitor was started or     *)
(* stopped (doc/netmark.md:682), and is short of exactly those whose       *)
(* statement failed or that were cleaned: however starts and stops of      *)
(* several operators overlap, and counting the rows still on their way,    *)
(* the started ones, each of an id of its own, outnumber the stopped ones  *)
(* by one while it runs and by none while it does not.                     *)
StatusRowsBalance ==
  Cardinality(started \union lost_started)
      + Cardinality({o \in Operators : pc[o] \in {"draw", "publish", "record_started"}})
    = stopped + lost_stopped + Cardinality({o \in Operators : pc[o] \in {"load", "record_stopped"}})
        + (IF monitoring THEN 1 ELSE 0)

(* "enabled on http://<address>" is true: as long as no two enables have   *)
(* overlapped and no accept has failed, somebody listens on the address    *)
(* the status names, whatever disables and enables raced with the old      *)
(* acceptor's poll (status, restapi.rs).                                   *)
StatusIsTrue == serving /\ ~overlapped /\ ~broken => \E i \in Open : listener[i] = address

(* What is switched off for good falls silent, although its thread may     *)
(* have seen the flag back on in between: the monitor's worker makes no    *)
(* further call, and every listener there ever was is closed.              *)
SwitchedOffStops ==
  /\ <>[]~monitoring => <>[](worker = "idle")
  /\ <>[]~serving => <>[](Open = {})

=============================================================================
