------------------------------- MODULE ProfileRuns -------------------------------
(***************************************************************************)
(* Runs that share one process: test profiles posted to /api/v1/runs, each *)
(* in its own connection's thread (src/src/restapi.rs, start_run, through  *)
(* TestRunner::run to execute_profile in lib.rs), the session's own runs   *)
(* from `start` and `stop`, their server threads on the one traffic port,  *)
(* and the live status that all of them publish to.                        *)
(***************************************************************************)
EXTENDS Naturals, FiniteSets

CONSTANTS
  Posts,    (* POST /api/v1/runs requests                                   *)
  MaxRuns   (* bound on the session's runs                                  *)

ASSUME ProfileRunsAssumption ==
  /\ MaxRuns \in Nat
  /\ Posts \intersect (1 .. MaxRuns) = {}

VARIABLES
  busy,              (* RestApi.busy                                              *)
  post,              (* how far each request is                                   *)
  live,              (* LiveStatus.running                                        *)
  session_running,   (* Session.running                                           *)
  session_stopping,  (* Session.stopping, one flag for all its runs               *)
  started,           (* runs the session has started                              *)
  publishing,        (* what each publisher of the session read, or "none"        *)
  stopping,          (* posted runs whose stopping flag is set                    *)
  gates,             (* runs whose start gate is open                             *)
  server             (* the traffic server thread of each run                     *)

vars == <<busy, post, live, session_running, session_stopping, started, publishing,
          stopping, gates, server>>

sessionVars == <<session_running, session_stopping, started>>

Runs == Posts \union (1 .. MaxRuns)

(* The process's main loop, and the thread of a web CLI command.           *)
Publishers == {"loop", "command"}

(* From the swap of `busy` to its release.                                 *)
InProgress == {"admitted", "published", "waiting", "running", "stopped", "over"}

TypeOK ==
  /\ busy \in BOOLEAN
  /\ post \in [Posts -> {"new", "refused", "released", "answered"} \union InProgress]
  /\ live \in BOOLEAN
  /\ session_running \in BOOLEAN
  /\ session_stopping \in BOOLEAN
  /\ started \in 0 .. MaxRuns
  /\ publishing \in [Publishers -> {"none", "running", "idle"}]
  /\ stopping \in SUBSET Posts
  /\ gates \in SUBSET Runs
  /\ server \in [Runs -> {"none", "spawned", "gated", "serving", "gone"}]

Init ==
  /\ busy = FALSE
  /\ post = [p \in Posts |-> "new"]
  /\ live = FALSE
  /\ session_running = FALSE
  /\ session_stopping = FALSE
  /\ started = 0
  /\ publishing = [q \in Publishers |-> "none"]
  /\ stopping = {}
  /\ gates = {}
  /\ server = [r \in Runs |-> "none"]

-----------------------------------------------------------------------------
(* A posted run.                                                             *)

Reach(p, phase) == post' = [post EXCEPT ![p] = phase]

(* Mutant: a refused request leaves through the release of `busy`.         *)
ClearOnRefusal(p) ==
  /\ post[p] = "new"
  /\ Reach(p, IF busy THEN "refused" ELSE "admitted")
  /\ busy' = ~busy
  /\ UNCHANGED <<live, sessionVars, publishing, stopping, gates, server>>

(* busy.swap(true): 409 when it was set.                                   *)
Admit(p) ==
  /\ post[p] = "new"
  /\ Reach(p, IF busy THEN "refused" ELSE "admitted")
  /\ busy' = TRUE
  /\ UNCHANGED <<live, sessionVars, publishing, stopping, gates, server>>

PublishStart(p) ==
  /\ post[p] = "admitted"
  /\ Reach(p, "published")
  /\ live' = TRUE
  /\ UNCHANGED <<busy, sessionVars, publishing, stopping, gates, server>>

(* A hook that is not registered, a log or database that does not open, or *)
(* a before hook that fails: no thread has been spawned.                   *)
PrepareFails(p) ==
  /\ post[p] = "published"
  /\ Reach(p, "over")
  /\ UNCHANGED <<busy, live, sessionVars, publishing, stopping, gates, server>>

Spawn(p, enabled) ==
  /\ post[p] = "published"
  /\ Reach(p, "waiting")
  /\ server' = [server EXCEPT ![p] = IF enabled THEN "spawned" ELSE "none"]
  /\ UNCHANGED <<busy, live, sessionVars, publishing, stopping, gates>>

(* Mutant: the error leaves start_run at once, and `busy` is never cleared. *)
WaitFailsUnreleased(p) ==
  /\ post[p] = "waiting"
  /\ Reach(p, "failed")
  /\ UNCHANGED <<busy, live, sessionVars, publishing, stopping, gates, server>>

(* start_at is not a timestamp: the threads stay, neither started nor      *)
(* stopped.                                                                *)
WaitFails(p) ==
  /\ post[p] = "waiting"
  /\ Reach(p, "over")
  /\ UNCHANGED <<busy, live, sessionVars, publishing, stopping, gates, server>>

OpenGate(p) ==
  /\ post[p] = "waiting"
  /\ Reach(p, "running")
  /\ gates' = gates \union {p}
  /\ UNCHANGED <<busy, live, sessionVars, publishing, stopping, server>>

(* Mutant: the run ends without its flag being set.                        *)
EndUnstopped(p) ==
  /\ post[p] = "running"
  /\ Reach(p, "stopped")
  /\ UNCHANGED <<busy, live, sessionVars, publishing, stopping, gates, server>>

(* duration_seconds are over.                                              *)
EndTraffic(p) ==
  /\ post[p] = "running"
  /\ Reach(p, "stopped")
  /\ stopping' = stopping \union {p}
  /\ UNCHANGED <<busy, live, sessionVars, publishing, gates, server>>

(* 250 ms, the debrief, the records and the after hooks.                   *)
Complete(p) ==
  /\ post[p] = "stopped"
  /\ Reach(p, "over")
  /\ UNCHANGED <<busy, live, sessionVars, publishing, stopping, gates, server>>

Release(p) ==
  /\ post[p] = "over"
  /\ Reach(p, "released")
  /\ busy' = FALSE
  /\ UNCHANGED <<live, sessionVars, publishing, stopping, gates, server>>

PublishEnd(p) ==
  /\ post[p] = "released"
  /\ Reach(p, "answered")
  /\ live' = FALSE
  /\ UNCHANGED <<busy, sessionVars, publishing, stopping, gates, server>>

-----------------------------------------------------------------------------
(* The session's runs; RunControl has what happens inside start and stop.    *)

SessionStart(enabled) ==
  /\ ~session_running
  /\ started < MaxRuns
  /\ started' = started + 1
  /\ session_stopping' = FALSE
  /\ session_running' = TRUE
  /\ gates' = gates \union {started + 1}
  /\ server' = [server EXCEPT ![started + 1] = IF enabled THEN "spawned" ELSE "none"]
  /\ UNCHANGED <<busy, post, live, publishing, stopping>>

SessionStop ==
  /\ session_running
  /\ session_stopping' = TRUE
  /\ session_running' = FALSE
  /\ UNCHANGED <<busy, post, live, started, publishing, stopping, gates, server>>

(* publish_live reads the session's running flag ...                       *)
ReadRunning(q) ==
  /\ publishing[q] = "none"
  /\ publishing' = [publishing EXCEPT ![q] = IF session_running THEN "running" ELSE "idle"]
  /\ UNCHANGED <<busy, post, live, sessionVars, stopping, gates, server>>

(* Mutant: an idle session does not touch the status.                      *)
UpdateRunningOnly(q) ==
  /\ publishing[q] # "none"
  /\ live' = (live \/ publishing[q] = "running")
  /\ publishing' = [publishing EXCEPT ![q] = "none"]
  /\ UNCHANGED <<busy, post, sessionVars, stopping, gates, server>>

(* ... and then updates the status with it.                                *)
UpdateLive(q) ==
  /\ publishing[q] # "none"
  /\ live' = (publishing[q] = "running")
  /\ publishing' = [publishing EXCEPT ![q] = "none"]
  /\ UNCHANGED <<busy, post, sessionVars, stopping, gates, server>>

-----------------------------------------------------------------------------
(* The traffic server thread of a run.                                       *)

Bound == {"gated", "serving"}

PortFree == \A r \in Runs : server[r] \notin Bound

Stopped(r) == IF r \in Posts THEN r \in stopping ELSE session_stopping

(* The port is bound before the thread waits at the gate; a thread that    *)
(* finds it taken returns.                                                 *)
Bind(r) ==
  /\ server[r] = "spawned"
  /\ server' = [server EXCEPT ![r] = IF PortFree THEN "gated" ELSE "gone"]
  /\ UNCHANGED <<busy, post, live, sessionVars, publishing, stopping, gates>>

PassGate(r) ==
  /\ server[r] = "gated"
  /\ r \in gates
  /\ server' = [server EXCEPT ![r] = "serving"]
  /\ UNCHANGED <<busy, post, live, sessionVars, publishing, stopping, gates>>

SeeStop(r) ==
  /\ server[r] = "serving"
  /\ Stopped(r)
  /\ server' = [server EXCEPT ![r] = "gone"]
  /\ UNCHANGED <<busy, post, live, sessionVars, publishing, stopping, gates>>

(* server_runtime is over, or the socket failed.                           *)
Expire(r) ==
  /\ server[r] = "serving"
  /\ server' = [server EXCEPT ![r] = "gone"]
  /\ UNCHANGED <<busy, post, live, sessionVars, publishing, stopping, gates>>

-----------------------------------------------------------------------------

(* An admitted request goes through to its answer.                         *)
Execute(p) ==
  \/ PublishStart(p)
  \/ PrepareFails(p)
  \/ \E enabled \in BOOLEAN : Spawn(p, enabled)
  \/ WaitFails(p)
  \/ OpenGate(p)
  \/ EndTraffic(p)
  \/ Complete(p)
  \/ Release(p)
  \/ PublishEnd(p)

PublishLive(q) == ReadRunning(q) \/ UpdateLive(q)

ServerThread(r) == Bind(r) \/ PassGate(r) \/ SeeStop(r)

Next ==
  \/ \E p \in Posts : Admit(p) \/ Execute(p)
  \/ \E enabled \in BOOLEAN : SessionStart(enabled)
  \/ SessionStop
  \/ \E q \in Publishers : PublishLive(q)
  \/ \E r \in Runs : ServerThread(r) \/ Expire(r)

Spec == Init /\ [][Next]_vars

(* Request threads and server threads are scheduled, a run's duration is   *)
(* finite, and the main loop publishes on every turn; nobody has to post,  *)
(* start or stop, and a command is not repeated.                           *)
Fairness ==
  /\ \A p \in Posts : WF_vars(Execute(p))
  /\ WF_vars(PublishLive("loop"))
  /\ WF_vars(UpdateLive("command"))
  /\ \A r \in Runs : WF_vars(ServerThread(r))

FairSpec == Spec /\ Fairness

-----------------------------------------------------------------------------

(* What GET /api/v1/status answers for "running".                          *)
Shown == live \/ busy

Quiet == ~session_running /\ \A p \in Posts : post[p] \notin InProgress

(* As long as a posted run is in progress `busy` is set and it is the only *)
(* posted one, so neither a refused request nor one that ends can open the *)
(* way for another (restapi.rs, RestApi.busy: one run at a time).          *)
PostIsBusy ==
  \A p \in Posts : post[p] \in InProgress =>
    busy /\ \A other \in Posts \ {p} : post[other] \notin InProgress

(* Whichever of the publishers comes last with something it read earlier,  *)
(* the status page settles on what is going on: idle when nothing runs any *)
(* more, running when the session's run stays in progress (session.rs,     *)
(* publish_live; restapi.rs, start_run).                                   *)
StatusSettles ==
  /\ <>[]Quiet => <>[]~Shown
  /\ <>[]session_running => <>[]Shown

(* When nothing is in progress any more the traffic port is given back,    *)
(* unless a posted run never got through its start gate: then its thread   *)
(* keeps the port.                                                         *)
PortComesBack ==
  <>[]Quiet => <>[](\A r \in Runs : server[r] \in Bound => r \notin gates)

================================================================================
