--------------------------------- MODULE Debrief ---------------------------------
(***************************************************************************)
(* The end-of-run debrief on TCP port 9001 (src/src/core.rs): the          *)
(* responder thread that every server run spawns, and sending hosts that   *)
(* connect, send one request line and wait for one reply line.  The server *)
(* host may start its next run while a responder of the last one still     *)
(* holds the port.  Time passes in ticks of DEBRIEF_TIMEOUT.               *)
(***************************************************************************)
EXTENDS Integers, Sequences, SequencesExt

CONSTANTS
  Hosts,        (* sending hosts                                              *)
  RunId,        (* the run id each of them drew from its own database         *)
  MaxRuns,      (* bound on the runs the server host starts                   *)
  Interactive   (* are they runs of one Session, which share their stopping
                   flag and metrics, or executed profiles with their own?     *)

None == -1

ASSUME DebriefAssumption ==
  /\ MaxRuns \in Nat
  /\ Interactive \in BOOLEAN
  /\ None \notin Hosts

Runs == 1 .. MaxRuns

TIMEOUT == 1

GRACE == 2

VARIABLES
  run,          (* the server host's last run                                 *)
  stopping,     (* the stopping flags                                         *)
  stopped_for,  (* ticks since a flag was last set                            *)
  responder,    (* the responder thread of each run                           *)
  stopped_at,   (* ticks since a responder first saw its flag set             *)
  backlog,      (* connections waiting to be accepted                         *)
  peer,         (* the connection each responder is serving                   *)
  server_age,   (* ticks a responder has waited for the request line          *)
  counted,      (* the run whose counters each responder has read             *)
  server_rows,  (* role "server" rows of debriefs: whose request, which run's
                   counters                                                   *)
  client,       (* the sending hosts                                          *)
  requested,    (* hosts whose request line is in their connection            *)
  client_age,   (* ticks a host has waited for the reply                      *)
  answer,       (* the run whose counters a host was told                     *)
  cut,          (* hosts whose path to the server has broken                  *)
  missing,      (* history: hosts whose role "server" row was not stored, or
                   was cleaned                                                *)
  broken        (* history: runs whose responder an error of accept has ended *)

runVars == <<run, stopping, stopped_for>>
responderVars == <<responder, stopped_at, peer, server_age, counted>>
rowVars == <<server_rows, missing>>
clientVars == <<client, requested, client_age, answer>>
vars == <<runVars, responderVars, rowVars, backlog, clientVars, cut, broken>>

(* Interactive runs share run 1's flag and metrics.                        *)
Flag(r) == IF Interactive THEN 1 ELSE r

Bound == {"polling", "reading", "recorded"}

NoRow == [host |-> None, counters |-> 0]

TypeOK ==
  /\ run \in 0 .. MaxRuns
  /\ stopping \in [Runs -> BOOLEAN]
  /\ stopped_for \in [Runs -> 0 .. GRACE]
  /\ responder \in [Runs -> {"none", "binding", "gone"} \union Bound]
  /\ stopped_at \in [Runs -> {None} \union (0 .. GRACE)]
  /\ backlog \in Seq(Hosts)
  /\ peer \in [Runs -> {None} \union Hosts]
  /\ server_age \in [Runs -> 0 .. TIMEOUT]
  /\ counted \in [Runs -> 0 .. MaxRuns]
  /\ server_rows \in [{RunId[h] : h \in Hosts} ->
                       [host : {None} \union Hosts, counters : 0 .. MaxRuns]]
  /\ client \in [Hosts -> {"idle", "traffic", "connected", "waiting", "replied",
                           "done", "refused", "failed"}]
  /\ requested \subseteq Hosts
  /\ client_age \in [Hosts -> 0 .. TIMEOUT]
  /\ answer \in [Hosts -> 0 .. MaxRuns]
  /\ cut \subseteq Hosts
  /\ missing \subseteq Hosts
  /\ broken \subseteq Runs

Init ==
  /\ run = 0
  /\ stopping = [r \in Runs |-> FALSE]
  /\ stopped_for = [r \in Runs |-> 0]
  /\ responder = [r \in Runs |-> "none"]
  /\ stopped_at = [r \in Runs |-> None]
  /\ backlog = <<>>
  /\ peer = [r \in Runs |-> None]
  /\ server_age = [r \in Runs |-> 0]
  /\ counted = [r \in Runs |-> 0]
  /\ server_rows = [id \in {RunId[h] : h \in Hosts} |-> NoRow]
  /\ client = [h \in Hosts |-> "idle"]
  /\ requested = {}
  /\ client_age = [h \in Hosts |-> 0]
  /\ answer = [h \in Hosts |-> 0]
  /\ cut = {}
  /\ missing = {}
  /\ broken = {}

-----------------------------------------------------------------------------

Active == run > 0 /\ ~stopping[Flag(run)]

(* start, or execute_profile: the flag is clear and a responder spawned.   *)
StartRun ==
  /\ ~Active
  /\ run < MaxRuns
  /\ run' = run + 1
  /\ stopping' = [stopping EXCEPT ![Flag(run + 1)] = FALSE]
  /\ stopped_for' = [stopped_for EXCEPT ![Flag(run + 1)] = 0]
  /\ responder' = [responder EXCEPT ![run + 1] = "binding"]
  /\ UNCHANGED <<stopped_at, peer, server_age, counted, rowVars, backlog, clientVars,
                 cut, broken>>

StopRun ==
  /\ Active
  /\ stopping' = [stopping EXCEPT ![Flag(run)] = TRUE]
  /\ UNCHANGED <<run, stopped_for, responderVars, rowVars, backlog, clientVars, cut,
                 broken>>

-----------------------------------------------------------------------------

Free == \A r \in Runs : responder[r] \notin Bound

(* A responder that finds the port taken returns.                          *)
Bind(r) ==
  /\ responder[r] = "binding"
  /\ responder' = [responder EXCEPT ![r] = IF Free THEN "polling" ELSE "gone"]
  /\ UNCHANGED <<runVars, stopped_at, peer, server_age, counted, rowVars, backlog,
                 clientVars, cut, broken>>

(* Mutant: the grace is no longer than the timeout of one debrief.         *)
GraceOfOneTimeout(r) == stopping[Flag(r)] /\ stopped_at[r] = TIMEOUT

(* Mutant: the responder serves until it has answered somebody.            *)
NoGrace(r) == FALSE

GraceOver(r) == stopping[Flag(r)] /\ stopped_at[r] = GRACE

(* stopped_at.get_or_insert_with(Instant::now), every time round the loop. *)
SeenStop(r) ==
  [stopped_at EXCEPT ![r] = IF stopping[Flag(r)] /\ @ = None THEN 0 ELSE @]

(* The thread returns: the listener is dropped, and every connection in    *)
(* its backlog with it.                                                    *)
Leave(r) ==
  /\ responder' = [responder EXCEPT ![r] = "gone"]
  /\ stopped_at' = [stopped_at EXCEPT ![r] = None]
  /\ backlog' = <<>>

GiveUp(r) ==
  /\ responder[r] = "polling"
  /\ GraceOver(r)
  /\ Leave(r)
  /\ UNCHANGED <<runVars, peer, server_age, counted, rowVars, clientVars,
                 cut, broken>>

WouldBlock(r) ==
  /\ responder[r] = "polling"
  /\ ~GraceOver(r)
  /\ backlog = <<>>
  /\ stopped_at' = SeenStop(r)
  /\ UNCHANGED <<runVars, responder, peer, server_age, counted, rowVars, backlog,
                 clientVars, cut, broken>>

Accept(r) ==
  /\ responder[r] = "polling"
  /\ ~GraceOver(r)
  /\ backlog # <<>>
  /\ stopped_at' = SeenStop(r)
  /\ responder' = [responder EXCEPT ![r] = "reading"]
  /\ peer' = [peer EXCEPT ![r] = Head(backlog)]
  /\ backlog' = Tail(backlog)
  /\ UNCHANGED <<runVars, server_age, counted, rowVars, clientVars, cut, broken>>

(* Any other error of accept ends the thread, and its port with it.        *)
AcceptFails(r) ==
  /\ responder[r] = "polling"
  /\ ~GraceOver(r)
  /\ Leave(r)
  /\ broken' = broken \union {r}
  /\ UNCHANGED <<runVars, peer, server_age, counted, rowVars, clientVars, cut>>

Move(h, state) ==
  /\ client' = [client EXCEPT ![h] = state]
  /\ client_age' = [client_age EXCEPT ![h] = 0]

(* Mutant: the reply leaves before the row is written.                     *)
ServeUnrecorded(h, r) == UNCHANGED rowVars

(* record_debrief: INSERT OR REPLACE under the client's run id.  It does   *)
(* nothing while SQL is not enabled, and an error is ignored.              *)
RecordDebrief(h, r) ==
  \/ /\ server_rows' = [server_rows EXCEPT ![RunId[h]] = [host |-> h, counters |-> r]]
     /\ UNCHANGED missing
  \/ /\ missing' = missing \union {h}
     /\ UNCHANGED server_rows

(* serve_debrief reads the request and the counters of the metrics it was  *)
(* given, and records its own row before it replies.                       *)
ServeRequest(r) ==
  LET metrics_of == IF Interactive THEN run ELSE r IN
  /\ responder[r] = "reading"
  /\ peer[r] \in requested
  /\ responder' = [responder EXCEPT ![r] = "recorded"]
  /\ server_age' = [server_age EXCEPT ![r] = 0]
  /\ counted' = [counted EXCEPT ![r] = metrics_of]
  /\ RecordDebrief(peer[r], metrics_of)
  /\ UNCHANGED <<runVars, stopped_at, peer, backlog, clientVars, cut, broken>>

(* The peer closed without a request, or the read timed out.               *)
ServeFails(r) ==
  /\ responder[r] = "reading"
  /\ peer[r] \notin requested
  /\ \/ client[peer[r]] = "failed" /\ peer[r] \notin cut
     \/ server_age[r] = TIMEOUT
  /\ responder' = [responder EXCEPT ![r] = "polling"]
  /\ peer' = [peer EXCEPT ![r] = None]
  /\ server_age' = [server_age EXCEPT ![r] = 0]
  /\ UNCHANGED <<runVars, stopped_at, counted, rowVars, backlog,
                 clientVars, cut, broken>>

(* The first debrief that is answered ends the responder, whether or not   *)
(* the reply arrives.                                                      *)
Reply(r) ==
  /\ responder[r] = "recorded"
  /\ Leave(r)
  /\ peer' = [peer EXCEPT ![r] = None]
  /\ counted' = [counted EXCEPT ![r] = 0]
  /\ IF client[peer[r]] = "waiting" /\ peer[r] \notin cut
     THEN /\ Move(peer[r], "replied")
          /\ answer' = [answer EXCEPT ![peer[r]] = counted[r]]
     ELSE UNCHANGED <<client, client_age, answer>>
  /\ UNCHANGED <<runVars, server_age, rowVars, requested, cut, broken>>

(* The write fails when the peer's reset has already arrived.              *)
ReplyFails(r) ==
  /\ responder[r] = "recorded"
  /\ client[peer[r]] = "failed" /\ peer[r] \notin cut
  /\ responder' = [responder EXCEPT ![r] = "polling"]
  /\ peer' = [peer EXCEPT ![r] = None]
  /\ counted' = [counted EXCEPT ![r] = 0]
  /\ UNCHANGED <<runVars, stopped_at, server_age, rowVars, backlog, clientVars, cut,
                 broken>>

(* `clean`, on the server host.                                            *)
Clean ==
  /\ \E h \in Hosts : server_rows[RunId[h]] # NoRow
  /\ server_rows' = [id \in DOMAIN server_rows |-> NoRow]
  /\ missing' = missing \union {h \in Hosts : server_rows[RunId[h]].host = h}
  /\ UNCHANGED <<runVars, responderVars, backlog, clientVars, cut, broken>>

-----------------------------------------------------------------------------

(* The host's traffic goes to the server run in progress.                  *)
Traffic(h) ==
  /\ client[h] = "idle"
  /\ Active
  /\ Move(h, "traffic")
  /\ UNCHANGED <<runVars, responderVars, rowVars, backlog, requested, answer, cut, broken>>

Connect(h) ==
  /\ client[h] = "traffic"
  /\ ~Free
  /\ Move(h, "connected")
  /\ backlog' = Append(backlog, h)
  /\ UNCHANGED <<runVars, responderVars, rowVars, requested, answer, cut, broken>>

ConnectRefused(h) ==
  /\ client[h] = "traffic"
  /\ Free
  /\ Move(h, "refused")
  /\ UNCHANGED <<runVars, responderVars, rowVars, backlog, requested, answer, cut, broken>>

(* Is the host's connection still open at the server's end?                *)
Attached(h) == h \in ToSet(backlog) \/ \E r \in Runs : peer[r] = h

Request(h) ==
  /\ client[h] = "connected"
  /\ Attached(h) \/ h \in cut
  /\ Move(h, "waiting")
  /\ requested' = IF h \in cut THEN requested ELSE requested \union {h}
  /\ UNCHANGED <<runVars, responderVars, rowVars, backlog, answer, cut, broken>>

(* Mutant: the client sets no read timeout.                                *)
ClientWaits(h) ==
  /\ client[h] \in {"connected", "waiting"} /\ ~Attached(h) /\ h \notin cut
  /\ Move(h, "failed")
  /\ UNCHANGED <<runVars, responderVars, rowVars, backlog, requested, answer, cut, broken>>

(* The connection was reset or closed, the read timed out, or the process  *)
(* was killed.                                                             *)
ClientFails(h) ==
  /\ \/ client[h] \in {"connected", "waiting"} /\ ~Attached(h) /\ h \notin cut
     \/ client[h] = "waiting" /\ client_age[h] = TIMEOUT
  /\ Move(h, "failed")
  /\ UNCHANGED <<runVars, responderVars, rowVars, backlog, requested, answer, cut, broken>>

ClientKilled(h) ==
  /\ client[h] \in {"connected", "waiting", "replied"}
  /\ Move(h, "failed")
  /\ UNCHANGED <<runVars, responderVars, rowVars, backlog, requested, answer, cut, broken>>

(* From here on the network delivers nothing between the host and the      *)
(* server, not even that a connection was closed.                          *)
Cut(h) ==
  /\ client[h] \in {"connected", "waiting"}
  /\ cut' = cut \union {h}
  /\ UNCHANGED <<runVars, responderVars, rowVars, backlog, clientVars, broken>>

(* run_debrief stores the role "client" row, with a statement that may fail *)
(* as the server's may.                                                    *)
RecordReply(h) ==
  /\ client[h] = "replied"
  /\ Move(h, "done")
  /\ UNCHANGED <<runVars, responderVars, rowVars, backlog, requested, answer, cut, broken>>

-----------------------------------------------------------------------------

(* Mutant: a deadline is noticed one tick late.                            *)
UntilAfter(limit, age) == IF age = limit + 1 THEN age ELSE age + 1

Until(limit, age) == IF age = limit THEN limit ELSE age + 1

Tick ==
  /\ stopped_for' = [r \in Runs |-> IF stopping[r] THEN Until(GRACE, stopped_for[r])
                                    ELSE stopped_for[r]]
  /\ stopped_at' = [r \in Runs |-> IF responder[r] \in Bound /\ stopped_at[r] # None
                                   THEN Until(GRACE, stopped_at[r]) ELSE stopped_at[r]]
  /\ server_age' = [r \in Runs |-> IF responder[r] = "reading"
                                   THEN Until(TIMEOUT, server_age[r]) ELSE server_age[r]]
  /\ client_age' = [h \in Hosts |-> IF client[h] = "waiting"
                                    THEN Until(TIMEOUT, client_age[h]) ELSE client_age[h]]
  /\ UNCHANGED <<run, stopping, responder, peer, counted, rowVars, backlog, client,
                 requested, answer, cut, broken>>

Responder(r) ==
  \/ Bind(r)
  \/ GiveUp(r)
  \/ WouldBlock(r)
  \/ Accept(r)
  \/ ServeRequest(r)
  \/ ServeFails(r)
  \/ Reply(r)
  \/ ReplyFails(r)

(* run_debrief, once it is connected.                                      *)
RunDebrief(h) == Request(h) \/ ClientFails(h) \/ RecordReply(h)

Next ==
  \/ StartRun
  \/ StopRun
  \/ \E r \in Runs : Responder(r)
  \/ \E h \in Hosts : RunDebrief(h) \/ Traffic(h) \/ Connect(h) \/ ConnectRefused(h)
                   \/ ClientKilled(h) \/ Cut(h)
  \/ \E r \in Runs : AcceptFails(r)
  \/ Clean
  \/ Tick

Spec == Init /\ [][Next]_vars

(* Threads are scheduled and time passes; nobody has to start, stop, send, *)
(* clean or crash, and accept need not fail.                               *)
Fairness ==
  /\ \A r \in Runs : WF_vars(Responder(r))
  /\ \A h \in Hosts : WF_vars(RunDebrief(h))
  /\ WF_vars(Tick)

FairSpec == Spec /\ Fairness

-----------------------------------------------------------------------------

(* A client's record is the only one only if the server's statement failed *)
(* or its table was cleaned: otherwise what the client was told is in the  *)
(* server's row for its run, through cuts, kills, late requests and other  *)
(* debriefs (spawn_debrief_responder: "records its own copy ... before     *)
(* replying"; src/doc/netmark.md, "The debrief").                          *)
BothSidesAgree ==
  \A h \in Hosts : client[h] = "done" /\ h \notin missing =>
    server_rows[RunId[h]] = [host |-> h, counters |-> answer[h]]

(* A responder that has answered nobody keeps the port for DEBRIEF_GRACE   *)
(* after its run was stopped, unless accept fails (core.rs 1396).          *)
KeepsServing ==
  [][\A r \in Runs : responder[r] = "polling" /\ responder'[r] = "gone"
       => stopped_for[Flag(r)] = GRACE \/ r \in broken']_vars

(* A debrief that got its connection ends, whatever the other side does:   *)
(* stop and POST /api/v1/runs wait for it.                                 *)
DebriefEnds ==
  \A h \in Hosts : client[h] = "connected" ~> client[h] \in {"done", "failed"}

(* After the last stop the port is given back, so that the next run's      *)
(* responder can bind it.                                                  *)
PortIsFreed == <>[](~Active) => <>[]Free

================================================================================
