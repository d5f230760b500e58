------------------------------ MODULE DebriefProofs ------------------------------
(***************************************************************************)
(* Proofs about Debrief for any hosts and any number of runs: what a       *)
(* client has recorded the server has recorded too, when the hosts' run    *)
(* ids differ and unless its statement failed or it was cleaned; and a     *)
(* responder of an executed profile that has answered nobody keeps the     *)
(* port for its grace, unless accept fails.                                *)
(***************************************************************************)
EXTENDS Debrief, SequenceTheorems, TLAPS

Serving == {"reading", "recorded"}

(* A run's flag is the flag of some run.                                   *)
LEMMA FlagIsRun == ASSUME NEW r \in Runs PROVE Flag(r) \in Runs /\ (~Interactive => Flag(r) = r)
  BY DebriefAssumption DEF Runs, Flag

(* A responder that sees its flag set notes the time once.                 *)
LEMMA SeenStopType ==
  ASSUME TypeOK, NEW r \in Runs
  PROVE  SeenStop(r) \in [Runs -> {None} \union (0 .. GRACE)]
<1>1. stopped_at[r] \in {None} \union (0 .. GRACE) /\ stopping[Flag(r)] \in BOOLEAN
  BY FlagIsRun DEF TypeOK
<1>2. 0 \in 0 .. GRACE
  BY DEF GRACE
<1>3. QED
  BY <1>1, <1>2 DEF SeenStop, TypeOK

(* What a host's step leaves of its state and clock.                       *)
MoveTypes ==
  /\ client' \in [Hosts -> {"idle", "traffic", "connected", "waiting", "replied",
                            "done", "refused", "failed"}]
  /\ client_age' \in [Hosts -> 0 .. TIMEOUT]

LEMMA MoveType ==
  ASSUME TypeOK, NEW h,
         NEW s \in {"idle", "traffic", "connected", "waiting", "replied", "done", "refused",
                    "failed"},
         Move(h, s)
  PROVE  MoveTypes
<1>1. 0 \in 0 .. TIMEOUT
  BY DEF TIMEOUT
<1>2. QED
  BY <1>1 DEF TypeOK, Move, MoveTypes

(* Every variable keeps its type, under any interleaving of the responders *)
(* with the hosts, cuts, crashes and the clock.                            *)
THEOREM TypeCorrect == Spec => []TypeOK
<1> USE DebriefAssumption DEF TypeOK, Runs, Bound, TIMEOUT, GRACE
<1>1. Init => TypeOK
  BY DEF Init, NoRow, None
<1>2. TypeOK /\ [Next]_vars => TypeOK'
  <2> SUFFICES ASSUME TypeOK, [Next]_vars PROVE TypeOK'
    OBVIOUS
  <2> USE DEF runVars, responderVars, rowVars, clientVars
  <2>1. CASE StartRun
    <3>1. run + 1 \in Runs /\ Flag(run + 1) \in Runs
      BY <2>1, FlagIsRun DEF StartRun
    <3>2. run' \in 0 .. MaxRuns
      BY <2>1 DEF StartRun
    <3>3. QED
      BY <2>1, <3>1, <3>2 DEF StartRun
  <2>2. CASE StopRun
    BY <2>2 DEF StopRun
  <2>3. ASSUME NEW r \in Runs, Bind(r) PROVE TypeOK'
    BY <2>3 DEF Bind
  <2>4. ASSUME NEW r \in Runs, GiveUp(r) \/ AcceptFails(r) PROVE TypeOK'
    <3>1. /\ responder' \in [Runs -> {"none", "binding", "gone"} \union Bound]
          /\ stopped_at' \in [Runs -> {None} \union (0 .. GRACE)]
          /\ backlog' = <<>>
      BY <2>4 DEF GiveUp, AcceptFails, Leave
    <3>2. broken' \subseteq Runs
      BY <2>4 DEF GiveUp, AcceptFails
    <3>3. QED
      BY <2>4, <3>1, <3>2 DEF GiveUp, AcceptFails
  <2>5. ASSUME NEW r \in Runs, WouldBlock(r) PROVE TypeOK'
    <3>1. SeenStop(r) \in [Runs -> {None} \union (0 .. GRACE)]
      BY SeenStopType
    <3>2. QED
      BY <2>5, <3>1 DEF WouldBlock
  <2>6. ASSUME NEW r \in Runs, Accept(r) PROVE TypeOK'
    <3>1. Head(backlog) \in Hosts /\ Tail(backlog) \in Seq(Hosts)
      BY <2>6, HeadTailProperties DEF Accept
    <3>2. SeenStop(r) \in [Runs -> {None} \union (0 .. GRACE)]
      BY SeenStopType
    <3>3. responder' \in [Runs -> {"none", "binding", "gone"} \union Bound]
          /\ peer' \in [Runs -> {None} \union Hosts] /\ server_age' \in [Runs -> 0 .. TIMEOUT]
      BY <2>6, <3>1 DEF Accept
    <3>4. QED
      BY <2>6, <3>1, <3>2, <3>3 DEF Accept
  <2>7. ASSUME NEW r \in Runs, ServeRequest(r) PROVE TypeOK'
    <3> DEFINE of == IF Interactive THEN run ELSE r
    <3>1. of \in 0 .. MaxRuns
      OBVIOUS
    <3>2. /\ RecordDebrief(peer[r], of) /\ counted' = [counted EXCEPT ![r] = of]
          /\ responder' = [responder EXCEPT ![r] = "recorded"]
          /\ server_age' = [server_age EXCEPT ![r] = 0]
          /\ UNCHANGED <<runVars, stopped_at, peer, backlog, clientVars, cut, broken>>
      BY <2>7 DEF ServeRequest
    <3>3. peer[r] \in Hosts
      BY <2>7 DEF ServeRequest
    <3> HIDE DEF of
    <3>4. missing' \subseteq Hosts
          /\ server_rows' \in [{RunId[h] : h \in Hosts} ->
                               [host : {None} \union Hosts, counters : 0 .. MaxRuns]]
      <4> DEFINE row == [host |-> peer[r], counters |-> of]
                 Row == [host : {None} \union Hosts, counters : 0 .. MaxRuns]
      <4>1. row \in Row
        BY <3>1, <3>3
      <4>2. server_rows' = [server_rows EXCEPT ![RunId[peer[r]]] = row] \/ server_rows' = server_rows
        BY <3>2 DEF RecordDebrief
      <4>3. missing' \subseteq Hosts
        BY <3>2, <3>3 DEF RecordDebrief
      <4>4. server_rows \in [{RunId[h] : h \in Hosts} -> Row]
        OBVIOUS
      <4> HIDE DEF row, Row
      <4>5. server_rows' \in [{RunId[h] : h \in Hosts} -> Row]
        BY <4>1, <4>2, <4>4
      <4>6. QED
        BY <4>3, <4>5 DEF Row
    <3>5. counted' \in [Runs -> 0 .. MaxRuns]
      BY <3>1, <3>2
    <3>6. QED
      BY <3>2, <3>4, <3>5
  <2>8. ASSUME NEW r \in Runs, ServeFails(r) PROVE TypeOK'
    BY <2>8 DEF ServeFails
  <2>9. ASSUME NEW r \in Runs, Reply(r) PROVE TypeOK'
    <3>1. client' \in [Hosts -> {"idle", "traffic", "connected", "waiting", "replied",
                                "done", "refused", "failed"}]
          /\ client_age' \in [Hosts -> 0 .. TIMEOUT]
      <4>1. UNCHANGED <<client, client_age>> \/ Move(peer[r], "replied")
        BY <2>9 DEF Reply
      <4>2. QED
        BY <4>1, MoveType DEF MoveTypes
    <3>4. answer' \in [Hosts -> 0 .. MaxRuns]
      BY <2>9 DEF Reply
    <3>2. peer' \in [Runs -> {None} \union Hosts] /\ backlog' \in Seq(Hosts)
          /\ responder' \in [Runs -> {"none", "binding", "gone"} \union Bound]
          /\ stopped_at' \in [Runs -> {None} \union (0 .. GRACE)]
          /\ counted' \in [Runs -> 0 .. MaxRuns]
      BY <2>9 DEF Reply, Leave
    <3>3. QED
      BY <2>9, <3>1, <3>2, <3>4 DEF Reply
  <2>10. ASSUME NEW r \in Runs, ReplyFails(r) PROVE TypeOK'
    BY <2>10 DEF ReplyFails
  <2>11. ASSUME NEW h \in Hosts, RunDebrief(h) PROVE TypeOK'
    <3>1. CASE Request(h)
      <4>1. requested' \subseteq Hosts
        BY <3>1 DEF Request
      <4>2. client' \in [Hosts -> {"idle", "traffic", "connected", "waiting", "replied",
                                  "done", "refused", "failed"}]
            /\ client_age' \in [Hosts -> 0 .. TIMEOUT]
        BY <3>1 DEF Request, Move
      <4>3. QED
        BY <3>1, <4>1, <4>2 DEF Request
    <3>2. CASE ClientFails(h) \/ RecordReply(h)
      <4>1. MoveTypes
        BY <3>2, MoveType DEF ClientFails, RecordReply
      <4>2. QED
        BY <3>2, <4>1 DEF ClientFails, RecordReply, MoveTypes
    <3>3. QED
      BY <2>11, <3>1, <3>2 DEF RunDebrief
  <2>12. ASSUME NEW h \in Hosts, Traffic(h) \/ ConnectRefused(h) \/ ClientKilled(h) \/ Cut(h)
         PROVE  TypeOK'
    <3>1. CASE Cut(h)
      BY <3>1 DEF Cut
    <3>2. CASE Traffic(h) \/ ConnectRefused(h) \/ ClientKilled(h)
      <4>1. MoveTypes
        BY <3>2, MoveType DEF Traffic, ConnectRefused, ClientKilled
      <4>2. QED
        BY <3>2, <4>1 DEF Traffic, ConnectRefused, ClientKilled, MoveTypes
    <3>3. QED
      BY <2>12, <3>1, <3>2
  <2>13. ASSUME NEW h \in Hosts, Connect(h) PROVE TypeOK'
    BY <2>13, AppendProperties DEF Connect, Move
  <2>14. CASE Tick
    BY <2>14 DEF Tick, Until, None
  <2>17. CASE Clean
    BY <2>17 DEF Clean, NoRow, None
  <2>15. CASE UNCHANGED vars
    BY <2>15 DEF vars
  <2>16. QED
    BY <2>1, <2>2, <2>3, <2>4, <2>5, <2>6, <2>7, <2>8, <2>9, <2>10, <2>11, <2>12, <2>13,
       <2>14, <2>15, <2>17 DEF Next, Responder
<1>3. QED
  BY <1>1, <1>2, PTL DEF Spec

-----------------------------------------------------------------------------

(* Each host drew its run id from a database of its own; that two of them  *)
(* drew the same one is not impossible, and then one row is lost.          *)
OwnRunIds == \A g, h \in Hosts : RunId[g] = RunId[h] => g = h

InBacklog(h) == \E i \in 1 .. Len(backlog) : backlog[i] = h

(* A host has one connection at most, in the backlog or with one           *)
(* responder.                                                              *)
OneConnection ==
  /\ \A i, j \in 1 .. Len(backlog) : backlog[i] = backlog[j] => i = j
  /\ \A r, q \in Runs : peer[r] \in Hosts /\ peer[r] = peer[q] => r = q
  /\ \A r \in Runs : ~InBacklog(peer[r])

(* It has none before it connects or after it has its reply.               *)
NoConnection ==
  \A h \in Hosts : client[h] \in {"idle", "traffic", "refused", "replied", "done"}
    => ~InBacklog(h) /\ \A r \in Runs : peer[r] # h

(* A responder serves somebody while it reads and replies, and has written *)
(* that host's row with the counters it will tell before it replies, if    *)
(* the row is not missing.                                                 *)
ServesPeer ==
  \A r \in Runs :
    /\ responder[r] \in Serving <=> peer[r] \in Hosts
    /\ responder[r] = "recorded" =>
         \/ peer[r] \in missing
         \/ server_rows[RunId[peer[r]]] = [host |-> peer[r], counters |-> counted[r]]

(* The row stays what the host was told, until it is cleaned.              *)
RowKept ==
  \A h \in Hosts : client[h] \in {"replied", "done"} /\ h \notin missing
    => server_rows[RunId[h]] = [host |-> h, counters |-> answer[h]]

DebriefInv == OneConnection /\ NoConnection /\ ServesPeer /\ RowKept

(* A run that has not started has no responder.                            *)
Unstarted == \A r \in Runs : r > run => responder[r] = "none" /\ stopped_at[r] = None

LEMMA UnstartedInvariant == Spec => []Unstarted
<1> USE DebriefAssumption DEF Bound, Runs
<1>1. Init => Unstarted
  BY DEF Init, Unstarted
<1>2. Unstarted /\ TypeOK /\ [Next]_vars => Unstarted'
  <2> SUFFICES ASSUME Unstarted, TypeOK, [Next]_vars PROVE Unstarted'
    OBVIOUS
  <2> USE DEF runVars, responderVars, rowVars, clientVars
  <2>1. CASE StartRun
    BY <2>1 DEF StartRun, Unstarted, TypeOK
  <2>2. ASSUME NEW r \in Runs, Responder(r) \/ AcceptFails(r) PROVE Unstarted'
    <3>1. responder[r] # "none" /\ run' = run
      BY <2>2 DEF Responder, Bind, GiveUp, WouldBlock, Accept, ServeRequest, ServeFails, Reply,
                  ReplyFails, AcceptFails
    <3>2. \A q \in Runs : q # r => responder'[q] = responder[q] /\ stopped_at'[q] = stopped_at[q]
      BY <2>2 DEF Responder, Bind, GiveUp, WouldBlock, Accept, ServeRequest, ServeFails, Reply,
                  ReplyFails, AcceptFails, Leave, SeenStop, TypeOK
    <3>3. QED
      BY <3>1, <3>2 DEF Unstarted
  <2>3. CASE Tick
    BY <2>3 DEF Tick, Unstarted
  <2>4. CASE StopRun \/ Clean \/ UNCHANGED vars
    BY <2>4 DEF StopRun, Clean, vars, Unstarted
  <2>5. ASSUME NEW h \in Hosts,
               RunDebrief(h) \/ Traffic(h) \/ Connect(h) \/ ConnectRefused(h) \/ ClientKilled(h)
                 \/ Cut(h)
        PROVE  Unstarted'
    BY <2>5 DEF RunDebrief, Request, ClientFails, RecordReply, Traffic, Connect, ConnectRefused,
                ClientKilled, Cut, Unstarted
  <2>6. QED
    BY <2>1, <2>2, <2>3, <2>4, <2>5 DEF Next
<1>3. QED
  BY <1>1, <1>2, TypeCorrect, PTL DEF Spec

LEMMA DebriefInvariant == ASSUME OwnRunIds PROVE Spec => []DebriefInv
<1> USE DebriefAssumption DEF Bound, Serving
<1>1. Init /\ TypeOK => DebriefInv
  <2> SUFFICES ASSUME Init PROVE DebriefInv
    OBVIOUS
  <2>1. Len(backlog) = 0 /\ \A h : ~InBacklog(h)
    BY DEF Init, InBacklog
  <2>2. QED
    BY <2>1 DEF Init, DebriefInv, OneConnection, NoConnection, ServesPeer, RowKept
<1>2. DebriefInv /\ Unstarted /\ TypeOK /\ TypeOK' /\ [Next]_vars => DebriefInv'
  <2> SUFFICES ASSUME DebriefInv, Unstarted, TypeOK, TypeOK', [Next]_vars PROVE DebriefInv'
    OBVIOUS
  <2> USE DEF runVars, responderVars, rowVars, clientVars
  <2>1. CASE StartRun
    <3>1. run + 1 \in Runs /\ responder[run + 1] = "none"
      BY <2>1 DEF StartRun, Unstarted, TypeOK, Runs
    <3>2. \A r \in Runs : responder'[r] = IF r = run + 1 THEN "binding" ELSE responder[r]
      BY <2>1 DEF StartRun, TypeOK
    <3>3. QED
      BY <2>1, <3>1, <3>2 DEF StartRun, DebriefInv, OneConnection, InBacklog, NoConnection, ServesPeer, RowKept
  <2>2. CASE StopRun \/ Tick \/ UNCHANGED vars
    BY <2>2 DEF StopRun, Tick, vars, DebriefInv, OneConnection, InBacklog, NoConnection, ServesPeer, RowKept

  <2>3. ASSUME NEW r \in Runs, Bind(r) \/ WouldBlock(r) PROVE DebriefInv'
    <3>1. \E s \in {"binding", "polling", "gone"} : \A q \in Runs :
            responder'[q] = IF q = r THEN s ELSE responder[q]
      BY <2>3 DEF Bind, WouldBlock, TypeOK
    <3>2. QED
      BY <2>3, <3>1 DEF Bind, WouldBlock, DebriefInv, OneConnection, InBacklog, NoConnection,
                        ServesPeer, RowKept
  <2>4. ASSUME NEW r \in Runs, GiveUp(r) \/ AcceptFails(r) PROVE DebriefInv'
    <3>1. \A q \in Runs : responder'[q] = IF q = r THEN "gone" ELSE responder[q]
      BY <2>4 DEF GiveUp, AcceptFails, Leave, TypeOK
    <3>2. \A h : ~InBacklog(h)'
      BY <2>4 DEF GiveUp, AcceptFails, Leave, InBacklog
    <3>3. OneConnection'
      BY <2>4, <3>2 DEF GiveUp, AcceptFails, Leave, DebriefInv, OneConnection
    <3>4. QED
      BY <2>4, <3>1, <3>2, <3>3 DEF GiveUp, AcceptFails, Leave, DebriefInv, NoConnection, ServesPeer,
                                    RowKept
  <2>5. ASSUME NEW r \in Runs, Accept(r) PROVE DebriefInv'
    <3>1. /\ responder[r] = "polling" /\ responder' = [responder EXCEPT ![r] = "reading"]
          /\ peer' = [peer EXCEPT ![r] = Head(backlog)]
          /\ backlog # <<>> /\ backlog' = Tail(backlog)
          /\ UNCHANGED <<rowVars, counted, clientVars>>
      BY <2>5 DEF Accept
    <3>2. Head(backlog) \in Hosts /\ Head(backlog) = backlog[1] /\ InBacklog(Head(backlog))
      BY <3>1, HeadTailProperties DEF TypeOK, InBacklog
    <3>3. /\ Len(backlog') = Len(backlog) - 1 /\ Len(backlog) \in Nat \ {0}
          /\ \A i \in 1 .. Len(backlog') : backlog'[i] = backlog[i + 1]
      BY <3>1, HeadTailProperties DEF TypeOK
    <3>4. \A h : InBacklog(h)' => InBacklog(h) /\ h # Head(backlog)
      BY <3>2, <3>3 DEF InBacklog, DebriefInv, OneConnection
    <3>5. peer[r] \notin Hosts
      BY <3>1 DEF DebriefInv, ServesPeer
    <3>6. \A q \in Runs : peer'[q] = IF q = r THEN Head(backlog) ELSE peer[q]
      BY <3>1 DEF TypeOK
    <3>7. OneConnection'
      <4>1. \A i, j \in 1 .. Len(backlog') : backlog'[i] = backlog'[j] => i = j
        BY <3>3 DEF DebriefInv, OneConnection
      <4>2. \A q \in Runs : q # r => peer[q] # Head(backlog)
        BY <3>2 DEF DebriefInv, OneConnection
      <4>3. \A q, t \in Runs : peer'[q] \in Hosts /\ peer'[q] = peer'[t] => q = t
        BY <3>6, <4>2 DEF DebriefInv, OneConnection
      <4>4. \A q \in Runs, i \in 1 .. Len(backlog') : backlog'[i] # peer'[q]
        <5> SUFFICES ASSUME NEW q \in Runs, NEW i \in 1 .. Len(backlog'), backlog'[i] = peer'[q]
                     PROVE  FALSE
          OBVIOUS
        <5>1. InBacklog(backlog'[i]) /\ backlog'[i] # Head(backlog)
          BY <3>4 DEF InBacklog
        <5>2. CASE q = r
          BY <3>6, <5>1, <5>2
        <5>3. CASE q # r
          <6>1. ~InBacklog(peer[q])
            BY DEF DebriefInv, OneConnection
          <6>2. QED
            BY <3>6, <5>1, <5>3, <6>1
        <5>4. QED
          BY <5>2, <5>3
      <4>5. QED
        BY <4>1, <4>3, <4>4 DEF OneConnection, InBacklog
    <3>8. NoConnection'
      BY <3>1, <3>2, <3>4, <3>6 DEF DebriefInv, NoConnection
    <3>9. ServesPeer'
      BY <3>1, <3>2, <3>6 DEF DebriefInv, ServesPeer, TypeOK
    <3>10. QED
      BY <3>1, <3>7, <3>8, <3>9 DEF DebriefInv, RowKept
  <2>6. ASSUME NEW r \in Runs, ServeRequest(r) PROVE DebriefInv'
    <3> DEFINE of == IF Interactive THEN run ELSE r
               row == [host |-> peer[r], counters |-> of]
    <3>1. /\ responder[r] = "reading" /\ responder' = [responder EXCEPT ![r] = "recorded"]
          /\ counted' = [counted EXCEPT ![r] = of]
          /\ RecordDebrief(peer[r], of)
          /\ UNCHANGED <<peer, backlog, clientVars>>
      BY <2>6 DEF ServeRequest
    <3>2. peer[r] \in Hosts
      BY <3>1 DEF DebriefInv, ServesPeer
    <3>3. client[peer[r]] \notin {"replied", "done"}
      BY <3>2 DEF DebriefInv, NoConnection
    <3>4. missing \subseteq missing' /\ (peer[r] \in missing' \/ server_rows'[RunId[peer[r]]] = row)
      BY <3>1, <3>2 DEF RecordDebrief, TypeOK
    <3>5. \A h \in Hosts : h # peer[r] => server_rows'[RunId[h]] = server_rows[RunId[h]]
      BY <3>1, <3>2 DEF RecordDebrief, OwnRunIds, TypeOK
    <3> HIDE DEF of
    <3>6. RowKept'
      BY <3>1, <3>3, <3>4, <3>5 DEF DebriefInv, RowKept
    <3>7. ServesPeer'
      <4> SUFFICES ASSUME NEW q \in Runs
                   PROVE  /\ responder'[q] \in Serving <=> peer'[q] \in Hosts
                          /\ responder'[q] = "recorded" =>
                               \/ peer'[q] \in missing'
                               \/ server_rows'[RunId[peer'[q]]]
                                    = [host |-> peer'[q], counters |-> counted'[q]]
        BY DEF ServesPeer
      <4>2. CASE q = r
        <5>1. counted'[r] = of /\ responder'[r] = "recorded"
          BY <3>1 DEF TypeOK
        <5>2. QED
          BY <3>1, <3>2, <3>4, <4>2, <5>1
      <4>3. CASE q # r
        <5>1. responder'[q] = responder[q] /\ counted'[q] = counted[q]
          BY <3>1, <4>3 DEF TypeOK
        <5>2. peer[q] \in Hosts => peer[q] # peer[r]
          BY <4>3 DEF DebriefInv, OneConnection
        <5>3. QED
          BY <3>1, <3>4, <3>5, <5>1, <5>2 DEF DebriefInv, ServesPeer
      <4>4. QED
        BY <4>2, <4>3
    <3>8. QED
      BY <3>1, <3>6, <3>7 DEF DebriefInv, OneConnection, InBacklog, NoConnection
  <2>7. ASSUME NEW r \in Runs, ServeFails(r) \/ ReplyFails(r) PROVE DebriefInv'
    <3>1. /\ responder' = [responder EXCEPT ![r] = "polling"]
          /\ peer' = [peer EXCEPT ![r] = None]
          /\ counted' = counted \/ counted' = [counted EXCEPT ![r] = 0]
          /\ UNCHANGED <<backlog, rowVars, clientVars>>
      BY <2>7 DEF ServeFails, ReplyFails
    <3>2. \A q \in Runs : /\ peer'[q] = IF q = r THEN None ELSE peer[q]
                          /\ responder'[q] = IF q = r THEN "polling" ELSE responder[q]
                          /\ q # r => counted'[q] = counted[q]
      BY <3>1 DEF TypeOK
    <3>3. ~InBacklog(None)
      BY DEF InBacklog, TypeOK
    <3>4. OneConnection'
      BY <3>1, <3>2, <3>3 DEF DebriefInv, OneConnection, InBacklog
    <3>5. ServesPeer' /\ NoConnection' /\ RowKept'
      BY <3>1, <3>2 DEF DebriefInv, ServesPeer, NoConnection, RowKept, InBacklog
    <3>6. QED
      BY <3>4, <3>5 DEF DebriefInv
  <2>8. ASSUME NEW r \in Runs, Reply(r) PROVE DebriefInv'
    <3>1. /\ responder[r] = "recorded" /\ responder' = [responder EXCEPT ![r] = "gone"]
          /\ peer' = [peer EXCEPT ![r] = None]
          /\ counted' = [counted EXCEPT ![r] = 0]
          /\ backlog' = <<>>
          /\ UNCHANGED rowVars
          /\ \/ /\ client' = [client EXCEPT ![peer[r]] = "replied"]
                /\ answer' = [answer EXCEPT ![peer[r]] = counted[r]]
             \/ UNCHANGED <<client, answer>>
      BY <2>8 DEF Reply, Leave, Move
    <3>2. /\ peer[r] \in Hosts
          /\ \/ peer[r] \in missing
             \/ server_rows[RunId[peer[r]]] = [host |-> peer[r], counters |-> counted[r]]
      BY <3>1 DEF DebriefInv, ServesPeer
    <3>3. \A q \in Runs : /\ peer'[q] = IF q = r THEN None ELSE peer[q]
                          /\ responder'[q] = IF q = r THEN "gone" ELSE responder[q]
                          /\ q # r => counted'[q] = counted[q]
      BY <3>1 DEF TypeOK
    <3>4. \A h : ~InBacklog(h)'
      BY <3>1 DEF InBacklog
    <3>5. \A h \in Hosts : h # peer[r] => client'[h] = client[h] /\ answer'[h] = answer[h]
      BY <3>1 DEF TypeOK
    <3>6. \A q \in Runs : peer'[q] # peer[r]
      BY <3>2, <3>3 DEF DebriefInv, OneConnection
    <3>7. OneConnection' /\ NoConnection'
      BY <3>1, <3>2, <3>3, <3>4, <3>5, <3>6 DEF DebriefInv, OneConnection, NoConnection
    <3>8. ServesPeer'
      BY <3>1, <3>3 DEF DebriefInv, ServesPeer
    <3>9. RowKept'
      <4>1. client'[peer[r]] \in {"replied", "done"} => answer'[peer[r]] = counted[r]
        BY <3>1, <3>2 DEF DebriefInv, NoConnection, TypeOK
      <4>2. QED
        BY <3>1, <3>2, <3>5, <4>1 DEF DebriefInv, RowKept
    <3>10. QED
      BY <3>7, <3>8, <3>9 DEF DebriefInv
  <2>9. ASSUME NEW h \in Hosts,
               RunDebrief(h) \/ Traffic(h) \/ ConnectRefused(h) \/ ClientKilled(h) \/ Cut(h)
        PROVE  DebriefInv'
    <3>1. /\ UNCHANGED <<responder, peer, counted, rowVars, backlog, answer>>
          /\ \/ UNCHANGED client
             \/ \E s \in {"traffic", "refused"} : client[h] \in {"idle", "traffic"}
                                                  /\ client' = [client EXCEPT ![h] = s]
             \/ \E s \in {"waiting", "failed"} : client' = [client EXCEPT ![h] = s]
             \/ client[h] = "replied" /\ client' = [client EXCEPT ![h] = "done"]
      BY <2>9 DEF RunDebrief, Request, ClientFails, RecordReply, Traffic, ConnectRefused,
                  ClientKilled, Cut, Move
    <3>2. \A g \in Hosts :
            /\ client'[g] \in {"idle", "traffic", "refused", "replied", "done"}
                 => client[g] \in {"idle", "traffic", "refused", "replied", "done"}
            /\ client'[g] \in {"replied", "done"} => client[g] \in {"replied", "done"}
      BY <3>1 DEF TypeOK
    <3>3. QED
      BY <3>1, <3>2 DEF DebriefInv, OneConnection, InBacklog, NoConnection, ServesPeer, RowKept
  <2>10. ASSUME NEW h \in Hosts, Connect(h) PROVE DebriefInv'
    <3>1. /\ client[h] = "traffic" /\ client' = [client EXCEPT ![h] = "connected"]
          /\ backlog' = Append(backlog, h)
          /\ UNCHANGED <<responder, peer, counted, rowVars, answer>>
      BY <2>10 DEF Connect, Move
    <3>2. ~InBacklog(h) /\ \A r \in Runs : peer[r] # h
      BY <3>1 DEF DebriefInv, NoConnection
    <3>3. /\ Len(backlog) \in Nat /\ Len(backlog') = Len(backlog) + 1
          /\ \A i \in 1 .. Len(backlog) : backlog'[i] = backlog[i]
          /\ backlog'[Len(backlog) + 1] = h
      BY <3>1, AppendProperties DEF TypeOK
    <3>4. \A g : InBacklog(g)' => InBacklog(g) \/ g = h
      BY <3>3 DEF InBacklog
    <3>5. \A i, j \in 1 .. Len(backlog') : backlog'[i] = backlog'[j] => i = j
      <4>1. \A i \in 1 .. Len(backlog') : i \in 1 .. Len(backlog) \/ i = Len(backlog) + 1
        BY <3>3
      <4>2. \A i \in 1 .. Len(backlog) : backlog[i] # h
        BY <3>2 DEF InBacklog
      <4>3. QED
        BY <3>3, <4>1, <4>2 DEF DebriefInv, OneConnection
    <3>6. OneConnection'
      BY <3>1, <3>2, <3>4, <3>5 DEF DebriefInv, OneConnection
    <3>7. \A g \in Hosts : client'[g] = IF g = h THEN "connected" ELSE client[g]
      BY <3>1 DEF TypeOK
    <3>8. NoConnection' /\ RowKept' /\ ServesPeer'
      BY <3>1, <3>4, <3>7 DEF DebriefInv, NoConnection, RowKept, ServesPeer
    <3>9. QED
      BY <3>6, <3>8 DEF DebriefInv
  <2>11. CASE Clean
    <3>1. missing' = missing \union {h \in Hosts : server_rows[RunId[h]].host = h}
          /\ UNCHANGED <<responder, peer, counted, backlog, clientVars>>
      BY <2>11 DEF Clean
    <3>2. \A h \in Hosts : \A c : server_rows[RunId[h]] = [host |-> h, counters |-> c] => h \in missing'
      BY <3>1
    <3>3. RowKept'
      BY <3>1, <3>2 DEF DebriefInv, RowKept
    <3>4. ServesPeer'
      BY <3>1, <3>2 DEF DebriefInv, ServesPeer
    <3>5. QED
      BY <3>1, <3>3, <3>4 DEF DebriefInv, OneConnection, InBacklog, NoConnection
  <2>12. QED
    BY <2>1, <2>2, <2>3, <2>4, <2>5, <2>6, <2>7, <2>8, <2>9, <2>10, <2>11 DEF Next, Responder
<1>3. QED
  BY <1>1, <1>2, TypeCorrect, UnstartedInvariant, PTL DEF Spec

(* What a client was told is also in the server's row for its run, when no *)
(* other host drew the same run id, and unless the server's statement      *)
(* failed or its table was cleaned (spawn_debrief_responder records before *)
(* it replies).                                                            *)
THEOREM Agreement == ASSUME OwnRunIds PROVE Spec => []BothSidesAgree
<1>1. DebriefInv => BothSidesAgree
  BY DEF DebriefInv, RowKept, BothSidesAgree
<1>2. QED
  BY <1>1, DebriefInvariant, PTL

-----------------------------------------------------------------------------

(* A responder with a flag of its own counts its grace from a moment at    *)
(* which the flag was set already.                                         *)
GraceFromStop ==
  \A r \in Runs : stopped_at[r] # None => stopping[r] /\ stopped_at[r] <= stopped_for[r]

LEMMA GraceInvariant == ASSUME ~Interactive PROVE Spec => []GraceFromStop
<1> USE DebriefAssumption
<1>1. Init => GraceFromStop
  BY DEF Init, GraceFromStop
<1>2. GraceFromStop /\ Unstarted /\ TypeOK /\ [Next]_vars => GraceFromStop'
  <2> SUFFICES ASSUME GraceFromStop, Unstarted, TypeOK, [Next]_vars PROVE GraceFromStop'
    OBVIOUS
  <2> USE DEF runVars, responderVars, rowVars, clientVars
  <2>1. CASE StartRun
    <3>1. run + 1 \in Runs /\ stopped_at[run + 1] = None /\ Flag(run + 1) = run + 1
      BY <2>1, FlagIsRun DEF StartRun, Unstarted, TypeOK, Runs
    <3>2. \A r \in Runs : r # run + 1 => stopping'[r] = stopping[r] /\ stopped_for'[r] = stopped_for[r]
      BY <2>1, <3>1 DEF StartRun, TypeOK
    <3>3. QED
      BY <2>1, <3>1, <3>2 DEF StartRun, GraceFromStop
  <2>2. CASE StopRun
    <3>1. \A r \in Runs : stopping[r] => stopping'[r]
      BY <2>2 DEF StopRun, TypeOK
    <3>2. QED
      BY <2>2, <3>1 DEF StopRun, GraceFromStop
  <2>3. ASSUME NEW r \in Runs, WouldBlock(r) \/ Accept(r) PROVE GraceFromStop'
    <3>1. Flag(r) = r /\ stopped_for[r] \in 0 .. GRACE
      BY FlagIsRun DEF TypeOK
    <3>2. \A q \in Runs : stopped_at'[q] = IF q = r /\ stopping[r] /\ stopped_at[r] = None THEN 0
                                           ELSE stopped_at[q]
      BY <2>3, <3>1 DEF WouldBlock, Accept, SeenStop, TypeOK
    <3>3. UNCHANGED <<stopping, stopped_for>>
      BY <2>3 DEF WouldBlock, Accept
    <3>4. QED
      BY <3>1, <3>2, <3>3 DEF GraceFromStop, GRACE
  <2>4. ASSUME NEW r \in Runs,
               Bind(r) \/ GiveUp(r) \/ AcceptFails(r) \/ ServeRequest(r) \/ ServeFails(r) \/ Reply(r)
                 \/ ReplyFails(r)
        PROVE  GraceFromStop'
    <3>1. \A q \in Runs : stopped_at'[q] # None => stopped_at'[q] = stopped_at[q]
      BY <2>4 DEF Bind, GiveUp, AcceptFails, Leave, ServeRequest, ServeFails, Reply, ReplyFails, TypeOK
    <3>2. UNCHANGED <<stopping, stopped_for>>
      BY <2>4 DEF Bind, GiveUp, AcceptFails, ServeRequest, ServeFails, Reply, ReplyFails
    <3>3. QED
      BY <3>1, <3>2 DEF GraceFromStop
  <2>5. ASSUME NEW h \in Hosts,
               RunDebrief(h) \/ Traffic(h) \/ Connect(h) \/ ConnectRefused(h) \/ ClientKilled(h)
                 \/ Cut(h)
        PROVE  GraceFromStop'
    BY <2>5 DEF RunDebrief, Request, ClientFails, RecordReply, Traffic, Connect, ConnectRefused,
                ClientKilled, Cut, GraceFromStop
  <2>6. CASE Tick
    <3> SUFFICES ASSUME NEW r \in Runs, stopped_at'[r] # None
                 PROVE  stopping'[r] /\ stopped_at'[r] <= stopped_for'[r]
      BY DEF GraceFromStop
    <3>1. /\ stopped_at[r] \in {None} \union (0 .. GRACE) /\ stopped_for[r] \in 0 .. GRACE
          /\ stopping' = stopping
      BY <2>6 DEF Tick, TypeOK
    <3>2. /\ stopped_for'[r] = IF stopping[r] THEN Until(GRACE, stopped_for[r]) ELSE stopped_for[r]
          /\ stopped_at'[r] = IF responder[r] \in Bound /\ stopped_at[r] # None
                                 THEN Until(GRACE, stopped_at[r]) ELSE stopped_at[r]
      BY <2>6, Zenon DEF Tick
    <3>3. stopped_at[r] # None => stopping[r] /\ stopped_at[r] <= stopped_for[r]
      BY DEF GraceFromStop
    <3>4. QED
      BY <3>1, <3>2, <3>3 DEF Until, GRACE, None
  <2>7. CASE Clean \/ UNCHANGED vars
    BY <2>7 DEF Clean, vars, GraceFromStop
  <2>8. QED
    BY <2>1, <2>2, <2>3, <2>4, <2>5, <2>6, <2>7 DEF Next, Responder
<1>3. QED
  BY <1>1, <1>2, TypeCorrect, UnstartedInvariant, PTL DEF Spec

(* A responder of an executed profile that has answered nobody keeps the   *)
(* port for DEBRIEF_GRACE after its run was stopped, unless accept fails.  *)
(* Not so for the runs of a session, whose shared flag the next start      *)
(* clears.                                                                 *)
THEOREM PortKept == ASSUME ~Interactive PROVE Spec => KeepsServing
<1> USE DebriefAssumption
<1> DEFINE Kept == \A r \in Runs : responder[r] = "polling" /\ responder'[r] = "gone"
                     => stopped_for[Flag(r)] = GRACE \/ r \in broken'
<1>1. GraceFromStop /\ Unstarted /\ TypeOK /\ [Next]_vars => [Kept]_vars
  <2> SUFFICES ASSUME GraceFromStop, Unstarted, TypeOK, Next,
                      NEW q \in Runs, responder[q] = "polling", responder'[q] = "gone"
               PROVE  stopped_for[Flag(q)] = GRACE \/ q \in broken'
    OBVIOUS
  <2> USE DEF runVars, responderVars, rowVars, clientVars
  <2>1. CASE StartRun
    <3>1. run + 1 \in Runs /\ responder[run + 1] = "none"
      BY <2>1 DEF StartRun, Unstarted, TypeOK, Runs
    <3>2. QED
      BY <2>1, <3>1 DEF StartRun, TypeOK
  <2>2. ASSUME NEW r \in Runs, GiveUp(r) PROVE stopped_for[Flag(q)] = GRACE
    <3>1. q = r
      BY <2>2 DEF GiveUp, Leave, TypeOK
    <3>2. Flag(q) = q /\ stopped_for[q] \in 0 .. GRACE
      BY FlagIsRun DEF TypeOK
    <3>3. stopped_at[q] = GRACE /\ stopped_at[q] # None
      BY <2>2, <3>1 DEF GiveUp, GraceOver, GRACE, None
    <3>4. QED
      BY <3>2, <3>3 DEF GraceFromStop, GRACE
  <2>3. ASSUME NEW r \in Runs,
               Bind(r) \/ WouldBlock(r) \/ Accept(r) \/ ServeRequest(r) \/ ServeFails(r) \/ Reply(r)
                 \/ ReplyFails(r)
        PROVE  FALSE
    <3>1. \/ responder' = responder
          \/ \E s \in {"polling", "reading", "recorded"} : responder' = [responder EXCEPT ![r] = s]
          \/ responder[r] \in {"binding", "recorded"} /\ responder' = [responder EXCEPT ![r] = "gone"]
      BY <2>3 DEF Leave, Bind, WouldBlock, Accept, ServeRequest, ServeFails, Reply, ReplyFails
    <3>2. QED
      BY <3>1 DEF TypeOK
  <2>4. CASE StopRun \/ Tick \/ Clean
    BY <2>4 DEF StopRun, Tick, Clean
  <2>7. ASSUME NEW r \in Runs, AcceptFails(r) PROVE q \in broken'
    <3>1. responder' = [responder EXCEPT ![r] = "gone"] /\ broken' = broken \union {r}
      BY <2>7 DEF AcceptFails, Leave
    <3>2. QED
      BY <3>1 DEF TypeOK
  <2>5. ASSUME NEW h \in Hosts,
               RunDebrief(h) \/ Traffic(h) \/ Connect(h) \/ ConnectRefused(h) \/ ClientKilled(h)
                 \/ Cut(h)
        PROVE  FALSE
    BY <2>5 DEF RunDebrief, Request, ClientFails, RecordReply, Traffic, Connect, ConnectRefused,
                ClientKilled, Cut
  <2>6. QED
    BY <2>1, <2>2, <2>3, <2>4, <2>5, <2>7 DEF Next, Responder
<1>2. QED
  BY <1>1, GraceInvariant, UnstartedInvariant, TypeCorrect, PTL DEF Spec, KeepsServing

================================================================================
