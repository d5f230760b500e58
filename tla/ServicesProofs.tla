----------------------------- MODULE ServicesProofs -----------------------------
(***************************************************************************)
(* Proofs about Services, for any number of operators, addresses and       *)
(* listeners and any bound on the monitor's starts.                        *)
(***************************************************************************)
EXTENDS Services, FiniteSetTheorems, TLAPS

(* The operators whose command is at one of the statements S.              *)
At(S) == {o \in Operators : pc[o] \in S}

Located == pc \in [Operators -> {"ready"} \union Monitoring \union Enabling]

LEMMA AtFinite == ASSUME NEW S PROVE IsFiniteSet(At(S)) /\ Cardinality(At(S)) \in Nat
<1>1. At(S) \in SUBSET Operators
  BY DEF At
<1>2. QED
  BY <1>1, ServicesAssumption, FS_Subset, FS_CardinalityType

LEMMA Enters ==
  ASSUME Located, NEW o \in Operators, NEW from, NEW to, Goto(o, from, to),
         NEW S, from \notin S, to \in S
  PROVE  Cardinality(At(S)') = Cardinality(At(S)) + 1
<1>1. At(S)' = At(S) \union {o} /\ o \notin At(S)
  BY DEF At, Goto, Located
<1>2. QED
  BY <1>1, AtFinite, FS_AddElement

LEMMA Leaves ==
  ASSUME Located, NEW o \in Operators, NEW from, NEW to, Goto(o, from, to),
         NEW S, from \in S, to \notin S
  PROVE  Cardinality(At(S)') = Cardinality(At(S)) - 1 /\ Cardinality(At(S)) >= 1
<1>1. At(S)' = At(S) \ {o} /\ o \in At(S)
  BY DEF At, Goto, Located
<1>2. Cardinality(At(S) \ {o}) = Cardinality(At(S)) - 1 /\ IsFiniteSet(At(S) \ {o})
  BY <1>1, AtFinite, FS_RemoveElement
<1>3. Cardinality(At(S) \ {o}) \in Nat
  BY <1>2, FS_CardinalityType
<1>4. QED
  BY <1>1, <1>2, <1>3, AtFinite

LEMMA Stays ==
  ASSUME Located, NEW o \in Operators, NEW from, NEW to, Goto(o, from, to),
         NEW S, from \in S <=> to \in S
  PROVE  At(S)' = At(S)
  BY DEF At, Goto, Located

MonitorStep(o) ==
  \/ MonitorStart(o) \/ DrawId(o) \/ PublishId(o) \/ RecordStarted(o)
  \/ MonitorStop(o) \/ LoadId(o) \/ RecordStopped(o)

EnableStep(o) ==
  Enable(o) \/ Bind(o) \/ BindFails(o) \/ SetAddress(o) \/ SetRunning(o) \/ Spawn(o)

ListenerStep == \E i \in Listeners : AcceptorStops(i) \/ AcceptFails(i)

(* A step is of the monitor's commands, of an enable, or moves no command. *)
LEMMA Steps ==
  ASSUME [Next]_vars
  PROVE  \/ \E o \in Operators : MonitorStep(o) \/ EnableStep(o) \/ SetTarget(o) \/ Clean(o)
                                   \/ Disable(o)
         \/ Worker \/ ListenerStep \/ UNCHANGED vars
  BY DEF Next, Command, MonitorStep, EnableStep, ListenerStep

LEMMA EnableStepsApart ==
  ASSUME NEW o \in Operators, EnableStep(o)
  PROVE  /\ UNCHANGED <<interactive, monitorVars>>
         /\ \E from, to \in {"ready"} \union Enabling : Goto(o, from, to)
<1>1. UNCHANGED <<interactive, monitorVars>>
  BY DEF EnableStep, Enable, Bind, BindFails, SetAddress, SetRunning, Spawn
<1>2. \/ Goto(o, "ready", "bind") \/ Goto(o, "bind", "address") \/ Goto(o, "bind", "ready")
      \/ Goto(o, "address", "running") \/ Goto(o, "running", "spawn") \/ Goto(o, "spawn", "ready")
  BY DEF EnableStep, Enable, Bind, BindFails, SetAddress, SetRunning, Spawn
<1>3. {"ready", "bind", "address", "running", "spawn"} \subseteq {"ready"} \union Enabling
  BY DEF Enabling
<1>4. QED
  BY <1>1, <1>2, <1>3

LEMMA MonitorStepsApart ==
  ASSUME NEW o \in Operators, MonitorStep(o)
  PROVE  /\ UNCHANGED <<interactive, acceptorVars>>
         /\ \E from, to \in {"ready"} \union Monitoring : Goto(o, from, to)
<1>1. UNCHANGED <<interactive, acceptorVars>>
  BY DEF MonitorStep, MonitorStart, DrawId, PublishId, RecordStarted, MonitorStop, LoadId, RecordStopped
<1>2. \/ Goto(o, "ready", "draw") \/ Goto(o, "draw", "publish") \/ Goto(o, "publish", "record_started")
      \/ Goto(o, "record_started", "ready") \/ Goto(o, "ready", "load")
      \/ Goto(o, "load", "record_stopped") \/ Goto(o, "record_stopped", "ready")
  BY DEF MonitorStep, MonitorStart, DrawId, PublishId, RecordStarted, MonitorStop, LoadId, RecordStopped
<1>3. {"ready", "draw", "publish", "record_started", "load", "record_stopped"}
        \subseteq {"ready"} \union Monitoring
  BY DEF Monitoring
<1>4. QED
  BY <1>1, <1>2, <1>3

LEMMA LocatedHolds == Spec => []Located
<1>1. Init => Located
  BY DEF Init, Located
<1>2. Located /\ [Next]_vars => Located'
  <2> SUFFICES ASSUME Located, [Next]_vars PROVE Located'
    OBVIOUS
  <2>1. ASSUME NEW o \in Operators, MonitorStep(o) \/ EnableStep(o) PROVE Located'
    BY <2>1, MonitorStepsApart, EnableStepsApart DEF Located, Goto
  <2>2. CASE UNCHANGED pc
    BY <2>2 DEF Located
  <2>3. (\E o \in Operators : SetTarget(o) \/ Clean(o) \/ Disable(o)) \/ Worker \/ ListenerStep
       \/ UNCHANGED vars
          => UNCHANGED pc
    BY DEF SetTarget, Clean, Disable, Worker, WorkerLooks, WorkerCalls, WorkerRecords, ListenerStep,
           AcceptorStops, AcceptFails, Close, vars
  <2>4. QED
    BY <2>1, <2>2, <2>3, Steps
<1>3. QED
  BY <1>1, <1>2, PTL DEF Spec

-----------------------------------------------------------------------------
(* The monitor.                                                            *)

Starting == {"draw", "publish", "record_started"}
Stopping == {"load", "record_stopped"}
InHand == {"publish", "record_started"}

(* The ids of the starts that came to their row, and how many stops did,   *)
(* whether the row is there or lost.                                       *)
StartedIds == started \union lost_started
Stops == stopped + lost_stopped

RowTypes == stopped \in Nat /\ lost_stopped \in Nat

LEMMA RowTypesHold == Spec => []RowTypes
<1>1. Init => RowTypes
  BY DEF Init, RowTypes
<1>2. RowTypes /\ [Next]_vars => RowTypes'
  <2> SUFFICES ASSUME RowTypes, [Next]_vars PROVE RowTypes'
    OBVIOUS
  <2>1. ASSUME NEW o \in Operators, MonitorStep(o) \/ Clean(o) PROVE RowTypes'
    BY <2>1 DEF MonitorStep, MonitorStart, DrawId, PublishId, RecordStarted, MonitorStop, LoadId,
                RecordStopped, Clean, statusRows, RowTypes
  <2>2. ASSUME NEW o \in Operators, EnableStep(o) PROVE RowTypes'
    BY <2>2, EnableStepsApart DEF monitorVars, statusRows, RowTypes
  <2>3. CASE (\E o \in Operators : SetTarget(o) \/ Disable(o)) \/ Worker \/ ListenerStep \/ UNCHANGED vars
    BY <2>3 DEF SetTarget, Disable, Worker, WorkerLooks, WorkerCalls, WorkerRecords, ListenerStep,
                AcceptorStops, AcceptFails, Close, vars, monitorVars, statusRows, RowTypes
  <2>4. QED
    BY <2>1, <2>2, <2>3, Steps
<1>3. QED
  BY <1>1, <1>2, PTL DEF Spec

MonitorTypes ==
  /\ monitoring \in BOOLEAN
  /\ next_id \in Nat \ {0}
  /\ monitor_id \in Nat
  /\ drawn \in [Operators -> Nat]
  /\ Stops \in Nat
  /\ IsFiniteSet(StartedIds) /\ Cardinality(StartedIds) \in Nat
  /\ target \in BOOLEAN
  /\ worker \in {"idle", "asking", "calling"}

(* Every id was drawn once: those recorded or in hand are below the next   *)
(* one and differ.                                                         *)
IdsInv ==
  /\ monitor_id < next_id
  /\ \A i \in StartedIds : i \in Nat \ {0} /\ i < next_id
  /\ \A o \in Operators : drawn[o] < next_id
  /\ \A o \in At(InHand) : drawn[o] # 0 /\ drawn[o] \notin StartedIds
  /\ \A o, p \in At(InHand) : drawn[o] = drawn[p] => o = p

Balance ==
  Cardinality(StartedIds) + Cardinality(At(Starting))
    = Stops + Cardinality(At(Stopping)) + (IF monitoring THEN 1 ELSE 0)

(* The guard of a start leaves an id for each that has not drawn one.      *)
Enough == next_id + Cardinality(At({"draw"})) <= MaxStarts + 1

MInv == MonitorTypes /\ IdsInv /\ Balance /\ Enough

LEMMA MInvInit == Init => MInv
<1> SUFFICES ASSUME Init PROVE MInv
  OBVIOUS
<1>1. At(InHand) = {} /\ At(Starting) = {} /\ At(Stopping) = {} /\ At({"draw"}) = {}
  BY DEF Init, At, InHand, Starting, Stopping
<1>2. IsFiniteSet({}) /\ Cardinality({}) = 0
  BY FS_EmptySet
<1>3. MonitorTypes /\ IdsInv
  <2>1. /\ monitor_id = 0 /\ next_id = 1 /\ StartedIds = {}
        /\ drawn = [o \in Operators |-> 0]
        /\ Stops = 0 /\ worker = "idle"
    BY DEF Init, StartedIds, Stops
  <2>2. IdsInv
    BY <1>1, <2>1 DEF IdsInv
  <2>3. IsFiniteSet(StartedIds) /\ Cardinality(StartedIds) \in Nat
    BY <1>2, <2>1
  <2>4. monitoring \in BOOLEAN /\ target \in BOOLEAN
    BY DEF Init
  <2>5. drawn \in [Operators -> Nat] /\ worker \in {"idle", "asking", "calling"} /\ Stops \in Nat
        /\ next_id \in Nat \ {0} /\ monitor_id \in Nat
    BY <2>1
  <2>6. MonitorTypes
    BY <2>3, <2>4, <2>5 DEF MonitorTypes
  <2>7. QED
    BY <2>2, <2>6
<1>4. Balance
  <2>1. Cardinality(StartedIds) = 0 /\ Cardinality(At(Starting)) = 0 /\ Cardinality(At(Stopping)) = 0
    BY <1>1, <1>2 DEF Init, StartedIds
  <2>2. Stops = 0 /\ monitoring = FALSE
    BY DEF Init, Stops
  <2>3. QED
    BY <2>1, <2>2 DEF Balance
<1>5. Enough
  <2>1. Cardinality(At({"draw"})) = 0 /\ next_id = 1 /\ MaxStarts \in Nat
    BY <1>1, <1>2, ServicesAssumption DEF Init
  <2>2. QED
    BY <2>1 DEF Enough
<1>6. QED
  BY <1>3, <1>4, <1>5 DEF MInv

LEMMA MInvStay ==
  ASSUME MInv, UNCHANGED <<monitoring, monitor_id, next_id, drawn, StartedIds, Stops>>,
         target' \in BOOLEAN, worker' \in {"idle", "asking", "calling"},
         \A S \in {InHand, Starting, Stopping, {"draw"}} : At(S)' = At(S)
  PROVE  MInv'
<1>1. At(InHand)' = At(InHand) /\ At(Starting)' = At(Starting) /\ At(Stopping)' = At(Stopping)
      /\ At({"draw"})' = At({"draw"})
  OBVIOUS
<1>2. MonitorTypes'
  BY DEF MInv, MonitorTypes
<1>3. IdsInv'
  BY <1>1 DEF MInv, IdsInv
<1>4. Balance' /\ Enough'
  BY <1>1 DEF MInv, Balance, Enough
<1>5. QED
  BY <1>2, <1>3, <1>4 DEF MInv

LEMMA MInvStart == ASSUME Located, MInv, NEW o \in Operators, MonitorStart(o) PROVE MInv'
<1>1. Goto(o, "ready", "draw") /\ ~monitoring /\ monitoring'
      /\ next_id + Cardinality(At({"draw"})) <= MaxStarts
      /\ UNCHANGED <<monitor_id, next_id, target, drawn, StartedIds, Stops, worker>>
  BY DEF MonitorStart, At, statusRows, StartedIds, Stops
<1>2. Cardinality(At(Starting)') = Cardinality(At(Starting)) + 1
  BY <1>1, Enters DEF Starting
<1>3. Cardinality(At({"draw"})') = Cardinality(At({"draw"})) + 1
  BY <1>1, Enters
<1>4. At(Stopping)' = At(Stopping) /\ At(InHand)' = At(InHand)
  BY <1>1, Stays DEF Stopping, InHand
<1>5. MonitorTypes' /\ IdsInv'
  BY <1>1, <1>4 DEF MInv, MonitorTypes, IdsInv, MonitorStart
<1>6. Balance'
  BY <1>1, <1>2, <1>4, AtFinite DEF MInv, MonitorTypes, Balance
<1>7. Enough'
  BY <1>1, <1>3, AtFinite, ServicesAssumption DEF MInv, MonitorTypes, Enough
<1>8. QED
  BY <1>5, <1>6, <1>7 DEF MInv

LEMMA MInvDraw == ASSUME Located, MInv, NEW o \in Operators, DrawId(o) PROVE MInv'
<1>1. Goto(o, "draw", "publish") /\ drawn' = [drawn EXCEPT ![o] = next_id] /\ next_id' = next_id + 1
      /\ UNCHANGED <<monitoring, monitor_id, target, StartedIds, Stops, worker>>
  BY DEF DrawId, statusRows, StartedIds, Stops
<1>2. At(Starting)' = At(Starting) /\ At(Stopping)' = At(Stopping)
  BY <1>1, Stays DEF Starting, Stopping
<1>3. Cardinality(At({"draw"})') = Cardinality(At({"draw"})) - 1
  BY <1>1, Leaves
<1>4. At(InHand)' = At(InHand) \union {o}
  BY <1>1 DEF At, InHand, Goto, Located
<1>5. MonitorTypes'
  BY <1>1 DEF MInv, MonitorTypes
<1>6. IdsInv'
  <2>1. drawn'[o] = next_id /\ next_id \in Nat \ {0} /\ drawn \in [Operators -> Nat]
        /\ \A p \in Operators \ {o} : drawn'[p] = drawn[p]
    BY <1>1 DEF MInv, MonitorTypes
  <2>2. At(InHand) \subseteq Operators
    BY DEF At
  <2>3. \A p \in Operators : drawn'[p] < next_id'
    BY <1>1, <2>1 DEF MInv, IdsInv
  <2>4. monitor_id' < next_id' /\ \A i \in StartedIds' : i \in Nat \ {0} /\ i < next_id'
    BY <1>1 DEF MInv, IdsInv, MonitorTypes
  <2>5. \A p \in At(InHand)' : drawn'[p] # 0 /\ drawn'[p] \notin StartedIds'
    BY <1>1, <1>4, <2>1, <2>2 DEF MInv, IdsInv
  <2>6. \A p, q \in At(InHand)' : drawn'[p] = drawn'[q] => p = q
    BY <1>1, <1>4, <2>1, <2>2 DEF MInv, IdsInv
  <2>7. QED
    BY <2>3, <2>4, <2>5, <2>6 DEF IdsInv
<1>7. Balance'
  BY <1>1, <1>2 DEF MInv, Balance
<1>8. Enough'
  BY <1>1, <1>3, AtFinite, ServicesAssumption DEF MInv, MonitorTypes, Enough
<1>9. QED
  BY <1>5, <1>6, <1>7, <1>8 DEF MInv

LEMMA MInvPublish == ASSUME Located, MInv, NEW o \in Operators, PublishId(o) PROVE MInv'
<1>1. Goto(o, "publish", "record_started") /\ monitor_id' = drawn[o]
      /\ UNCHANGED <<monitoring, next_id, target, drawn, StartedIds, Stops, worker>>
  BY DEF PublishId, statusRows, StartedIds, Stops
<1>2. At(Starting)' = At(Starting) /\ At(Stopping)' = At(Stopping) /\ At(InHand)' = At(InHand)
      /\ At({"draw"})' = At({"draw"})
  BY <1>1, Stays DEF Starting, Stopping, InHand
<1>3. MonitorTypes' /\ IdsInv'
  BY <1>1, <1>2 DEF MInv, MonitorTypes, IdsInv
<1>4. Balance' /\ Enough'
  BY <1>1, <1>2 DEF MInv, Balance, Enough
<1>5. QED
  BY <1>3, <1>4 DEF MInv

LEMMA MInvRecordStarted == ASSUME Located, MInv, NEW o \in Operators, RecordStarted(o) PROVE MInv'
<1>1. Goto(o, "record_started", "ready") /\ drawn' = [drawn EXCEPT ![o] = 0]
      /\ StartedIds' = StartedIds \union {drawn[o]}
      /\ UNCHANGED <<monitoring, monitor_id, next_id, target, Stops, worker>>
  BY DEF RecordStarted, StartedIds, Stops
<1>2. At(Stopping)' = At(Stopping) /\ At({"draw"})' = At({"draw"})
  BY <1>1, Stays DEF Stopping
<1>3. Cardinality(At(Starting)') = Cardinality(At(Starting)) - 1
  BY <1>1, Leaves DEF Starting
<1>4. o \in At(InHand) /\ At(InHand)' = At(InHand) \ {o}
  BY <1>1 DEF At, InHand, Goto, Located
<1>5. /\ drawn[o] \notin StartedIds /\ drawn[o] # 0 /\ drawn[o] < next_id /\ drawn[o] \in Nat
      /\ \A p \in At(InHand)' : drawn[p] # drawn[o]
  BY <1>4 DEF MInv, IdsInv, MonitorTypes
<1>6. IsFiniteSet(StartedIds') /\ Cardinality(StartedIds') = Cardinality(StartedIds) + 1
  BY <1>1, <1>5, FS_AddElement DEF MInv, MonitorTypes
<1>7. MonitorTypes'
  BY <1>1, <1>6 DEF MInv, MonitorTypes
<1>8. IdsInv'
  <2>1. drawn'[o] = 0 /\ drawn \in [Operators -> Nat]
        /\ \A p \in Operators \ {o} : drawn'[p] = drawn[p]
    BY <1>1 DEF MInv, MonitorTypes
  <2>2. At(InHand) \subseteq Operators
    BY DEF At
  <2>3. \A p \in Operators : drawn'[p] < next_id'
    BY <1>1, <2>1 DEF MInv, IdsInv, MonitorTypes
  <2>4. monitor_id' < next_id' /\ \A i \in StartedIds' : i \in Nat \ {0} /\ i < next_id'
    BY <1>1, <1>5 DEF MInv, IdsInv
  <2>5. \A p \in At(InHand)' : drawn'[p] # 0 /\ drawn'[p] \notin StartedIds'
    BY <1>1, <1>4, <1>5, <2>1, <2>2 DEF MInv, IdsInv
  <2>6. \A p, q \in At(InHand)' : drawn'[p] = drawn'[q] => p = q
    BY <1>4, <2>1, <2>2 DEF MInv, IdsInv
  <2>7. QED
    BY <2>3, <2>4, <2>5, <2>6 DEF IdsInv
<1>9. Balance'
  BY <1>1, <1>2, <1>3, <1>6, AtFinite DEF MInv, MonitorTypes, Balance
<1>10. Enough'
  BY <1>1, <1>2 DEF MInv, Enough
<1>11. QED
  BY <1>7, <1>8, <1>9, <1>10 DEF MInv

LEMMA MInvStop == ASSUME Located, MInv, NEW o \in Operators, MonitorStop(o) PROVE MInv'
<1>1. Goto(o, "ready", "load") /\ monitoring /\ monitoring' = FALSE
      /\ UNCHANGED <<monitor_id, next_id, target, drawn, StartedIds, Stops, worker>>
  BY DEF MonitorStop, statusRows, StartedIds, Stops
<1>2. Cardinality(At(Stopping)') = Cardinality(At(Stopping)) + 1
  BY <1>1, Enters DEF Stopping
<1>3. At(Starting)' = At(Starting) /\ At(InHand)' = At(InHand) /\ At({"draw"})' = At({"draw"})
  BY <1>1, Stays DEF Starting, InHand
<1>4. MonitorTypes' /\ IdsInv'
  BY <1>1, <1>3 DEF MInv, MonitorTypes, IdsInv
<1>5. Balance'
  BY <1>1, <1>2, <1>3, AtFinite DEF MInv, MonitorTypes, Balance
<1>6. Enough'
  BY <1>1, <1>3 DEF MInv, Enough
<1>7. QED
  BY <1>4, <1>5, <1>6 DEF MInv

(* What a stop has in hand is no start's, so it may be any id there was.   *)
LEMMA DrawnElsewhere ==
  ASSUME MInv, NEW o \in Operators, o \notin At(InHand), NEW id \in Nat, id < next_id,
         drawn' = [drawn EXCEPT ![o] = id], UNCHANGED <<monitor_id, next_id, StartedIds>>,
         At(InHand)' = At(InHand)
  PROVE  IdsInv' /\ drawn' \in [Operators -> Nat]
<1>1. At(InHand) \subseteq Operators \ {o}
  BY DEF At
<1>2. drawn'[o] = id /\ drawn' \in [Operators -> Nat] /\ \A p \in Operators \ {o} : drawn'[p] = drawn[p]
  BY DEF MInv, MonitorTypes
<1>3. QED
  BY <1>1, <1>2 DEF MInv, IdsInv

LEMMA MInvLoad == ASSUME Located, MInv, NEW o \in Operators, LoadId(o) PROVE MInv'
<1>1. Goto(o, "load", "record_stopped") /\ drawn' = [drawn EXCEPT ![o] = monitor_id]
      /\ UNCHANGED <<monitoring, monitor_id, next_id, target, StartedIds, Stops, worker>>
  BY DEF LoadId, statusRows, StartedIds, Stops
<1>2. At(Starting)' = At(Starting) /\ At(Stopping)' = At(Stopping) /\ At(InHand)' = At(InHand)
      /\ At({"draw"})' = At({"draw"})
  BY <1>1, Stays DEF Starting, Stopping, InHand
<1>3. o \notin At(InHand)
  BY <1>1 DEF At, InHand, Goto
<1>4. IdsInv' /\ drawn' \in [Operators -> Nat]
  BY <1>1, <1>2, <1>3, DrawnElsewhere DEF MInv, IdsInv, MonitorTypes
<1>5. MonitorTypes'
  BY <1>1, <1>4 DEF MInv, MonitorTypes
<1>6. Balance' /\ Enough'
  BY <1>1, <1>2 DEF MInv, Balance, Enough
<1>7. QED
  BY <1>4, <1>5, <1>6 DEF MInv

LEMMA MInvRecordStopped ==
  ASSUME Located, RowTypes, MInv, NEW o \in Operators, RecordStopped(o)
  PROVE  MInv'
<1>1. Goto(o, "record_stopped", "ready") /\ drawn' = [drawn EXCEPT ![o] = 0] /\ Stops' = Stops + 1
      /\ UNCHANGED <<monitoring, monitor_id, next_id, target, StartedIds, worker>>
  BY DEF RecordStopped, RowTypes, StartedIds, Stops
<1>2. At(Starting)' = At(Starting) /\ At(InHand)' = At(InHand) /\ At({"draw"})' = At({"draw"})
  BY <1>1, Stays DEF Starting, InHand
<1>3. Cardinality(At(Stopping)') = Cardinality(At(Stopping)) - 1
  BY <1>1, Leaves DEF Stopping
<1>4. o \notin At(InHand)
  BY <1>1 DEF At, InHand, Goto
<1>5. 0 < next_id
  BY DEF MInv, MonitorTypes
<1>6. IdsInv' /\ drawn' \in [Operators -> Nat]
  BY <1>1, <1>2, <1>4, <1>5, DrawnElsewhere
<1>7. MonitorTypes'
  BY <1>1, <1>6 DEF MInv, MonitorTypes
<1>8. Balance'
  BY <1>1, <1>2, <1>3, AtFinite DEF MInv, MonitorTypes, Balance
<1>9. Enough'
  BY <1>1, <1>2 DEF MInv, Enough
<1>10. QED
  BY <1>6, <1>7, <1>8, <1>9 DEF MInv

LEMMA MInvHolds == Spec => []MInv
<1>1. Located /\ RowTypes /\ MInv /\ [Next]_vars => MInv'
  <2> SUFFICES ASSUME Located, RowTypes, MInv, [Next]_vars PROVE MInv'
    OBVIOUS
  <2>1. ASSUME NEW o \in Operators, MonitorStep(o) PROVE MInv'
    BY <2>1, MInvStart, MInvDraw, MInvPublish, MInvRecordStarted, MInvStop, MInvLoad,
       MInvRecordStopped DEF MonitorStep
  <2>2. ASSUME NEW o \in Operators, EnableStep(o) PROVE MInv'
    <3>1. PICK from, to \in {"ready"} \union Enabling : Goto(o, from, to)
      BY <2>2, EnableStepsApart
    <3>2. At(InHand)' = At(InHand) /\ At(Starting)' = At(Starting) /\ At(Stopping)' = At(Stopping)
          /\ At({"draw"})' = At({"draw"})
      BY <3>1, Stays DEF InHand, Starting, Stopping, Enabling
    <3>3. UNCHANGED monitorVars /\ target \in BOOLEAN /\ worker \in {"idle", "asking", "calling"}
      BY <2>2, EnableStepsApart DEF MInv, MonitorTypes
    <3>4. QED
      BY <3>2, <3>3, MInvStay DEF monitorVars, statusRows, StartedIds, Stops
  <2>3. CASE (\E o \in Operators : SetTarget(o) \/ Clean(o) \/ Disable(o)) \/ Worker \/ ListenerStep
       \/ UNCHANGED vars
    <3>1. UNCHANGED <<pc, monitoring, monitor_id, next_id, drawn, StartedIds, Stops>>
      BY <2>3 DEF SetTarget, Clean, Disable, Worker, WorkerLooks, WorkerCalls, WorkerRecords, ListenerStep,
                  AcceptorStops, AcceptFails, Close, vars, monitorVars, statusRows, RowTypes, StartedIds,
                  Stops
    <3>2. target' \in BOOLEAN /\ worker' \in {"idle", "asking", "calling"}
      BY <2>3 DEF SetTarget, Clean, Disable, Worker, WorkerLooks, WorkerCalls, WorkerRecords, ListenerStep,
                  AcceptorStops, AcceptFails, Close, vars, monitorVars, MInv, MonitorTypes
    <3>3. \A S \in {InHand, Starting, Stopping, {"draw"}} : At(S)' = At(S)
      BY <3>1 DEF At
    <3>4. QED
      BY <3>1, <3>2, <3>3, MInvStay
  <2>4. QED
    BY <2>1, <2>2, <2>3, Steps
<1>2. QED
  BY <1>1, MInvInit, LocatedHolds, RowTypesHold, PTL DEF Spec

(* For any number of operators, however their starts and stops overlap,    *)
(* monitor_status gets one row for each, of an id of its own for each      *)
(* start, but for those whose statement fails or that are cleaned (start   *)
(* and stop, monitor.rs; record_monitor_status and clean, core.rs).        *)
THEOREM StatusRows == Spec => []StatusRowsBalance
<1>1. MInv => StatusRowsBalance
  BY DEF MInv, Balance, StatusRowsBalance, At, Starting, Stopping, StartedIds, Stops
<1>2. QED
  BY <1>1, MInvHolds, PTL
-----------------------------------------------------------------------------
(* The acceptor.                                                           *)

Bound == {"address", "running", "spawn"}

(* An enable past its bind owns an open listener nobody else has.          *)
Owns(o) ==
  /\ wanted[o].listener \in Listeners \ accepting
  /\ wanted[o].address \in Addresses
  /\ listener[wanted[o].listener] = wanted[o].address

AcceptorTypes ==
  /\ interactive \in BOOLEAN /\ serving \in BOOLEAN /\ broken \in BOOLEAN /\ overlapped \in BOOLEAN
  /\ address \in Addresses \union {NoAddress}
  /\ wanted \in [Operators -> [address : Addresses \union {NoAddress}, listener : 0 .. MaxListeners]]
  /\ listener \in [Listeners -> Addresses \union {NoAddress}]
  /\ accepting \subseteq Open

OwnersInv ==
  /\ \A o \in Operators : pc[o] \notin Bound => wanted[o].listener = 0
  /\ \A o \in Operators : pc[o] = "bind" => wanted[o].address \in Addresses
  /\ \A o \in At(Bound) : Owns(o)
  /\ \A o, p \in At(Bound) : wanted[o].listener = wanted[p].listener => o = p
  /\ \A i \in Open \ accepting : \E o \in At(Bound) : wanted[o].listener = i

(* As long as enables do not overlap, the one under way found the API off, *)
(* and the status names the address it bound.                              *)
AloneInv ==
  ~overlapped =>
    /\ \A o, p \in At(Enabling) : o = p
    /\ \A o \in At(Enabling) : pc[o] # "spawn" => ~serving
    /\ \A o \in At({"running", "spawn"}) : address = wanted[o].address
    /\ serving /\ ~broken => \/ \E i \in accepting : listener[i] = address
                             \/ At({"spawn"}) # {}

AInv == AcceptorTypes /\ OwnersInv /\ AloneInv

LEMMA AInvInit == Init => AInv
<1> SUFFICES ASSUME Init PROVE AInv
  OBVIOUS
<1>1. At(Enabling) = {} /\ At(Bound) = {} /\ At({"running", "spawn"}) = {}
  BY DEF Init, At, Enabling, Bound
<1>0. \A o \in Operators : pc[o] # "bind" /\ wanted[o].listener = 0
  BY DEF Init
<1>2. /\ interactive \in BOOLEAN /\ broken = FALSE /\ overlapped = FALSE
      /\ wanted \in [Operators -> [address : Addresses \union {NoAddress}, listener : 0 .. MaxListeners]]
  BY ServicesAssumption DEF Init
<1>3. CASE serving = FALSE /\ address = NoAddress /\ listener = [i \in Listeners |-> NoAddress]
           /\ accepting = {}
  <2>1. Open = {} /\ accepting \subseteq Open
    BY <1>3 DEF Open
  <2>2. AcceptorTypes
    BY <1>2, <1>3, <2>1 DEF AcceptorTypes
  <2>3. OwnersInv
    BY <1>0, <1>1, <2>1 DEF OwnersInv
  <2>4. AloneInv
    BY <1>1, <1>3 DEF AloneInv
  <2>5. QED
    BY <2>2, <2>3, <2>4 DEF AInv
<1>4. ASSUME serving = TRUE, address \in Addresses, NEW i \in Listeners,
             listener = [j \in Listeners |-> IF j = i THEN address ELSE NoAddress], accepting = {i}
      PROVE  AInv
  <2>1. Open = {i} /\ listener[i] = address /\ accepting \subseteq Open
    BY <1>4, ServicesAssumption DEF Open
  <2>2. AcceptorTypes
    BY <1>2, <1>4, <2>1 DEF AcceptorTypes
  <2>3. OwnersInv
    BY <1>0, <1>1, <1>4, <2>1 DEF OwnersInv
  <2>4. AloneInv
    BY <1>1, <1>4, <2>1 DEF AloneInv
  <2>5. QED
    BY <2>2, <2>3, <2>4 DEF AInv
<1>5. QED
  BY <1>3, <1>4 DEF Init

LEMMA AInvStay ==
  ASSUME AInv, UNCHANGED acceptorVars, UNCHANGED interactive,
         \A o \in Operators : pc'[o] = pc[o] \/ {pc[o], pc'[o]} \intersect Enabling = {}
  PROVE  AInv'
<1>1. /\ At(Enabling)' = At(Enabling) /\ At(Bound)' = At(Bound) /\ At({"spawn"})' = At({"spawn"})
      /\ At({"running", "spawn"})' = At({"running", "spawn"})
      /\ \A o \in Operators : (pc'[o] = "bind" <=> pc[o] = "bind") /\ (pc'[o] \in Bound <=> pc[o] \in Bound)
      /\ \A o \in At(Enabling) : pc'[o] = pc[o]
  BY DEF At, Enabling, Bound
<1>2. Open' = Open /\ \A o \in Operators : Owns(o) <=> Owns(o)'
  BY DEF acceptorVars, Open, Owns
<1>3. AcceptorTypes'
  BY <1>2 DEF AInv, AcceptorTypes, acceptorVars
<1>4. At(Bound) \subseteq Operators
  BY DEF At
<1>5. OwnersInv'
  BY <1>1, <1>2, <1>4 DEF AInv, OwnersInv, acceptorVars
<1>6. AloneInv'
  BY <1>1 DEF AInv, AloneInv, acceptorVars
<1>7. QED
  BY <1>3, <1>5, <1>6 DEF AInv

LEMMA AInvEnable == ASSUME Located, AInv, NEW o \in Operators, Enable(o) PROVE AInv'
<1>1. PICK a \in Addresses : wanted' = [wanted EXCEPT ![o].address = a]
  BY DEF Enable
<1>2. /\ Goto(o, "ready", "bind") /\ ~serving
      /\ UNCHANGED <<interactive, serving, address, listener, accepting, broken>>
  BY DEF Enable
<1>3. At(Bound)' = At(Bound) /\ At({"running", "spawn"})' = At({"running", "spawn"})
      /\ At(Enabling)' = At(Enabling) \union {o} /\ o \notin At(Bound) /\ At(Bound) \subseteq Operators
      /\ pc'[o] = "bind" /\ pc[o] = "ready" /\ \A p \in Operators \ {o} : pc'[p] = pc[p]
  BY <1>2 DEF At, Goto, Located, Bound, Enabling
<1>4. /\ wanted'[o].address = a /\ wanted'[o].listener = wanted[o].listener
      /\ \A p \in Operators \ {o} : wanted'[p] = wanted[p]
      /\ wanted' \in [Operators -> [address : Addresses \union {NoAddress}, listener : 0 .. MaxListeners]]
  BY <1>1 DEF AInv, AcceptorTypes
<1>5. AcceptorTypes'
  <2>1. overlapped' \in BOOLEAN
    BY DEF Enable, AInv, AcceptorTypes
  <2>2. QED
    BY <1>2, <1>4, <2>1 DEF AInv, AcceptorTypes, Open
<1>6. OwnersInv'
  <2>1. \A p \in Operators : pc'[p] \notin Bound => wanted'[p].listener = 0
    BY <1>3, <1>4 DEF AInv, OwnersInv, Bound
  <2>2. \A p \in Operators : pc'[p] = "bind" => wanted'[p].address \in Addresses
    BY <1>3, <1>4 DEF AInv, OwnersInv
  <2>3. \A p \in At(Bound) : Owns(p)' /\ wanted'[p] = wanted[p]
    BY <1>2, <1>3, <1>4 DEF AInv, OwnersInv, Owns
  <2>4. Open' = Open
    BY <1>2 DEF Open
  <2>5. QED
    BY <1>2, <1>3, <2>1, <2>2, <2>3, <2>4 DEF AInv, OwnersInv
<1>7. AloneInv'
  <2> SUFFICES ASSUME ~overlapped' PROVE AloneInv'
    BY DEF AloneInv
  <2>1. ~overlapped /\ At(Enabling) = {}
    BY DEF Enable, At
  <2>2. At({"running", "spawn"}) = {}
    BY <2>1 DEF At, Enabling
  <2>3. ~serving'
    BY <1>2
  <2>4. QED
    BY <1>3, <2>1, <2>2, <2>3 DEF AloneInv
<1>8. QED
  BY <1>5, <1>6, <1>7 DEF AInv

LEMMA AInvBind == ASSUME Located, AInv, NEW o \in Operators, Bind(o) PROVE AInv'
<1>1. PICK i \in Listeners \ Open :
        /\ Goto(o, "bind", "address")
        /\ listener' = [listener EXCEPT ![i] = wanted[o].address]
        /\ wanted' = [wanted EXCEPT ![o].listener = i]
  BY DEF Bind
<1>2. UNCHANGED <<interactive, serving, address, accepting, broken, overlapped>>
  BY DEF Bind
<1>3. At(Bound)' = At(Bound) \union {o} /\ At({"running", "spawn"})' = At({"running", "spawn"})
      /\ At({"spawn"})' = At({"spawn"})
      /\ At(Enabling)' = At(Enabling) /\ o \notin At(Bound) /\ At(Bound) \subseteq Operators
      /\ At({"running", "spawn"}) \subseteq At(Bound)
      /\ pc'[o] = "address" /\ pc[o] = "bind" /\ \A p \in Operators \ {o} : pc'[p] = pc[p]
  BY <1>1 DEF At, Goto, Located, Bound, Enabling
<1>4. /\ wanted'[o].address = wanted[o].address /\ wanted'[o].listener = i
      /\ \A p \in Operators \ {o} : wanted'[p] = wanted[p]
      /\ wanted' \in [Operators -> [address : Addresses \union {NoAddress}, listener : 0 .. MaxListeners]]
  BY <1>1 DEF AInv, AcceptorTypes, Listeners
<1>5. wanted[o].address \in Addresses /\ wanted[o].address # NoAddress
  BY <1>3, ServicesAssumption DEF AInv, OwnersInv
<1>6. /\ listener'[i] = wanted[o].address /\ \A j \in Listeners \ {i} : listener'[j] = listener[j]
      /\ listener' \in [Listeners -> Addresses \union {NoAddress}]
  BY <1>1, <1>5 DEF AInv, AcceptorTypes
<1>7. Open' = Open \union {i} /\ i \in Listeners /\ i \notin Open /\ accepting \subseteq Open
  BY <1>1, <1>5, <1>6 DEF Open, AInv, AcceptorTypes
<1>8. AcceptorTypes'
  BY <1>2, <1>4, <1>6, <1>7 DEF AInv, AcceptorTypes
<1>9. \A p \in At(Bound) : Owns(p)' /\ wanted'[p] = wanted[p] /\ wanted[p].listener # i
  <2> SUFFICES ASSUME NEW p \in At(Bound)
               PROVE  Owns(p)' /\ wanted'[p] = wanted[p] /\ wanted[p].listener # i
    OBVIOUS
  <2>1. Owns(p) /\ wanted'[p] = wanted[p]
    BY <1>3, <1>4 DEF AInv, OwnersInv
  <2>2. wanted[p].listener \in Open
    BY <2>1, ServicesAssumption DEF Owns, Open
  <2>3. wanted[p].listener # i
    BY <1>7, <2>2
  <2>4. QED
    BY <1>2, <1>6, <2>1, <2>3 DEF Owns
<1>10. OwnersInv'
  <2>1. \A p \in Operators : pc'[p] \notin Bound => wanted'[p].listener = 0
    BY <1>3, <1>4 DEF AInv, OwnersInv, Bound
  <2>2. \A p \in Operators : pc'[p] = "bind" => wanted'[p].address \in Addresses
    BY <1>3, <1>4 DEF AInv, OwnersInv
  <2>3. Owns(o)'
    BY <1>2, <1>4, <1>5, <1>6, <1>7 DEF Owns
  <2>4. \A p, q \in At(Bound)' : wanted'[p].listener = wanted'[q].listener => p = q
    BY <1>3, <1>4, <1>9 DEF AInv, OwnersInv
  <2>5. \A j \in Open' \ accepting' : \E p \in At(Bound)' : wanted'[p].listener = j
    BY <1>2, <1>3, <1>4, <1>7, <1>9 DEF AInv, OwnersInv
  <2>6. QED
    BY <1>3, <1>9, <2>1, <2>2, <2>3, <2>4, <2>5 DEF OwnersInv
<1>11. AloneInv'
  <2> SUFFICES ASSUME ~overlapped' PROVE AloneInv'
    BY DEF AloneInv
  <2>1. ~overlapped /\ At(Enabling) = {o} /\ ~serving
    BY <1>2, <1>3 DEF AInv, AloneInv, At, Enabling
  <2>2. \A p \in At({"running", "spawn"})' : address' = wanted'[p].address
    BY <1>2, <1>3, <1>9, <2>1 DEF AInv, AloneInv
  <2>3. QED
    BY <1>2, <1>3, <2>1, <2>2 DEF AloneInv
<1>12. QED
  BY <1>8, <1>10, <1>11 DEF AInv

LEMMA AInvBindFails == ASSUME Located, AInv, NEW o \in Operators, BindFails(o) PROVE AInv'
<1>1. /\ Goto(o, "bind", "ready") /\ wanted' = [wanted EXCEPT ![o].address = NoAddress]
      /\ UNCHANGED <<interactive, serving, address, listener, accepting, broken, overlapped>>
  BY DEF BindFails
<1>2. At(Bound)' = At(Bound) /\ At({"running", "spawn"})' = At({"running", "spawn"})
      /\ At({"spawn"})' = At({"spawn"})
      /\ At(Enabling)' \subseteq At(Enabling) /\ o \notin At(Bound) /\ At(Bound) \subseteq Operators
      /\ o \in At(Enabling) /\ At({"running", "spawn"}) \subseteq At(Bound)
      /\ pc'[o] = "ready" /\ pc[o] = "bind" /\ \A p \in Operators \ {o} : pc'[p] = pc[p]
  BY <1>1 DEF At, Goto, Located, Bound, Enabling
<1>3. /\ wanted'[o].listener = wanted[o].listener
      /\ \A p \in Operators \ {o} : wanted'[p] = wanted[p]
      /\ wanted' \in [Operators -> [address : Addresses \union {NoAddress}, listener : 0 .. MaxListeners]]
  BY <1>1 DEF AInv, AcceptorTypes
<1>4. Open' = Open
  BY <1>1 DEF Open
<1>5. AcceptorTypes'
  BY <1>1, <1>3, <1>4 DEF AInv, AcceptorTypes
<1>6. OwnersInv'
  <2>1. \A p \in Operators : pc'[p] \notin Bound => wanted'[p].listener = 0
    BY <1>2, <1>3 DEF AInv, OwnersInv, Bound
  <2>2. \A p \in Operators : pc'[p] = "bind" => wanted'[p].address \in Addresses
    BY <1>2, <1>3 DEF AInv, OwnersInv
  <2>3. \A p \in At(Bound) : Owns(p)' /\ wanted'[p] = wanted[p]
    BY <1>1, <1>2, <1>3 DEF AInv, OwnersInv, Owns
  <2>4. QED
    BY <1>1, <1>2, <1>4, <2>1, <2>2, <2>3 DEF AInv, OwnersInv
<1>7. AloneInv'
  <2> SUFFICES ASSUME ~overlapped' PROVE AloneInv'
    BY DEF AloneInv
  <2>1. ~overlapped /\ ~serving /\ At(Enabling) = {o}
    BY <1>1, <1>2 DEF AInv, AloneInv
  <2>2. \A p \in At(Bound) : p \in At(Enabling)
    BY DEF At, Bound, Enabling
  <2>3. At({"running", "spawn"}) = {}
    BY <1>2, <2>1, <2>2
  <2>4. At(Enabling)' = {}
    BY <1>2, <2>1 DEF At, Enabling
  <2>5. QED
    BY <1>1, <1>2, <2>1, <2>3, <2>4 DEF AloneInv
<1>8. QED
  BY <1>5, <1>6, <1>7 DEF AInv

(* The other statements of an enable change what its owner has not.        *)
LEMMA OwnersStay ==
  ASSUME Located, AInv, NEW o \in Operators, NEW from \in Bound, NEW to \in Bound, Goto(o, from, to),
         UNCHANGED <<wanted, listener, accepting>>
  PROVE  OwnersInv' /\ At(Enabling)' = At(Enabling) /\ o \in At(Enabling)
<1>1. At(Bound)' = At(Bound) /\ At(Enabling)' = At(Enabling) /\ o \in At(Enabling)
      /\ \A p \in Operators : (pc'[p] = "bind" <=> pc[p] = "bind") /\ (pc'[p] \in Bound <=> pc[p] \in Bound)
  BY DEF At, Goto, Located, Bound, Enabling
<1>2. Open' = Open /\ \A p \in Operators : Owns(p) <=> Owns(p)'
  BY DEF Open, Owns
<1>3. At(Bound) \subseteq Operators
  BY DEF At
<1>4. QED
  BY <1>1, <1>2, <1>3 DEF AInv, OwnersInv

LEMMA AInvSetAddress == ASSUME Located, AInv, NEW o \in Operators, SetAddress(o) PROVE AInv'
<1>1. /\ Goto(o, "address", "running") /\ address' = wanted[o].address
      /\ UNCHANGED <<interactive, serving, wanted, listener, accepting, broken, overlapped>>
  BY DEF SetAddress
<1>2. OwnersInv' /\ At(Enabling)' = At(Enabling) /\ o \in At(Enabling)
  BY <1>1, OwnersStay DEF Bound
<1>3. Open' = Open /\ wanted[o].address \in Addresses \union {NoAddress}
  BY <1>1 DEF Open, AInv, AcceptorTypes
<1>4. AcceptorTypes'
  BY <1>1, <1>3 DEF AInv, AcceptorTypes
<1>5. AloneInv'
  <2> SUFFICES ASSUME ~overlapped' PROVE AloneInv'
    BY DEF AloneInv
  <2>1. ~overlapped /\ At(Enabling) = {o} /\ pc[o] = "address" /\ pc'[o] = "running"
    BY <1>1, <1>2 DEF AInv, AloneInv, Goto, Located
  <2>2. ~serving /\ ~serving'
    BY <1>1, <2>1 DEF AInv, AloneInv
  <2>3. At({"running", "spawn"})' \subseteq At(Enabling)'
    BY DEF At, Enabling
  <2>4. QED
    BY <1>1, <1>2, <2>1, <2>2, <2>3 DEF AloneInv
<1>6. QED
  BY <1>2, <1>4, <1>5 DEF AInv

LEMMA AInvSetRunning == ASSUME Located, AInv, NEW o \in Operators, SetRunning(o) PROVE AInv'
<1>1. /\ Goto(o, "running", "spawn") /\ serving'
      /\ UNCHANGED <<interactive, address, wanted, listener, accepting, broken, overlapped>>
  BY DEF SetRunning
<1>2. OwnersInv' /\ At(Enabling)' = At(Enabling) /\ o \in At(Enabling)
  BY <1>1, OwnersStay DEF Bound
<1>3. Open' = Open /\ serving' \in BOOLEAN
  BY <1>1 DEF Open, SetRunning
<1>4. AcceptorTypes'
  BY <1>1, <1>3 DEF AInv, AcceptorTypes
<1>5. AloneInv'
  <2> SUFFICES ASSUME ~overlapped' PROVE AloneInv'
    BY DEF AloneInv
  <2>1. ~overlapped /\ At(Enabling) = {o} /\ pc'[o] = "spawn"
    BY <1>1, <1>2 DEF AInv, AloneInv, Goto, Located
  <2>2. o \in At({"running", "spawn"}) /\ o \in At({"spawn"})'
    BY <1>1, <2>1 DEF At, Goto
  <2>3. address = wanted[o].address
    BY <2>1, <2>2 DEF AInv, AloneInv
  <2>4. At({"running", "spawn"})' \subseteq At(Enabling)'
    BY DEF At, Enabling
  <2>5. QED
    BY <1>1, <1>2, <2>1, <2>2, <2>3, <2>4 DEF AloneInv
<1>6. QED
  BY <1>2, <1>4, <1>5 DEF AInv

LEMMA AInvSpawn == ASSUME Located, AInv, NEW o \in Operators, Spawn(o) PROVE AInv'
<1> DEFINE i == wanted[o].listener
<1>1. /\ Goto(o, "spawn", "ready") /\ accepting' = accepting \union {i}
      /\ wanted' = [wanted EXCEPT ![o] = [address |-> NoAddress, listener |-> 0]]
      /\ UNCHANGED <<interactive, serving, address, listener, broken, overlapped>>
  BY DEF Spawn
<1>2. At(Bound)' = At(Bound) \ {o} /\ o \in At(Bound) /\ At(Bound) \subseteq Operators
      /\ At(Enabling)' = At(Enabling) \ {o} /\ o \in At(Enabling) /\ o \in At({"running", "spawn"})
      /\ pc'[o] = "ready" /\ \A p \in Operators \ {o} : pc'[p] = pc[p]
  BY <1>1 DEF At, Goto, Located, Bound, Enabling
<1>3. /\ wanted'[o].listener = 0 /\ \A p \in Operators \ {o} : wanted'[p] = wanted[p]
      /\ wanted' \in [Operators -> [address : Addresses \union {NoAddress}, listener : 0 .. MaxListeners]]
  BY <1>1, ServicesAssumption DEF AInv, AcceptorTypes
<1>4. Owns(o) /\ i \in Open /\ Open' = Open
  <2>1. Owns(o)
    BY <1>2 DEF AInv, OwnersInv
  <2>2. QED
    BY <1>1, <2>1, ServicesAssumption DEF Owns, Open
<1>5. \A p \in At(Bound)' : wanted'[p] = wanted[p] /\ wanted[p].listener # i /\ Owns(p)'
  <2>1. \A p \in At(Bound)' : wanted'[p] = wanted[p] /\ wanted[p].listener # i /\ Owns(p)
    BY <1>2, <1>3 DEF AInv, OwnersInv
  <2>2. QED
    BY <1>1, <2>1 DEF Owns
<1> HIDE DEF i
<1>6. AcceptorTypes'
  BY <1>1, <1>3, <1>4 DEF AInv, AcceptorTypes
<1>7. OwnersInv'
  <2>1. \A p \in Operators : pc'[p] \notin Bound => wanted'[p].listener = 0
    BY <1>2, <1>3 DEF AInv, OwnersInv
  <2>2. \A p \in Operators : pc'[p] = "bind" => wanted'[p].address \in Addresses
    BY <1>2, <1>3 DEF AInv, OwnersInv
  <2>3. \A p, q \in At(Bound)' : wanted'[p].listener = wanted'[q].listener => p = q
    BY <1>2, <1>5 DEF AInv, OwnersInv
  <2>4. \A j \in Open' \ accepting' : \E p \in At(Bound)' : wanted'[p].listener = j
    <3> SUFFICES ASSUME NEW j \in Open' \ accepting' PROVE \E p \in At(Bound)' : wanted'[p].listener = j
      OBVIOUS
    <3>1. j \in Open \ accepting /\ j # i
      BY <1>1, <1>4
    <3>2. PICK p \in At(Bound) : wanted[p].listener = j
      BY <3>1 DEF AInv, OwnersInv
    <3>3. p # o
      BY <3>1, <3>2 DEF i
    <3>4. QED
      BY <1>2, <1>5, <3>2, <3>3
  <2>5. QED
    BY <1>5, <2>1, <2>2, <2>3, <2>4 DEF OwnersInv
<1>8. AloneInv'
  <2> SUFFICES ASSUME ~overlapped' PROVE AloneInv'
    BY DEF AloneInv
  <2>1. ~overlapped /\ At(Enabling)' = {}
    BY <1>1, <1>2 DEF AInv, AloneInv
  <2>2. At({"running", "spawn"})' = {}
    BY <2>1 DEF At, Enabling
  <2>3. listener[i] = address /\ i \in accepting'
    BY <1>1, <1>2, <1>4, <2>1 DEF AInv, AloneInv, Owns, i
  <2>4. QED
    BY <1>1, <2>1, <2>2, <2>3 DEF AloneInv
<1>9. QED
  BY <1>6, <1>7, <1>8 DEF AInv

LEMMA AInvDisable == ASSUME AInv, NEW o \in Operators, Disable(o) PROVE AInv'
<1>1. /\ ~serving' /\ serving' \in BOOLEAN
      /\ UNCHANGED <<pc, interactive, address, wanted, listener, accepting, broken, overlapped>>
  BY DEF Disable
<1>2. Open' = Open /\ (\A p \in Operators : Owns(p) <=> Owns(p)')
      /\ \A S \in {Enabling, Bound, {"running", "spawn"}} : At(S)' = At(S)
  BY <1>1 DEF Open, Owns, At
<1>3. At(Bound)' = At(Bound) /\ At(Enabling)' = At(Enabling)
      /\ At({"running", "spawn"})' = At({"running", "spawn"})
  BY <1>2
<1>4. At(Bound) \subseteq Operators
  BY DEF At
<1>5. AcceptorTypes'
  BY <1>1, <1>2 DEF AInv, AcceptorTypes
<1>6. OwnersInv'
  BY <1>1, <1>2, <1>3, <1>4 DEF AInv, OwnersInv
<1>7. AloneInv'
  BY <1>1, <1>3 DEF AInv, AloneInv
<1>8. QED
  BY <1>5, <1>6, <1>7 DEF AInv

LEMMA AInvClose ==
  ASSUME AInv, NEW i \in Listeners, AcceptorStops(i) \/ AcceptFails(i) PROVE AInv'
<1>1. /\ Close(i) /\ i \in accepting /\ accepting' = accepting \ {i}
      /\ listener' = [listener EXCEPT ![i] = NoAddress]
      /\ UNCHANGED <<pc, interactive, serving, address, wanted, overlapped>>
  BY DEF AcceptorStops, AcceptFails, Close
<1>2. broken' \in BOOLEAN /\ (~broken' => ~broken) /\ (~serving \/ broken')
  BY DEF AcceptorStops, AcceptFails, AInv, AcceptorTypes
<1>3. /\ \A j \in Listeners \ {i} : listener'[j] = listener[j]
      /\ listener' \in [Listeners -> Addresses \union {NoAddress}]
      /\ listener'[i] = NoAddress
  BY <1>1 DEF AInv, AcceptorTypes
<1>4. Open' = Open \ {i}
  BY <1>3 DEF Open
<1>5. At(Bound)' = At(Bound) /\ At(Enabling)' = At(Enabling)
      /\ At({"running", "spawn"})' = At({"running", "spawn"}) /\ At(Bound) \subseteq Operators
  BY <1>1 DEF At
<1>6. \A p \in At(Bound) : Owns(p)'
  BY <1>1, <1>3, <1>5 DEF AInv, OwnersInv, Owns
<1>7. AcceptorTypes'
  BY <1>1, <1>2, <1>3, <1>4 DEF AInv, AcceptorTypes
<1>8. OwnersInv'
  BY <1>1, <1>4, <1>5, <1>6 DEF AInv, OwnersInv
<1>9. AloneInv'
  BY <1>1, <1>2, <1>5 DEF AInv, AloneInv
<1>10. QED
  BY <1>7, <1>8, <1>9 DEF AInv

LEMMA AInvHolds == Spec => []AInv
<1>1. Located /\ AInv /\ [Next]_vars => AInv'
  <2> SUFFICES ASSUME Located, AInv, [Next]_vars PROVE AInv'
    OBVIOUS
  <2>1. ASSUME NEW o \in Operators, MonitorStep(o) PROVE AInv'
    <3>1. PICK from, to \in {"ready"} \union Monitoring : Goto(o, from, to)
      BY <2>1, MonitorStepsApart
    <3>2. \A p \in Operators : pc'[p] = pc[p] \/ {pc[p], pc'[p]} \intersect Enabling = {}
      BY <3>1 DEF Goto, Located, Monitoring, Enabling
    <3>3. QED
      BY <2>1, <3>2, MonitorStepsApart, AInvStay
  <2>2. ASSUME NEW o \in Operators, EnableStep(o) PROVE AInv'
    BY <2>2, AInvEnable, AInvBind, AInvBindFails, AInvSetAddress, AInvSetRunning, AInvSpawn
    DEF EnableStep
  <2>3. ASSUME NEW o \in Operators, Disable(o) PROVE AInv'
    BY <2>3, AInvDisable
  <2>4. CASE ListenerStep
    BY <2>4, AInvClose DEF ListenerStep
  <2>5. CASE (\E o \in Operators : SetTarget(o) \/ Clean(o)) \/ Worker \/ UNCHANGED vars
    <3>1. UNCHANGED <<pc, interactive, acceptorVars>>
      BY <2>5 DEF SetTarget, Clean, Worker, WorkerLooks, WorkerCalls, WorkerRecords, vars
    <3>2. QED
      BY <3>1, AInvStay
  <2>6. QED
    BY <2>1, <2>2, <2>3, <2>4, <2>5, Steps
<1>2. QED
  BY <1>1, AInvInit, LocatedHolds, PTL DEF Spec

(* The status of the REST API is true, for any operators, addresses and    *)
(* listeners, as long as enables do not overlap and no accept fails.       *)
THEOREM StatusTold == Spec => []StatusIsTrue
<1>1. AInv => StatusIsTrue
  <2> SUFFICES ASSUME AInv, serving, ~overlapped, ~broken
               PROVE  \E i \in Open : listener[i] = address
    BY DEF StatusIsTrue
  <2>1. CASE \E i \in accepting : listener[i] = address
    BY <2>1 DEF AInv, AcceptorTypes
  <2>2. CASE At({"spawn"}) # {}
    <3>1. PICK o \in Operators : pc[o] = "spawn"
      BY <2>2 DEF At
    <3>2. o \in At(Bound) /\ o \in At({"running", "spawn"})
      BY <3>1 DEF At, Bound
    <3>3. Owns(o) /\ address = wanted[o].address
      BY <3>2 DEF AInv, OwnersInv, AloneInv
    <3>4. QED
      BY <3>3, ServicesAssumption DEF Owns, Open
  <2>3. QED
    BY <2>1, <2>2 DEF AInv, AloneInv
<1>2. QED
  BY <1>1, AInvHolds, PTL

(* The types, and that every open listener has its thread or the enable    *)
(* that bound it, for any operators and bounds.                            *)
THEOREM TypeCorrect == Spec => []TypeOK
<1>1. Located /\ RowTypes /\ MInv /\ AInv => TypeOK
  <2> SUFFICES ASSUME Located, RowTypes, MInv, AInv PROVE TypeOK
    OBVIOUS
  <2>1. next_id \in 1 .. MaxStarts + 1
    BY AtFinite, ServicesAssumption DEF MInv, MonitorTypes, Enough
  <2>2. /\ monitor_id \in 0 .. MaxStarts
        /\ drawn \in [Operators -> 0 .. MaxStarts]
        /\ StartedIds \subseteq 1 .. MaxStarts
    BY <2>1, ServicesAssumption DEF MInv, MonitorTypes, IdsInv
  <2>5. started \subseteq 1 .. MaxStarts /\ lost_started \subseteq 1 .. MaxStarts
    BY <2>2 DEF StartedIds
  <2>3. \A i \in Open \ accepting : \E o \in Operators : wanted[o].listener = i
    BY DEF AInv, OwnersInv, At
  <2>4. QED
    BY <2>1, <2>2, <2>3, <2>5 DEF TypeOK, RowTypes, Located, MInv, MonitorTypes, AInv, AcceptorTypes
<1>2. QED
  BY <1>1, LocatedHolds, RowTypesHold, MInvHolds, AInvHolds, PTL

=============================================================================
