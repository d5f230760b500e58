---------------------------- MODULE EvaluationProofs ----------------------------
(***************************************************************************)
(* Proofs about Evaluation, for any threads, lags, clocks, limits and      *)
(* number of packets, runs, legs and configure commands.                   *)
(***************************************************************************)
EXTENDS Evaluation, TLAPS

Hands == [at : {"idle", "clock"} \union Recording, clocks : BOOLEAN, slot : Slots, send : Int,
          arrival : 0 .. MaxTime, value : Nat]

(* The types of what the traffic threads use, and of the history.          *)
TrafficTypes ==
  /\ now \in 0 .. MaxTime
  /\ sent \in 0 .. MaxSent /\ jitter_millis \in Nat
  /\ jitter \in [Slots -> Nat]
  /\ last \in [Slots -> [send : Int, arrival : -1 .. MaxTime]]
  /\ hand \in [Threads -> Hands]
  /\ transit \in [Slots -> [least : Int, greatest : Int]]
  /\ deviation \in [Slots -> Nat]
  /\ torn \subseteq Slots

LEMMA BoundsNat == /\ MaxTime \in Nat /\ MaxSent \in Nat /\ MaxRuns \in Nat /\ MaxLegs \in Nat
                   /\ MaxSettings \in Nat /\ MaxJitter \in Nat /\ LimitValues \union {0} \subseteq Nat
  BY EvaluationAssumption

LEMMA LargerInt == ASSUME NEW a \in Int, NEW b \in Int
                   PROVE  /\ Larger(a, b) \in Int /\ Larger(a, b) >= a /\ Larger(a, b) >= b
                          /\ Larger(a, b) = a \/ Larger(a, b) = b
  BY DEF Larger

LEMMA SlotOfAny == \A p : Slot(p) \in Slots
  BY DEF Slot, Slots

LEMMA HandOf ==
  ASSUME TrafficTypes, NEW t \in Threads
  PROVE  /\ hand[t] \in Hands /\ hand[t].slot \in Slots /\ hand[t].send \in Int
         /\ hand[t].arrival \in 0 .. MaxTime /\ hand[t].value \in Nat
         /\ hand[t].arrival \in Int /\ hand[t].clocks \in BOOLEAN
  BY DEF TrafficTypes, Hands

LEMMA DelayVariationNat ==
  ASSUME TrafficTypes, NEW t \in Threads PROVE DelayVariation(hand[t]) \in Nat
<1>1. last[hand[t].slot] \in [send : Int, arrival : -1 .. MaxTime]
  BY HandOf DEF TrafficTypes
<1>2. QED
  BY <1>1, HandOf DEF DelayVariation, Abs

LEMMA IdleType == Idle \in Hands
  BY EvaluationAssumption DEF Idle, Hands, Slots

(* Remembering a packet keeps the types of what it changes.                *)
LEMMA RememberTypes ==
  ASSUME TrafficTypes, NEW h \in Hands, Remember(h)
  PROVE  /\ last' \in [Slots -> [send : Int, arrival : -1 .. MaxTime]]
         /\ transit' \in [Slots -> [least : Int, greatest : Int]]
<1> DEFINE w == Widened(transit[h.slot], last[h.slot] = None, h.arrival - h.send)
<1>1. h.slot \in Slots /\ h.send \in Int /\ h.arrival \in 0 .. MaxTime
  BY DEF Hands
<1>2. transit[h.slot] \in [least : Int, greatest : Int] /\ h.arrival - h.send \in Int
  BY <1>1 DEF TrafficTypes
<1>3. w \in [least : Int, greatest : Int]
  BY <1>2 DEF Widened, Larger, Smaller
<1>4. transit' = [transit EXCEPT ![h.slot] = w]
  BY DEF Remember
<1> HIDE DEF w
<1>5. [send |-> h.send, arrival |-> h.arrival] \in [send : Int, arrival : -1 .. MaxTime]
  BY <1>1
<1>6. QED
  BY <1>1, <1>3, <1>4, <1>5 DEF Remember, TrafficTypes

(* The steps of a command that touches none of it.                         *)
Elsewhere == UNCHANGED <<now, counters, traffic, transit, deviation, torn>>

LEMMA TrafficTypesHold == Spec => []TrafficTypes
<1>1. Init => TrafficTypes
  BY EvaluationAssumption, IdleType DEF Init, TrafficTypes, Slots, None, NoTransit
<1>2. TrafficTypes /\ [Next]_vars => TrafficTypes'
  <2> SUFFICES ASSUME TrafficTypes, [Next]_vars PROVE TrafficTypes'
    OBVIOUS
  <2>1. CASE Tick
    BY <2>1, EvaluationAssumption DEF Tick, TrafficTypes, counters, traffic, history
  <2>2. ASSUME NEW t \in Threads, NEW p \in Protocols, NEW missed \in Misses, Send(t, p, missed)
        PROVE  TrafficTypes'
    <3> DEFINE h == [Idle EXCEPT !.at = "total", !.slot = Slot(p), !.value = missed]
    <3>0. missed \in Nat /\ 0 \in 0 .. MaxTime /\ Slot(p) \in Slots
      BY SlotOfAny, EvaluationAssumption
    <3>1. h \in Hands
      BY <3>0, IdleType DEF Hands, Recording
    <3>2. hand' = [hand EXCEPT ![t] = h]
      BY <2>2 DEF Send
    <3> HIDE DEF h
    <3>3. sent' \in 0 .. MaxSent
      BY <2>2, EvaluationAssumption DEF Send, TrafficTypes
    <3>4. QED
      BY <2>2, <3>1, <3>2, <3>3 DEF Send, TrafficTypes, history
  <2>3. ASSUME NEW t \in Threads, NEW p \in Protocols, NEW lag \in Lags, Receive(t, p, lag)
        PROVE  TrafficTypes'
    <3> DEFINE h == [Idle EXCEPT !.at = "clock", !.clocks = TRUE, !.slot = Slot(p),
                                 !.send = now - lag, !.arrival = now]
    <3>1. now - lag \in Int /\ now \in 0 .. MaxTime
      BY EvaluationAssumption DEF TrafficTypes
    <3>2. h \in Hands
      BY <3>1, SlotOfAny DEF Idle, Hands
    <3>3. hand' = [hand EXCEPT ![t] = h]
      BY <2>3 DEF Receive
    <3> HIDE DEF h
    <3>4. QED
      BY <2>3, <3>2, <3>3 DEF Receive, TrafficTypes, counters, history
  <2>4. ASSUME NEW t \in Threads, Clock(t) PROVE TrafficTypes'
    <3>1. hand[t] \in Hands
      BY HandOf
    <3>2. CASE last[hand[t].slot] = None
      BY <2>4, <3>1, <3>2, RememberTypes, IdleType DEF Clock, TrafficTypes, counters
    <3>3. CASE last[hand[t].slot] # None
      <4> DEFINE h == [hand[t] EXCEPT !.at = "total", !.value = DelayVariation(hand[t])]
      <4>1. h \in Hands
        BY <3>1, DelayVariationNat DEF Hands, Recording
      <4>2. hand' = [hand EXCEPT ![t] = h] /\ UNCHANGED <<last, transit>>
        BY <2>4, <3>3 DEF Clock
      <4> HIDE DEF h
      <4>3. QED
        BY <2>4, <4>1, <4>2 DEF Clock, TrafficTypes, counters
    <3>4. QED
      BY <3>2, <3>3
  <2>5. ASSUME NEW t \in Threads, RecordTotal(t) PROVE TrafficTypes'
    <3> DEFINE h == [hand[t] EXCEPT !.at = "slot"]
    <3>1. h \in Hands
      BY HandOf DEF Hands, Recording
    <3>2. jitter_millis' \in Nat
      BY <2>5, HandOf DEF RecordTotal, TrafficTypes, Larger
    <3>3. hand' = [hand EXCEPT ![t] = h]
      BY <2>5 DEF RecordTotal
    <3> HIDE DEF h
    <3>4. QED
      BY <2>5, <3>1, <3>2, <3>3 DEF RecordTotal, TrafficTypes, history
  <2>6. ASSUME NEW t \in Threads, RecordSlot(t) PROVE TrafficTypes'
    <3>1. hand[t] \in Hands /\ hand[t].slot \in Slots /\ hand[t].value \in Nat
      BY HandOf
    <3>2. jitter' \in [Slots -> Nat]
      BY <2>6, <3>1 DEF RecordSlot, TrafficTypes, Larger
    <3>3. hand' \in [Threads -> Hands]
      BY <2>6, IdleType DEF RecordSlot, TrafficTypes
    <3>4. CASE hand[t].clocks
      BY <2>6, <3>1, <3>2, <3>3, <3>4, RememberTypes DEF RecordSlot, TrafficTypes
    <3>5. CASE ~hand[t].clocks
      <4>1. deviation' \in [Slots -> Nat]
        BY <2>6, <3>1, <3>5 DEF RecordSlot, TrafficTypes, Larger
      <4>2. QED
        BY <2>6, <3>2, <3>3, <3>5, <4>1 DEF RecordSlot, TrafficTypes
    <3>6. QED
      BY <3>4, <3>5
  <2>7. ASSUME NEW w \in Resetters, StoreSent(w) PROVE TrafficTypes'
    BY <2>7, EvaluationAssumption DEF StoreSent, Store, TrafficTypes, traffic
  <2>8. ASSUME NEW w \in Resetters, StoreTotal(w) PROVE TrafficTypes'
    <3>1. torn' \subseteq Slots
      BY <2>8, HandOf DEF StoreTotal
    <3>2. QED
      BY <2>8, <3>1 DEF StoreTotal, Store, TrafficTypes, traffic
  <2>9. ASSUME NEW w \in Resetters, NEW s \in Slots, StoreSlot(w, s) PROVE TrafficTypes'
    <3> DEFINE d == last[s].arrival - last[s].send
    <3>1. d \in Int
      BY DEF TrafficTypes
    <3>2. transit' = [transit EXCEPT ![s] = [least |-> d, greatest |-> d]]
      BY <2>9 DEF StoreSlot
    <3> HIDE DEF d
    <3>3. QED
      BY <2>9, <3>1, <3>2 DEF StoreSlot, Store, TrafficTypes, traffic
  <2>10. ASSUME Elsewhere PROVE TrafficTypes'
    BY <2>10 DEF Elsewhere, TrafficTypes, counters, traffic
  <2>11. ASSUME NEW w \in Resetters, Spawn(w) PROVE TrafficTypes'
    BY <2>11 DEF Spawn, TrafficTypes, counters, history
  <2>12. CASE Configure \/ (\E p \in Protocols : Leg(p)) \/ Start \/ ReadTotals \/ CheckJitter
              \/ CheckLimits \/ TakeDetail \/ (\E d \in {{}, {"debrief"}} : Record(d)) \/ UNCHANGED vars
    BY <2>10, <2>12 DEF Elsewhere, Configure, Leg, Start, ReadTotals, CheckJitter, CheckLimits,
                        TakeDetail, Record, Finish, vars, history
  <2>13. QED
    BY <2>1, <2>2, <2>3, <2>4, <2>5, <2>6, <2>7, <2>8, <2>9, <2>11, <2>12
    DEF Next, Work, ResetRun, ConfigureLimit, ClearLimits, ConfigureType
<1>3. QED
  BY <1>1, <1>2, PTL DEF Spec

(* A miss that waits to be recorded is one of a send; a packet that waits  *)
(* to be clocked is no send.                                               *)
MissesIn ==
  /\ deviation \in [Slots -> Misses \union {0}]
  /\ \A t \in Threads : hand[t].at \in Recording /\ ~hand[t].clocks => hand[t].value \in Misses
  /\ \A t \in Threads : hand[t].at = "clock" => hand[t].clocks

LEMMA MissesHold == Spec => []MissesIn
<1>1. Init => MissesIn
  BY DEF Init, MissesIn, Idle, Recording
<1>2. TrafficTypes /\ MissesIn /\ [Next]_vars => MissesIn'
  <2> SUFFICES ASSUME TrafficTypes, MissesIn, [Next]_vars PROVE MissesIn'
    OBVIOUS
  <2>0. hand \in [Threads -> Hands]
    BY DEF TrafficTypes
  <2>1. ASSUME NEW t \in Threads, NEW p \in Protocols, NEW missed \in Misses, Send(t, p, missed)
        PROVE  MissesIn'
    BY <2>0, <2>1 DEF Send, MissesIn, Idle, history
  <2>2. ASSUME NEW t \in Threads, NEW p \in Protocols, NEW lag \in Lags, Receive(t, p, lag)
        PROVE  MissesIn'
    BY <2>0, <2>2 DEF Receive, MissesIn, Idle, history
  <2>3. ASSUME NEW t \in Threads, Clock(t) PROVE MissesIn'
    BY <2>0, <2>3 DEF Clock, MissesIn, Idle, Recording, Hands
  <2>4. ASSUME NEW t \in Threads, RecordTotal(t) PROVE MissesIn'
    BY <2>0, <2>4 DEF RecordTotal, MissesIn, Recording, history, Hands
  <2>5. ASSUME NEW t \in Threads, RecordSlot(t) PROVE MissesIn'
    <3>1. deviation' \in [Slots -> Misses \union {0}]
      BY <2>5 DEF RecordSlot, MissesIn, Larger, Recording
    <3>2. hand' = [hand EXCEPT ![t] = Idle]
      BY <2>5 DEF RecordSlot
    <3>3. QED
      BY <2>0, <3>1, <3>2 DEF MissesIn, Idle, Recording
  <2>6. ASSUME NEW w \in Resetters, NEW s \in Slots, StoreSlot(w, s) PROVE MissesIn'
    BY <2>6 DEF StoreSlot, Store, MissesIn, traffic
  <2>7. ASSUME UNCHANGED <<hand, deviation>> PROVE MissesIn'
    BY <2>7 DEF MissesIn
  <2>8. QED
    BY <2>1, <2>2, <2>3, <2>4, <2>5, <2>6, <2>7
    DEF Next, Work, ResetRun, Tick, ConfigureLimit, ClearLimits, ConfigureType, Configure, Leg, Start, StoreSent,
        StoreTotal, Store, Spawn, ReadTotals, CheckJitter, CheckLimits, TakeDetail, Record, Finish,
        vars, traffic, history
<1>3. QED
  BY <1>1, <1>2, TrafficTypesHold, PTL DEF Spec

-----------------------------------------------------------------------------

CountsType == [sent : Nat, total : Nat, jitter : [Slots -> Nat]]
RowType == [sent : Nat, total : Nat]
Reasons == Parameters \union Slots \union {"no_bytes", "debrief"}
OutcomeType == [reasons : SUBSET Reasons, sent_bytes : Nat, protocol : Protocols \union {"none"},
                detail : CountsType, limits : [Parameters -> LimitValues \union {0}]]

(* The types of what the commands use.                                     *)
CommandTypes ==
  /\ used \subseteq Protocols /\ packet_type \in Protocols
  /\ limits \in [Protocols -> [Parameters -> LimitValues \union {0}]]
  /\ configured \in 0 .. MaxSettings
  /\ run \in 0 .. MaxRuns /\ legs \in 0 .. MaxLegs
  /\ pc \in {"ready", "starting", "running", "jitter", "limits", "detail", "record"}
  /\ reset \in [Resetters -> {"none", "sent", "total", "done"} \union Slots]
  /\ outcome \in OutcomeType /\ external \in RowType
  /\ disturbed \in BOOLEAN

(* What reset_run and the evaluation read of the counters has its type.    *)
LEMMA ReadTypes ==
  ASSUME TrafficTypes
  PROVE  /\ sent \in Nat /\ [sent |-> sent, total |-> jitter_millis] \in RowType
         /\ [sent |-> sent, total |-> jitter_millis, jitter |-> jitter] \in CountsType
  BY EvaluationAssumption DEF TrafficTypes, RowType, CountsType

LEMMA NothingOfType == NoOutcome \in OutcomeType /\ NoRow \in RowType
<1>1. NoCounts \in CountsType
  BY DEF NoCounts, CountsType
<1>2. QED
  BY <1>1 DEF NoOutcome, NoRow, OutcomeType, RowType

LEMMA CommandTypesHold == Spec => []CommandTypes
<1>1. Init => CommandTypes
  <2> SUFFICES ASSUME Init PROVE CommandTypes
    OBVIOUS
  <2>1. limits \in [Protocols -> [Parameters -> LimitValues \union {0}]]
    BY DEF Init
  <2>2. reset \in [Resetters -> {"none", "sent", "total", "done"} \union Slots]
    BY DEF Init
  <2>3. used = {} /\ packet_type \in Protocols /\ configured = 0 /\ run = 0 /\ legs = 0
        /\ pc = "ready" /\ outcome = NoOutcome /\ external = NoRow /\ disturbed = FALSE
    BY DEF Init
  <2>4. 0 \in 0 .. MaxSettings /\ 0 \in 0 .. MaxRuns /\ 0 \in 0 .. MaxLegs
    BY BoundsNat
  <2>5. QED
    BY <2>1, <2>2, <2>3, <2>4, NothingOfType DEF CommandTypes
<1>2. TrafficTypes /\ CommandTypes /\ [Next]_vars => CommandTypes'
  <2> SUFFICES ASSUME TrafficTypes, CommandTypes, [Next]_vars PROVE CommandTypes'
    OBVIOUS
  <2>1. ASSUME UNCHANGED <<used, settings, commands, verdict, disturbed>> PROVE CommandTypes'
    BY <2>1 DEF CommandTypes, settings, commands, verdict
  <2>2. ASSUME NEW p \in Protocols, NEW q \in Parameters, NEW v \in LimitValues, ConfigureLimit(p, q, v)
        PROVE  CommandTypes'
    <3>1. limits' \in [Protocols -> [Parameters -> LimitValues \union {0}]]
      BY <2>2 DEF ConfigureLimit, CommandTypes
    <3>2. configured' \in 0 .. MaxSettings
      BY <2>2, BoundsNat DEF ConfigureLimit, Configure, CommandTypes
    <3>3. QED
      BY <2>2, <3>1, <3>2
      DEF ConfigureLimit, Configure, CommandTypes, traffic, commands, verdict, history
  <2>3. ASSUME NEW p \in Protocols, ClearLimits(p) PROVE CommandTypes'
    BY <2>3, BoundsNat
    DEF ClearLimits, Configure, CommandTypes, traffic, commands, verdict, history
  <2>4. ASSUME NEW p \in Protocols, ConfigureType(p) PROVE CommandTypes'
    BY <2>4, BoundsNat
    DEF ConfigureType, Configure, CommandTypes, traffic, commands, verdict, history
  <2>5. ASSUME NEW p \in Protocols, Leg(p) PROVE CommandTypes'
    <3>1. legs' \in 0 .. MaxLegs
      BY <2>5, BoundsNat DEF Leg, CommandTypes
    <3>2. reset' \in [Resetters -> {"none", "sent", "total", "done"} \union Slots]
      BY <2>5 DEF Leg, CommandTypes
    <3>3. QED
      BY <2>5, <3>1, <3>2 DEF Leg, CommandTypes, traffic, verdict, history
  <2>6. CASE Start
    <3>1. run' \in 0 .. MaxRuns
      BY <2>6, BoundsNat DEF Start, CommandTypes
    <3>2. reset' \in [Resetters -> {"none", "sent", "total", "done"} \union Slots]
      BY <2>6 DEF Start, CommandTypes
    <3>3. QED
      BY <2>6, <3>1, <3>2, NothingOfType DEF Start, CommandTypes, traffic, settings, history
  <2>7. ASSUME NEW w \in Resetters, NEW counter, NEW next \in {"total", "done"} \union Slots,
               Store(w, counter, next)
        PROVE  CommandTypes'
    BY <2>7 DEF Store, CommandTypes, traffic, settings, verdict
  <2>8. ASSUME NEW w \in Resetters, Spawn(w) PROVE CommandTypes'
    BY <2>8 DEF Spawn, CommandTypes, settings, verdict, history
  <2>9. CASE ReadTotals
    <3>1. outcome' \in OutcomeType
      <4> DEFINE none == IF sent = 0 THEN {"no_bytes"} ELSE {}
      <4>1. none \in SUBSET Reasons
        BY DEF Reasons
      <4>2. limits[packet_type] \in [Parameters -> LimitValues \union {0}]
        BY DEF CommandTypes
      <4>3. packet_type \in Protocols \union {"none"} /\ sent \in Nat /\ NoCounts \in CountsType
        BY ReadTypes DEF CommandTypes, NoCounts, CountsType
      <4>4. outcome' = [reasons |-> none, sent_bytes |-> sent, protocol |-> packet_type,
                        detail |-> NoCounts, limits |-> limits[packet_type]]
        BY <2>9 DEF ReadTotals
      <4> HIDE DEF none
      <4>5. QED
        BY <4>1, <4>2, <4>3, <4>4 DEF OutcomeType
    <3>2. disturbed' \in BOOLEAN
      BY <2>9 DEF ReadTotals
    <3>3. QED
      BY <2>9, <3>1, <3>2 DEF ReadTotals, CommandTypes, traffic, settings
  <2>10. CASE CheckJitter
    BY <2>10 DEF CheckJitter, CommandTypes, OutcomeType, Reasons, traffic, settings, history
  <2>11. CASE CheckLimits
    <3>1. Missed \subseteq Reasons
      BY DEF Missed, Reasons
    <3>2. QED
      BY <2>11, <3>1 DEF CheckLimits, CommandTypes, OutcomeType, traffic, settings, history
  <2>12. CASE TakeDetail
    BY <2>12, ReadTypes DEF TakeDetail, CommandTypes, OutcomeType, traffic, settings, history
  <2>13. ASSUME NEW d \in {{}, {"debrief"}}, Record(d) PROVE CommandTypes'
    <3>1. outcome.reasons \union d \in SUBSET Reasons
      BY DEF CommandTypes, OutcomeType, Reasons
    <3>2. QED
      BY <2>13, <3>1, ReadTypes
      DEF Record, Finish, CommandTypes, OutcomeType, traffic, settings, history
  <2>14. CASE Tick \/ (\E t \in Threads : Work(t)) \/ UNCHANGED vars
    BY <2>1, <2>14 DEF Tick, Work, Send, Receive, Clock, RecordTotal, RecordSlot, vars, traffic, history
  <2>15. ASSUME NEW w \in Resetters, ResetRun(w) PROVE CommandTypes'
    BY <2>7, <2>15 DEF ResetRun, StoreSent, StoreTotal, StoreSlot, Slots
  <2>16. CASE UNCHANGED vars
    BY <2>14, <2>16
  <2>17. CASE Next
    BY <2>2, <2>3, <2>4, <2>5, <2>6, <2>8, <2>9, <2>10, <2>11, <2>12, <2>13, <2>14, <2>15, <2>17 DEF Next
  <2>18. QED
    BY <2>16, <2>17
<1>3. QED
  BY <1>1, <1>2, TrafficTypesHold, PTL DEF Spec

(* The types of every variable, for any bounds (Metrics and Config,        *)
(* core.rs; RunOutcome, lib.rs).                                           *)
THEOREM TypeCorrect == Spec => []TypeOK
<1>1. TrafficTypes /\ MissesIn /\ CommandTypes => TypeOK
  BY DEF TrafficTypes, MissesIn, CommandTypes, TypeOK, OutcomeType, Reasons, Hands
<1>2. QED
  BY <1>1, TrafficTypesHold, MissesHold, CommandTypesHold, PTL

-----------------------------------------------------------------------------

(* Why jitter is bounded: the packet clocked last in a slot, of whichever  *)
(* run, is one of those whose transit times the history spans, so that the *)
(* next one differs from it by no more than the widened span.              *)
Spanned(s) ==
  /\ transit[s].least <= transit[s].greatest
  /\ last[s] # None => /\ transit[s].least <= last[s].arrival - last[s].send
                       /\ last[s].arrival - last[s].send <= transit[s].greatest
  /\ last[s] = None => jitter[s] <= deviation[s]

BoundedIn(s) == jitter[s] <= Larger(Spread(s), deviation[s])

Clocking(t) == hand[t].clocks /\ hand[t].at \in Recording

(* What a thread is recording for a packet was measured from the packet    *)
(* that is still the last one, for the thread holds the mutex.             *)
Measured ==
  /\ \A t \in Threads : Clocking(t) => /\ last[hand[t].slot] # None
                                       /\ hand[t].value = DelayVariation(hand[t])
  /\ \A t, u \in Threads : Clocking(t) /\ Clocking(u) /\ hand[t].slot = hand[u].slot => t = u

JInv == Measured /\ \A s \in Slots : Spanned(s) /\ BoundedIn(s)

(* Remembering a packet widens the span around it and the one before.      *)
LEMMA Remembered ==
  ASSUME TrafficTypes, JInv, NEW h \in Hands, Remember(h)
  PROVE  /\ last'[h.slot] # None
         /\ transit'[h.slot].least <= last'[h.slot].arrival - last'[h.slot].send
         /\ last'[h.slot].arrival - last'[h.slot].send <= transit'[h.slot].greatest
         /\ transit'[h.slot].least \in Int /\ transit'[h.slot].greatest \in Int
         /\ Spread(h.slot)' \in Nat
         /\ last[h.slot] # None => DelayVariation(h) <= Spread(h.slot)' /\ Spread(h.slot) <= Spread(h.slot)'
         /\ \A q \in Slots \ {h.slot} : last'[q] = last[q] /\ transit'[q] = transit[q]
<1> DEFINE c == h.slot
           w == Widened(transit[c], last[c] = None, h.arrival - h.send)
           after == h.arrival - h.send
           before == last[c].arrival - last[c].send
<1>1. c \in Slots /\ h.send \in Int /\ h.arrival \in Nat
  BY DEF Hands
<1>2. /\ last' = [last EXCEPT ![c] = [send |-> h.send, arrival |-> h.arrival]]
      /\ transit' = [transit EXCEPT ![c] = w]
  BY DEF Remember
<1>3. /\ after \in Int /\ before \in Int
      /\ transit[c].least \in Int /\ transit[c].greatest \in Int
  BY <1>1 DEF TrafficTypes
<1>4. last'[c] # None /\ last'[c].arrival - last'[c].send = after /\ transit'[c] = w
  BY <1>1, <1>2 DEF TrafficTypes, None
<1>5. /\ w.least \in Int /\ w.greatest \in Int
      /\ w.least <= after /\ after <= w.greatest
      /\ last[c] # None => w.least <= transit[c].least /\ transit[c].greatest <= w.greatest
  BY <1>3 DEF Widened, Larger, Smaller
<1>6. DelayVariation(h) = Abs(after - before)
  BY <1>1, <1>3 DEF DelayVariation, TrafficTypes
<1>7. Spread(c)' = w.greatest - w.least /\ Spread(c) = transit[c].greatest - transit[c].least
  BY <1>4 DEF Spread
<1>8. ASSUME last[c] # None PROVE DelayVariation(h) <= Spread(c)' /\ Spread(c) <= Spread(c)'
  <2>1. transit[c].least <= before /\ before <= transit[c].greatest
    BY <1>1, <1>8 DEF JInv, Spanned
  <2> HIDE DEF w, after, before, c
  <2>2. QED
    BY <1>3, <1>5, <1>6, <1>7, <1>8, <2>1 DEF Abs
<1>9. \A q \in Slots \ {c} : last'[q] = last[q] /\ transit'[q] = transit[q]
  BY <1>2 DEF TrafficTypes
<1> HIDE DEF w, after, before
<1>10. QED
  BY <1>3, <1>4, <1>5, <1>7, <1>8, <1>9

LEMMA JInvClock == ASSUME TrafficTypes, JInv, NEW t \in Threads, Clock(t) PROVE JInv'
<1> DEFINE h == hand[t]
<1>1. h \in Hands /\ h.slot \in Slots /\ h.at = "clock" /\ hand \in [Threads -> Hands]
  BY HandOf DEF Clock, TrafficTypes
<1>2. \A u \in Threads : Clocking(u) => hand[u].slot # h.slot
  BY DEF Clock, Locked, Clocking
<1>3. jitter' = jitter /\ deviation' = deviation
  BY DEF Clock, counters
<1>4. CASE last[h.slot] = None
  <2>1. Remember(h) /\ hand' = [hand EXCEPT ![t] = Idle]
    BY <1>4 DEF Clock
  <2>2. ~Clocking(t)' /\ \A u \in Threads \ {t} : hand'[u] = hand[u]
    BY <1>1, <2>1 DEF Clocking, Idle, Recording
  <2>3. \A u \in Threads \ {t} : Clocking(u) => last'[hand[u].slot] = last[hand[u].slot]
    BY <1>1, <1>2, <2>1, Remembered, HandOf
  <2>4. Measured'
    BY <2>2, <2>3 DEF JInv, Measured, Clocking, DelayVariation
  <2>5. ASSUME NEW s \in Slots PROVE Spanned(s)' /\ BoundedIn(s)'
    <3>1. CASE s = h.slot
      <4>1. jitter[s] <= deviation[s] /\ jitter[s] \in Nat /\ deviation[s] \in Nat
        BY <1>4, <3>1 DEF JInv, Spanned, TrafficTypes
      <4>2. transit'[s].least \in Int /\ transit'[s].greatest \in Int /\ Spread(s)' \in Nat
        BY <1>1, <2>1, <3>1, Remembered
      <4>3. Spanned(s)'
        BY <1>1, <2>1, <3>1, <4>2, Remembered DEF Spanned, Spread
      <4>4. QED
        BY <1>3, <4>1, <4>2, <4>3 DEF BoundedIn, Larger
    <3>2. CASE s # h.slot
      <4>1. last'[s] = last[s] /\ transit'[s] = transit[s]
        BY <1>1, <2>1, <3>2, Remembered
      <4>2. QED
        BY <1>3, <4>1 DEF JInv, Spanned, BoundedIn, Spread
    <3>3. QED
      BY <3>1, <3>2
  <2>6. QED
    BY <2>4, <2>5 DEF JInv
<1>5. CASE last[h.slot] # None
  <2>1. /\ hand' = [hand EXCEPT ![t] = [h EXCEPT !.at = "total", !.value = DelayVariation(h)]]
        /\ UNCHANGED <<last, transit>>
    BY <1>5 DEF Clock
  <2>2. /\ hand'[t].slot = h.slot /\ hand'[t].send = h.send /\ hand'[t].arrival = h.arrival
        /\ hand'[t].value = DelayVariation(h)
        /\ \A u \in Threads \ {t} : hand'[u] = hand[u]
    BY <1>1, <2>1 DEF Hands
  <2>3. DelayVariation(hand[t])' = DelayVariation(h)
    BY <2>1, <2>2 DEF DelayVariation
  <2>4. \A u \in Threads \ {t} : DelayVariation(hand[u])' = DelayVariation(hand[u])
    BY <2>1, <2>2 DEF DelayVariation
  <2>5. Measured'
    <3>1. ASSUME NEW u \in Threads, Clocking(u)'
          PROVE  last'[hand'[u].slot] # None /\ hand'[u].value = DelayVariation(hand[u])'
      <4>1. CASE u = t
        BY <1>5, <2>1, <2>2, <2>3, <4>1
      <4>2. CASE u # t
        <5>1. Clocking(u) /\ hand'[u] = hand[u] /\ last' = last
          BY <2>1, <2>2, <3>1, <4>2 DEF Clocking
        <5>2. QED
          BY <2>4, <4>2, <5>1 DEF JInv, Measured
      <4>3. QED
        BY <4>1, <4>2
    <3>2. ASSUME NEW u \in Threads, NEW v \in Threads, Clocking(u)', Clocking(v)',
                 hand'[u].slot = hand'[v].slot
          PROVE  u = v
      BY <1>2, <2>2, <3>2 DEF JInv, Measured, Clocking
    <3>3. QED
      BY <3>1, <3>2 DEF Measured
  <2>6. QED
    BY <1>3, <2>1, <2>5 DEF JInv, Spanned, BoundedIn, Spread
<1>6. QED
  BY <1>4, <1>5

LEMMA JInvRecordSlot == ASSUME TrafficTypes, JInv, NEW t \in Threads, RecordSlot(t) PROVE JInv'
<1> DEFINE h == hand[t]
<1>1. h \in Hands /\ h.slot \in Slots /\ h.value \in Nat /\ h.at = "slot" /\ h.clocks \in BOOLEAN
  BY HandOf DEF RecordSlot
<1>2. /\ jitter' = [jitter EXCEPT ![h.slot] = Larger(@, h.value)]
      /\ hand' = [hand EXCEPT ![t] = Idle]
  BY DEF RecordSlot
<1>3. ~Clocking(t)' /\ \A u \in Threads \ {t} : hand'[u] = hand[u]
  BY <1>2 DEF Clocking, Idle, Recording, TrafficTypes
<1>4. /\ jitter'[h.slot] = Larger(jitter[h.slot], h.value)
      /\ \A q \in Slots \ {h.slot} : jitter'[q] = jitter[q]
  BY <1>1, <1>2 DEF TrafficTypes
<1>5. CASE h.clocks
  <2>1. Remember(h) /\ deviation' = deviation
    BY <1>5 DEF RecordSlot
  <2>2. /\ last[h.slot] # None /\ h.value = DelayVariation(h)
        /\ \A u \in Threads \ {t} : Clocking(u) => hand[u].slot # h.slot
    BY <1>1, <1>5 DEF JInv, Measured, Clocking, Recording
  <2>3. \A u \in Threads \ {t} : Clocking(u) => last'[hand[u].slot] = last[hand[u].slot]
    BY <1>1, <2>1, <2>2, Remembered, HandOf
  <2>4. Measured'
    BY <1>3, <2>3 DEF JInv, Measured, Clocking, DelayVariation
  <2>5. ASSUME NEW s \in Slots PROVE Spanned(s)' /\ BoundedIn(s)'
    <3>1. CASE s = h.slot
      <4>1. jitter[s] <= Larger(Spread(s), deviation[s]) /\ jitter[s] \in Nat /\ deviation[s] \in Nat
            /\ Spread(s) \in Int
        BY DEF JInv, BoundedIn, TrafficTypes, Spread
      <4>2. transit'[s].least \in Int /\ transit'[s].greatest \in Int /\ Spread(s)' \in Nat
            /\ h.value <= Spread(s)' /\ Spread(s) <= Spread(s)'
        BY <1>1, <2>1, <2>2, <3>1, Remembered
      <4>3. Spanned(s)'
        BY <1>1, <2>1, <3>1, <4>2, Remembered DEF Spanned, Spread
      <4>4. jitter'[s] <= Larger(Spread(s)', deviation[s])
        BY <1>1, <1>4, <3>1, <4>1, <4>2 DEF Larger
      <4>5. QED
        BY <2>1, <4>3, <4>4 DEF BoundedIn
    <3>2. CASE s # h.slot
      <4>1. last'[s] = last[s] /\ transit'[s] = transit[s] /\ jitter'[s] = jitter[s]
        BY <1>1, <1>4, <2>1, <3>2, Remembered
      <4>2. QED
        BY <2>1, <4>1 DEF JInv, Spanned, BoundedIn, Spread
    <3>3. QED
      BY <3>1, <3>2
  <2>6. QED
    BY <2>4, <2>5 DEF JInv
<1>6. CASE ~h.clocks
  <2>1. UNCHANGED <<last, transit>> /\ deviation' = [deviation EXCEPT ![h.slot] = Larger(@, h.value)]
    BY <1>6 DEF RecordSlot
  <2>2. /\ deviation'[h.slot] = Larger(deviation[h.slot], h.value)
        /\ \A q \in Slots \ {h.slot} : deviation'[q] = deviation[q]
    BY <1>1, <2>1 DEF TrafficTypes
  <2>3. Measured'
    BY <1>3, <2>1 DEF JInv, Measured, Clocking, DelayVariation
  <2>4. ASSUME NEW s \in Slots PROVE Spanned(s)' /\ BoundedIn(s)'
    <3>1. Spread(s)' = Spread(s) /\ Spread(s) \in Int /\ jitter[s] \in Nat /\ deviation[s] \in Nat
      BY <2>1 DEF Spread, TrafficTypes
    <3>2. \/ s = h.slot
          \/ s # h.slot /\ jitter'[s] = jitter[s] /\ deviation'[s] = deviation[s]
      BY <1>4, <2>2
    <3>3. Spanned(s) /\ BoundedIn(s)
      BY DEF JInv
    <3> HIDE DEF h
    <3>4. QED
      BY <1>1, <1>4, <2>1, <2>2, <3>1, <3>2, <3>3 DEF Spanned, BoundedIn, Larger
  <2>5. QED
    BY <2>3, <2>4 DEF JInv
<1>7. QED
  BY <1>1, <1>5, <1>6

(* Steps that touch neither the clock nor what waits to be recorded.       *)
LEMMA JInvKept ==
  ASSUME JInv, UNCHANGED <<jitter, last, transit, deviation>>,
         \A u \in Threads : Clocking(u)' => /\ Clocking(u) /\ hand'[u].slot = hand[u].slot
                                            /\ hand'[u].value = hand[u].value
                                            /\ hand'[u].send = hand[u].send
                                            /\ hand'[u].arrival = hand[u].arrival
  PROVE  JInv'
<1>1. Measured'
  BY DEF JInv, Measured, DelayVariation
<1>2. QED
  BY <1>1 DEF JInv, Spanned, BoundedIn, Spread

(* Whatever senders, clocks, runs, legs and resets do, the jitter recorded *)
(* for a run is bounded by how much its transit times differed and how far *)
(* its sends missed their pace (timestamp_jitter, core.rs).                *)
THEOREM JitterIsDelayVariation == Spec => []JitterBounded
<1>1. Init => JInv
  BY DEF Init, JInv, Measured, Clocking, Recording, Idle, Spanned, BoundedIn, Spread, Larger,
         NoTransit, Slots
<1>2. TrafficTypes /\ JInv /\ [Next]_vars => JInv'
  <2> SUFFICES ASSUME TrafficTypes, JInv, [Next]_vars PROVE JInv'
    OBVIOUS
  <2>0. hand \in [Threads -> Hands]
    BY DEF TrafficTypes
  <2>1. ASSUME NEW t \in Threads, NEW p \in Protocols, NEW missed \in Misses, Send(t, p, missed)
        PROVE  JInv'
    <3>1. \A u \in Threads : Clocking(u)' => Clocking(u) /\ hand'[u] = hand[u]
      BY <2>0, <2>1 DEF Send, Idle, Clocking
    <3>2. QED
      BY <2>1, <3>1, JInvKept DEF Send, history
  <2>2. ASSUME NEW t \in Threads, NEW p \in Protocols, NEW lag \in Lags, Receive(t, p, lag)
        PROVE  JInv'
    <3>1. \A u \in Threads : Clocking(u)' => Clocking(u) /\ hand'[u] = hand[u]
      BY <2>0, <2>2 DEF Receive, Idle, Clocking, Recording
    <3>2. QED
      BY <2>2, <3>1, JInvKept DEF Receive, counters, history
  <2>3. ASSUME NEW t \in Threads, RecordTotal(t) PROVE JInv'
    <3>1. \A u \in Threads : /\ hand'[u].slot = hand[u].slot /\ hand'[u].value = hand[u].value
                             /\ hand'[u].send = hand[u].send /\ hand'[u].arrival = hand[u].arrival
                             /\ Clocking(u)' => Clocking(u)
      BY <2>0, <2>3 DEF RecordTotal, Clocking, Recording, Hands
    <3>2. QED
      BY <2>3, <3>1, JInvKept DEF RecordTotal, history
  <2>4. ASSUME NEW w \in Resetters, NEW c \in Slots, StoreSlot(w, c) PROVE JInv'
    <3> DEFINE d == last[c].arrival - last[c].send
    <3>1. /\ d \in Int /\ UNCHANGED <<hand, last>>
          /\ transit' = [transit EXCEPT ![c] = [least |-> d, greatest |-> d]]
          /\ jitter' = [jitter EXCEPT ![c] = 0] /\ deviation' = [deviation EXCEPT ![c] = 0]
      BY <2>4 DEF StoreSlot, Store, traffic, TrafficTypes
    <3>2. Measured'
      BY <3>1 DEF JInv, Measured, Clocking, DelayVariation
    <3>3. ASSUME NEW s \in Slots PROVE Spanned(s)' /\ BoundedIn(s)'
      <4>1. CASE s = c
        <5>1. /\ transit'[s] = [least |-> d, greatest |-> d] /\ jitter'[s] = 0 /\ deviation'[s] = 0
              /\ last'[s].arrival - last'[s].send = d
          BY <3>1, <4>1 DEF TrafficTypes
        <5> HIDE DEF d
        <5>2. QED
          BY <3>1, <5>1 DEF Spanned, BoundedIn, Spread, Larger
      <4>2. CASE s # c
        <5>1. /\ transit'[s] = transit[s] /\ jitter'[s] = jitter[s] /\ deviation'[s] = deviation[s]
              /\ last'[s] = last[s]
          BY <3>1, <4>2 DEF TrafficTypes
        <5>2. QED
          BY <5>1 DEF JInv, Spanned, BoundedIn, Spread
      <4>3. QED
        BY <4>1, <4>2
    <3>4. QED
      BY <3>2, <3>3 DEF JInv
  <2>5. ASSUME UNCHANGED <<jitter, hand, last, transit, deviation>> PROVE JInv'
    BY <2>5, JInvKept DEF Clocking
  <2>6. CASE Tick \/ Configure \/ (\E p \in Protocols : Leg(p)) \/ Start \/ ReadTotals \/ CheckJitter
             \/ CheckLimits \/ TakeDetail \/ (\E d \in {{}, {"debrief"}} : Record(d)) \/ UNCHANGED vars
    BY <2>5, <2>6 DEF Tick, Configure, Leg, Start, ReadTotals, CheckJitter, CheckLimits, TakeDetail,
                      Record, Finish, vars, counters, traffic, history
  <2>7. ASSUME NEW w \in Resetters, StoreSent(w) \/ StoreTotal(w) \/ Spawn(w) PROVE JInv'
    BY <2>5, <2>7 DEF StoreSent, StoreTotal, Store, Spawn, counters, traffic, history
  <2>8. QED
    BY <2>1, <2>2, <2>3, <2>4, <2>6, <2>7, JInvClock, JInvRecordSlot
    DEF Next, Work, ResetRun, ConfigureLimit, ClearLimits, ConfigureType
<1>3. JInv => JitterBounded
  BY DEF JInv, BoundedIn, JitterBounded
<1>4. QED
  BY <1>1, <1>2, <1>3, TrafficTypesHold, PTL DEF Spec

-----------------------------------------------------------------------------

(* Why the total shows what a slot shows: whoever records in a slot has    *)
(* recorded in the total before.  Only a reset tears the two apart: while  *)
(* it has still to store a slot, and for the recordings it came in the     *)
(* middle of.                                                              *)
Pending(s) == IF s = "tcp" THEN {"tcp"} ELSE Slots
Tearing(s) == \E w \in Resetters : reset[w] \in Pending(s)

TInv ==
  /\ \A s \in Slots \ torn : ~Tearing(s) => jitter[s] <= jitter_millis
  /\ \A t \in Threads : hand[t].at = "slot" /\ hand[t].slot \notin torn =>
                           hand[t].value <= jitter_millis
  /\ pc # "starting" => reset["start"] = "none"

LEMMA TInvWork == ASSUME TrafficTypes, TInv, NEW t \in Threads, Work(t) PROVE TInv'
<1>1. /\ hand[t] \in Hands /\ hand[t].slot \in Slots /\ hand[t].value \in Nat
      /\ hand \in [Threads -> Hands] /\ jitter_millis \in Nat
  BY HandOf DEF TrafficTypes
<1>2. CASE \/ \E p \in Protocols, missed \in Misses : Send(t, p, missed)
           \/ \E p \in Protocols, lag \in Lags : Receive(t, p, lag)
           \/ Clock(t)
  <2>1. hand'[t].at # "slot" /\ \A u \in Threads \ {t} : hand'[u] = hand[u]
    <3>1. CASE \/ \E p \in Protocols, missed \in Misses : Send(t, p, missed)
               \/ \E p \in Protocols, lag \in Lags : Receive(t, p, lag)
      BY <1>1, <3>1 DEF Send, Receive, Idle
    <3>2. CASE Clock(t)
      BY <1>1, <3>2 DEF Clock, Idle, Hands
    <3>3. QED
      BY <1>2, <3>1, <3>2
  <2>2. UNCHANGED <<jitter, jitter_millis, torn, reset, pc>>
    BY <1>2 DEF Send, Receive, Clock, counters, commands, history
  <2>3. QED
    BY <2>1, <2>2 DEF TInv, Tearing
<1>3. CASE RecordTotal(t)
  <2>1. jitter_millis' = Larger(jitter_millis, hand[t].value) /\ UNCHANGED <<jitter, torn, reset, pc>>
    BY <1>3 DEF RecordTotal, commands, history
  <2>2. /\ jitter_millis' \in Nat /\ jitter_millis <= jitter_millis'
        /\ hand[t].value <= jitter_millis'
    BY <1>1, <2>1 DEF Larger
  <2>3. \A s \in Slots : jitter[s] \in Nat
    BY DEF TrafficTypes
  <2>4. ASSUME NEW s \in Slots \ torn, ~Tearing(s) PROVE jitter[s] <= jitter_millis'
    BY <1>1, <2>2, <2>3, <2>4 DEF TInv
  <2>5. ASSUME NEW u \in Threads, hand'[u].at = "slot", hand'[u].slot \notin torn
        PROVE  hand'[u].value <= jitter_millis'
    <3>1. CASE u = t
      BY <1>1, <1>3, <2>2, <3>1 DEF RecordTotal, Hands
    <3>2. CASE u # t
      <4>1. hand'[u] = hand[u] /\ hand[u].value \in Nat
        BY <1>3, <3>2, HandOf DEF RecordTotal, TrafficTypes
      <4>2. hand[u].value <= jitter_millis
        BY <2>5, <4>1 DEF TInv
      <4>3. QED
        BY <1>1, <2>2, <4>1, <4>2
    <3>3. QED
      BY <3>1, <3>2
  <2>6. QED
    BY <2>1, <2>4, <2>5 DEF TInv, Tearing
<1>4. CASE RecordSlot(t)
  <2>1. /\ jitter' = [jitter EXCEPT ![hand[t].slot] = Larger(@, hand[t].value)]
        /\ hand' = [hand EXCEPT ![t] = Idle] /\ UNCHANGED <<jitter_millis, torn, reset, pc>>
    BY <1>4 DEF RecordSlot, commands
  <2>2. hand[t].slot \notin torn => hand[t].value <= jitter_millis
    BY <1>4 DEF TInv, RecordSlot
  <2>3. ASSUME NEW s \in Slots \ torn, ~Tearing(s) PROVE jitter'[s] <= jitter_millis
    <3>1. jitter[s] <= jitter_millis /\ jitter[s] \in Nat
      BY <2>3 DEF TInv, TrafficTypes
    <3>2. \/ jitter'[s] = jitter[s]
          \/ hand[t].slot = s /\ jitter'[s] = Larger(jitter[s], hand[t].value)
      BY <1>1, <2>1 DEF TrafficTypes
    <3>3. QED
      BY <1>1, <2>2, <3>1, <3>2 DEF Larger
  <2>4. hand'[t].at # "slot" /\ \A u \in Threads \ {t} : hand'[u] = hand[u]
    BY <1>1, <2>1 DEF Idle
  <2>5. QED
    BY <2>1, <2>3, <2>4 DEF TInv, Tearing
<1>5. QED
  BY <1>2, <1>3, <1>4 DEF Work

LEMMA TInvReset ==
  ASSUME TrafficTypes, CommandTypes, TInv, NEW w \in Resetters, ResetRun(w) \/ Spawn(w)
  PROVE  TInv'
<1>1. reset \in [Resetters -> {"none", "sent", "total", "done"} \union Slots]
  BY DEF CommandTypes
<1>2. w = "start" => pc = "starting"
  BY DEF TInv, ResetRun, Spawn, StoreSent, StoreTotal, StoreSlot, Store, Slots
<1>3. CASE StoreSent(w)
  <2>1. /\ reset[w] = "sent" /\ reset' = [reset EXCEPT ![w] = "total"]
        /\ UNCHANGED <<pc, jitter, jitter_millis, torn, hand>>
    BY <1>3 DEF StoreSent, Store, traffic
  <2>2. \A s \in Slots : Tearing(s)' <=> Tearing(s)
    BY <1>1, <2>1 DEF Tearing, Pending, Slots
  <2>3. QED
    BY <1>1, <1>2, <2>1, <2>2 DEF TInv, Resetters
<1>4. CASE StoreTotal(w)
  <2>1. /\ reset' = [reset EXCEPT ![w] = "tcp"] /\ UNCHANGED <<pc, hand>>
        /\ torn' = {hand[t].slot : t \in {u \in Threads : hand[u].at = "slot"}}
    BY <1>4 DEF StoreTotal, Store, traffic
  <2>2. \A s \in Slots : Tearing(s)'
    BY <1>1, <2>1 DEF Tearing, Pending, Slots
  <2>3. QED
    BY <1>1, <1>2, <2>1, <2>2 DEF TInv, Resetters
<1>5. ASSUME NEW c \in Slots, StoreSlot(w, c) PROVE TInv'
  <2>1. /\ reset[w] = c /\ reset' = [reset EXCEPT ![w] = IF c = "tcp" THEN "udp" ELSE "done"]
        /\ jitter' = [jitter EXCEPT ![c] = 0]
        /\ UNCHANGED <<pc, jitter_millis, torn, hand>>
    BY <1>5 DEF StoreSlot, Store, traffic
  <2>2. \A s \in Slots \ {c} : Tearing(s) => Tearing(s)'
    BY <1>1, <2>1 DEF Tearing, Pending, Slots
  <2>3. ASSUME NEW s \in Slots \ torn, ~Tearing(s)' PROVE jitter'[s] <= jitter_millis
    <3>1. CASE s = c
      BY <2>1, <3>1 DEF TrafficTypes
    <3>2. CASE s # c
      BY <2>1, <2>2, <2>3, <3>2 DEF TrafficTypes, TInv
    <3>3. QED
      BY <3>1, <3>2
  <2>4. QED
    BY <1>1, <1>2, <2>1, <2>3 DEF TInv, Resetters
<1>6. CASE Spawn(w)
  <2>1. /\ reset[w] = "done" /\ reset' = [reset EXCEPT ![w] = "none"]
        /\ UNCHANGED <<jitter, jitter_millis, torn, hand>> /\ pc' \in {"running", pc}
    BY <1>6 DEF Spawn, counters, history
  <2>2. \A s \in Slots : Tearing(s)' <=> Tearing(s)
    BY <1>1, <2>1 DEF Tearing, Pending, Slots
  <2>3. pc' # "starting" => reset'["start"] = "none"
    BY <1>1, <1>6, <2>1 DEF TInv, Spawn, Resetters
  <2>4. QED
    BY <2>1, <2>2, <2>3 DEF TInv
<1>7. QED
  BY <1>3, <1>4, <1>5, <1>6 DEF ResetRun

LEMMA TInvHolds == Spec => []TInv
<1>1. Init => TInv
  BY DEF Init, TInv, Idle, Resetters, Slots
<1>2. TrafficTypes /\ CommandTypes /\ TInv /\ [Next]_vars => TInv'
  <2> SUFFICES ASSUME TrafficTypes, CommandTypes, TInv, [Next]_vars PROVE TInv'
    OBVIOUS
  <2>0. reset \in [Resetters -> {"none", "sent", "total", "done"} \union Slots]
    BY DEF CommandTypes
  <2>1. ASSUME UNCHANGED <<jitter, jitter_millis, torn, hand, reset>>,
               pc' # "starting" => reset'["start"] = "none"
        PROVE  TInv'
    BY <2>1 DEF TInv, Tearing
  <2>2. CASE \/ Tick \/ Configure \/ ReadTotals \/ CheckJitter \/ CheckLimits \/ TakeDetail
             \/ (\E d \in {{}, {"debrief"}} : Record(d)) \/ UNCHANGED vars
    BY <2>1, <2>2 DEF TInv, Tick, Configure, ReadTotals, CheckJitter, CheckLimits, TakeDetail,
                      Record, Finish, vars, counters, traffic, commands, history
  <2>3. ASSUME NEW w \in Resetters, reset[w] = "none", reset' = [reset EXCEPT ![w] = "sent"],
               UNCHANGED <<jitter, jitter_millis, torn, hand>>, pc' = pc \/ pc' = "starting",
               w = "start" => pc' = "starting"
        PROVE  TInv'
    <3>1. \A s \in Slots : Tearing(s)' <=> Tearing(s)
      BY <2>0, <2>3 DEF Tearing, Pending, Slots
    <3>2. QED
      BY <2>0, <2>3, <3>1 DEF TInv, Resetters
  <2>4. ASSUME NEW p \in Protocols, Leg(p) PROVE TInv'
    BY <2>3, <2>4 DEF Leg, counters, traffic, history, Resetters
  <2>5. CASE Start
    <3>1. reset["start"] = "none"
      BY <2>5 DEF Start, TInv
    <3>2. QED
      BY <2>3, <2>5, <3>1 DEF Start, counters, traffic, history, Resetters
  <2>6. QED
    BY <2>2, <2>4, <2>5, TInvWork, TInvReset DEF Next, ConfigureLimit, ClearLimits, ConfigureType
<1>3. QED
  BY <1>1, <1>2, TrafficTypesHold, CommandTypesHold, PTL DEF Spec

-----------------------------------------------------------------------------

(* Why a failure is explained: the counters a verdict was read from only   *)
(* grow until they are reset, so that what is read later is above the same *)
(* maximum; and nothing changes the transport or its limits in between.    *)
Current == [sent |-> sent, total |-> jitter_millis, jitter |-> jitter]

Explains(o, counts) == SlotsExplain(o, counts) /\ SentExplains(o, counts)

VInv ==
  /\ Evaluating => outcome.protocol = packet_type
  /\ Judging /\ ~disturbed => reset["leg"] \notin Slots /\ Explains(outcome, Current)
  /\ pc = "record" /\ ~disturbed => /\ Explains(outcome, outcome.detail)
                                    /\ TotalExplains(outcome, outcome.detail)

LEMMA LimitsNat ==
  ASSUME CommandTypes
  PROVE  outcome.limits["max_jitter_millis"] \in Nat /\ outcome.detail \in CountsType
<1>1. outcome.limits \in [Parameters -> LimitValues \union {0}] /\ outcome.detail \in CountsType
  BY DEF CommandTypes, OutcomeType
<1>2. LimitValues \union {0} \subseteq Nat /\ "max_jitter_millis" \in Parameters
  BY BoundsNat DEF Parameters
<1>3. QED
  BY <1>1, <1>2

(* Larger counters explain as much.                                        *)
LEMMA ExplainsMore ==
  ASSUME NEW o, o.limits["max_jitter_millis"] \in Nat,
         NEW c \in CountsType, NEW d \in CountsType,
         d.sent >= c.sent, \A s \in Slots : d.jitter[s] >= c.jitter[s],
         Explains(o, c)
  PROVE  Explains(o, d)
<1>1. MaxJitter \in Nat
  BY BoundsNat
<1>2. \A s \in Slots : c.jitter[s] \in Nat /\ d.jitter[s] \in Nat
  BY DEF CountsType
<1>3. c.sent \in Nat /\ d.sent \in Nat
  BY DEF CountsType
<1>4. SentExplains(o, d)
  BY <1>3 DEF Explains, SentExplains
<1>5. ASSUME NEW s \in o.reasons \intersect Slots PROVE d.jitter[s] > MaxJitter
  <2>1. c.jitter[s] > MaxJitter
    BY DEF Explains, SlotsExplain
  <2>2. d.jitter[s] >= c.jitter[s] /\ c.jitter[s] \in Nat /\ d.jitter[s] \in Nat
    BY <1>2
  <2>3. QED
    BY <1>1, <2>1, <2>2
<1>6. ASSUME "max_jitter_millis" \in o.reasons
      PROVE  d.jitter[Slot(o.protocol)] > o.limits["max_jitter_millis"]
  <2> DEFINE s == Slot(o.protocol)
             limit == o.limits["max_jitter_millis"]
  <2>1. s \in Slots
    BY SlotOfAny
  <2>2. c.jitter[s] > limit /\ limit \in Nat
    BY <1>6 DEF Explains, SlotsExplain
  <2> HIDE DEF s, limit
  <2>3. d.jitter[s] >= c.jitter[s] /\ c.jitter[s] \in Nat /\ d.jitter[s] \in Nat
    BY <1>2, <2>1
  <2>4. d.jitter[s] > limit
    BY <2>2, <2>3
  <2>5. QED
    BY <2>4 DEF s, limit
<1>7. QED
  BY <1>4, <1>5, <1>6 DEF Explains, SlotsExplain

(* While a verdict is undisturbed, no reset tears the slots from the       *)
(* total, and the total explains what a slot explains.                     *)
LEMMA TotalFollows ==
  ASSUME TrafficTypes, CommandTypes, TInv, VInv, Judging, ~disturbed,
         NEW row, row.total = jitter_millis
  PROVE  TotalExplains(outcome, row)
<1>1. \A s \in Slots : ~Tearing(s)
  <2>1. reset["start"] = "none" /\ reset["leg"] \notin Slots
    BY DEF TInv, VInv, Judging, Evaluating
  <2>2. QED
    BY <2>1 DEF Tearing, Pending, Resetters, Slots
<1>2. \A s \in Slots \ torn : jitter[s] <= row.total
  BY <1>1 DEF TInv
<1>3. row.total \in Nat /\ MaxJitter \in Nat /\ (\A s \in Slots : jitter[s] \in Nat)
  BY BoundsNat DEF TrafficTypes
<1>4. /\ \A s \in outcome.reasons \intersect Slots : jitter[s] > MaxJitter
      /\ "max_jitter_millis" \in outcome.reasons =>
           jitter[Slot(outcome.protocol)] > outcome.limits["max_jitter_millis"]
  BY DEF VInv, Explains, SlotsExplain, Current
<1>5. ASSUME NEW s \in (outcome.reasons \intersect Slots) \ torn PROVE row.total > MaxJitter
  <2>1. jitter[s] > MaxJitter /\ jitter[s] <= row.total /\ jitter[s] \in Nat
    BY <1>2, <1>3, <1>4
  <2>2. QED
    BY <1>3, <2>1
<1>6. ASSUME "max_jitter_millis" \in outcome.reasons, Slot(outcome.protocol) \notin torn
      PROVE  row.total > outcome.limits["max_jitter_millis"]
  <2> DEFINE j == jitter[Slot(outcome.protocol)]
             limit == outcome.limits["max_jitter_millis"]
  <2>1. j > limit /\ j <= row.total /\ j \in Nat /\ limit \in Nat
    BY <1>2, <1>3, <1>4, <1>6, SlotOfAny, LimitsNat
  <2> HIDE DEF j, limit
  <2>2. row.total > limit
    BY <1>3, <2>1
  <2>3. QED
    BY <2>2 DEF limit
<1>7. QED
  BY <1>5, <1>6 DEF TotalExplains

(* Steps that leave the verdict alone and count.                           *)
LEMMA CountingKeeps ==
  ASSUME TrafficTypes, TrafficTypes', CommandTypes, VInv,
         sent' >= sent, \A s \in Slots : jitter'[s] >= jitter[s],
         UNCHANGED <<pc, reset, outcome, packet_type, torn, disturbed>>
  PROVE  VInv'
<1>1. Current \in CountsType /\ Current' \in CountsType
  <2>1. sent \in Nat /\ sent' \in Nat
    BY BoundsNat DEF TrafficTypes
  <2>2. QED
    BY <2>1 DEF TrafficTypes, Current, CountsType
<1>2. Current'.sent >= Current.sent /\ \A s \in Slots : Current'.jitter[s] >= Current.jitter[s]
  BY DEF Current
<1>3. Explains(outcome, Current) => Explains(outcome, Current')
  BY <1>1, <1>2, LimitsNat, ExplainsMore
<1>4. (Judging' <=> Judging) /\ (Evaluating' <=> Evaluating)
  BY DEF Judging, Evaluating
<1>5. Judging /\ ~disturbed => reset'["leg"] \notin Slots /\ Explains(outcome', Current')
  BY <1>3 DEF VInv
<1>6. TotalExplains(outcome, outcome.detail)' <=> TotalExplains(outcome, outcome.detail)
  BY DEF TotalExplains
<1>7. Explains(outcome, outcome.detail)' <=> Explains(outcome, outcome.detail)
  BY DEF Explains, SlotsExplain, SentExplains
<1>8. QED
  BY <1>4, <1>5, <1>6, <1>7 DEF VInv

LEMMA VInvWork ==
  ASSUME TrafficTypes, TrafficTypes', CommandTypes, VInv, NEW t \in Threads, Work(t) PROVE VInv'
<1>1. UNCHANGED <<pc, reset, outcome, packet_type, torn, disturbed>>
  BY DEF Work, Send, Receive, Clock, RecordTotal, RecordSlot, settings, commands, verdict, history
<1>2. sent' >= sent
  <2>1. sent \in Nat
    BY ReadTypes
  <2>2. sent' = sent \/ sent' = sent + 1
    BY DEF Work, Send, Receive, Clock, RecordTotal, RecordSlot, counters
  <2>3. QED
    BY <2>1, <2>2
<1>3. \A s \in Slots : jitter'[s] >= jitter[s]
  <2>1. CASE RecordSlot(t)
    BY <2>1, HandOf DEF RecordSlot, TrafficTypes, Larger
  <2>2. CASE jitter' = jitter
    BY <2>2 DEF TrafficTypes
  <2>3. QED
    BY <2>1, <2>2 DEF Work, Send, Receive, Clock, RecordTotal, counters
<1>4. QED
  BY <1>1, <1>2, <1>3, CountingKeeps

(* Steps of the other commands, while no verdict is being made.            *)
LEMMA VInvOtherwise ==
  ASSUME ~Judging' PROVE VInv'
  BY DEF VInv, Judging

LEMMA VInvReset ==
  ASSUME TrafficTypes, CommandTypes, TInv, VInv, NEW w \in Resetters, ResetRun(w) \/ Spawn(w)
  PROVE  VInv'
<1>1. reset \in [Resetters -> {"none", "sent", "total", "done"} \union Slots]
  BY DEF CommandTypes
<1>2. w = "start" => pc = "starting"
  BY DEF TInv, ResetRun, Spawn, StoreSent, StoreTotal, StoreSlot, Store, Slots
<1>3. CASE ResetRun(w)
  <2>1. UNCHANGED <<pc, outcome, packet_type>> /\ disturbed' = (disturbed \/ (w = "leg" /\ Judging))
    BY <1>3 DEF ResetRun, StoreSent, StoreTotal, StoreSlot, Store, verdict, settings
  <2>2. ~Judging \/ disturbed'
    BY <1>2, <2>1 DEF Resetters, Judging, Evaluating
  <2>3. QED
    BY <2>1, <2>2 DEF VInv, Judging, Evaluating
<1>4. CASE Spawn(w)
  <2>1. /\ UNCHANGED <<outcome, packet_type, sent, jitter_millis, jitter, torn, disturbed>>
        /\ reset' = [reset EXCEPT ![w] = "none"] /\ pc' = IF w = "start" THEN "running" ELSE pc
    BY <1>4 DEF Spawn, settings, counters, verdict, history
  <2>2. CASE w = "start"
    BY <2>1, <2>2 DEF VInv, Judging, Evaluating
  <2>3. CASE w = "leg"
    <3>1. reset'["leg"] \notin Slots /\ pc' = pc
      BY <1>1, <2>1, <2>3 DEF Slots
    <3>2. (Judging' <=> Judging) /\ (Evaluating' <=> Evaluating) /\ Current' = Current
      BY <2>1, <3>1 DEF Judging, Evaluating, Current
    <3>3. /\ Explains(outcome, Current)' <=> Explains(outcome, Current)
          /\ Explains(outcome, outcome.detail)' <=> Explains(outcome, outcome.detail)
          /\ TotalExplains(outcome, outcome.detail)' <=> TotalExplains(outcome, outcome.detail)
      BY <2>1, <3>2 DEF Explains, SlotsExplain, SentExplains, TotalExplains
    <3>4. QED
      BY <2>1, <3>1, <3>2, <3>3 DEF VInv
  <2>4. QED
    BY <2>2, <2>3 DEF Resetters
<1>5. QED
  BY <1>3, <1>4

LEMMA VInvLeg == ASSUME CommandTypes, VInv, NEW p \in Protocols, Leg(p) PROVE VInv'
<1>1. /\ UNCHANGED <<pc, outcome, sent, jitter_millis, jitter, torn, disturbed>>
      /\ ~Evaluating /\ reset' = [reset EXCEPT !["leg"] = "sent"]
  BY DEF Leg, counters, verdict, history
<1>2. reset'["leg"] \notin Slots
  BY <1>1 DEF CommandTypes, Resetters, Slots
<1>3. (Judging' <=> Judging) /\ ~Evaluating' /\ Current' = Current
  BY <1>1 DEF Judging, Evaluating, Current
<1>4. /\ Explains(outcome, Current)' <=> Explains(outcome, Current)
      /\ Explains(outcome, outcome.detail)' <=> Explains(outcome, outcome.detail)
      /\ TotalExplains(outcome, outcome.detail)' <=> TotalExplains(outcome, outcome.detail)
  BY <1>1, <1>3 DEF Explains, SlotsExplain, SentExplains, TotalExplains
<1>5. QED
  BY <1>1, <1>2, <1>3, <1>4 DEF VInv

LEMMA VInvReadTotals == ASSUME TrafficTypes, CommandTypes, ReadTotals PROVE VInv'
<1>1. /\ Current' = Current /\ Current.sent = sent /\ sent \in Nat
      /\ reset' = reset /\ disturbed' = (reset["leg"] \in Slots)
  BY ReadTypes DEF ReadTotals, counters, Current
<1>2. /\ outcome'.reasons = IF sent = 0 THEN {"no_bytes"} ELSE {}
      /\ outcome'.protocol = packet_type /\ packet_type' = packet_type /\ pc' = "jitter"
  BY DEF ReadTotals, settings
<1>3. outcome'.reasons \intersect Slots = {} /\ "max_jitter_millis" \notin outcome'.reasons
  BY <1>2 DEF Slots
<1>4. "no_bytes" \notin outcome'.reasons => Current'.sent > 0
  BY <1>1, <1>2
<1>5. Explains(outcome', Current')
  BY <1>3, <1>4 DEF Explains, SlotsExplain, SentExplains
<1>6. QED
  BY <1>1, <1>2, <1>5 DEF VInv, Judging, Evaluating

(* The steps that add reasons add only what the counters explain.          *)
LEMMA VInvAdd ==
  ASSUME TrafficTypes, CommandTypes, VInv, Evaluating, Evaluating', pc' # "record",
         NEW added, outcome'.reasons = outcome.reasons \union added,
         outcome'.protocol = outcome.protocol, outcome'.limits = outcome.limits,
         UNCHANGED <<counters, reset, packet_type, disturbed>>,
         "no_bytes" \notin added,
         \A s \in added \intersect Slots : jitter[s] > MaxJitter,
         "max_jitter_millis" \in added =>
           jitter[Slot(packet_type)] > outcome.limits["max_jitter_millis"]
  PROVE  VInv'
<1>1. Current' = Current /\ Current.jitter = jitter
  BY DEF Current, counters
<1>2. outcome.protocol = packet_type
  BY DEF VInv
<1>3. ASSUME ~disturbed PROVE Explains(outcome', Current')
  <2>1. Explains(outcome, Current)
    BY <1>3 DEF VInv, Judging
  <2>2. SlotsExplain(outcome', Current)
    BY <1>1, <1>2, <2>1 DEF Explains, SlotsExplain
  <2>3. SentExplains(outcome', Current)
    BY <2>1 DEF Explains, SentExplains
  <2>4. QED
    BY <1>1, <2>2, <2>3 DEF Explains
<1>4. QED
  BY <1>2, <1>3 DEF VInv, Judging

LEMMA VInvCheckJitter == ASSUME TrafficTypes, CommandTypes, VInv, CheckJitter PROVE VInv'
<1> DEFINE over == {s \in Slots : Exceeded(s)}
<1>1. /\ outcome'.reasons = outcome.reasons \union over
      /\ outcome'.protocol = outcome.protocol /\ outcome'.limits = outcome.limits
      /\ Evaluating /\ Evaluating' /\ pc' # "record"
      /\ UNCHANGED <<counters, reset, packet_type, disturbed>>
  BY DEF CheckJitter, settings, history, CommandTypes, OutcomeType, Evaluating
<1>2. "no_bytes" \notin over /\ "max_jitter_millis" \notin over
      /\ \A s \in over \intersect Slots : jitter[s] > MaxJitter
  BY DEF Slots, Exceeded
<1> HIDE DEF over
<1>3. QED
  BY <1>1, <1>2, VInvAdd

LEMMA VInvCheckLimits == ASSUME TrafficTypes, CommandTypes, VInv, CheckLimits PROVE VInv'
<1>1. /\ outcome'.reasons = outcome.reasons \union Missed
      /\ outcome'.protocol = outcome.protocol /\ outcome'.limits = outcome.limits
      /\ Evaluating /\ Evaluating' /\ pc' # "record"
      /\ UNCHANGED <<counters, reset, packet_type, disturbed>>
  BY DEF CheckLimits, settings, history, CommandTypes, OutcomeType, Evaluating
<1>2. ASSUME "max_jitter_millis" \in Missed
      PROVE  jitter[Slot(packet_type)] > outcome.limits["max_jitter_millis"]
  <2>1. Above(JitterOf(packet_type), outcome.limits["max_jitter_millis"])
    BY <1>2 DEF Missed
  <2>2. packet_type # "ip"
    BY <2>1, LimitsNat DEF Above, JitterOf
  <2>3. QED
    BY <2>1, <2>2 DEF Above, JitterOf
<1>3. Missed \intersect Slots = {} /\ "no_bytes" \notin Missed
  BY DEF Missed, Parameters, Slots
<1>4. QED
  BY <1>1, <1>2, <1>3, VInvAdd

LEMMA VInvTakeDetail == ASSUME TrafficTypes, CommandTypes, TInv, VInv, TakeDetail PROVE VInv'
<1>1. /\ outcome'.detail = Current /\ outcome'.reasons = outcome.reasons
      /\ outcome'.protocol = outcome.protocol /\ outcome'.limits = outcome.limits
      /\ pc = "detail" /\ pc' = "record" /\ UNCHANGED <<counters, reset, torn, disturbed>>
  BY DEF TakeDetail, settings, history, CommandTypes, OutcomeType, Current
<1>2. Current' = Current /\ Current.total = jitter_millis
  BY <1>1 DEF Current, counters
<1>3. ASSUME ~disturbed PROVE /\ Explains(outcome, Current) /\ reset["leg"] \notin Slots
                              /\ TotalExplains(outcome, Current)
  BY <1>1, <1>2, <1>3, TotalFollows DEF VInv, Judging, Evaluating
<1>4. ASSUME ~disturbed PROVE /\ Explains(outcome', Current') /\ Explains(outcome', outcome'.detail)
                              /\ TotalExplains(outcome, outcome.detail)'
  BY <1>1, <1>2, <1>3, <1>4 DEF Explains, SlotsExplain, SentExplains, TotalExplains
<1>5. QED
  BY <1>1, <1>3, <1>4 DEF VInv, Judging, Evaluating

LEMMA VInvHolds == Spec => []VInv
<1>1. Init => VInv
  BY DEF Init, VInv, Judging, Evaluating
<1>2. TrafficTypes /\ TrafficTypes' /\ CommandTypes /\ TInv /\ VInv /\ [Next]_vars => VInv'
  <2> SUFFICES ASSUME TrafficTypes, TrafficTypes', CommandTypes, TInv, VInv, [Next]_vars PROVE VInv'
    OBVIOUS
  <2>1. CASE Tick \/ UNCHANGED vars
    <3>1. /\ sent' = sent /\ jitter' = jitter
          /\ UNCHANGED <<pc, reset, outcome, packet_type, torn, disturbed>>
      BY <2>1 DEF Tick, vars, counters, settings, commands, verdict, history
    <3>2. sent' >= sent /\ \A s \in Slots : jitter'[s] >= jitter[s]
      BY <3>1 DEF TrafficTypes
    <3>3. QED
      BY <3>1, <3>2, CountingKeeps
  <2>2. CASE Configure \/ Start \/ \E d \in {{}, {"debrief"}} : Record(d)
    <3>1. pc' \in {"ready", "running", "starting"}
      BY <2>2 DEF Configure, AtPrompt, Start, Record, Finish, commands
    <3>2. QED
      BY <3>1, VInvOtherwise DEF Judging, Evaluating
  <2>3. QED
    BY <2>1, <2>2, VInvWork, VInvReset, VInvLeg, VInvReadTotals, VInvCheckJitter, VInvCheckLimits,
       VInvTakeDetail
    DEF Next, ConfigureLimit, ClearLimits, ConfigureType
<1>3. QED
  BY <1>1, <1>2, TrafficTypesHold, CommandTypesHold, TInvHolds, PTL DEF Spec

(* A run that failed for being above a limit, or not for want of sent      *)
(* bytes, says so in the detail stored with it and in the external row     *)
(* (evaluate_run, RunDetail::from_metrics and record_final_metrics,        *)
(* lib.rs), whatever the threads count and record in the meantime; but for *)
(* a total that a reset tore from its slot, and a selftest leg's reset in  *)
(* the meantime.                                                           *)
THEOREM FailuresAreExplained == Spec => FailureIsExplained
<1>1. TrafficTypes /\ CommandTypes /\ TInv /\ VInv /\ [Next]_vars =>
      [pc = "record" /\ pc' = "ready" /\ ~disturbed =>
         /\ SlotsExplain(outcome', outcome'.detail)
         /\ \A row \in {[sent |-> outcome'.detail.sent, total |-> outcome'.detail.total], external'} :
               TotalExplains(outcome', row) /\ SentExplains(outcome', row)]_vars
  <2> SUFFICES ASSUME TrafficTypes, CommandTypes, TInv, VInv, [Next]_vars,
                      pc = "record", pc' = "ready", ~disturbed
               PROVE  /\ SlotsExplain(outcome', outcome'.detail)
                      /\ \A row \in {[sent |-> outcome'.detail.sent, total |-> outcome'.detail.total],
                                      external'} :
                            TotalExplains(outcome', row) /\ SentExplains(outcome', row)
    OBVIOUS
  <2>1. PICK debrief \in {{}, {"debrief"}} : Record(debrief)
    BY DEF Next, Tick, Work, Send, Receive, Clock, RecordTotal, RecordSlot, ConfigureLimit,
           ClearLimits, ConfigureType, Configure, AtPrompt, Leg, Start, ResetRun, StoreSent,
           StoreTotal, StoreSlot, Store, Spawn, ReadTotals, CheckJitter, CheckLimits, TakeDetail,
           commands, vars
  <2>2. /\ outcome'.reasons = outcome.reasons \union debrief
        /\ outcome'.protocol = outcome.protocol /\ outcome'.limits = outcome.limits
        /\ outcome'.detail = outcome.detail
        /\ external' = [sent |-> sent, total |-> jitter_millis]
    BY <2>1 DEF Record, Finish, CommandTypes, OutcomeType
  <2>3. /\ outcome'.reasons \intersect Slots = outcome.reasons \intersect Slots
        /\ "max_jitter_millis" \in outcome'.reasons <=> "max_jitter_millis" \in outcome.reasons
        /\ "no_bytes" \in outcome'.reasons <=> "no_bytes" \in outcome.reasons
    BY <2>2 DEF Slots
  <2>4. /\ Explains(outcome, Current) /\ Explains(outcome, outcome.detail)
        /\ TotalExplains(outcome, outcome.detail) /\ TotalExplains(outcome, external')
    BY <2>2, TotalFollows DEF VInv, Judging
  <2>5. SlotsExplain(outcome', outcome'.detail)
    BY <2>2, <2>3, <2>4 DEF Explains, SlotsExplain
  <2>6. ASSUME NEW row \in {[sent |-> outcome'.detail.sent, total |-> outcome'.detail.total], external'}
        PROVE  TotalExplains(outcome', row) /\ SentExplains(outcome', row)
    <3>1. TotalExplains(outcome, row) /\ SentExplains(outcome, row)
      BY <2>2, <2>4 DEF Explains, SentExplains, TotalExplains, Current
    <3>2. QED
      BY <2>2, <2>3, <3>1 DEF TotalExplains, SentExplains
  <2>7. QED
    BY <2>5, <2>6
<1>2. QED
  BY <1>1, TrafficTypesHold, CommandTypesHold, TInvHolds, VInvHolds, PTL DEF Spec, FailureIsExplained

=============================================================================
