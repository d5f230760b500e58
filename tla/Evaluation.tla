------------------------------ MODULE Evaluation ------------------------------
(***************************************************************************)
(* What a run measures and how it is judged: the run-scoped counters and   *)
(* the jitter clock of Metrics (src/src/core.rs), the limits of `configure *)
(* limits` (src/src/cli.rs), and evaluate_run, check_limits and            *)
(* record_final_metrics (src/src/lib.rs).  Traffic threads go on counting  *)
(* while their stopped run is evaluated, and one may outlive its run; a    *)
(* recording of jitter is two atomic writes, reset_run a store for each    *)
(* counter, and the verdict several reads, and all of them interleave.     *)
(* One operator (the shell): start, stop and configure follow one another; *)
(* a selftest leg, on a thread of its own, resets the same counters.       *)
(* Which packets arrive is the subject of Datagrams and Streams; here a    *)
(* packet is one byte long and matters for its timestamp, and the bytes    *)
(* received, counted and judged as the bytes sent are, are left out.       *)
(***************************************************************************)
EXTENDS Integers

CONSTANTS
  Threads,      (* traffic threads, of this run or an earlier one           *)
  Protocols,    (* transports, all of them enabled                          *)
  Lags,         (* how old packets look on arrival: the time on their way   *)
                (* less how far their sender's clock is ahead               *)
  Misses,       (* by how much a send may miss the configured pace          *)
  MaxTime,      (* bound on the clock                                       *)
  MaxSent,      (* bound on the packets a run sends                         *)
  MaxRuns,      (* bound on runs                                            *)
  MaxLegs,      (* bound on selftest legs                                   *)
  MaxSettings,  (* bound on configure commands                              *)
  LimitValues,  (* values given to the limits; 0 is "not checked"           *)
  MaxJitter     (* max_tcp_jitter_millis and max_udp_jitter_millis          *)

ASSUME EvaluationAssumption ==
  /\ Protocols \subseteq {"tcp", "sctp", "udp", "ip"} /\ Protocols # {}
  /\ Lags \subseteq Int /\ Misses \subseteq Nat /\ LimitValues \subseteq Nat
  /\ {MaxTime, MaxSent, MaxRuns, MaxLegs, MaxSettings, MaxJitter} \subseteq Nat

VARIABLES
  now,            (* the receiver's clock                                   *)
  sent,           (* run_sent_*_bytes                                       *)
  jitter_millis,  (* the field of that name: the jitter of both slots       *)
  jitter,         (* tcp_jitter_millis and udp_jitter_millis                *)
  last,           (* last_tcp_timestamps and last_udp_timestamps            *)
  hand,           (* what each traffic thread is about to clock or record   *)
  used,           (* the transports of the traffic threads                  *)
  packet_type,    (* Config.packet_type                                     *)
  limits,         (* Config.limits                                          *)
  configured,     (* configure commands given so far                        *)
  run,            (* runs started so far                                    *)
  legs,           (* selftest legs started so far                           *)
  pc,             (* the next statement of the operator's command           *)
  reset,          (* the next store of the reset_run of start and of a leg  *)
  outcome,        (* the RunOutcome of the run last stopped, and its limits *)
  external,       (* what record_final_metrics wrote for it                 *)
  transit,        (* history: least and greatest arrival - send of the      *)
                  (* packets clocked since a slot was reset, and of the one *)
                  (* clocked before them                                    *)
  deviation,      (* history: the largest miss of a send recorded since     *)
  torn,           (* history: the slots with a recording between its two    *)
                  (* writes when jitter_millis was last reset               *)
  disturbed       (* history: a leg's reset_run overlapped the verdict      *)

settings == <<packet_type, limits, configured>>
counters == <<sent, jitter_millis, jitter>>
history == <<transit, deviation, torn, disturbed>>
verdict == <<outcome, external>>
traffic == <<last, hand, used>>
commands == <<run, legs, pc, reset>>
vars == <<now, counters, traffic, settings, commands, verdict, history>>

(* SCTP is counted and clocked with TCP, raw IP with UDP.                  *)
Slots == {"tcp", "udp"}
Slot(p) == IF p \in {"tcp", "sctp"} THEN "tcp" ELSE "udp"

(* The other minima have the form of min-sent-bytes, the other maxima that *)
(* of max-jitter-millis.                                                   *)
Parameters == {"min_sent_bytes", "max_jitter_millis"}

(* Raw IP has no jitter clock of its own.                                  *)
Supports(p, parameter) == parameter = "max_jitter_millis" => p # "ip"

NoCounts == [sent |-> 0, total |-> 0, jitter |-> [s \in Slots |-> 0]]
NoRow == [sent |-> 0, total |-> 0]
NoTransit == [least |-> 0, greatest |-> 0]
NoOutcome == [reasons |-> {}, sent_bytes |-> 0, protocol |-> "none", detail |-> NoCounts,
              limits |-> [q \in Parameters |-> 0]]

(* No packet was clocked yet.                                              *)
None == [send |-> 0, arrival |-> -1]

(* The thread is sending, or waiting for a packet.                         *)
Idle == [at |-> "idle", clocks |-> FALSE, slot |-> "tcp", send |-> 0, arrival |-> 0, value |-> 0]

(* Who runs reset_run.                                                     *)
Resetters == {"start", "leg"}

Init ==
  /\ now = 0
  /\ sent = 0 /\ jitter_millis = 0
  /\ jitter = [s \in Slots |-> 0]
  /\ last = [s \in Slots |-> None]
  /\ hand = [t \in Threads |-> Idle]
  /\ used = {}
  /\ packet_type \in Protocols
  /\ \E v \in LimitValues \union {0} :
       limits = [p \in Protocols |-> [q \in Parameters |-> IF Supports(p, q) THEN v ELSE 0]]
  /\ configured = 0
  /\ run = 0 /\ legs = 0
  /\ pc = "ready"
  /\ reset = [w \in Resetters |-> "none"]
  /\ outcome = NoOutcome /\ external = NoRow
  /\ transit = [s \in Slots |-> NoTransit]
  /\ deviation = [s \in Slots |-> 0]
  /\ torn = {} /\ disturbed = FALSE

-----------------------------------------------------------------------------

Tick == now < MaxTime /\ now' = now + 1
        /\ UNCHANGED <<counters, traffic, settings, commands, verdict, history>>

Larger(a, b) == IF a < b THEN b ELSE a
Smaller(a, b) == IF a < b THEN a ELSE b

(* A client thread counts a packet; it is about to record by how much the  *)
(* interval since its last one missed the configured pace.                 *)
Send(t, p, missed) ==
  /\ hand[t] = Idle /\ p \in used /\ sent < MaxSent
  /\ sent' = sent + 1
  /\ hand' = [hand EXCEPT ![t] = [Idle EXCEPT !.at = "total", !.slot = Slot(p), !.value = missed]]
  /\ UNCHANGED <<now, jitter_millis, jitter, last, used, settings, commands, verdict, history>>

(* A server thread takes a packet; timestamp_jitter reads the clock before *)
(* it waits for the mutex of the slot's last timestamps.                   *)
Receive(t, p, lag) ==
  /\ hand[t] = Idle /\ p \in used
  /\ hand' = [hand EXCEPT ![t] = [Idle EXCEPT !.at = "clock", !.clocks = TRUE, !.slot = Slot(p),
                                              !.send = now - lag, !.arrival = now]]
  /\ UNCHANGED <<now, counters, last, used, settings, commands, verdict, history>>

Recording == {"total", "slot"}

(* The mutex is held while the thread records.                             *)
Locked(slot) == \E t \in Threads : hand[t].clocks /\ hand[t].slot = slot /\ hand[t].at \in Recording

Abs(n) == IF n < 0 THEN 0 - n ELSE n

(* Mutant: the time between arrivals is taken for jitter.                  *)
ArrivalVariation(h) == Abs(h.arrival - last[h.slot].arrival)

(* How much longer this packet took than the last one clocked in its slot, *)
(* whichever sender and run that one was of.                               *)
DelayVariation(h) == Abs((h.arrival - last[h.slot].arrival) - (h.send - last[h.slot].send))

Widened(range, is_first, value) ==
  IF is_first THEN [least |-> value, greatest |-> value]
  ELSE [least |-> Smaller(range.least, value), greatest |-> Larger(range.greatest, value)]

(* The packet is the last one clocked, and the thread goes on.             *)
Remember(h) ==
  /\ last' = [last EXCEPT ![h.slot] = [send |-> h.send, arrival |-> h.arrival]]
  /\ transit' = [transit EXCEPT ![h.slot] = Widened(@, last[h.slot] = None, h.arrival - h.send)]

(* The very first packet of a slot has nothing to be compared with.        *)
Clock(t) ==
  LET h == hand[t] IN
  /\ h.at = "clock" /\ ~Locked(h.slot)
  /\ \/ /\ last[h.slot] = None
        /\ Remember(h)
        /\ hand' = [hand EXCEPT ![t] = Idle]
     \/ /\ last[h.slot] # None
        /\ hand' = [hand EXCEPT ![t].at = "total", ![t].value = DelayVariation(h)]
        /\ UNCHANGED <<last, transit>>
  /\ UNCHANGED <<now, counters, used, settings, commands, verdict, deviation, torn, disturbed>>

(* Mutant: a plain store of the total.                                     *)
OverwriteTotal(t) ==
  /\ hand[t].at = "total"
  /\ jitter_millis' = hand[t].value
  /\ hand' = [hand EXCEPT ![t].at = "slot"]
  /\ UNCHANGED <<now, sent, jitter, last, used, settings, commands, verdict, history>>

(* record_jitter: fetch_max of the total, ...                              *)
RecordTotal(t) ==
  /\ hand[t].at = "total"
  /\ jitter_millis' = Larger(jitter_millis, hand[t].value)
  /\ hand' = [hand EXCEPT ![t].at = "slot"]
  /\ UNCHANGED <<now, sent, jitter, last, used, settings, commands, verdict, history>>

(* ... and then of the slot.  A clocked packet is remembered before the    *)
(* mutex is released.                                                      *)
RecordSlot(t) ==
  LET h == hand[t] IN
  /\ h.at = "slot"
  /\ jitter' = [jitter EXCEPT ![h.slot] = Larger(@, h.value)]
  /\ hand' = [hand EXCEPT ![t] = Idle]
  /\ \/ h.clocks /\ Remember(h) /\ UNCHANGED deviation
     \/ /\ ~h.clocks
        /\ deviation' = [deviation EXCEPT ![h.slot] = Larger(@, h.value)]
        /\ UNCHANGED <<last, transit>>
  /\ UNCHANGED <<now, sent, jitter_millis, used, settings, commands, verdict, torn, disturbed>>

Work(t) ==
  \/ \E p \in Protocols, missed \in Misses : Send(t, p, missed)
  \/ \E p \in Protocols, lag \in Lags : Receive(t, p, lag)
  \/ Clock(t)
  \/ RecordTotal(t)
  \/ RecordSlot(t)

-----------------------------------------------------------------------------

(* "running": a run is in progress and the operator is at the prompt.      *)
AtPrompt == pc \in {"ready", "running"}

(* A configure command; one that changes nothing is a stuttering step.     *)
Configure ==
  /\ AtPrompt /\ configured < MaxSettings
  /\ configured' = configured + 1
  /\ UNCHANGED <<now, counters, traffic, commands, verdict, history>>

(* configure limits <protocol> <parameter> <value>                         *)
ConfigureLimit(p, parameter, value) ==
  /\ Configure
  /\ Supports(p, parameter)
  /\ limits[p][parameter] # value
  /\ limits' = [limits EXCEPT ![p][parameter] = value]
  /\ UNCHANGED packet_type

(* configure limits <protocol> clear                                       *)
ClearLimits(p) ==
  /\ Configure
  /\ \E q \in Parameters : limits[p][q] # 0
  /\ limits' = [limits EXCEPT ![p] = [q \in Parameters |-> 0]]
  /\ UNCHANGED packet_type

(* Mutant: the name is taken as it was typed.                              *)
KeepName(p) ==
  /\ Configure
  /\ packet_type' = "tpc"
  /\ UNCHANGED limits

(* configure type <protocol>; nothing keeps it from a run in progress.     *)
ConfigureType(p) ==
  /\ Configure
  /\ packet_type # p
  /\ packet_type' = p
  /\ UNCHANGED limits

(* start: reset_run first.                                                 *)
Start ==
  /\ pc = "ready" /\ run < MaxRuns
  /\ pc' = "starting"
  /\ run' = run + 1
  /\ reset' = [reset EXCEPT !["start"] = "sent"]
  /\ outcome' = NoOutcome /\ external' = NoRow
  /\ UNCHANGED <<now, counters, traffic, settings, legs, history>>

(* evaluate_run holds the configuration while it reads.                    *)
Evaluating == pc \in {"jitter", "limits", "detail"}
Judging == Evaluating \/ pc = "record"

(* A selftest leg configures its transport, and calls reset_run as well,   *)
(* whatever the operator's run is doing.                                   *)
Leg(p) ==
  /\ reset["leg"] = "none" /\ legs < MaxLegs /\ ~Evaluating
  /\ legs' = legs + 1
  /\ packet_type' = p
  /\ reset' = [reset EXCEPT !["leg"] = "sent"]
  /\ UNCHANGED <<now, counters, traffic, limits, configured, run, pc, verdict, history>>

(* The stores of reset_run, one after the other.  Threads of the run       *)
(* before may be recording in between.                                     *)
Store(w, counter, next) ==
  /\ reset[w] = counter
  /\ reset' = [reset EXCEPT ![w] = next]
  /\ disturbed' = (disturbed \/ (w = "leg" /\ Judging))
  /\ UNCHANGED <<now, traffic, settings, run, legs, pc, verdict>>

StoreSent(w) ==
  /\ Store(w, "sent", "total")
  /\ sent' = 0
  /\ UNCHANGED <<jitter_millis, jitter, transit, deviation, torn>>

StoreTotal(w) ==
  /\ Store(w, "total", "tcp")
  /\ jitter_millis' = 0
  /\ torn' = {hand[t].slot : t \in {u \in Threads : hand[u].at = "slot"}}
  /\ UNCHANGED <<sent, jitter, transit, deviation>>

(* The last timestamps are not reset.                                      *)
StoreSlot(w, slot) ==
  /\ Store(w, slot, IF slot = "tcp" THEN "udp" ELSE "done")
  /\ jitter' = [jitter EXCEPT ![slot] = 0]
  /\ transit' = [transit EXCEPT ![slot] = LET t == last[slot].arrival - last[slot].send IN
                                           [least |-> t, greatest |-> t]]
  /\ deviation' = [deviation EXCEPT ![slot] = 0]
  /\ UNCHANGED <<sent, jitter_millis, torn>>

ResetRun(w) == StoreSent(w) \/ StoreTotal(w) \/ \E s \in Slots : StoreSlot(w, s)

(* Then the threads are spawned, and take the transport as it is now.      *)
Spawn(w) ==
  /\ reset[w] = "done"
  /\ reset' = [reset EXCEPT ![w] = "none"]
  /\ pc' = IF w = "start" THEN "running" ELSE pc
  /\ used' = used \union {packet_type}
  /\ UNCHANGED <<now, counters, last, hand, settings, run, legs, verdict, history>>

(* evaluate_run: the transport and the limits are those of this moment.    *)
(* The totals first.                                                       *)
ReadTotals ==
  /\ pc = "running"
  /\ pc' = "jitter"
  /\ outcome' = [reasons |-> IF sent = 0 THEN {"no_bytes"} ELSE {}, sent_bytes |-> sent,
                 protocol |-> packet_type, detail |-> NoCounts, limits |-> limits[packet_type]]
  /\ disturbed' = (reset["leg"] \in Slots)
  /\ UNCHANGED <<now, counters, traffic, settings, run, legs, reset, external,
                 transit, deviation, torn>>

Exceeded(slot) == jitter[slot] > MaxJitter

CheckJitter ==
  /\ pc = "jitter"
  /\ pc' = "limits"
  /\ outcome' = [outcome EXCEPT !.reasons = @ \union {s \in Slots : Exceeded(s)}]
  /\ UNCHANGED <<now, counters, traffic, settings, run, legs, reset, external, history>>

Below(measured, limit) == limit > 0 /\ measured < limit
Above(measured, limit) == limit > 0 /\ measured > limit

JitterOf(p) == IF p = "ip" THEN 0 ELSE jitter[Slot(p)]

(* The limits that were not met.                                           *)
Missed ==
  {q \in Parameters :
     \/ q = "min_sent_bytes" /\ Below(outcome.sent_bytes, outcome.limits[q])
     \/ q = "max_jitter_millis" /\ Above(JitterOf(packet_type), outcome.limits[q])}

CheckLimits ==
  /\ pc = "limits"
  /\ pc' = "detail"
  /\ outcome' = [outcome EXCEPT !.reasons = @ \union Missed]
  /\ UNCHANGED <<now, counters, traffic, settings, run, legs, reset, external, history>>

(* RunDetail::from_metrics reads every counter anew.                       *)
TakeDetail ==
  /\ pc = "detail"
  /\ pc' = "record"
  /\ outcome' = [outcome EXCEPT !.detail = [sent |-> sent, total |-> jitter_millis,
                                            jitter |-> jitter]]
  /\ UNCHANGED <<now, counters, traffic, settings, run, legs, reset, external, history>>

(* The debrief may add a reason of its own, and complete_run stores the    *)
(* outcome.                                                                *)
Finish(debrief) ==
  /\ pc = "record"
  /\ pc' = "ready"
  /\ outcome' = [outcome EXCEPT !.reasons = @ \union debrief]
  /\ UNCHANGED <<now, traffic, settings, run, legs, reset, history>>

(* Mutant: the counters are reset before the external row is written.      *)
ResetBeforeRecord(debrief) ==
  /\ Finish(debrief)
  /\ sent' = 0 /\ jitter_millis' = 0 /\ jitter' = [s \in Slots |-> 0]
  /\ external' = NoRow

(* record_final_metrics reads the counters once more, of the jitter the    *)
(* total.                                                                  *)
Record(debrief) ==
  /\ Finish(debrief)
  /\ external' = [sent |-> sent, total |-> jitter_millis]
  /\ UNCHANGED counters

Next ==
  \/ Tick
  \/ \E t \in Threads : Work(t)
  \/ \E p \in Protocols : \/ \E q \in Parameters, v \in LimitValues : ConfigureLimit(p, q, v)
                         \/ ClearLimits(p)
                         \/ ConfigureType(p)
                         \/ Leg(p)
  \/ Start
  \/ \E w \in Resetters : ResetRun(w) \/ Spawn(w)
  \/ ReadTotals
  \/ CheckJitter
  \/ CheckLimits
  \/ TakeDetail
  \/ \E debrief \in {{}, {"debrief"}} : Record(debrief)

Spec == Init /\ [][Next]_vars

-----------------------------------------------------------------------------

TypeOK ==
  /\ now \in 0 .. MaxTime
  /\ sent \in 0 .. MaxSent /\ jitter_millis \in Nat
  /\ jitter \in [Slots -> Nat]
  /\ last \in [Slots -> [send : Int, arrival : -1 .. MaxTime]]
  /\ hand \in [Threads -> [at : {"idle", "clock"} \union Recording, clocks : BOOLEAN,
                           slot : Slots, send : Int, arrival : 0 .. MaxTime, value : Nat]]
  /\ used \subseteq Protocols /\ packet_type \in Protocols
  /\ limits \in [Protocols -> [Parameters -> LimitValues \union {0}]]
  /\ configured \in 0 .. MaxSettings
  /\ run \in 0 .. MaxRuns /\ legs \in 0 .. MaxLegs
  /\ pc \in {"ready", "starting", "running", "jitter", "limits", "detail", "record"}
  /\ reset \in [Resetters -> {"none", "sent", "total", "done"} \union Slots]
  /\ outcome.reasons \subseteq Parameters \union Slots \union {"no_bytes", "debrief"}
  /\ transit \in [Slots -> [least : Int, greatest : Int]]
  /\ deviation \in [Slots -> Misses \union {0}]
  /\ torn \subseteq Slots /\ disturbed \in BOOLEAN

(* How far apart the transit times of a slot's packets were, as the clocks *)
(* of its senders and of the receiver show them.                           *)
Spread(slot) == transit[slot].greatest - transit[slot].least

(* Jitter is delay variation: however senders pace, pause, mix or restart, *)
(* across resets and threads, what is recorded is bounded by how much the  *)
(* transit times differed and by how far sends missed their pace.  A path  *)
(* of constant delay shows none (core.rs, timestamp_jitter: "RFC 3550      *)
(* style delay variation ... without relying on local send intervals").    *)
JitterBounded == \A s \in Slots : jitter[s] <= Larger(Spread(s), deviation[s])

(* The row's total shows the jitter for which the run failed.              *)
TotalExplains(o, row) ==
  /\ \A s \in (o.reasons \intersect Slots) \ torn : row.total > MaxJitter
  /\ "max_jitter_millis" \in o.reasons /\ Slot(o.protocol) \notin torn =>
       row.total > o.limits["max_jitter_millis"]

SlotsExplain(o, row) ==
  /\ \A s \in o.reasons \intersect Slots : row.jitter[s] > MaxJitter
  /\ "max_jitter_millis" \in o.reasons =>
       row.jitter[Slot(o.protocol)] > o.limits["max_jitter_millis"]

SentExplains(o, row) == "no_bytes" \notin o.reasons => row.sent > 0

(* A run that failed for being above a limit says so in its own numbers:   *)
(* the detail stored with it and the external row, which are read later    *)
(* while threads still count and record, are above that limit too.  Two    *)
(* things break it: a recording of an earlier run's thread that the reset  *)
(* came in the middle of leaves its slot, but not the total, behind; and a *)
(* selftest leg may reset the counters while they are read.                *)
FailureIsExplained ==
  [][pc = "record" /\ pc' = "ready" /\ ~disturbed =>
       /\ SlotsExplain(outcome', outcome'.detail)
       /\ \A row \in {[sent |-> outcome'.detail.sent, total |-> outcome'.detail.total], external'} :
             TotalExplains(outcome', row) /\ SentExplains(outcome', row)]_vars

================================================================================
