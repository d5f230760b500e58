-------------------------------- MODULE Datagrams --------------------------------
(***************************************************************************)
(* One run over UDP or raw IP (src/src/core.rs): the sender threads of a   *)
(* client instance, a network that loses, duplicates and reorders, the     *)
(* receive loop of the server with its sequence accounting, and the        *)
(* debrief that compares the counters afterwards.  Every packet of a run   *)
(* has the same size, so the byte counters are multiples of the packet     *)
(* counters.                                                               *)
(***************************************************************************)
EXTENDS Integers, FiniteSets

CONSTANTS
  Clients,      (* sender threads                                           *)
  ClientId,     (* the client id each of them writes into its header        *)
  MaxSeq,       (* bound on the packets of one sender                       *)
  MaxReceived,  (* bound on the packets received, duplicates included       *)
  Waits,        (* is the debrief preceded by execute_profile's 250 ms?     *)
  Settled,      (* has the receive loop ended when the debrief is answered? *)
  PacketSize,   (* udp_packet_size of the run, at least the header          *)
  BufferSize    (* PACKET_SIZE, the receive buffer                          *)

ASSUME DatagramsAssumption ==
  /\ MaxSeq \in Nat
  /\ MaxReceived \in Nat
  /\ Waits \in BOOLEAN
  /\ Settled \in BOOLEAN
  /\ PacketSize \in Nat
  /\ BufferSize \in Nat

None == -1

VARIABLES
  stopping,      (* the client instance's stopping flag                       *)
  sender,        (* each sender thread: "loop", "sent" (not counted), "done"  *)
  sequence,      (* each sender thread's next sequence number                 *)
  sent,          (* client metrics: run_sent_udp_packets                      *)
  wire,          (* datagrams in flight                                       *)
  serving,       (* is the server in its receive loop?                        *)
  pending,       (* datagrams added to received and not yet sequenced         *)
  received,      (* server metrics: run_received_udp_packets                  *)
  expected,      (* expected_sequences by client id, None before the first    *)
  lost,          (* server metrics: lost_udp_packets                          *)
  out_of_order,  (* server metrics: out_of_order_udp_packets                  *)
  debrief,       (* "idle", "asked", "counted", then "match" or "mismatch"    *)
  asked,         (* sent_packets of the debrief request                       *)
  counted,       (* received_packets read for the reply                       *)
  on_wire,       (* history: every datagram ever sent                         *)
  got,           (* history: every datagram the server has sequenced          *)
  fault,         (* history: did the network lose, copy or reorder?           *)
  tail           (* history: were datagrams in flight when received was read? *)

clientVars == <<stopping, sender, sequence, sent>>
serverVars == <<serving, pending, received, expected, lost, out_of_order>>
debriefVars == <<debrief, asked, counted, tail>>
vars == <<clientVars, wire, serverVars, debriefVars, on_wire, got, fault>>

Datagram == Clients \X (0 .. MaxSeq)

(* Mutant: one sequence for all clients.                                   *)
WireOfServer(c) == ClientId[CHOOSE d \in Clients : TRUE]

Wire(c) == ClientId[c]

TypeOK ==
  /\ stopping \in BOOLEAN
  /\ sender \in [Clients -> {"loop", "sent", "done"}]
  /\ sequence \in [Clients -> 0 .. MaxSeq]
  /\ sent \in Nat
  /\ wire \in SUBSET Datagram
  /\ serving \in BOOLEAN
  /\ pending \in SUBSET Datagram
  /\ received \in Nat
  /\ expected \in [{Wire(c) : c \in Clients} -> {None} \union (0 .. MaxSeq)]
  /\ lost \in Nat
  /\ out_of_order \in Nat
  /\ debrief \in {"idle", "asked", "counted", "match", "mismatch"}
  /\ asked \in Nat
  /\ counted \in Nat
  /\ on_wire \in SUBSET Datagram
  /\ got \in SUBSET Datagram
  /\ fault \in BOOLEAN
  /\ tail \in BOOLEAN

(* reset_run() has cleared the counters and the start gate is open.        *)
Init ==
  /\ stopping = FALSE
  /\ sender = [c \in Clients |-> "loop"]
  /\ sequence = [c \in Clients |-> 0]
  /\ sent = 0
  /\ wire = {}
  /\ serving = TRUE
  /\ pending = {}
  /\ received = 0
  /\ expected = [id \in {Wire(c) : c \in Clients} |-> None]
  /\ lost = 0
  /\ out_of_order = 0
  /\ debrief = "idle"
  /\ asked = 0
  /\ counted = 0
  /\ on_wire = {}
  /\ got = {}
  /\ fault = FALSE
  /\ tail = FALSE

-----------------------------------------------------------------------------

(* send_datagrams: the packet leaves first and is counted afterwards.      *)
Send(c) ==
  LET datagram == <<c, sequence[c]>> IN
  /\ sender[c] = "loop"
  /\ ~stopping
  /\ sequence[c] < MaxSeq
  /\ sender' = [sender EXCEPT ![c] = "sent"]
  /\ wire' = wire \union {datagram}
  /\ on_wire' = on_wire \union {datagram}
  /\ UNCHANGED <<stopping, sequence, sent, serverVars, debriefVars, got, fault>>

CountSent(c) ==
  /\ sender[c] = "sent"
  /\ sender' = [sender EXCEPT ![c] = "loop"]
  /\ sent' = sent + 1
  /\ sequence' = [sequence EXCEPT ![c] = @ + 1]
  /\ UNCHANGED <<stopping, wire, serverVars, debriefVars, on_wire, got, fault>>

(* stopping is set, client_runtime is over, or send failed.                *)
Leave(c) ==
  /\ sender[c] = "loop"
  /\ sender' = [sender EXCEPT ![c] = "done"]
  /\ UNCHANGED <<stopping, sequence, sent, wire, serverVars, debriefVars, on_wire, got, fault>>

Stop ==
  /\ ~stopping
  /\ stopping' = TRUE
  /\ UNCHANGED <<sender, sequence, sent, wire, serverVars, debriefVars, on_wire, got, fault>>

-----------------------------------------------------------------------------

Lose(datagram) ==
  /\ wire' = wire \ {datagram}
  /\ fault' = TRUE
  /\ UNCHANGED <<clientVars, serverVars, debriefVars, on_wire, got>>

Overtakes(datagram) ==
  \E other \in wire : other[1] = datagram[1] /\ other[2] < datagram[2]

(* receive_datagram, first half: metrics.add(false, ...).  The network may *)
(* keep a copy in flight.                                                  *)
Receive(datagram, copied) ==
  /\ serving
  /\ pending = {}
  /\ received < MaxReceived
  /\ wire' = IF copied THEN wire ELSE wire \ {datagram}
  /\ pending' = {datagram}
  /\ received' = received + 1
  /\ fault' = (fault \/ copied \/ Overtakes(datagram))
  /\ UNCHANGED <<clientVars, serving, expected, lost, out_of_order, debriefVars, on_wire, got>>

(* Mutant: a late datagram counts a negative loss.                         *)
SequenceUnguarded(datagram) ==
  LET id == Wire(datagram[1])
      previous == expected[id]
      current == datagram[2]
  IN
  /\ pending = {datagram}
  /\ pending' = {}
  /\ lost' = IF previous # None THEN lost + (current - previous - 1) ELSE lost
  /\ out_of_order' = IF previous # None /\ current <= previous
                     THEN out_of_order + 1 ELSE out_of_order
  /\ expected' = [expected EXCEPT ![id] = IF current > previous THEN current ELSE previous]
  /\ got' = got \union {datagram}
  /\ UNCHANGED <<clientVars, wire, serving, received, debriefVars, on_wire, fault>>

(* Mutant: the next sequence number is stored and compared as the last.    *)
SequenceStoresNext(datagram) ==
  LET id == Wire(datagram[1])
      previous == expected[id]
      current == datagram[2]
  IN
  /\ pending = {datagram}
  /\ pending' = {}
  /\ lost' = IF previous # None /\ current > previous + 1
             THEN lost + (current - previous - 1) ELSE lost
  /\ out_of_order' = IF previous # None /\ current <= previous
                     THEN out_of_order + 1 ELSE out_of_order
  /\ expected' = [expected EXCEPT ![id] = current + 1]
  /\ got' = got \union {datagram}
  /\ UNCHANGED <<clientVars, wire, serving, received, debriefVars, on_wire, fault>>

(* receive_datagram, second half: udp_sequence.                            *)
UdpSequence(datagram) ==
  LET id == Wire(datagram[1])
      previous == expected[id]
      current == datagram[2]
  IN
  /\ pending = {datagram}
  /\ pending' = {}
  /\ lost' = IF previous # None /\ current > previous + 1
             THEN lost + (current - previous - 1) ELSE lost
  /\ out_of_order' = IF previous # None /\ current <= previous
                     THEN out_of_order + 1 ELSE out_of_order
  /\ expected' = [expected EXCEPT ![id] = IF current > previous THEN current ELSE previous]
  /\ got' = got \union {datagram}
  /\ UNCHANGED <<clientVars, wire, serving, received, debriefVars, on_wire, fault>>

(* The receive loop sees its own instance's stopping flag, or its runtime  *)
(* is over.                                                                *)
ServerLeaves ==
  /\ serving
  /\ pending = {}
  /\ serving' = FALSE
  /\ UNCHANGED <<clientVars, wire, pending, received, expected, lost, out_of_order,
                 debriefVars, on_wire, got, fault>>

-----------------------------------------------------------------------------

(* run_debrief: the sent counter goes into the request.                    *)
Ask ==
  /\ stopping
  /\ debrief = "idle"
  /\ Waits => \A c \in Clients : sender[c] # "sent"
  /\ debrief' = "asked"
  /\ asked' = sent
  /\ UNCHANGED <<clientVars, wire, serverVars, counted, tail, on_wire, got, fault>>

(* serve_debrief: run_counts(false, protocol), then udp_status().          *)
ReadCounts ==
  /\ debrief = "asked"
  /\ Settled => ~serving
  /\ debrief' = "counted"
  /\ counted' = received
  /\ tail' = (wire # {})
  /\ UNCHANGED <<clientVars, wire, serverVars, asked, on_wire, got, fault>>

(* What recv_from leaves in the buffer.                                    *)
Taken == IF PacketSize > BufferSize THEN BufferSize ELSE PacketSize

Tallies == asked = counted /\ asked * PacketSize = counted * Taken

(* Mutant: reordering does not make a mismatch.                            *)
ReadLostOnly ==
  /\ debrief = "counted"
  /\ debrief' = IF Tallies /\ lost = 0 THEN "match" ELSE "mismatch"
  /\ UNCHANGED <<clientVars, wire, serverVars, asked, counted, tail, on_wire, got, fault>>

(* mismatch_reason on the figures of the reply.                            *)
ReadStatus ==
  /\ debrief = "counted"
  /\ debrief' = IF Tallies /\ lost = 0 /\ out_of_order = 0
                THEN "match" ELSE "mismatch"
  /\ UNCHANGED <<clientVars, wire, serverVars, asked, counted, tail, on_wire, got, fault>>

Next ==
  \/ \E c \in Clients : Send(c) \/ CountSent(c) \/ Leave(c)
  \/ Stop
  \/ \E datagram \in wire : Lose(datagram)
  \/ \E datagram \in wire, copied \in BOOLEAN : Receive(datagram, copied)
  \/ \E datagram \in pending : UdpSequence(datagram)
  \/ ServerLeaves
  \/ Ask
  \/ ReadCounts
  \/ ReadStatus

Spec == Init /\ [][Next]_vars

-----------------------------------------------------------------------------

(* A debrief that matches means that every datagram put on the wire was    *)
(* received, whatever was duplicated and reordered on the way:             *)
(* duplicates cannot make up for losses (src/doc/netmark.md, "The          *)
(* debrief": no loss and no reordering, or the run fails).                 *)
MatchIsSound == debrief = "match" => got = on_wire

(* On a network that did nothing wrong a mismatch is only ever due to      *)
(* datagrams still in flight when the server read its counter, as long as  *)
(* a datagram fits the receive buffer.                                     *)
NoFalseAlarm == ~fault /\ debrief = "mismatch" => tail

(* A network that keeps each sender's order is never reported to lose or   *)
(* to reorder, however the senders interleave: sequence numbers are per    *)
(* client (core.rs, UDP_HEADER_LEN).                                       *)
NoFalseFlags == ~fault => lost = 0 /\ out_of_order = 0

================================================================================
