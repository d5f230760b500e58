----------------------------- MODULE DatagramsProofs -----------------------------
(***************************************************************************)
(* Proofs about Datagrams for any set of senders and any bounds.  The      *)
(* invariant comes in three layers: WireInv relates the counters to the    *)
(* datagrams whatever the network does; DebriefInv adds the debrief, given *)
(* the wait before it and a receive loop that has ended; OrderInv adds     *)
(* what a faultless network guarantees, given distinct client ids.         *)
(***************************************************************************)
EXTENDS Datagrams, FiniteSetTheorems, TLAPS

(* The datagrams whose sender has counted them. *)
Logged == {d \in on_wire : d[2] < sequence[d[1]]}

Numbered ==
  \A c \in Clients, k \in 0 .. MaxSeq :
    <<c, k>> \in on_wire <=> k < sequence[c] \/ (k = sequence[c] /\ sender[c] = "sent")

Counters ==
  /\ sent = Cardinality(Logged)
  /\ out_of_order = 0 => received = Cardinality(got) + (IF pending = {} THEN 0 ELSE 1)

Places ==
  /\ IsFiniteSet(on_wire)
  /\ got \subseteq on_wire
  /\ wire \subseteq on_wire
  /\ pending \subseteq on_wire
  /\ pending # {} => serving /\ \E d \in on_wire : pending = {d}
  /\ \A d \in got : d[2] <= expected[Wire(d[1])]

WireInv ==
  /\ TypeOK
  /\ \A c \in Clients : sender[c] = "sent" => sequence[c] < MaxSeq
  /\ Numbered
  /\ Places
  /\ Counters

DebriefInv ==
  /\ debrief # "idle" => /\ stopping
                         /\ \A c \in Clients : sender[c] # "sent"
                         /\ asked = Cardinality(on_wire)
  /\ debrief \in {"counted", "match", "mismatch"} => ~serving /\ counted = received
  /\ debrief = "match" => out_of_order = 0 /\ asked = counted

Injective == \A c, d \in Clients : Wire(c) = Wire(d) => c = d

OrderInv ==
  /\ \A c \in Clients :
       \/ expected[Wire(c)] < sequence[c]
       \/ expected[Wire(c)] = sequence[c] /\ sender[c] = "sent"
  /\ ~fault =>
       /\ lost = 0
       /\ out_of_order = 0
       /\ on_wire = got \union pending \union wire
       /\ \A d \in wire : d[2] > expected[Wire(d[1])] /\ d \notin pending
       /\ \A d \in pending : d[2] = expected[Wire(d[1])] + 1

AlarmInv ==
  ~fault =>
    /\ debrief = "counted" /\ ~tail => wire = {}
    /\ debrief = "mismatch" => tail

-----------------------------------------------------------------------------

(* A datagram is a pair of a sender and a sequence number.                 *)
LEMMA DatagramParts ==
  ASSUME NEW d \in Datagram
  PROVE  d[1] \in Clients /\ d[2] \in 0 .. MaxSeq /\ d = <<d[1], d[2]>>
BY DatagramsAssumption DEF Datagram

(* The counters agree with the datagrams in every reachable state, on any  *)
(* network.                                                                *)
LEMMA WireInvariant == Spec => []WireInv
<1> USE DatagramsAssumption
<1>1. Init => WireInv
  <2> SUFFICES ASSUME Init PROVE WireInv
    OBVIOUS
  <2>1. TypeOK
    <3>1. expected \in [{Wire(c) : c \in Clients} -> {None} \union (0 .. MaxSeq)]
      BY DEF Init
    <3>2. sequence \in [Clients -> 0 .. MaxSeq]
      BY DEF Init
    <3>3. sender \in [Clients -> {"loop", "sent", "done"}]
      BY DEF Init
    <3>4. QED
      BY <3>1, <3>2, <3>3 DEF Init, TypeOK
  <2>2. Numbered
    BY DEF Init, Numbered
  <2>3. Places
    BY FS_EmptySet DEF Init, Places
  <2>4. Logged = {}
    BY DEF Logged, Init
  <2>5. Counters
    BY <2>4, FS_EmptySet DEF Init, Counters
  <2>6. QED
    BY <2>1, <2>2, <2>3, <2>5 DEF WireInv, Init
<1>2. WireInv /\ [Next]_vars => WireInv'
  <2> SUFFICES ASSUME WireInv, [Next]_vars PROVE WireInv'
    OBVIOUS
  <2>ty. TypeOK
    BY DEF WireInv
  <2>1. ASSUME NEW c \in Clients, Send(c) PROVE WireInv'
    <3> DEFINE datagram == <<c, sequence[c]>>
    <3>1. /\ sender[c] = "loop" /\ sequence[c] < MaxSeq
          /\ sender' = [sender EXCEPT ![c] = "sent"]
          /\ wire' = wire \union {datagram}
          /\ on_wire' = on_wire \union {datagram}
          /\ UNCHANGED <<stopping, sequence, sent, serverVars, debriefVars, got, fault>>
      BY <2>1 DEF Send
    <3>2. sequence[c] \in 0 .. MaxSeq /\ datagram \in Datagram
      BY <2>ty DEF TypeOK, Datagram
    <3>3. datagram \notin on_wire
      BY <3>1, <3>2 DEF WireInv, Numbered
    <3>4. TypeOK'
      BY <3>1, <3>2, <2>ty DEF TypeOK, serverVars, debriefVars
    <3>5. Numbered'
      BY <3>1, <3>2, <2>ty DEF WireInv, Numbered, TypeOK
    <3>6. Places'
      BY <3>1, FS_AddElement DEF WireInv, Places, serverVars, Wire
    <3>7. Logged' = Logged
      <4>1. datagram[1] = c /\ datagram[2] = sequence[c]
        OBVIOUS
      <4>2. QED
        BY <3>1, <3>2, <4>1 DEF Logged
    <3>8. Counters'
      BY <3>1, <3>7 DEF WireInv, Counters, serverVars
    <3>9. \A b \in Clients : sender'[b] = "sent" => sequence'[b] < MaxSeq
      BY <3>1, <2>ty DEF WireInv, TypeOK
    <3>10. QED
      BY <3>4, <3>5, <3>6, <3>8, <3>9 DEF WireInv
  <2>2. ASSUME NEW c \in Clients, CountSent(c) PROVE WireInv'
    <3> DEFINE datagram == <<c, sequence[c]>>
    <3>1. /\ sender[c] = "sent" /\ sequence[c] < MaxSeq
          /\ sender' = [sender EXCEPT ![c] = "loop"]
          /\ sent' = sent + 1
          /\ sequence' = [sequence EXCEPT ![c] = @ + 1]
          /\ UNCHANGED <<stopping, wire, serverVars, debriefVars, on_wire, got, fault>>
      BY <2>2 DEF CountSent, WireInv
    <3>2. sequence[c] \in 0 .. MaxSeq
      BY <2>ty DEF TypeOK
    <3>3. datagram \in on_wire
      BY <3>1, <3>2 DEF WireInv, Numbered
    <3>4. TypeOK'
      <4>1. sequence' \in [Clients -> 0 .. MaxSeq] /\ sent' \in Nat
        BY <3>1, <3>2, <2>ty DEF TypeOK
      <4>2. QED
        BY <3>1, <4>1, <2>ty DEF TypeOK, serverVars, debriefVars
    <3>5. Numbered'
      <4>1. ASSUME NEW b \in Clients, NEW k \in 0 .. MaxSeq
            PROVE  (k < sequence'[b] \/ (k = sequence'[b] /\ sender'[b] = "sent"))
                     <=> (k < sequence[b] \/ (k = sequence[b] /\ sender[b] = "sent"))
        <5>1. CASE b = c
          <6>1. sequence'[b] = sequence[b] + 1 /\ sender'[b] = "loop"
            BY <5>1, <3>1, <2>ty DEF TypeOK
          <6>2. QED
            BY <6>1, <5>1, <3>1, <3>2
        <5>2. CASE b # c
          BY <5>2, <3>1, <2>ty DEF TypeOK
        <5>3. QED
          BY <5>1, <5>2
      <4>2. QED
        BY <4>1, <3>1 DEF WireInv, Numbered
    <3>6. Places'
      BY <3>1 DEF WireInv, Places, serverVars, Wire
    <3>7. Logged' = Logged \union {datagram} /\ datagram \notin Logged
      <4>1. datagram[1] = c /\ datagram[2] = sequence[c] /\ sequence'[c] = sequence[c] + 1
        BY <3>1, <2>ty DEF TypeOK
      <4>2. datagram \notin Logged
        BY <4>1, <3>2 DEF Logged
      <4>3. ASSUME NEW d \in on_wire
            PROVE  d[2] < sequence'[d[1]] <=> d[2] < sequence[d[1]] \/ d = datagram
        <5>1. d[1] \in Clients /\ d[2] \in 0 .. MaxSeq /\ d = <<d[1], d[2]>>
          BY <2>ty, DatagramParts DEF TypeOK
        <5>2. CASE d[1] = c
          BY <5>1, <5>2, <4>1, <3>2
        <5>3. CASE d[1] # c
          BY <5>1, <5>3, <3>1, <2>ty DEF TypeOK
        <5>4. QED
          BY <5>2, <5>3
      <4>4. on_wire' = on_wire
        BY <3>1
      <4>5. QED
        BY <4>2, <4>3, <4>4, <3>3 DEF Logged
    <3>8. sent' = Cardinality(Logged')
      <4>1. IsFiniteSet(Logged)
        BY FS_Subset DEF WireInv, Places, Logged
      <4>2. Cardinality(Logged \union {datagram}) = Cardinality(Logged) + 1
        BY <4>1, <3>7, FS_AddElement
      <4>3. QED
        BY <4>2, <3>7, <3>1 DEF WireInv, Counters
    <3>9. Counters'
      BY <3>1, <3>8 DEF WireInv, Counters, serverVars
    <3>10. \A b \in Clients : sender'[b] = "sent" => sequence'[b] < MaxSeq
      BY <3>1, <2>ty DEF WireInv, TypeOK
    <3>11. QED
      BY <3>4, <3>5, <3>6, <3>9, <3>10 DEF WireInv
  <2>3. ASSUME NEW c \in Clients, Leave(c) PROVE WireInv'
    <3>1. /\ sender[c] = "loop"
          /\ sender' = [sender EXCEPT ![c] = "done"]
          /\ UNCHANGED <<stopping, sequence, sent, wire, serverVars, debriefVars, on_wire, got, fault>>
      BY <2>3 DEF Leave
    <3>2. TypeOK'
      BY <3>1, <2>ty DEF TypeOK, serverVars, debriefVars
    <3>3. Numbered'
      BY <3>1, <2>ty DEF WireInv, Numbered, TypeOK
    <3>4. Places' /\ Counters'
      BY <3>1 DEF WireInv, Places, Counters, Logged, serverVars, Wire
    <3>5. QED
      BY <3>1, <3>2, <3>3, <3>4, <2>ty DEF WireInv, TypeOK
  <2>4. ASSUME NEW datagram \in wire, NEW copied \in BOOLEAN, Receive(datagram, copied)
        PROVE  WireInv'
    <3>1. /\ serving /\ pending = {}
          /\ wire' \subseteq wire
          /\ pending' = {datagram}
          /\ received' = received + 1
          /\ fault' \in BOOLEAN
          /\ UNCHANGED <<clientVars, serving, expected, lost, out_of_order, debriefVars, on_wire, got>>
      BY <2>4, <2>ty DEF Receive, TypeOK, Overtakes
    <3>2. datagram \in on_wire /\ datagram \in Datagram
      BY <2>ty DEF WireInv, Places, TypeOK
    <3>3. TypeOK'
      BY <3>1, <3>2, <2>ty DEF TypeOK, clientVars, debriefVars
    <3>4. Numbered'
      BY <3>1 DEF WireInv, Numbered, clientVars
    <3>5. Places'
      BY <3>1, <3>2 DEF WireInv, Places, clientVars, Wire
    <3>6. Cardinality(got) \in Nat
      BY FS_Subset, FS_CardinalityType DEF WireInv, Places
    <3>7. Counters'
      <4>1. Logged' = Logged
        BY <3>1 DEF Logged, clientVars
      <4>2. QED
        BY <4>1, <3>1, <3>6, <2>ty DEF WireInv, Counters, clientVars, TypeOK
    <3>8. QED
      BY <3>1, <3>3, <3>4, <3>5, <3>7 DEF WireInv, clientVars
  <2>5. ASSUME NEW datagram \in pending, UdpSequence(datagram) PROVE WireInv'
    <3> DEFINE id == Wire(datagram[1])
               previous == expected[id]
               current == datagram[2]
    <3>1. /\ pending = {datagram} /\ pending' = {}
          /\ lost' = (IF previous # None /\ current > previous + 1
                      THEN lost + (current - previous - 1) ELSE lost)
          /\ out_of_order' = (IF previous # None /\ current <= previous
                              THEN out_of_order + 1 ELSE out_of_order)
          /\ expected' = [expected EXCEPT ![id] = IF current > previous THEN current ELSE previous]
          /\ got' = got \union {datagram}
          /\ UNCHANGED <<clientVars, wire, serving, received, debriefVars, on_wire, fault>>
      BY <2>5 DEF UdpSequence
    <3>2. /\ datagram \in on_wire /\ datagram \in Datagram
          /\ datagram[1] \in Clients /\ current \in 0 .. MaxSeq
          /\ previous \in {-1} \union (0 .. MaxSeq)
      <4>1. datagram \in on_wire /\ datagram \in Datagram
        BY <2>ty DEF WireInv, Places, TypeOK
      <4>2. datagram[1] \in Clients /\ current \in 0 .. MaxSeq
        BY <4>1, DatagramParts
      <4>3. QED
        BY <4>1, <4>2, <2>ty DEF TypeOK, None
    <3>3. expected' \in [{Wire(c) : c \in Clients} -> {-1} \union (0 .. MaxSeq)]
      BY <3>1, <3>2, <2>ty DEF TypeOK, None
    <3>4. TypeOK'
      <4>1. lost' \in Nat /\ out_of_order' \in Nat
        BY <3>1, <3>2, <2>ty DEF TypeOK, None
      <4>2. QED
        BY <3>1, <3>2, <3>3, <4>1, <2>ty DEF TypeOK, clientVars, debriefVars, None
    <3>5. Numbered'
      BY <3>1 DEF WireInv, Numbered, clientVars
    <3>6. \A d \in got' : d[2] <= expected'[Wire(d[1])]
      <4> SUFFICES ASSUME NEW d \in got' PROVE d[2] <= expected'[Wire(d[1])]
        BY DEF Wire
      <4>1. d \in on_wire /\ d \in Datagram
        BY <3>1, <3>2, <2>ty DEF WireInv, Places, TypeOK
      <4>2. d[1] \in Clients /\ d[2] \in 0 .. MaxSeq
        BY <4>1, DatagramParts
      <4>3. expected[Wire(d[1])] \in {-1} \union (0 .. MaxSeq)
        BY <4>2, <2>ty DEF TypeOK, None
      <4>4. expected'[Wire(d[1])] >= expected[Wire(d[1])]
        BY <3>1, <3>2, <4>2, <4>3, <2>ty DEF TypeOK
      <4>5. CASE d \in got
        BY <4>2, <4>3, <4>4, <4>5, <3>3, <3>2 DEF WireInv, Places
      <4>6. CASE d = datagram
        BY <3>1, <3>2, <4>6, <2>ty DEF TypeOK
      <4>7. QED
        BY <4>5, <4>6, <3>1
    <3>7. Places'
      BY <3>1, <3>2, <3>6 DEF WireInv, Places, Wire
    <3>8. Counters'
      <4>1. Logged' = Logged /\ sent' = sent
        BY <3>1 DEF Logged, clientVars
      <4>2. ASSUME out_of_order' = 0 PROVE received' = Cardinality(got')
        <5>1. out_of_order = 0 /\ current > previous
          BY <4>2, <3>1, <3>2, <2>ty DEF TypeOK, None
        <5>2. datagram \notin got
          BY <5>1, <3>2 DEF WireInv, Places
        <5>3. IsFiniteSet(got) /\ Cardinality(got) \in Nat
          BY FS_Subset, FS_CardinalityType DEF WireInv, Places
        <5>4. Cardinality(got') = Cardinality(got) + 1
          BY <5>2, <5>3, <3>1, FS_AddElement
        <5>5. QED
          BY <5>1, <5>4, <3>1 DEF WireInv, Counters
      <4>3. Cardinality(got') + 0 = Cardinality(got')
        BY <3>7, FS_Subset, FS_CardinalityType DEF Places
      <4>4. QED
        BY <4>1, <4>2, <4>3, <3>1 DEF WireInv, Counters
    <3>9. QED
      BY <3>1, <3>4, <3>5, <3>7, <3>8 DEF WireInv, clientVars
  <2>6. CASE ServerLeaves
    BY <2>6 DEF ServerLeaves, WireInv, TypeOK, Numbered, Places, Counters, Logged, clientVars,
                debriefVars, Wire
  <2>7. ASSUME NEW datagram \in wire, Lose(datagram) PROVE WireInv'
    BY <2>7 DEF Lose, WireInv, TypeOK, Numbered, Places, Counters, Logged, clientVars,
                serverVars, debriefVars, Wire
  <2>8. CASE Stop
    BY <2>8 DEF Stop, WireInv, TypeOK, Numbered, Places, Counters, Logged, serverVars,
                debriefVars, Wire
  <2>9. CASE Ask \/ ReadCounts \/ ReadStatus
    <3>1. /\ debrief' \in {"idle", "asked", "counted", "match", "mismatch"}
          /\ asked' \in Nat /\ counted' \in Nat /\ tail' \in BOOLEAN
          /\ UNCHANGED <<clientVars, wire, serverVars, on_wire, got, fault>>
      BY <2>9, <2>ty DEF Ask, ReadCounts, ReadStatus, TypeOK, clientVars
    <3>2. QED
      BY <3>1 DEF WireInv, TypeOK, Numbered, Places, Counters, Logged, clientVars, serverVars, Wire
  <2>10. CASE UNCHANGED vars
    BY <2>10 DEF vars, WireInv, TypeOK, Numbered, Places, Counters, Logged, clientVars,
                 serverVars, debriefVars, Wire
  <2>11. QED
    BY <2>1, <2>2, <2>3, <2>4, <2>5, <2>6, <2>7, <2>8, <2>9, <2>10 DEF Next
<1>3. QED
  BY <1>1, <1>2, PTL DEF Spec

(* Every variable keeps its type.                                          *)
THEOREM TypeCorrect == Spec => []TypeOK
<1>1. WireInv => TypeOK
  BY DEF WireInv
<1>2. QED
  BY <1>1, WireInvariant, PTL

-----------------------------------------------------------------------------

(* With the wait before the debrief and the receive loop ended, the        *)
(* figures compared are the figures of the whole run.                      *)
LEMMA DebriefInvariant ==
  ASSUME Waits, Settled
  PROVE  Spec => []DebriefInv
<1>1. Init => DebriefInv
  BY DEF Init, DebriefInv
<1>2. WireInv /\ DebriefInv /\ [Next]_vars => DebriefInv'
  <2> SUFFICES ASSUME WireInv, DebriefInv, [Next]_vars PROVE DebriefInv'
    OBVIOUS
  <2>ty. TypeOK /\ (pending # {} => serving)
    BY DEF WireInv, Places
  <2>1. ASSUME NEW c \in Clients, Send(c) PROVE DebriefInv'
    BY <2>1, <2>ty DEF Send, DebriefInv, TypeOK, serverVars, debriefVars
  <2>2. ASSUME NEW c \in Clients, CountSent(c) PROVE DebriefInv'
    <3>1. debrief = "idle"
      BY <2>2 DEF CountSent, DebriefInv
    <3>2. QED
      BY <3>1, <2>2 DEF CountSent, DebriefInv, debriefVars
  <2>3. ASSUME NEW c \in Clients, Leave(c) PROVE DebriefInv'
    <3>1. \A b \in Clients : sender[b] # "sent" => sender'[b] # "sent"
      BY <2>3, <2>ty DEF Leave, TypeOK
    <3>2. QED
      BY <3>1, <2>3 DEF Leave, DebriefInv, serverVars, debriefVars
  <2>4. CASE Stop
    BY <2>4 DEF Stop, DebriefInv, serverVars, debriefVars
  <2>5. ASSUME NEW datagram \in wire, Lose(datagram) PROVE DebriefInv'
    BY <2>5 DEF Lose, DebriefInv, clientVars, serverVars, debriefVars
  <2>6. ASSUME NEW datagram \in wire, NEW copied \in BOOLEAN, Receive(datagram, copied)
        PROVE  DebriefInv'
    BY <2>6 DEF Receive, DebriefInv, clientVars, debriefVars
  <2>7. ASSUME NEW datagram \in pending, UdpSequence(datagram) PROVE DebriefInv'
    <3>1. serving
      BY <2>7, <2>ty
    <3>2. QED
      BY <3>1, <2>7 DEF UdpSequence, DebriefInv, clientVars, debriefVars
  <2>8. CASE ServerLeaves
    BY <2>8 DEF ServerLeaves, DebriefInv, clientVars, debriefVars
  <2>9. CASE Ask
    <3>1. \A c \in Clients : sender[c] # "sent"
      BY <2>9 DEF Ask
    <3>2. Logged = on_wire
      <4>1. ASSUME NEW d \in on_wire PROVE d[2] < sequence[d[1]]
        <5>1. d[1] \in Clients /\ d[2] \in 0 .. MaxSeq /\ d = <<d[1], d[2]>>
          BY <2>ty, DatagramParts DEF TypeOK
        <5>2. QED
          BY <5>1, <3>1 DEF WireInv, Numbered
      <4>2. QED
        BY <4>1 DEF Logged
    <3>3. asked' = Cardinality(on_wire)
      BY <3>2, <2>9 DEF Ask, WireInv, Counters
    <3>4. QED
      BY <3>1, <3>3, <2>9 DEF Ask, DebriefInv, clientVars
  <2>10. CASE ReadCounts
    BY <2>10 DEF ReadCounts, DebriefInv, clientVars, serverVars
  <2>11. CASE ReadStatus
    BY <2>11 DEF ReadStatus, Tallies, DebriefInv, clientVars, serverVars
  <2>12. CASE UNCHANGED vars
    BY <2>12 DEF vars, DebriefInv, clientVars, serverVars, debriefVars
  <2>13. QED
    BY <2>1, <2>2, <2>3, <2>4, <2>5, <2>6, <2>7, <2>8, <2>9, <2>10, <2>11, <2>12 DEF Next
<1>3. QED
  BY <1>1, <1>2, WireInvariant, PTL DEF Spec

(* The debrief tells the server what the client put on the wire            *)
(* (src/doc/netmark.md, "How it works").                                   *)
AskedIsOnWire == debrief # "idle" => asked = Cardinality(on_wire)

(* The request carries exactly what the client put on the wire when the    *)
(* drain of execute_profile comes first.                                   *)
THEOREM AskedIsExact ==
  ASSUME Waits, Settled
  PROVE  Spec => []AskedIsOnWire
<1>1. DebriefInv => AskedIsOnWire
  BY DEF DebriefInv, AskedIsOnWire
<1>2. QED
  BY <1>1, DebriefInvariant, PTL

(* A debrief that matches proves that nothing was lost, for any number of  *)
(* senders and packets and any behaviour of the network.                   *)
THEOREM MatchProvesDelivery ==
  ASSUME Waits, Settled
  PROVE  Spec => []MatchIsSound
<1>1. WireInv /\ DebriefInv => MatchIsSound
  <2> SUFFICES ASSUME WireInv, DebriefInv, debrief = "match" PROVE got = on_wire
    BY DEF MatchIsSound
  <2>1. pending = {} /\ asked = Cardinality(on_wire) /\ asked = received /\ out_of_order = 0
    BY DEF DebriefInv, WireInv, Places
  <2>2. IsFiniteSet(on_wire) /\ got \in SUBSET on_wire
    BY DEF WireInv, Places
  <2>3. Cardinality(got) \in Nat
    BY <2>2, FS_Subset, FS_CardinalityType
  <2>4. received = Cardinality(got)
    BY <2>1, <2>3 DEF WireInv, Counters
  <2>5. QED
    BY <2>1, <2>2, <2>4, FS_Subset
<1>2. QED
  BY <1>1, WireInvariant, DebriefInvariant, PTL

-----------------------------------------------------------------------------

(* On a faultless network each sender's datagrams are sequenced in the     *)
(* order of their numbers, one after the other.                            *)
LEMMA OrderInvariant ==
  ASSUME Injective
  PROVE  Spec => []OrderInv
<1> USE DatagramsAssumption
<1>1. Init => OrderInv
  <2> SUFFICES ASSUME Init PROVE OrderInv
    OBVIOUS
  <2>1. \A c \in Clients : expected[Wire(c)] = -1 /\ sequence[c] = 0
    BY DEF Init, None
  <2>2. QED
    BY <2>1 DEF Init, OrderInv
<1>2. WireInv /\ OrderInv /\ [Next]_vars => OrderInv'
  <2> SUFFICES ASSUME WireInv, OrderInv, [Next]_vars PROVE OrderInv'
    OBVIOUS
  <2>ty. TypeOK
    BY DEF WireInv
  <2>ex. \A c \in Clients : expected[Wire(c)] \in {-1} \union (0 .. MaxSeq)
    BY <2>ty DEF TypeOK, None
  <2>pt. \A d \in on_wire \union wire \union pending :
           d[1] \in Clients /\ d[2] \in 0 .. MaxSeq /\ d = <<d[1], d[2]>>
    BY <2>ty, DatagramParts DEF TypeOK
  <2>1. ASSUME NEW c \in Clients, Send(c) PROVE OrderInv'
    <3> DEFINE datagram == <<c, sequence[c]>>
    <3>1. /\ sender[c] = "loop" /\ sequence[c] < MaxSeq
          /\ sender' = [sender EXCEPT ![c] = "sent"]
          /\ wire' = wire \union {datagram}
          /\ on_wire' = on_wire \union {datagram}
          /\ UNCHANGED <<sequence, serverVars, got, fault>>
      BY <2>1 DEF Send
    <3>2. sequence[c] \in 0 .. MaxSeq
      BY <2>ty DEF TypeOK
    <3>3. datagram \notin on_wire /\ datagram \notin pending
      BY <3>1, <3>2 DEF WireInv, Numbered, Places
    <3>4. expected[Wire(c)] < sequence[c]
      BY <3>1 DEF OrderInv
    <3>5. \A b \in Clients :
            \/ expected[Wire(b)] < sequence[b]
            \/ expected[Wire(b)] = sequence[b] /\ sender'[b] = "sent"
      BY <3>1, <2>ty DEF OrderInv, TypeOK
    <3>6. datagram[1] = c /\ datagram[2] = sequence[c]
      OBVIOUS
    <3>7. \A d \in wire' : ~fault => d[2] > expected[Wire(d[1])] /\ d \notin pending
      <4>1. datagram[2] > expected[Wire(datagram[1])]
        BY <3>4, <3>6, <3>2, <2>ex
      <4>2. QED
        BY <4>1, <3>1, <3>3 DEF OrderInv
    <3>8. QED
      BY <3>1, <3>5, <3>7 DEF OrderInv, serverVars, Wire
  <2>2. ASSUME NEW c \in Clients, CountSent(c) PROVE OrderInv'
    <3>1. /\ sender' = [sender EXCEPT ![c] = "loop"]
          /\ sequence' = [sequence EXCEPT ![c] = @ + 1]
          /\ UNCHANGED <<wire, serverVars, on_wire, got, fault>>
      BY <2>2 DEF CountSent
    <3>2. ASSUME NEW b \in Clients
          PROVE  \/ expected[Wire(b)] < sequence'[b]
                 \/ expected[Wire(b)] = sequence'[b] /\ sender'[b] = "sent"
      <4>1. CASE b = c
        <5>1. sequence'[b] = sequence[b] + 1 /\ sequence[b] \in 0 .. MaxSeq
          BY <4>1, <3>1, <2>ty DEF TypeOK
        <5>2. QED
          BY <5>1, <2>ex DEF OrderInv
      <4>2. CASE b # c
        BY <4>2, <3>1, <2>ty DEF OrderInv, TypeOK
      <4>3. QED
        BY <4>1, <4>2
    <3>3. QED
      BY <3>1, <3>2 DEF OrderInv, serverVars, Wire
  <2>3. ASSUME NEW c \in Clients, Leave(c) PROVE OrderInv'
    <3>1. /\ sender[c] = "loop"
          /\ sender' = [sender EXCEPT ![c] = "done"]
          /\ UNCHANGED <<sequence, wire, serverVars, on_wire, got, fault>>
      BY <2>3 DEF Leave
    <3>2. \A b \in Clients : sender[b] = "sent" => sender'[b] = "sent"
      BY <3>1, <2>ty DEF TypeOK
    <3>3. QED
      BY <3>1, <3>2 DEF OrderInv, serverVars, Wire
  <2>4. ASSUME NEW datagram \in wire, Lose(datagram) PROVE OrderInv'
    BY <2>4 DEF Lose, OrderInv, clientVars, serverVars, Wire
  <2>5. ASSUME NEW datagram \in wire, NEW copied \in BOOLEAN, Receive(datagram, copied)
        PROVE  OrderInv'
    <3>1. /\ pending = {}
          /\ wire' = (IF copied THEN wire ELSE wire \ {datagram})
          /\ pending' = {datagram}
          /\ fault' = (fault \/ copied \/ Overtakes(datagram))
          /\ UNCHANGED <<sender, sequence, expected, lost, out_of_order, on_wire, got>>
      BY <2>5 DEF Receive, clientVars
    <3>2. ASSUME ~fault' PROVE datagram[2] = expected[Wire(datagram[1])] + 1
      <4>1. ~fault /\ ~Overtakes(datagram)
        BY <3>1, <3>2
      <4> DEFINE c == datagram[1]
                 k == expected[Wire(c)] + 1
      <4>2. c \in Clients /\ datagram[2] \in 0 .. MaxSeq /\ datagram = <<c, datagram[2]>>
        BY <2>pt
      <4>3. datagram[2] >= k /\ k \in 0 .. MaxSeq
        BY <4>1, <4>2, <2>ex DEF OrderInv
      <4>4. SUFFICES ASSUME k < datagram[2] PROVE FALSE
        BY <4>2, <4>3
      <4>5. <<c, datagram[2]>> \in on_wire
        BY <4>2 DEF WireInv, Places
      <4>6. <<c, k>> \in on_wire
        <5>1. datagram[2] < sequence[c] \/ datagram[2] = sequence[c]
          BY <4>2, <4>5 DEF WireInv, Numbered
        <5>2. k < sequence[c]
          BY <5>1, <4>2, <4>3, <4>4, <2>ty DEF TypeOK
        <5>3. QED
          BY <5>2, <4>2, <4>3 DEF WireInv, Numbered
      <4>7. <<c, k>> \notin got
        <5>1. ~(k <= expected[Wire(c)])
          BY <4>2, <2>ex
        <5>2. <<c, k>>[1] = c /\ <<c, k>>[2] = k
          OBVIOUS
        <5>3. QED
          BY <5>1, <5>2 DEF WireInv, Places
      <4>8. <<c, k>> \in wire
        BY <4>1, <4>6, <4>7, <3>1 DEF OrderInv
      <4>9. QED
        BY <4>1, <4>4, <4>8 DEF Overtakes
    <3>3. QED
      BY <3>1, <3>2 DEF OrderInv, Wire
  <2>6. ASSUME NEW datagram \in pending, UdpSequence(datagram) PROVE OrderInv'
    <3> DEFINE id == Wire(datagram[1])
               previous == expected[id]
               current == datagram[2]
    <3>1. /\ pending = {datagram} /\ pending' = {}
          /\ lost' = (IF previous # None /\ current > previous + 1
                      THEN lost + (current - previous - 1) ELSE lost)
          /\ out_of_order' = (IF previous # None /\ current <= previous
                              THEN out_of_order + 1 ELSE out_of_order)
          /\ expected' = [expected EXCEPT ![id] = IF current > previous THEN current ELSE previous]
          /\ got' = got \union {datagram}
          /\ UNCHANGED <<sender, sequence, wire, on_wire, fault>>
      BY <2>6 DEF UdpSequence, clientVars
    <3>2. /\ datagram \in on_wire /\ datagram[1] \in Clients
          /\ current \in 0 .. MaxSeq /\ previous \in {-1} \union (0 .. MaxSeq)
      BY <2>pt, <2>ex DEF WireInv, Places
    <3>3. ASSUME NEW b \in Clients
          PROVE  /\ b # datagram[1] => expected'[Wire(b)] = expected[Wire(b)]
                 /\ b = datagram[1] => expected'[Wire(b)] =
                                         IF current > previous THEN current ELSE previous
      BY <3>1, <3>2, <2>ty DEF TypeOK, Injective
    <3>4. ASSUME NEW b \in Clients
          PROVE  \/ expected'[Wire(b)] < sequence[b]
                 \/ expected'[Wire(b)] = sequence[b] /\ sender[b] = "sent"
      <4>1. CASE b = datagram[1]
        <5>1. current < sequence[b] \/ (current = sequence[b] /\ sender[b] = "sent")
          BY <4>1, <3>2, <2>pt DEF WireInv, Numbered
        <5>2. QED
          BY <4>1, <5>1, <3>3 DEF OrderInv
      <4>2. CASE b # datagram[1]
        BY <4>2, <3>3 DEF OrderInv
      <4>3. QED
        BY <4>1, <4>2
    <3>5. ASSUME ~fault
          PROVE  /\ lost' = 0 /\ out_of_order' = 0
                 /\ on_wire = got' \union wire
                 /\ \A d \in wire : d[2] > expected'[Wire(d[1])]
      <4>1. current = previous + 1
        BY <3>5 DEF OrderInv
      <4>2. lost' = 0 /\ out_of_order' = 0
        BY <4>1, <3>1, <3>2, <3>5 DEF OrderInv, None
      <4>3. on_wire = got' \union wire
        BY <3>1, <3>5 DEF OrderInv
      <4>4. ASSUME NEW d \in wire PROVE d[2] > expected'[Wire(d[1])]
        <5>1. /\ d[1] \in Clients /\ d[2] \in 0 .. MaxSeq /\ d = <<d[1], d[2]>>
              /\ datagram = <<datagram[1], current>>
          BY <2>pt
        <5>2. d[2] > expected[Wire(d[1])] /\ d # datagram
          BY <3>5 DEF OrderInv
        <5>3. CASE d[1] = datagram[1]
          <6>1. d[2] # current /\ d[2] > previous
            BY <5>1, <5>2, <5>3
          <6>2. expected'[Wire(d[1])] = current
            BY <5>3, <3>3, <4>1, <3>2
          <6>3. QED
            BY <6>1, <6>2, <4>1, <5>1, <3>2
        <5>4. CASE d[1] # datagram[1]
          BY <5>1, <5>2, <5>4, <3>3
        <5>5. QED
          BY <5>3, <5>4
      <4>5. QED
        BY <4>2, <4>3, <4>4
    <3>6. QED
      BY <3>1, <3>4, <3>5 DEF OrderInv, Wire
  <2>7. CASE Stop \/ ServerLeaves
    BY <2>7 DEF Stop, ServerLeaves, OrderInv, clientVars, serverVars, Wire
  <2>8. CASE Ask \/ ReadCounts \/ ReadStatus
    BY <2>8 DEF Ask, ReadCounts, ReadStatus, OrderInv, clientVars, serverVars, Wire
  <2>9. CASE UNCHANGED vars
    BY <2>9 DEF vars, OrderInv, clientVars, serverVars, Wire
  <2>10. QED
    BY <2>1, <2>2, <2>3, <2>4, <2>5, <2>6, <2>7, <2>8, <2>9 DEF Next
<1>3. QED
  BY <1>1, <1>2, WireInvariant, PTL DEF Spec

(* Without losses, copies or overtaking nothing is ever reported lost or   *)
(* reordered, for any number of senders with ids of their own.             *)
THEOREM NoFlagsWithoutFaults ==
  ASSUME Injective
  PROVE  Spec => []NoFalseFlags
<1>1. OrderInv => NoFalseFlags
  BY DEF OrderInv, NoFalseFlags
<1>2. QED
  BY <1>1, OrderInvariant, PTL

(* A faultless network fails a run only by datagrams still in flight when  *)
(* the server reads its counter, provided its packets fit the receive      *)
(* buffer.                                                                 *)
THEOREM AlarmsHaveACause ==
  ASSUME Waits, Settled, Injective, PacketSize <= BufferSize
  PROVE  Spec => []NoFalseAlarm
<1>1. Init => AlarmInv
  BY DEF Init, AlarmInv
<1>2. WireInv /\ DebriefInv /\ OrderInv /\ AlarmInv /\ [Next]_vars => AlarmInv'
  <2> SUFFICES ASSUME WireInv, DebriefInv, OrderInv, AlarmInv, [Next]_vars PROVE AlarmInv'
    OBVIOUS
  <2>ty. TypeOK
    BY DEF WireInv
  <2>1. ASSUME NEW c \in Clients, Send(c) PROVE AlarmInv'
    <3>1. debrief = "idle"
      BY <2>1 DEF Send, DebriefInv
    <3>2. QED
      BY <3>1, <2>1 DEF Send, AlarmInv, debriefVars
  <2>2. ASSUME NEW c \in Clients, CountSent(c) \/ Leave(c) PROVE AlarmInv'
    BY <2>2 DEF CountSent, Leave, AlarmInv, debriefVars
  <2>3. ASSUME NEW datagram \in wire, Lose(datagram) PROVE AlarmInv'
    BY <2>3 DEF Lose, AlarmInv
  <2>4. ASSUME NEW datagram \in wire, NEW copied \in BOOLEAN, Receive(datagram, copied)
        PROVE  AlarmInv'
    <3>1. /\ serving
          /\ ~fault' => ~fault
          /\ wire' \subseteq wire
          /\ UNCHANGED debriefVars
      BY <2>4 DEF Receive
    <3>2. QED
      BY <3>1 DEF AlarmInv, DebriefInv, debriefVars
  <2>5. ASSUME NEW datagram \in pending, UdpSequence(datagram) PROVE AlarmInv'
    BY <2>5 DEF UdpSequence, AlarmInv, debriefVars
  <2>6. CASE Stop \/ ServerLeaves \/ Ask
    BY <2>6 DEF Stop, ServerLeaves, Ask, AlarmInv, debriefVars
  <2>7. CASE ReadCounts
    BY <2>7, <2>ty DEF ReadCounts, AlarmInv, TypeOK
  <2>8. CASE ReadStatus
    <3>1. debrief = "counted" /\ UNCHANGED <<wire, tail, fault>>
      BY <2>8 DEF ReadStatus
    <3>2. SUFFICES ASSUME ~fault, ~tail PROVE debrief' = "match"
      BY <3>1 DEF AlarmInv
    <3>3. wire = {} /\ pending = {} /\ lost = 0 /\ out_of_order = 0
      BY <3>1, <3>2 DEF AlarmInv, OrderInv, DebriefInv, WireInv, Places
    <3>4. on_wire = got
      BY <3>2, <3>3 DEF OrderInv
    <3>5. Cardinality(got) \in Nat
      BY <3>4, FS_CardinalityType DEF WireInv, Places
    <3>6. received = Cardinality(got)
      BY <3>3, <3>5 DEF WireInv, Counters
    <3>7. asked = counted
      BY <3>1, <3>4, <3>6 DEF DebriefInv
    <3>8. Taken = PacketSize
      BY DatagramsAssumption DEF Taken
    <3>9. Tallies
      BY <3>7, <3>8 DEF Tallies
    <3>10. QED
      BY <3>3, <3>9, <2>8 DEF ReadStatus
  <2>9. CASE UNCHANGED vars
    BY <2>9 DEF vars, AlarmInv, debriefVars
  <2>10. QED
    BY <2>1, <2>2, <2>3, <2>4, <2>5, <2>6, <2>7, <2>8, <2>9 DEF Next
<1>3. AlarmInv => NoFalseAlarm
  BY DEF AlarmInv, NoFalseAlarm
<1>4. QED
  BY <1>1, <1>2, <1>3, WireInvariant, DebriefInvariant, OrderInvariant, PTL DEF Spec

================================================================================
