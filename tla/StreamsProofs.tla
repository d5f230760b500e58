------------------------------ MODULE StreamsProofs ------------------------------
(***************************************************************************)
(* Proofs about Streams for any number of clients, any frame, packet and   *)
(* buffer sizes and any cut of the streams into reads: the frame reader    *)
(* stays in step with what was written, and the verdict of a debrief has   *)
(* its cause.  Counters are compared with numbers of bytes: those up to a  *)
(* position in each connection, those that end a header.                   *)
(***************************************************************************)
EXTENDS Streams, FiniteSetTheorems, SequenceTheorems, TLAPS

-----------------------------------------------------------------------------
(* Arithmetic.                                                               *)

LEMMA MinOfTwo ==
  ASSUME NEW a \in Int, NEW b \in Int
  PROVE  Min({a, b}) = IF a <= b THEN a ELSE b
BY DEF Min

(* A position and its place in a packet.                                   *)
LEMMA Division ==
  ASSUME NEW l \in Nat \ {0}, NEW x \in Nat
  PROVE  /\ x \div l \in Nat /\ x % l \in 0 .. l - 1
         /\ x = l * (x \div l) + (x % l)
OBVIOUS

LEMMA Remainder ==
  ASSUME NEW l \in Nat \ {0}, NEW q \in Nat, NEW m \in 0 .. l - 1
  PROVE  (l * q + m) % l = m
OBVIOUS

(* Going on by n bytes inside a packet, or up to its end.                  *)
LEMMA GoOn ==
  ASSUME NEW l \in Nat \ {0}, NEW x \in Nat, NEW n \in Nat
  PROVE  /\ (x % l) + n < l => (x + n) % l = (x % l) + n
         /\ (x % l) + n = l => (x + n) % l = 0
<1> DEFINE q == x \div l
           m == x % l
<1>1. q \in Nat /\ m \in 0 .. l - 1 /\ x = l * q + m
  BY Division
<1> HIDE DEF q, m
<1>2. CASE m + n < l
  <2>1. x + n = l * q + (m + n) /\ m + n \in 0 .. l - 1
    BY <1>1, <1>2
  <2>2. QED
    BY <1>1, <1>2, <2>1, Remainder DEF m
<1>3. CASE m + n = l
  <2>1. x + n = l * (q + 1) + 0 /\ q + 1 \in Nat /\ 0 \in 0 .. l - 1
    BY <1>1, <1>3
  <2>2. (l * (q + 1) + 0) % l = 0
    BY <2>1, Remainder
  <2>3. QED
    BY <1>3, <2>1, <2>2 DEF m
<1>4. QED
  BY <1>1, <1>2, <1>3 DEF m

LEMMA Product ==
  ASSUME NEW a \in Int, NEW b \in Int, NEW k \in Nat
  PROVE  a * k \in Int /\ b * k \in Int /\ (a <= b => a * k <= b * k) /\ (a + 1) * k = a * k + k
OBVIOUS

-----------------------------------------------------------------------------
(* The layout of a packet: frames follow each other without a gap, the last *)
(* one ends with it.                                                        *)

LEMMA FramesAreEnough ==
  /\ Frames \in Nat \ {0}
  /\ Frames * CHUNK >= PayloadLen /\ (Frames - 1) * CHUNK < PayloadLen
<1>1. PayloadLen \in Nat \ {0} /\ CHUNK \in Nat \ {0}
  BY StreamsAssumption
<1>2. PayloadLen + CHUNK - 1 \in Nat
  BY <1>1
<1>3. Frames \in Nat
  BY <1>1, <1>2 DEF Frames
<1>4. Frames * CHUNK >= PayloadLen /\ (Frames - 1) * CHUNK < PayloadLen /\ Frames >= 1
  BY <1>1, <1>2, <1>3 DEF Frames
<1>5. QED
  BY <1>3, <1>4

LEMMA PacketType == PacketLen \in Nat \ {0}
<1>1. Frames \in Nat /\ HEADER \in Nat /\ PayloadLen \in Nat \ {0}
  BY FramesAreEnough, StreamsAssumption
<1>2. Frames * HEADER \in Nat
  BY <1>1
<1>3. QED
  BY <1>1, <1>2 DEF PacketLen

LEMMA FrameType ==
  ASSUME NEW f \in Frame
  PROVE  Start(f) \in Nat /\ Chunk(f) \in 1 .. CHUNK
<1>1. f \in 0 .. Frames - 1 /\ Frames \in Nat \ {0} /\ (Frames - 1) * CHUNK < PayloadLen
  BY FramesAreEnough DEF Frame
<1>2. HEADER \in Nat \ {0} /\ CHUNK \in Nat \ {0} /\ PayloadLen \in Nat \ {0}
  BY StreamsAssumption
<1>3. f * CHUNK \in Nat /\ f * CHUNK <= (Frames - 1) * CHUNK
  BY <1>1, <1>2, Product
<1>4. Chunk(f) = IF CHUNK <= PayloadLen - f * CHUNK THEN CHUNK ELSE PayloadLen - f * CHUNK
  BY <1>2, <1>3, MinOfTwo DEF Chunk
<1>5. f * (HEADER + CHUNK) \in Nat
  BY <1>1, <1>2
<1>6. QED
  BY <1>1, <1>2, <1>3, <1>4, <1>5 DEF Start

(* Where a frame ends: where the next one starts, or with the packet.      *)
LEMMA FrameEnds ==
  ASSUME NEW f \in Frame
  PROVE  /\ f # Frames - 1 => f + 1 \in Frame /\ Start(f) + HEADER + Chunk(f) = Start(f + 1)
         /\ f = Frames - 1 => Start(f) + HEADER + Chunk(f) = PacketLen
<1>1. f \in 0 .. Frames - 1 /\ Frames \in Nat \ {0}
      /\ Frames * CHUNK >= PayloadLen /\ (Frames - 1) * CHUNK < PayloadLen
  BY FramesAreEnough DEF Frame
<1>2. HEADER \in Nat \ {0} /\ CHUNK \in Nat \ {0} /\ PayloadLen \in Nat \ {0}
  BY StreamsAssumption
<1>3. f * CHUNK \in Nat
  BY <1>1, <1>2
<1>4. Chunk(f) = IF CHUNK <= PayloadLen - f * CHUNK THEN CHUNK ELSE PayloadLen - f * CHUNK
  BY <1>2, <1>3, MinOfTwo DEF Chunk
<1>5. Start(f) = f * HEADER + f * CHUNK /\ Start(f + 1) = f * HEADER + f * CHUNK + HEADER + CHUNK
  BY <1>1, <1>2 DEF Start
<1>6. CASE f # Frames - 1
  <2>1. f + 1 \in Frame /\ f + 1 <= Frames - 1
    BY <1>1, <1>6 DEF Frame
  <2>2. (f + 1) * CHUNK <= (Frames - 1) * CHUNK /\ (f + 1) * CHUNK = f * CHUNK + CHUNK
    BY <1>1, <1>2, <2>1, Product
  <2>3. (Frames - 1) * CHUNK \in Int
    BY <1>1, <1>2
  <2>4. Chunk(f) = CHUNK
    BY <1>1, <1>2, <1>3, <1>4, <2>2, <2>3
  <2>5. f * HEADER \in Nat
    BY <1>1, <1>2
  <2>6. QED
    BY <1>2, <1>3, <1>5, <1>6, <2>1, <2>4, <2>5
<1>7. CASE f = Frames - 1
  <2>1. f * CHUNK < PayloadLen /\ f * CHUNK + CHUNK >= PayloadLen
    BY <1>1, <1>2, <1>3, <1>7
  <2>2. Chunk(f) = PayloadLen - f * CHUNK
    BY <1>2, <1>3, <1>4, <2>1
  <2>3. f * HEADER + HEADER = Frames * HEADER /\ f * HEADER \in Nat
    BY <1>1, <1>2, <1>7
  <2>4. Start(f) + HEADER + Chunk(f) = PacketLen
    BY <1>2, <1>3, <1>5, <2>2, <2>3 DEF PacketLen
  <2>5. QED
    BY <1>7, <2>4
<1>8. QED
  BY <1>6, <1>7

LEMMA FrameOrder ==
  ASSUME NEW f \in Frame, NEW g \in Frame, f < g
  PROVE  Start(f) + HEADER + Chunk(f) <= Start(g)
<1>1. f \in Nat /\ g \in Nat /\ f + 1 <= g /\ f # Frames - 1
  BY FramesAreEnough DEF Frame
<1>2. Start(f) + HEADER + Chunk(f) = Start(f + 1)
  BY <1>1, FrameEnds
<1>3. (f + 1) * (HEADER + CHUNK) <= g * (HEADER + CHUNK)
  BY <1>1, Product, StreamsAssumption
<1>4. QED
  BY <1>2, <1>3 DEF Start

(* A frame ends inside the packet.                                         *)
LEMMA FrameInPacket ==
  ASSUME NEW f \in Frame
  PROVE  Start(f) + HEADER + Chunk(f) <= PacketLen
<1>1. Frames - 1 \in Frame /\ f <= Frames - 1
  BY FramesAreEnough DEF Frame
<1>2. Start(Frames - 1) + HEADER + Chunk(Frames - 1) = PacketLen
  BY <1>1, FrameEnds
<1>3. /\ Start(f) \in Nat /\ Chunk(f) \in 1 .. CHUNK /\ HEADER \in Nat /\ PacketLen \in Nat
      /\ Start(Frames - 1) \in Nat /\ Chunk(Frames - 1) \in 1 .. CHUNK
  BY <1>1, FrameType, PacketType, StreamsAssumption
<1>4. f < Frames - 1 => Start(f) + HEADER + Chunk(f) <= Start(Frames - 1)
  BY <1>1, FrameOrder
<1>5. f \in Int /\ Frames - 1 \in Int
  BY FramesAreEnough DEF Frame
<1>6. CASE f = Frames - 1
  BY <1>2, <1>3, <1>6
<1>7. CASE f < Frames - 1
  BY <1>2, <1>3, <1>4, <1>7
<1>8. QED
  BY <1>1, <1>5, <1>6, <1>7

(* The place of a byte after a position.                                   *)
LEMMA OffsetAfter ==
  ASSUME NEW p \in Nat, NEW j \in Nat \ {0}, (p % PacketLen) + j <= PacketLen
  PROVE  Offset(p + j) = (p % PacketLen) + j
<1>1. PacketLen \in Nat \ {0} /\ p % PacketLen \in Nat
  BY PacketType, Division
<1>2. j - 1 \in Nat /\ (p % PacketLen) + (j - 1) < PacketLen
  BY <1>1
<1>3. (p + (j - 1)) % PacketLen = (p % PacketLen) + (j - 1)
  BY <1>1, <1>2, GoOn
<1>4. (p + j) - 1 = p + (j - 1)
  OBVIOUS
<1>5. Offset(p + j) = 1 + ((p % PacketLen) + (j - 1))
  BY <1>3, <1>4 DEF Offset
<1>6. QED
  BY <1>1, <1>5

(* What the bytes of a header end.                                         *)
LEMMA InHeader ==
  ASSUME NEW f \in Frame, NEW p \in Nat, NEW have \in 0 .. HEADER - 1,
         p % PacketLen = Start(f) + have, NEW j \in 1 .. HEADER - have
  PROVE  /\ HeaderEnds(p + j) <=> have + j = HEADER
         /\ have + j = HEADER => LengthAt(p + j) = Chunk(f)
         /\ ~DecodesAt(p + j)
<1>1. Start(f) \in Nat /\ Chunk(f) \in Nat \ {0} /\ HEADER \in Nat \ {0} /\ CHANNEL \in Nat \ {0}
      /\ Start(f) + HEADER + Chunk(f) <= PacketLen /\ PacketLen \in Nat
  BY FrameType, FrameInPacket, PacketType, StreamsAssumption
<1>2. Offset(p + j) = Start(f) + have + j
  <2>1. j \in Nat \ {0} /\ (p % PacketLen) + j <= PacketLen
    BY <1>1
  <2>2. QED
    BY <1>1, <2>1, OffsetAfter
<1>3. ASSUME NEW g \in Frame, g # f
      PROVE  Start(g) + HEADER # Start(f) + have + j
             /\ (Chunk(g) >= CHANNEL => Start(g) + HEADER + CHANNEL # Start(f) + have + j)
  <2>1. f \in Int /\ g \in Int /\ Start(g) \in Nat /\ Chunk(g) \in Nat \ {0}
    BY FrameType, StreamsAssumption DEF Frame
  <2>2. g < f => Start(g) + HEADER + Chunk(g) <= Start(f)
    BY FrameOrder
  <2>3. f < g => Start(f) + HEADER + Chunk(f) <= Start(g)
    BY FrameOrder
  <2>4. QED
    BY <1>1, <1>3, <2>1, <2>2, <2>3
<1>4. HeaderEnds(p + j) <=> have + j = HEADER
  BY <1>1, <1>2, <1>3 DEF HeaderEnds
<1>5. ~DecodesAt(p + j)
  BY <1>1, <1>2, <1>3 DEF DecodesAt, Carriers
<1>6. ASSUME have + j = HEADER PROVE LengthAt(p + j) = Chunk(f)
  <2>1. (CHOOSE g \in Frame : Start(g) + HEADER = Offset(p + j)) = f
    BY <1>1, <1>2, <1>3, <1>6
  <2>2. QED
    BY <1>4, <1>6, <2>1 DEF LengthAt
<1>7. QED
  BY <1>4, <1>5, <1>6

(* What the bytes of a payload end, k of which are before the position.    *)
LEMMA InPayload ==
  ASSUME NEW f \in Frame, NEW p \in Nat, NEW k \in 0 .. Chunk(f) - 1,
         p % PacketLen = Start(f) + HEADER + k, NEW j \in 1 .. Chunk(f) - k
  PROVE  /\ ~HeaderEnds(p + j)
         /\ DecodesAt(p + j) <=> k + j = CHANNEL
<1>1. Start(f) \in Nat /\ Chunk(f) \in Nat \ {0} /\ HEADER \in Nat \ {0} /\ CHANNEL \in Nat \ {0}
      /\ Start(f) + HEADER + Chunk(f) <= PacketLen /\ PacketLen \in Nat
  BY FrameType, FrameInPacket, PacketType, StreamsAssumption
<1>2. Offset(p + j) = Start(f) + HEADER + k + j
  <2>1. j \in Nat \ {0} /\ (p % PacketLen) + j <= PacketLen
    BY <1>1
  <2>2. QED
    BY <1>1, <2>1, OffsetAfter
<1>3. ASSUME NEW g \in Frame, g # f
      PROVE  Start(g) + HEADER # Start(f) + HEADER + k + j
             /\ (Chunk(g) >= CHANNEL => Start(g) + HEADER + CHANNEL # Start(f) + HEADER + k + j)
  <2>1. f \in Int /\ g \in Int /\ Start(g) \in Nat /\ Chunk(g) \in Nat \ {0}
    BY FrameType, StreamsAssumption DEF Frame
  <2>2. g < f => Start(g) + HEADER + Chunk(g) <= Start(f)
    BY FrameOrder
  <2>3. f < g => Start(f) + HEADER + Chunk(f) <= Start(g)
    BY FrameOrder
  <2>4. QED
    BY <1>1, <1>3, <2>1, <2>2, <2>3
<1>4. ~HeaderEnds(p + j)
  BY <1>1, <1>2, <1>3 DEF HeaderEnds
<1>5. DecodesAt(p + j) <=> k + j = CHANNEL
  <2>1. k + j = CHANNEL => Chunk(f) >= CHANNEL
    BY <1>1
  <2>2. QED
    BY <1>1, <1>2, <1>3, <2>1 DEF DecodesAt, Carriers
<1>6. QED
  BY <1>4, <1>5

-----------------------------------------------------------------------------
(* Counting bytes.                                                           *)

Positions == [Clients -> Nat]

(* The bytes of all connections whose place in their connection is in S.   *)
Marked(position, S) == {b \in Bytes(position) : b[2] \in S}

LEMMA BytesFinite ==
  ASSUME NEW f \in Positions
  PROVE  IsFiniteSet(Bytes(f))
<1> DEFINE Of == [c \in Clients |-> {c} \X (1 .. f[c])]
<1>1. \A c \in Clients : IsFiniteSet({c} \X (1 .. f[c]))
  <2> SUFFICES ASSUME NEW c \in Clients PROVE IsFiniteSet({c} \X (1 .. f[c]))
    OBVIOUS
  <2>1. f[c] \in Int /\ 1 \in Int
    BY DEF Positions
  <2>2. IsFiniteSet({c}) /\ IsFiniteSet(1 .. f[c])
    BY <2>1, FS_Singleton, FS_Interval
  <2>3. QED
    BY <2>2, FS_Product
<1>2. Of \in Surjection(Clients, {{c} \X (1 .. f[c]) : c \in Clients})
  BY DEF Surjection
<1>3. IsFiniteSet({{c} \X (1 .. f[c]) : c \in Clients})
  BY <1>2, FS_Surjection, StreamsAssumption
<1>4. QED
  BY <1>1, <1>3, FS_UNION DEF Bytes

LEMMA MarkedFinite ==
  ASSUME NEW f \in Positions, NEW S
  PROVE  IsFiniteSet(Marked(f, S)) /\ Cardinality(Marked(f, S)) \in Nat
<1>1. Marked(f, S) \in SUBSET Bytes(f)
  BY DEF Marked
<1>2. QED
  BY <1>1, BytesFinite, FS_Subset, FS_CardinalityType

(* Those of the n bytes after a position that are in S.                    *)
After(p, n, S) == {q \in p + 1 .. p + n : q \in S}

(* A connection that gets on by n bytes adds those of them that are in S.  *)
LEMMA GetOn ==
  ASSUME NEW f \in Positions, NEW c \in Clients, NEW n \in Nat, NEW S,
         NEW g \in Positions, g[c] = f[c] + n, \A d \in Clients \ {c} : g[d] = f[d]
  PROVE  Cardinality(Marked(g, S)) =
           Cardinality(Marked(f, S)) + Cardinality(After(f[c], n, S))
<1> DEFINE more == After(f[c], n, S)
<1>0. \A p : p \in more <=> p \in f[c] + 1 .. f[c] + n /\ p \in S
  BY DEF After
<1> HIDE DEF more
<1>1. f[c] \in Nat /\ g \in Positions
  BY DEF Positions
<1>2. IsFiniteSet(more) /\ Cardinality(more) \in Nat
  <2>1. IsFiniteSet(f[c] + 1 .. f[c] + n)
    BY <1>1, FS_Interval
  <2>2. more \in SUBSET (f[c] + 1 .. f[c] + n)
    BY <1>0
  <2>3. QED
    BY <2>1, <2>2, FS_Subset, FS_CardinalityType
<1>3. IsFiniteSet({c} \X more) /\ Cardinality({c} \X more) = Cardinality(more)
  <2>1. IsFiniteSet({c}) /\ Cardinality({c}) = 1
    BY FS_Singleton
  <2>2. IsFiniteSet({c} \X more) /\ Cardinality({c} \X more) = 1 * Cardinality(more)
    BY <1>2, <2>1, FS_Product
  <2>3. QED
    BY <1>2, <2>2
<1>4. Marked(g, S) = Marked(f, S) \union ({c} \X more)
  <2>1. \A d \in Clients : g[d] = IF d = c THEN f[c] + n ELSE f[d]
    BY DEF Positions
  <2>2. ASSUME NEW d \in Clients, NEW p
        PROVE  p \in 1 .. g[d] <=> p \in 1 .. f[d] \/ (d = c /\ p \in f[c] + 1 .. f[c] + n)
    BY <1>1, <2>1
  <2>3. ASSUME NEW b
        PROVE  b \in Marked(g, S) <=> b \in Marked(f, S) \/ b \in {c} \X more
    <3>1. b \in Marked(g, S) <=> \E d \in Clients : \E p \in 1 .. g[d] : b = <<d, p>> /\ p \in S
      BY DEF Marked, Bytes
    <3>2. b \in Marked(f, S) <=> \E d \in Clients : \E p \in 1 .. f[d] : b = <<d, p>> /\ p \in S
      BY DEF Marked, Bytes
    <3>3. b \in {c} \X more <=> \E p \in f[c] + 1 .. f[c] + n : b = <<c, p>> /\ p \in S
      BY <1>0
    <3>4. QED
      BY <2>2, <3>1, <3>2, <3>3
  <2>4. QED
    BY <2>3
<1>5. Marked(f, S) \intersect ({c} \X more) = {}
  BY <1>0, <1>1 DEF Marked, Bytes
<1>6. Cardinality(Marked(f, S) \union ({c} \X more)) =
        Cardinality(Marked(f, S)) + Cardinality({c} \X more) - Cardinality({})
  BY <1>3, <1>5, MarkedFinite, FS_Union
<1>7. Cardinality(Marked(f, S)) \in Nat /\ Cardinality({}) = 0
  BY MarkedFinite, FS_EmptySet
<1>8. Cardinality(Marked(g, S)) = Cardinality(Marked(f, S)) + Cardinality(more)
  <2>1. Cardinality(Marked(g, S)) = Cardinality(Marked(f, S) \union ({c} \X more))
    BY <1>4, Zenon
  <2>2. QED
    BY <1>2, <1>3, <1>6, <1>7, <2>1
<1>9. QED
  BY <1>8 DEF more

LEMMA GetOnNone ==
  ASSUME NEW f \in Positions, NEW c \in Clients, NEW n \in Nat, NEW S,
         NEW g \in Positions, g[c] = f[c] + n, \A d \in Clients \ {c} : g[d] = f[d],
         \A j \in 1 .. n : f[c] + j \notin S
  PROVE  Cardinality(Marked(g, S)) = Cardinality(Marked(f, S))
<1>1. f[c] \in Nat
  BY DEF Positions
<1>2. \A p \in f[c] + 1 .. f[c] + n : p - f[c] \in 1 .. n /\ p = f[c] + (p - f[c])
  BY <1>1
<1>3. After(f[c], n, S) = {}
  BY <1>2 DEF After
<1>4. Cardinality(Marked(g, S)) =
        Cardinality(Marked(f, S)) + Cardinality(After(f[c], n, S))
  BY GetOn
<1>5. Cardinality(Marked(f, S)) \in Nat /\ Cardinality({}) = 0
  BY FS_EmptySet, MarkedFinite
<1>6. QED
  BY <1>3, <1>4, <1>5

LEMMA GetOnOne ==
  ASSUME NEW f \in Positions, NEW c \in Clients, NEW n \in Nat, NEW S,
         NEW g \in Positions, g[c] = f[c] + n, \A d \in Clients \ {c} : g[d] = f[d],
         NEW i \in 1 .. n, \A j \in 1 .. n : f[c] + j \in S <=> j = i
  PROVE  Cardinality(Marked(g, S)) = Cardinality(Marked(f, S)) + 1
<1>1. f[c] \in Nat
  BY DEF Positions
<1>2. \A p \in f[c] + 1 .. f[c] + n : p - f[c] \in 1 .. n /\ p = f[c] + (p - f[c])
  BY <1>1
<1>3. After(f[c], n, S) = {f[c] + i}
  <2>1. \A p \in f[c] + 1 .. f[c] + n : p \in S => p = f[c] + i
    BY <1>2
  <2>2. f[c] + i \in f[c] + 1 .. f[c] + n /\ f[c] + i \in S
    BY <1>1
  <2>3. QED
    BY <2>1, <2>2 DEF After
<1>4. Cardinality(Marked(g, S)) =
        Cardinality(Marked(f, S)) + Cardinality(After(f[c], n, S))
  BY GetOn
<1>5. Cardinality({f[c] + i}) = 1
  BY FS_Singleton
<1>6. QED
  BY <1>3, <1>4, <1>5

LEMMA GetOnAll ==
  ASSUME NEW f \in Positions, NEW c \in Clients, NEW n \in Nat,
         NEW g \in Positions, g[c] = f[c] + n, \A d \in Clients \ {c} : g[d] = f[d]
  PROVE  Cardinality(Bytes(g)) = Cardinality(Bytes(f)) + n
<1>1. f[c] \in Nat /\ g \in Positions
  BY DEF Positions
<1>2. After(f[c], n, Nat) = f[c] + 1 .. f[c] + n
  BY <1>1 DEF After
<1>3. Cardinality(f[c] + 1 .. f[c] + n) = n
  <2>1. f[c] + 1 \in Int /\ f[c] + n \in Int
    BY <1>1
  <2>2. Cardinality(f[c] + 1 .. f[c] + n) =
          IF f[c] + 1 > f[c] + n THEN 0 ELSE (f[c] + n) - (f[c] + 1) + 1
    BY <2>1, FS_Interval
  <2>3. QED
    BY <1>1, <2>2
<1>4. \A h \in Positions : Marked(h, Nat) = Bytes(h)
  BY DEF Marked, Bytes, Positions
<1>5. Cardinality(Marked(g, Nat)) =
        Cardinality(Marked(f, Nat)) + Cardinality(After(f[c], n, Nat))
  BY GetOn
<1>6. QED
  BY <1>1, <1>2, <1>3, <1>4, <1>5

(* Two positions with as many bytes, one nowhere ahead of the other, are   *)
(* the same.                                                               *)
LEMMA SameBytes ==
  ASSUME NEW f \in Positions, NEW g \in Positions, \A c \in Clients : f[c] <= g[c],
         Cardinality(Bytes(f)) = Cardinality(Bytes(g))
  PROVE  \A c \in Clients : f[c] = g[c]
<1>1. Bytes(f) \in SUBSET Bytes(g)
  BY DEF Bytes, Positions
<1>2. Bytes(f) = Bytes(g)
  BY <1>1, BytesFinite, FS_Subset
<1>3. ASSUME NEW c \in Clients, f[c] < g[c] PROVE FALSE
  <2>1. <<c, g[c]>> \in Bytes(g) /\ <<c, g[c]>> \notin Bytes(f)
    BY <1>3 DEF Bytes, Positions
  <2>2. QED
    BY <1>2, <2>1
<1>4. QED
  BY <1>3 DEF Positions

-----------------------------------------------------------------------------

HeaderEnd == {p \in Nat : HeaderEnds(p)}

ChannelEnd == {p \in Nat : DecodesAt(p)}

(* A packet has as many headers as frames.                                 *)
LEMMA HeadersOfPacket ==
  ASSUME NEW m \in Nat, m % PacketLen = 0
  PROVE  Cardinality(After(m, PacketLen, HeaderEnd)) = Frames
<1> DEFINE ends == After(m, PacketLen, HeaderEnd)
           End == [f \in Frame |-> m + (Start(f) + HEADER)]
<1>1. PacketLen \in Nat \ {0} /\ HEADER \in Nat \ {0} /\ Frames \in Nat \ {0}
  BY PacketType, FramesAreEnough, StreamsAssumption
<1>2. \A f \in Frame : Start(f) + HEADER \in 1 .. PacketLen /\ Start(f) \in Nat /\ f \in Int
  BY <1>1, FrameType, FrameInPacket DEF Frame
<1>3. \A j \in 1 .. PacketLen : Offset(m + j) = j
  <2> SUFFICES ASSUME NEW j \in 1 .. PacketLen PROVE Offset(m + j) = j
    OBVIOUS
  <2>1. j \in Nat \ {0} /\ (m % PacketLen) + j <= PacketLen
    BY <1>1
  <2>2. Offset(m + j) = (m % PacketLen) + j
    BY <2>1, OffsetAfter
  <2>3. QED
    BY <2>1, <2>2
<1>4. End \in [Frame -> ends]
  <2> SUFFICES ASSUME NEW f \in Frame PROVE m + (Start(f) + HEADER) \in ends
    OBVIOUS
  <2>1. HeaderEnds(m + (Start(f) + HEADER))
    BY <1>2, <1>3 DEF HeaderEnds
  <2>2. QED
    BY <1>1, <1>2, <2>1 DEF HeaderEnd, After
<1>5. \A f, g \in Frame : End[f] = End[g] => f = g
  <2> SUFFICES ASSUME NEW f \in Frame, NEW g \in Frame, f < g PROVE End[f] # End[g]
    BY <1>2
  <2>1. Start(f) + HEADER + Chunk(f) <= Start(g) /\ Chunk(f) \in Nat
    BY FrameOrder, FrameType
  <2>2. QED
    BY <1>1, <1>2, <2>1
<1>6. \A p \in ends : \E f \in Frame : End[f] = p
  <2> SUFFICES ASSUME NEW p \in ends PROVE \E f \in Frame : End[f] = p
    OBVIOUS
  <2>1. p - m \in 1 .. PacketLen /\ p = m + (p - m)
    BY <1>1 DEF After
  <2>2. Offset(p) = p - m
    BY <1>3, <2>1
  <2>3. PICK f \in Frame : Start(f) + HEADER = p - m
    BY <2>2 DEF HeaderEnd, HeaderEnds, After
  <2>4. QED
    BY <2>1, <2>3
<1> HIDE DEF End, ends
<1>7. End \in Bijection(Frame, ends)
  <2>1. End \in Injection(Frame, ends)
    BY <1>4, <1>5 DEF Injection, IsInjective
  <2>2. End \in Surjection(Frame, ends)
    BY <1>4, <1>6 DEF Surjection
  <2>3. QED
    BY <2>1, <2>2 DEF Bijection
<1>8. IsFiniteSet(Frame) /\ Cardinality(Frame) = Frames
  <2>1. 0 \in Int /\ Frames - 1 \in Int
    BY <1>1
  <2>2. IsFiniteSet(0 .. Frames - 1)
        /\ Cardinality(0 .. Frames - 1) = IF 0 > Frames - 1 THEN 0 ELSE (Frames - 1) - 0 + 1
    BY <2>1, FS_Interval
  <2>3. QED
    BY <1>1, <2>2 DEF Frame
<1>9. Cardinality(ends) = Frames
  BY <1>7, <1>8, FS_Bijection DEF ExistsBijection
<1>10. QED
  BY <1>9 DEF ends

-----------------------------------------------------------------------------
(* Types.                                                                    *)

LEMMA LengthType == \A p : LengthAt(p) \in 0 .. CHUNK
<1>1. CHUNK \in Nat
  BY StreamsAssumption
<1> SUFFICES ASSUME NEW p, HeaderEnds(p) PROVE LengthAt(p) \in 0 .. CHUNK
  BY <1>1 DEF LengthAt
<1>2. PICK f \in Frame : f = CHOOSE g \in Frame : Start(g) + HEADER = Offset(p)
  BY DEF HeaderEnds
<1>3. LengthAt(p) = Chunk(f) /\ Chunk(f) \in 1 .. CHUNK
  BY <1>2, FrameType DEF LengthAt
<1>4. QED
  BY <1>1, <1>3

LEMMA CarriersType == Cardinality(Carriers) \in Nat
<1>1. 0 \in Int /\ Frames - 1 \in Int
  BY FramesAreEnough
<1>2. IsFiniteSet(Frame) /\ Carriers \in SUBSET Frame
  BY <1>1, FS_Interval DEF Frame, Carriers
<1>3. QED
  BY <1>2, FS_Subset, FS_CardinalityType

(* What a turn of feed's loop in state Header takes and leaves.            *)
LEMMA HeaderTurn ==
  ASSUME TypeOK, NEW c \in Clients, FeedHeader(c)
  PROVE  \E take \in 1 .. buffered :
           /\ reader.have + take <= HEADER
           /\ reader.have + take < HEADER => take = buffered
           /\ buffered' = buffered - take
           /\ received_packets' =
                received_packets + (IF reader.have + take = HEADER THEN 1 ELSE 0)
           /\ reader' = IF reader.have + take # HEADER THEN [reader EXCEPT !.have = @ + take]
                        ELSE IF LengthAt(Position(c) + take) = 0 THEN FreshReader
                        ELSE [FreshReader EXCEPT !.state = "payload",
                                                 !.remaining = LengthAt(Position(c) + take)]
<1> DEFINE take == Min({HEADER - reader.have, buffered})
<1>1. HEADER \in Nat \ {0} /\ reader.have \in 0 .. HEADER - 1 /\ buffered \in Nat \ {0}
  BY StreamsAssumption DEF TypeOK, FeedHeader
<1>2. take = IF HEADER - reader.have <= buffered THEN HEADER - reader.have ELSE buffered
  BY <1>1, MinOfTwo
<1>3. /\ buffered' = buffered - take
      /\ received_packets' =
           received_packets + (IF reader.have + take = HEADER THEN 1 ELSE 0)
      /\ reader' = IF reader.have + take # HEADER THEN [reader EXCEPT !.have = @ + take]
                   ELSE IF LengthAt(Position(c) + take) = 0 THEN FreshReader
                   ELSE [FreshReader EXCEPT !.state = "payload",
                                            !.remaining = LengthAt(Position(c) + take)]
  BY DEF FeedHeader
<1> HIDE DEF take
<1>4. /\ take \in 1 .. buffered /\ reader.have + take <= HEADER
      /\ reader.have + take < HEADER => take = buffered
  BY <1>1, <1>2
<1>5. QED
  BY <1>3, <1>4

(* The same in state Payload; k says how much of the head it keeps.        *)
LEMMA PayloadTurn ==
  ASSUME TypeOK, NEW c \in Clients, FeedPayload(c)
  PROVE  \E take \in 0 .. buffered, k \in 0 .. CHANNEL :
           /\ take <= reader.remaining /\ k <= take /\ reader.head + k <= CHANNEL
           /\ reader.head + k < CHANNEL => k = take
           /\ buffered' = buffered - take
           /\ LET complete == reader.head < CHANNEL /\ reader.head + k = CHANNEL
                  decodes == DecodesAt(Position(c) + k)
              IN  /\ received_messages' =
                       received_messages + (IF complete /\ decodes THEN 1 ELSE 0)
                  /\ invalid' = invalid + (IF complete /\ ~decodes THEN 1 ELSE 0)
           /\ reader' = IF take = reader.remaining THEN FreshReader
                        ELSE [reader EXCEPT !.remaining = @ - take, !.head = @ + k]
<1> DEFINE take == Min({reader.remaining, buffered})
           k == Min({CHANNEL - reader.head, take})
<1>1. CHANNEL \in Nat /\ reader.head \in 0 .. CHANNEL /\ buffered \in Nat \ {0}
      /\ CHUNK \in Nat /\ reader.remaining \in 0 .. CHUNK
  <2>1. buffered > 0
    BY DEF FeedPayload
  <2>2. CHANNEL \in Nat /\ CHUNK \in Nat /\ BufferSize \in Nat
    BY StreamsAssumption
  <2>3. /\ reader.head \in 0 .. CHANNEL /\ reader.remaining \in 0 .. CHUNK
        /\ buffered \in 0 .. BufferSize
    BY DEF TypeOK
  <2>4. QED
    BY <2>1, <2>2, <2>3
<1>2. take = IF reader.remaining <= buffered THEN reader.remaining ELSE buffered
  BY <1>1, MinOfTwo
<1>3. /\ buffered' = buffered - take
      /\ LET complete == reader.head < CHANNEL /\ reader.head + k = CHANNEL
             decodes == DecodesAt(Position(c) + k)
         IN  /\ received_messages' =
                  received_messages + (IF complete /\ decodes THEN 1 ELSE 0)
             /\ invalid' = invalid + (IF complete /\ ~decodes THEN 1 ELSE 0)
      /\ reader' = IF take = reader.remaining THEN FreshReader
                   ELSE [reader EXCEPT !.remaining = @ - take, !.head = @ + k]
  BY DEF FeedPayload
<1> HIDE DEF take
<1>4. take \in 0 .. buffered /\ take <= reader.remaining
  BY <1>1, <1>2
<1>5. k = IF CHANNEL - reader.head <= take THEN CHANNEL - reader.head ELSE take
  BY <1>1, <1>4, MinOfTwo
<1> HIDE DEF k
<1>6. /\ k \in 0 .. CHANNEL /\ k <= take /\ reader.head + k <= CHANNEL
      /\ reader.head + k < CHANNEL => k = take
  BY <1>1, <1>4, <1>5
<1>7. QED
  BY <1>3, <1>4, <1>6

(* What a write_all gets into the socket buffers.                          *)
LEMMA WriteTurn ==
  ASSUME TypeOK, NEW c \in Clients, Write(c)
  PROVE  \E n \in Nat \ {0} :
           /\ (put[c] % PacketLen) + n <= PacketLen
           /\ put' = [put EXCEPT ![c] = @ + n]
           /\ sender' = [sender EXCEPT
                ![c] = IF (put[c] + n) % PacketLen = 0 THEN "sent" ELSE "writing"]
<1> DEFINE n == Min({PacketLen - (put[c] % PacketLen), Capacity - (put[c] - taken[c])})
<1>1. PacketLen \in Nat \ {0} /\ put[c] \in Nat /\ taken[c] \in Nat /\ Capacity \in Nat
  BY PacketType, StreamsAssumption DEF TypeOK
<1>2. put[c] % PacketLen \in Nat
  BY <1>1, Division
<1>3. n = IF PacketLen - (put[c] % PacketLen) <= Capacity - (put[c] - taken[c])
          THEN PacketLen - (put[c] % PacketLen) ELSE Capacity - (put[c] - taken[c])
  BY <1>1, <1>2, MinOfTwo
<1>4. /\ n > 0 /\ put' = [put EXCEPT ![c] = @ + n]
      /\ sender' = [sender EXCEPT
           ![c] = IF (put[c] + n) % PacketLen = 0 THEN "sent" ELSE "writing"]
  BY DEF Write, Goto
<1> HIDE DEF n
<1>5. n \in Nat \ {0} /\ (put[c] % PacketLen) + n <= PacketLen
  BY <1>1, <1>2, <1>3, <1>4
<1>6. QED
  BY <1>4, <1>5

ReaderType == [state : {"header", "payload"}, have : 0 .. HEADER - 1,
               remaining : 0 .. CHUNK, head : 0 .. CHANNEL]

LEMMA FreshType == FreshReader \in ReaderType
<1>1. HEADER \in Nat \ {0} /\ CHUNK \in Nat /\ CHANNEL \in Nat
  BY StreamsAssumption
<1>2. 0 \in 0 .. HEADER - 1 /\ 0 \in 0 .. CHUNK /\ 0 \in 0 .. CHANNEL
  BY <1>1
<1>3. QED
  BY <1>2 DEF FreshReader, ReaderType

(* The variables of Streams keep their types.                              *)
THEOREM TypeCorrect == Spec => []TypeOK
<1>1. Init => TypeOK
  <2>1. HEADER \in Nat \ {0} /\ CHUNK \in Nat /\ CHANNEL \in Nat /\ BufferSize \in Nat
    BY StreamsAssumption
  <2>2. ASSUME Init PROVE TypeOK
    <3>1. reader \in ReaderType /\ queue \in Seq(Clients)
      BY <2>2, FreshType DEF Init
    <3>2. buffered \in 0 .. BufferSize
      BY <2>1, <2>2 DEF Init
    <3>3. QED
      BY <2>2, <3>1, <3>2 DEF Init, TypeOK, ReaderType
  <2>3. QED
    BY <2>2
<1>2. TypeOK /\ [Next]_vars => TypeOK'
  <2> SUFFICES ASSUME TypeOK, [Next]_vars PROVE TypeOK'
    OBVIOUS
  <2>0. /\ HEADER \in Nat \ {0} /\ CHUNK \in Nat /\ CHANNEL \in Nat /\ BufferSize \in Nat
        /\ PacketLen \in Nat /\ Frames \in Nat /\ Cardinality(Carriers) \in Nat
    BY StreamsAssumption, PacketType, FramesAreEnough, CarriersType
    <2>a. /\ sent_packets \in Nat /\ sent_bytes \in Nat /\ sent_messages \in Nat
        /\ received_packets \in Nat /\ received_bytes \in Nat
        /\ received_messages \in Nat /\ invalid \in Nat
    BY DEF TypeOK
  <2>1. ASSUME NEW c \in Clients, Connect(c) PROVE TypeOK'
    BY <2>1 DEF TypeOK, Connect, Goto, serverVars, debriefVars
  <2>2. ASSUME NEW c \in Clients, Write(c) PROVE TypeOK'
    <3>1. put' \in [Clients -> Nat]
          /\ sender' \in [Clients -> {"connecting", "loop", "writing", "sent", "done"}]
      <4>1. PICK n \in Nat \ {0} :
              /\ put' = [put EXCEPT ![c] = @ + n]
              /\ sender' = [sender EXCEPT
                   ![c] = IF (put[c] + n) % PacketLen = 0 THEN "sent" ELSE "writing"]
        BY <2>2, WriteTurn
      <4>2. QED
        BY <4>1 DEF TypeOK
    <3>2. QED
      BY <2>2, <3>1 DEF TypeOK, Write, serverVars, debriefVars
  <2>3. ASSUME NEW c \in Clients, WriteFails(c) PROVE TypeOK'
    BY <2>3 DEF TypeOK, WriteFails, Goto, serverVars, debriefVars
  <2>4. ASSUME NEW c \in Clients, CountSent(c) PROVE TypeOK'
    <3>1. /\ sent_packets' \in Nat /\ sent_bytes' \in Nat /\ sent_messages' \in Nat
      BY <2>0, <2>a, <2>4 DEF CountSent
    <3>2. QED
      BY <2>4, <3>1 DEF TypeOK, CountSent, Goto, serverVars, debriefVars
  <2>5. ASSUME NEW c \in Clients, Leave(c) PROVE TypeOK'
    BY <2>5 DEF TypeOK, Leave, Goto, serverVars, debriefVars
  <2>6. CASE Stop
    BY <2>6 DEF TypeOK, Stop, serverVars, debriefVars
  <2>7. ASSUME NEW c \in Clients, Break(c) PROVE TypeOK'
    BY <2>7 DEF TypeOK, Break, clientVars, serverVars, debriefVars
  <2>8. CASE Accept
    <3>1. queue \in Seq(Clients) /\ queue # <<>>
      BY <2>8 DEF TypeOK, Accept
    <3>2. Head(queue) \in Clients /\ Tail(queue) \in Seq(Clients)
      BY <3>1
    <3>3. QED
      BY <2>8, <3>2, FreshType DEF TypeOK, Accept, ReaderType, clientVars, debriefVars
  <2>9. ASSUME NEW c \in Clients, NEW n \in 1 .. BufferSize, Read(c, n) PROVE TypeOK'
    <3>1. /\ taken' \in [Clients -> Nat] /\ buffered' \in 0 .. BufferSize
          /\ received_bytes' \in Nat
      BY <2>0, <2>a, <2>9 DEF TypeOK, Read
    <3>2. QED
      BY <2>9, <3>1 DEF TypeOK, Read, clientVars, debriefVars
  <2>10. ASSUME NEW c \in Clients, FeedHeader(c) PROVE TypeOK'
    <3>1. PICK take \in 1 .. buffered :
            /\ reader.have + take <= HEADER
            /\ buffered' = buffered - take
            /\ received_packets' =
                 received_packets + (IF reader.have + take = HEADER THEN 1 ELSE 0)
            /\ reader' = IF reader.have + take # HEADER THEN [reader EXCEPT !.have = @ + take]
                         ELSE IF LengthAt(Position(c) + take) = 0 THEN FreshReader
                         ELSE [FreshReader EXCEPT !.state = "payload",
                                                  !.remaining = LengthAt(Position(c) + take)]
      BY <2>10, HeaderTurn
    <3>2. buffered' \in 0 .. BufferSize /\ received_packets' \in Nat
      <4>1. buffered \in 0 .. BufferSize
        BY DEF TypeOK
      <4>2. QED
        BY <2>0, <2>a, <3>1, <4>1
    <3>3. LengthAt(Position(c) + take) \in 0 .. CHUNK
      BY LengthType
    <3>4. reader \in ReaderType
      BY DEF TypeOK, ReaderType
    <3>5. reader.have + take # HEADER => [reader EXCEPT !.have = @ + take] \in ReaderType
      BY <2>0, <3>1, <3>4 DEF ReaderType
    <3>6. [FreshReader EXCEPT !.state = "payload",
                              !.remaining = LengthAt(Position(c) + take)] \in ReaderType
      BY <3>3, FreshType DEF ReaderType
    <3>7. reader' \in ReaderType
      BY <3>1, <3>5, <3>6, FreshType, Zenon
    <3>8. QED
      BY <2>10, <3>2, <3>7 DEF TypeOK, ReaderType, FeedHeader, clientVars, debriefVars
  <2>11. ASSUME NEW c \in Clients, FeedPayload(c) PROVE TypeOK'
    <3>1. PICK take \in 0 .. buffered, k \in 0 .. CHANNEL :
            /\ take <= reader.remaining /\ k <= take /\ reader.head + k <= CHANNEL
            /\ buffered' = buffered - take
            /\ LET complete == reader.head < CHANNEL /\ reader.head + k = CHANNEL
                   decodes == DecodesAt(Position(c) + k)
               IN  /\ received_messages' =
                        received_messages + (IF complete /\ decodes THEN 1 ELSE 0)
                   /\ invalid' = invalid + (IF complete /\ ~decodes THEN 1 ELSE 0)
            /\ reader' = IF take = reader.remaining THEN FreshReader
                         ELSE [reader EXCEPT !.remaining = @ - take, !.head = @ + k]
      BY <2>11, PayloadTurn
    <3>2. buffered' \in 0 .. BufferSize /\ received_messages' \in Nat /\ invalid' \in Nat
      <4>1. buffered \in 0 .. BufferSize
        BY DEF TypeOK
      <4>2. QED
        BY <2>0, <2>a, <3>1, <4>1
    <3>3. reader \in ReaderType
      BY DEF TypeOK, ReaderType
    <3>4. [reader EXCEPT !.remaining = @ - take, !.head = @ + k] \in ReaderType
      <4>1. reader.remaining \in 0 .. CHUNK /\ reader.head \in 0 .. CHANNEL
        BY <3>3 DEF ReaderType
      <4>2. reader.remaining - take \in 0 .. CHUNK /\ reader.head + k \in 0 .. CHANNEL
        BY <2>0, <3>1, <4>1
      <4>3. QED
        BY <3>3, <4>2 DEF ReaderType
    <3>5. reader' \in ReaderType
      BY <3>1, <3>4, FreshType, Zenon
    <3>6. QED
      BY <2>11, <3>2, <3>5 DEF TypeOK, ReaderType, FeedPayload, clientVars, debriefVars
  <2>12. ASSUME NEW c \in Clients, EndOfStream(c) PROVE TypeOK'
    BY <2>12 DEF TypeOK, EndOfStream, clientVars, debriefVars
  <2>13. CASE ServerLeaves
    <3>1. conn' \in [Clients -> {"none", "open", "closed", "reset"}]
      BY <2>13 DEF TypeOK, ServerLeaves
    <3>2. queue' \in Seq(Clients)
      BY <2>13 DEF ServerLeaves
    <3>3. QED
      BY <2>13, <3>1, <3>2 DEF TypeOK, ServerLeaves, clientVars, debriefVars
  <2>14. CASE Ask
    BY <2>14 DEF TypeOK, Ask, clientVars, serverVars
  <2>15. CASE ReadPackets
    BY <2>15 DEF TypeOK, ReadPackets, clientVars, serverVars
  <2>16. CASE ReadBytes
    BY <2>16 DEF TypeOK, ReadBytes, clientVars, serverVars
  <2>17. CASE UNCHANGED vars
    BY <2>17 DEF TypeOK, vars, clientVars, serverVars, debriefVars
  <2>18. QED
    BY <2>1, <2>2, <2>3, <2>4, <2>5, <2>6, <2>7, <2>8, <2>9, <2>10, <2>11, <2>12, <2>13,
       <2>14, <2>15, <2>16, <2>17 DEF Next, ClientThread, ServerThread
<1>3. QED
  BY <1>1, <1>2, PTL DEF Spec

-----------------------------------------------------------------------------
(* Which connection is where.                                                *)

(* Connections are served one at a time; what is buffered is of that one.  *)
OneServed ==
  /\ \A c, d \in serving : c = d
  /\ serving = {} => buffered = 0
  /\ \A c \in serving : buffered <= taken[c]

(* A connection waits once, and nothing is read from it before its turn.   *)
Waiting ==
  /\ \A i \in 1 .. Len(queue) : queue[i] \notin serving /\ taken[queue[i]] = 0
  /\ \A i, j \in 1 .. Len(queue) : queue[i] = queue[j] => i = j

NotConnected ==
  \A c \in Clients : sender[c] = "connecting" =>
    c \notin serving /\ put[c] = 0 /\ \A i \in 1 .. Len(queue) : queue[i] # c

(* Nothing is read that was not written.                                   *)
Behind == \A c \in Clients : taken[c] <= put[c]

Places == TypeOK /\ OneServed /\ Waiting /\ NotConnected /\ Behind

LEMMA PlacesInvariant == Spec => []Places
<1>1. Init /\ TypeOK => Places
  BY DEF Init, Places, OneServed, Waiting, NotConnected, Behind
<1>2. Places /\ TypeOK' /\ [Next]_vars => Places'
  <2> SUFFICES ASSUME Places, TypeOK', [Next]_vars
               PROVE  OneServed' /\ Waiting' /\ NotConnected' /\ Behind'
    BY DEF Places
  <2>0. TypeOK /\ OneServed /\ Waiting /\ NotConnected /\ Behind
    BY DEF Places
  <2>a. /\ queue \in Seq(Clients) /\ serving \in SUBSET Clients
        /\ taken \in [Clients -> Nat] /\ put \in [Clients -> Nat] /\ buffered \in Nat
        /\ sender \in [Clients -> {"connecting", "loop", "writing", "sent", "done"}]
    <3>1. BufferSize \in Nat /\ buffered \in 0 .. BufferSize
      BY <2>0, StreamsAssumption DEF TypeOK
    <3>2. buffered \in Nat
      BY <3>1
    <3>3. QED
      BY <2>0, <3>2 DEF TypeOK
  <2>1. ASSUME NEW c \in Clients, Connect(c)
        PROVE  OneServed' /\ Waiting' /\ NotConnected' /\ Behind'
    <3>1. /\ sender[c] = "connecting" /\ sender' = [sender EXCEPT ![c] = "loop"]
          /\ queue' = Append(queue, c)
          /\ UNCHANGED <<serving, taken, put, buffered>>
      BY <2>1 DEF Connect, Goto, serverVars
    <3>2. Len(queue') = Len(queue) + 1 /\ Len(queue) \in Nat
          /\ \A i \in 1 .. Len(queue') :
               queue'[i] = IF i = Len(queue) + 1 THEN c ELSE queue[i]
      BY <2>a, <3>1
    <3>3. c \notin serving /\ put[c] = 0 /\ \A i \in 1 .. Len(queue) : queue[i] # c
      BY <2>0, <3>1 DEF NotConnected
    <3>4. taken[c] = 0
      BY <2>0, <2>a, <3>3 DEF Behind
    <3>5. Waiting'
      BY <2>0, <3>1, <3>2, <3>3, <3>4 DEF Waiting
    <3>6. NotConnected'
      BY <2>0, <2>a, <3>1, <3>2 DEF NotConnected
    <3>7. QED
      BY <2>0, <3>1, <3>5, <3>6 DEF OneServed, Behind
  <2>2. ASSUME NEW c \in Clients, Write(c)
        PROVE  OneServed' /\ Waiting' /\ NotConnected' /\ Behind'
    <3>1. PICK n \in Nat \ {0} :
            /\ put' = [put EXCEPT ![c] = @ + n]
            /\ sender' = [sender EXCEPT
                 ![c] = IF (put[c] + n) % PacketLen = 0 THEN "sent" ELSE "writing"]
      BY <2>0, <2>2, WriteTurn
    <3>2. sender[c] \in {"loop", "writing"} /\ UNCHANGED <<serving, taken, buffered, queue>>
      BY <2>2 DEF Write, serverVars
    <3>3. Behind'
      BY <2>0, <2>a, <3>1, <3>2 DEF Behind
    <3>4. NotConnected'
      BY <2>0, <2>a, <3>1, <3>2 DEF NotConnected
    <3>5. QED
      BY <2>0, <3>2, <3>3, <3>4 DEF OneServed, Waiting
  <2>3. ASSUME NEW c \in Clients, WriteFails(c) \/ CountSent(c) \/ Leave(c) \/ Break(c)
        PROVE  OneServed' /\ Waiting' /\ NotConnected' /\ Behind'
    <3>1. /\ UNCHANGED <<serving, taken, put, buffered, queue>>
          /\ \A d \in Clients : sender'[d] = "connecting" => sender[d] = "connecting"
      BY <2>a, <2>3 DEF WriteFails, CountSent, Leave, Break, Goto, clientVars, serverVars
    <3>2. QED
      BY <2>0, <3>1 DEF OneServed, Waiting, NotConnected, Behind
  <2>4. CASE Accept
    <3>1. /\ serving = {} /\ queue # <<>> /\ serving' = {Head(queue)} /\ queue' = Tail(queue)
          /\ UNCHANGED <<sender, taken, put, buffered>>
      BY <2>4 DEF Accept, clientVars
    <3>2. /\ Len(queue) \in Nat \ {0} /\ Head(queue) = queue[1] /\ queue[1] \in Clients
          /\ Len(queue') = Len(queue) - 1
          /\ \A i \in 1 .. Len(queue') : i + 1 \in 1 .. Len(queue) /\ queue'[i] = queue[i + 1]
      BY <2>a, <3>1
    <3>3. OneServed'
      BY <2>0, <2>a, <3>1, <3>2 DEF OneServed
    <3>4. Waiting'
      <4>1. ASSUME NEW i \in 1 .. Len(queue') PROVE queue'[i] \notin serving' /\ taken[queue'[i]] = 0
        BY <2>0, <3>1, <3>2 DEF Waiting
      <4>2. ASSUME NEW i \in 1 .. Len(queue'), NEW j \in 1 .. Len(queue'), queue'[i] = queue'[j]
            PROVE  i = j
        BY <2>0, <3>2, <4>2 DEF Waiting
      <4>3. QED
        BY <3>1, <4>1, <4>2 DEF Waiting
    <3>5. NotConnected'
      BY <2>0, <3>1, <3>2 DEF NotConnected
    <3>6. QED
      BY <2>0, <3>1, <3>3, <3>4, <3>5 DEF Behind
  <2>5. ASSUME NEW c \in Clients, NEW n \in 1 .. BufferSize, Read(c, n)
        PROVE  OneServed' /\ Waiting' /\ NotConnected' /\ Behind'
    <3>1. /\ serving = {c} /\ buffered = 0 /\ n <= put[c] - taken[c] /\ buffered' = n
          /\ taken' = [taken EXCEPT ![c] = @ + n] /\ UNCHANGED <<serving, sender, put, queue>>
      BY <2>5 DEF Read, clientVars
    <3>2. n \in Nat
      BY StreamsAssumption
    <3>3. Waiting'
      BY <2>0, <2>a, <3>1 DEF Waiting
    <3>4. OneServed' /\ NotConnected' /\ Behind'
      BY <2>0, <2>a, <3>1, <3>2 DEF OneServed, NotConnected, Behind
    <3>5. QED
      BY <3>3, <3>4
  <2>6. ASSUME NEW c \in Clients, FeedHeader(c) \/ FeedPayload(c)
        PROVE  OneServed' /\ Waiting' /\ NotConnected' /\ Behind'
    <3>1. serving = {c} /\ UNCHANGED <<serving, taken, sender, put, queue>>
      BY <2>6 DEF FeedHeader, FeedPayload, clientVars
    <3>2. \E take \in 0 .. buffered : buffered' = buffered - take
      <4>1. CASE FeedHeader(c)
        <5>1. \E take \in 1 .. buffered : buffered' = buffered - take
          BY <2>0, <4>1, HeaderTurn
        <5>2. QED
          BY <2>a, <5>1
      <4>2. CASE FeedPayload(c)
        BY <2>0, <4>2, PayloadTurn
      <4>3. QED
        BY <2>6, <4>1, <4>2
    <3>3. OneServed'
      BY <2>0, <2>a, <3>1, <3>2 DEF OneServed
    <3>4. QED
      BY <2>0, <3>1, <3>3 DEF Waiting, NotConnected, Behind
  <2>7. ASSUME NEW c \in Clients, EndOfStream(c)
        PROVE  OneServed' /\ Waiting' /\ NotConnected' /\ Behind'
    <3>1. buffered = 0 /\ serving' = {} /\ UNCHANGED <<buffered, taken, sender, put, queue>>
      BY <2>7 DEF EndOfStream, clientVars
    <3>2. QED
      BY <2>0, <3>1 DEF OneServed, Waiting, NotConnected, Behind
  <2>8. CASE ServerLeaves
    <3>1. /\ buffered = 0 /\ serving' = {} /\ queue' = <<>>
          /\ UNCHANGED <<buffered, taken, sender, put>>
      BY <2>8 DEF ServerLeaves, clientVars
    <3>2. QED
      BY <2>0, <3>1 DEF OneServed, Waiting, NotConnected, Behind
  <2>9. CASE Stop \/ Ask \/ ReadPackets \/ ReadBytes \/ UNCHANGED vars
    <3>1. UNCHANGED <<serving, buffered, taken, sender, put, queue>>
      BY <2>9 DEF Stop, Ask, ReadPackets, ReadBytes, vars, clientVars, serverVars
    <3>2. QED
      BY <2>0, <3>1 DEF OneServed, Waiting, NotConnected, Behind
  <2>10. QED
    BY <2>1, <2>2, <2>3, <2>4, <2>5, <2>6, <2>7, <2>8, <2>9
       DEF Next, ClientThread, ServerThread
<1>3. QED
  BY <1>1, <1>2, TypeCorrect, PTL DEF Spec

-----------------------------------------------------------------------------
(* The frame reader.                                                         *)

(* How far it is in each connection.                                       *)
Fed == [c \in Clients |-> Position(c)]

(* It has have bytes of the header of frame f.                             *)
AtHeader(c, f) ==
  /\ reader.state = "header"
  /\ Fed[c] % PacketLen = Start(f) + reader.have

(* It misses remaining bytes of the payload of frame f, and kept of those  *)
(* before what a data-channel header needs.                                *)
AtPayload(c, f) ==
  /\ reader.state = "payload"
  /\ reader.remaining \in 1 .. Chunk(f)
  /\ Fed[c] % PacketLen = Start(f) + HEADER + (Chunk(f) - reader.remaining)
  /\ reader.head = IF CHANNEL <= Chunk(f) - reader.remaining
                   THEN CHANNEL ELSE Chunk(f) - reader.remaining

InFrame == \A c \in serving : \E f \in Frame : AtHeader(c, f) \/ AtPayload(c, f)

HeadersCounted == received_packets = Cardinality(Marked(Fed, HeaderEnd))

MessagesCounted ==
  received_messages = Cardinality(Marked(Fed, ChannelEnd)) /\ invalid = 0

LEMMA FedType ==
  ASSUME Places
  PROVE  Fed \in Positions
<1>1. taken \in [Clients -> Nat] /\ buffered \in Nat
  <2>1. BufferSize \in Nat /\ buffered \in 0 .. BufferSize
    BY StreamsAssumption DEF Places, TypeOK
  <2>2. buffered \in Nat
    BY <2>1
  <2>3. QED
    BY <2>2 DEF Places, TypeOK
<1>2. QED
  BY <1>1 DEF Fed, Position, Positions, Places, OneServed

LEMMA InStep ==
  ASSUME Places, HeadersCounted, MessagesCounted
  PROVE  ReaderInStep
<1>1. Fed \in Positions
  BY FedType
<1>2. Marked(Fed, HeaderEnd) = {b \in Bytes(Fed) : HeaderEnds(b[2])}
  BY <1>1 DEF Marked, HeaderEnd, Bytes, Positions
<1>3. Marked(Fed, ChannelEnd) = {b \in Bytes(Fed) : DecodesAt(b[2])}
  BY <1>1 DEF Marked, ChannelEnd, Bytes, Positions
<1>4. /\ received_packets = Cardinality({b \in Bytes(Fed) : HeaderEnds(b[2])})
      /\ received_messages = Cardinality({b \in Bytes(Fed) : DecodesAt(b[2])})
  BY <1>2, <1>3, Zenon DEF HeadersCounted, MessagesCounted
<1>5. QED
  BY <1>4 DEF ReaderInStep, Fed, MessagesCounted

(* A turn of feed's loop gets on by the bytes it takes.                    *)
LEMMA FedOn ==
  ASSUME Places, NEW c \in Clients, NEW take \in 0 .. buffered,
         buffered' = buffered - take, serving = {c}, UNCHANGED <<serving, taken>>
  PROVE  /\ Fed \in Positions /\ Fed' \in Positions
         /\ Fed'[c] = Fed[c] + take /\ \A d \in Clients \ {c} : Fed'[d] = Fed[d]
<1>1. taken \in [Clients -> Nat] /\ buffered \in Nat
  <2>1. BufferSize \in Nat /\ buffered \in 0 .. BufferSize
    BY StreamsAssumption DEF Places, TypeOK
  <2>2. buffered \in Nat
    BY <2>1
  <2>3. QED
    BY <2>2 DEF Places, TypeOK
<1>2. Fed \in Positions
  BY FedType
<1>3. Fed'[c] = Fed[c] + take /\ \A d \in Clients \ {c} : Fed'[d] = Fed[d]
  BY <1>1 DEF Fed, Position
<1>4. Fed' = [d \in Clients |-> Fed'[d]] /\ \A d \in Clients : Fed'[d] \in Nat
  <2>1. Fed[c] + take \in Nat /\ \A d \in Clients : Fed[d] \in Nat
    BY <1>1, <1>2 DEF Positions
  <2>2. QED
    BY <1>3, <2>1 DEF Fed
<1>5. QED
  BY <1>2, <1>3, <1>4 DEF Positions

(* Nothing else moves the reader.                                          *)
LEMMA FedStays ==
  ASSUME Places, [Next]_vars, ~\E c \in Clients : FeedHeader(c) \/ FeedPayload(c)
  PROVE  Fed' = Fed /\ UNCHANGED <<received_packets, received_messages, invalid>>
<1>1. taken \in [Clients -> Nat] /\ (serving = {} => buffered = 0)
  BY DEF Places, TypeOK, OneServed
<1>2. CASE Accept
  <2>1. serving = {} /\ UNCHANGED <<taken, buffered, received_packets, received_messages, invalid>>
    BY <1>2 DEF Accept
  <2>2. \A c \in Clients : Position(c) = taken[c] /\ Position(c)' = taken[c]
    BY <1>1, <2>1 DEF Position
  <2>3. QED
    BY <2>1, <2>2 DEF Fed
<1>3. ASSUME NEW c \in Clients, NEW n \in 1 .. BufferSize, Read(c, n)
      PROVE  Fed' = Fed /\ UNCHANGED <<received_packets, received_messages, invalid>>
  <2>1. /\ serving = {c} /\ serving' = {c} /\ buffered = 0 /\ buffered' = n
        /\ taken' = [taken EXCEPT ![c] = @ + n]
        /\ UNCHANGED <<received_packets, received_messages, invalid>>
    BY <1>3 DEF Read
  <2>2. n \in Nat
    BY StreamsAssumption
  <2>3. \A d \in Clients : Position(d) = taken[d] /\ Position(d)' = taken[d]
    BY <1>1, <2>1, <2>2 DEF Position
  <2>4. QED
    BY <2>1, <2>3 DEF Fed
<1>4. ASSUME ServerLeaves \/ \E c \in Clients : EndOfStream(c)
      PROVE  Fed' = Fed /\ UNCHANGED <<received_packets, received_messages, invalid>>
  <2>1. /\ buffered = 0 /\ serving' = {}
        /\ UNCHANGED <<taken, buffered, received_packets, received_messages, invalid>>
    BY <1>4 DEF ServerLeaves, EndOfStream
  <2>2. \A c \in Clients : Position(c) = taken[c] /\ Position(c)' = taken[c]
    BY <1>1, <2>1 DEF Position
  <2>3. QED
    BY <2>1, <2>2 DEF Fed
<1>5. ASSUME UNCHANGED serverVars
      PROVE  Fed' = Fed /\ UNCHANGED <<received_packets, received_messages, invalid>>
  BY <1>5 DEF Fed, Position, serverVars
<1>6. ASSUME NEW c \in Clients, Connect(c) \/ ClientThread(c) \/ Break(c)
      PROVE  UNCHANGED serverVars
  BY <1>6 DEF Connect, ClientThread, Write, WriteFails, CountSent, Leave, Break
<1>7. ASSUME Stop \/ Ask \/ ReadPackets \/ ReadBytes \/ UNCHANGED vars
      PROVE  UNCHANGED serverVars
  BY <1>7 DEF Stop, Ask, ReadPackets, ReadBytes, vars
<1>8. QED
  BY <1>2, <1>3, <1>4, <1>5, <1>6, <1>7 DEF Next, ServerThread

(* The two kinds of turn keep the place and the counts.                    *)
LEMMA HeaderStep ==
  ASSUME Places, InFrame, HeadersCounted, MessagesCounted,
         NEW c \in Clients, FeedHeader(c)
  PROVE  InFrame' /\ HeadersCounted' /\ MessagesCounted'
<1>1. /\ serving = {c} /\ reader.state = "header"
      /\ UNCHANGED <<serving, taken, received_messages, invalid>>
  BY DEF FeedHeader
<1>2. TypeOK /\ HEADER \in Nat \ {0} /\ PacketLen \in Nat \ {0} /\ CHANNEL \in Nat \ {0}
  BY StreamsAssumption, PacketType DEF Places
<1>3. reader.have \in 0 .. HEADER - 1
  BY <1>2 DEF TypeOK
<1>4. PICK take \in 1 .. buffered :
        /\ reader.have + take <= HEADER
        /\ reader.have + take < HEADER => take = buffered
        /\ buffered' = buffered - take
        /\ received_packets' =
             received_packets + (IF reader.have + take = HEADER THEN 1 ELSE 0)
        /\ reader' = IF reader.have + take # HEADER THEN [reader EXCEPT !.have = @ + take]
                     ELSE IF LengthAt(Position(c) + take) = 0 THEN FreshReader
                     ELSE [FreshReader EXCEPT !.state = "payload",
                                              !.remaining = LengthAt(Position(c) + take)]
  BY <1>2, HeaderTurn
<1>5. take \in Nat \ {0} /\ take \in 0 .. buffered
  BY <1>4
<1>6. /\ Fed \in Positions /\ Fed' \in Positions
      /\ Fed'[c] = Fed[c] + take /\ \A d \in Clients \ {c} : Fed'[d] = Fed[d]
  BY <1>1, <1>4, <1>5, FedOn
<1>7. Fed[c] \in Nat /\ Position(c) = Fed[c]
  BY <1>6 DEF Positions, Fed
<1>8. PICK f \in Frame : AtHeader(c, f)
  BY <1>1 DEF InFrame, AtPayload
<1>9. /\ Fed[c] % PacketLen = Start(f) + reader.have
      /\ Start(f) \in Nat /\ Chunk(f) \in Nat \ {0} /\ Start(f) + HEADER + Chunk(f) <= PacketLen
  BY <1>8, FrameType, FrameInPacket, StreamsAssumption DEF AtHeader
<1>10. \A j \in 1 .. take :
         /\ HeaderEnds(Fed[c] + j) <=> reader.have + j = HEADER
         /\ reader.have + j = HEADER => LengthAt(Fed[c] + j) = Chunk(f)
         /\ ~DecodesAt(Fed[c] + j)
  <2> SUFFICES ASSUME NEW j \in 1 .. take
               PROVE  /\ HeaderEnds(Fed[c] + j) <=> reader.have + j = HEADER
                      /\ reader.have + j = HEADER => LengthAt(Fed[c] + j) = Chunk(f)
                      /\ ~DecodesAt(Fed[c] + j)
    OBVIOUS
  <2>1. j \in 1 .. HEADER - reader.have
    BY <1>2, <1>3, <1>4, <1>5
  <2>2. QED
    BY <1>3, <1>7, <1>9, <2>1, InHeader
<1>11. Fed'[c] % PacketLen = Start(f) + (reader.have + take)
  <2>1. (Fed[c] % PacketLen) + take < PacketLen
    BY <1>2, <1>3, <1>4, <1>5, <1>9
  <2>2. (Fed[c] + take) % PacketLen = (Fed[c] % PacketLen) + take
    BY <1>2, <1>5, <1>7, <2>1, GoOn
  <2>3. QED
    BY <1>3, <1>5, <1>6, <1>9, <2>2
<1>12. MessagesCounted'
  <2>1. \A j \in 1 .. take : Fed[c] + j \notin ChannelEnd
    BY <1>10 DEF ChannelEnd
  <2>2. Cardinality(Marked(Fed', ChannelEnd)) = Cardinality(Marked(Fed, ChannelEnd))
    BY <1>5, <1>6, <2>1, GetOnNone
  <2>3. QED
    BY <1>1, <2>2 DEF MessagesCounted
<1>13. CASE reader.have + take = HEADER
  <2>1. \A j \in 1 .. take : Fed[c] + j \in HeaderEnd <=> j = take
    BY <1>3, <1>5, <1>7, <1>10, <1>13 DEF HeaderEnd
  <2>2. take \in 1 .. take
    BY <1>5
  <2>3. Cardinality(Marked(Fed', HeaderEnd)) = Cardinality(Marked(Fed, HeaderEnd)) + 1
    BY <1>5, <1>6, <2>1, <2>2, GetOnOne
  <2>4. HeadersCounted'
    BY <1>4, <1>13, <2>3 DEF HeadersCounted
  <2>5. LengthAt(Position(c) + take) = Chunk(f)
    BY <1>7, <1>10, <1>13, <2>2
  <2>6. /\ reader'.state = "payload" /\ reader'.remaining = Chunk(f) /\ reader'.head = 0
    BY <1>4, <1>9, <1>13, <2>5 DEF FreshReader
  <2>7. AtPayload(c, f)'
    BY <1>2, <1>9, <1>11, <1>13, <2>6 DEF AtPayload
  <2>8. InFrame'
    BY <1>1, <2>7 DEF InFrame
  <2>9. QED
    BY <1>12, <2>4, <2>8
<1>14. CASE reader.have + take # HEADER
  <2>1. \A j \in 1 .. take : Fed[c] + j \notin HeaderEnd
    BY <1>2, <1>3, <1>4, <1>5, <1>10, <1>14 DEF HeaderEnd
  <2>2. Cardinality(Marked(Fed', HeaderEnd)) = Cardinality(Marked(Fed, HeaderEnd))
    BY <1>5, <1>6, <2>1, GetOnNone
  <2>3. received_packets' = received_packets
    BY <1>2, <1>4, <1>14 DEF TypeOK
  <2>4. HeadersCounted'
    BY <2>2, <2>3 DEF HeadersCounted
  <2>5. reader'.state = "header" /\ reader'.have = reader.have + take
    <3>1. reader' = [reader EXCEPT !.have = @ + take]
      BY <1>4, <1>14
    <3>2. QED
      BY <1>1, <1>2, <3>1 DEF TypeOK
  <2>6. AtHeader(c, f)'
    BY <1>11, <2>5 DEF AtHeader
  <2>7. InFrame'
    BY <1>1, <2>6 DEF InFrame
  <2>8. QED
    BY <1>12, <2>4, <2>7
<1>15. QED
  BY <1>13, <1>14

LEMMA PayloadStep ==
  ASSUME Places, InFrame, HeadersCounted, MessagesCounted,
         NEW c \in Clients, FeedPayload(c)
  PROVE  InFrame' /\ HeadersCounted' /\ MessagesCounted'
<1>1. /\ serving = {c} /\ reader.state = "payload"
      /\ UNCHANGED <<serving, taken, received_packets>>
  BY DEF FeedPayload
<1>2. TypeOK /\ HEADER \in Nat \ {0} /\ PacketLen \in Nat \ {0} /\ CHANNEL \in Nat \ {0}
  BY StreamsAssumption, PacketType DEF Places
<1>3. reader.remaining \in Nat /\ received_messages \in Nat /\ invalid \in Nat
  <2>1. CHUNK \in Nat /\ reader.remaining \in 0 .. CHUNK
    BY <1>2, StreamsAssumption DEF TypeOK
  <2>2. QED
    BY <1>2, <2>1 DEF TypeOK
<1>4. PICK take \in 0 .. buffered, k \in 0 .. CHANNEL :
        /\ take <= reader.remaining /\ k <= take /\ reader.head + k <= CHANNEL
        /\ reader.head + k < CHANNEL => k = take
        /\ buffered' = buffered - take
        /\ LET complete == reader.head < CHANNEL /\ reader.head + k = CHANNEL
               decodes == DecodesAt(Position(c) + k)
           IN  /\ received_messages' =
                    received_messages + (IF complete /\ decodes THEN 1 ELSE 0)
               /\ invalid' = invalid + (IF complete /\ ~decodes THEN 1 ELSE 0)
        /\ reader' = IF take = reader.remaining THEN FreshReader
                     ELSE [reader EXCEPT !.remaining = @ - take, !.head = @ + k]
  BY <1>2, PayloadTurn
<1>5. take \in Nat /\ k \in Nat
  BY <1>4
<1>6. /\ Fed \in Positions /\ Fed' \in Positions
      /\ Fed'[c] = Fed[c] + take /\ \A d \in Clients \ {c} : Fed'[d] = Fed[d]
  BY <1>1, <1>4, <1>5, FedOn
<1>7. Fed[c] \in Nat /\ Position(c) = Fed[c]
  BY <1>6 DEF Positions, Fed
<1>8. PICK f \in Frame : AtPayload(c, f)
  BY <1>1 DEF InFrame, AtHeader
<1> DEFINE read == Chunk(f) - reader.remaining
<1>9. /\ reader.remaining \in 1 .. Chunk(f)
      /\ Fed[c] % PacketLen = Start(f) + HEADER + read
      /\ reader.head = IF CHANNEL <= read THEN CHANNEL ELSE read
      /\ Start(f) \in Nat /\ Chunk(f) \in Nat \ {0} /\ Start(f) + HEADER + Chunk(f) <= PacketLen
  BY <1>8, FrameType, FrameInPacket, StreamsAssumption DEF AtPayload
<1>10. read \in 0 .. Chunk(f) - 1 /\ read + take <= Chunk(f)
  BY <1>3, <1>4, <1>5, <1>9
<1>a. Chunk(f) = read + reader.remaining
  BY <1>3, <1>9
<1> HIDE DEF read
<1>11. \A j \in 1 .. take :
         /\ ~HeaderEnds(Fed[c] + j)
         /\ DecodesAt(Fed[c] + j) <=> read + j = CHANNEL
  <2> SUFFICES ASSUME NEW j \in 1 .. take
               PROVE  /\ ~HeaderEnds(Fed[c] + j)
                      /\ DecodesAt(Fed[c] + j) <=> read + j = CHANNEL
    OBVIOUS
  <2>1. j \in 1 .. Chunk(f) - read
    BY <1>5, <1>9, <1>10
  <2>2. QED
    BY <1>7, <1>9, <1>10, <2>1, InPayload
<1>12. HeadersCounted'
  <2>1. \A j \in 1 .. take : Fed[c] + j \notin HeaderEnd
    BY <1>11 DEF HeaderEnd
  <2>2. Cardinality(Marked(Fed', HeaderEnd)) = Cardinality(Marked(Fed, HeaderEnd))
    BY <1>5, <1>6, <2>1, GetOnNone
  <2>3. QED
    BY <1>1, <2>2 DEF HeadersCounted
<1>13. MessagesCounted'
  <2>1. CASE reader.head < CHANNEL /\ reader.head + k = CHANNEL
    <3>1. read + k = CHANNEL /\ k \in 1 .. take
      BY <1>2, <1>4, <1>5, <1>9, <1>10, <2>1
    <3>2. \A j \in 1 .. take : Fed[c] + j \in ChannelEnd <=> j = k
      BY <1>5, <1>7, <1>10, <1>11, <3>1 DEF ChannelEnd
    <3>3. Cardinality(Marked(Fed', ChannelEnd)) = Cardinality(Marked(Fed, ChannelEnd)) + 1
      BY <1>5, <1>6, <3>1, <3>2, GetOnOne
    <3>4. DecodesAt(Position(c) + k)
      BY <1>7, <1>11, <3>1
    <3>5. received_messages' = received_messages + 1 /\ invalid' = invalid
      BY <1>2, <1>4, <2>1, <3>4 DEF TypeOK
    <3>6. QED
      BY <3>3, <3>5 DEF MessagesCounted
  <2>2. CASE ~(reader.head < CHANNEL /\ reader.head + k = CHANNEL)
    <3>1. \A j \in 1 .. take : read + j # CHANNEL
      BY <1>2, <1>4, <1>5, <1>9, <1>10, <2>2
    <3>2. \A j \in 1 .. take : Fed[c] + j \notin ChannelEnd
      BY <1>11, <3>1 DEF ChannelEnd
    <3>3. Cardinality(Marked(Fed', ChannelEnd)) = Cardinality(Marked(Fed, ChannelEnd))
      BY <1>5, <1>6, <3>2, GetOnNone
    <3>4. received_messages' = received_messages /\ invalid' = invalid
      BY <1>3, <1>4, <2>2
    <3>5. QED
      BY <3>3, <3>4 DEF MessagesCounted
  <2>3. QED
    BY <2>1, <2>2
<1>14. (Fed[c] % PacketLen) + take = Start(f) + HEADER + (read + take)
  BY <1>2, <1>5, <1>9, <1>10
<1>15. CASE take # reader.remaining
  <2>1. read + take < Chunk(f)
    BY <1>3, <1>4, <1>5, <1>a, <1>10, <1>15
  <2>2. Fed'[c] % PacketLen = Start(f) + HEADER + (read + take)
    <3>1. (Fed[c] % PacketLen) + take < PacketLen
      BY <1>2, <1>5, <1>9, <1>10, <1>14, <2>1
    <3>2. (Fed[c] + take) % PacketLen = (Fed[c] % PacketLen) + take
      BY <1>2, <1>5, <1>7, <3>1, GoOn
    <3>3. QED
      BY <1>6, <1>14, <3>2
  <2>3. /\ reader'.state = "payload" /\ reader'.remaining = reader.remaining - take
        /\ reader'.head = reader.head + k
    <3>1. reader' = [reader EXCEPT !.remaining = @ - take, !.head = @ + k]
      BY <1>4, <1>15
    <3>2. QED
      BY <1>1, <1>2, <3>1 DEF TypeOK
  <2>4. /\ reader'.remaining \in 1 .. Chunk(f)
        /\ Chunk(f) - reader'.remaining = read + take
    BY <1>3, <1>4, <1>5, <1>9, <1>a, <1>10, <2>1, <2>3
  <2>5. reader'.head = IF CHANNEL <= read + take THEN CHANNEL ELSE read + take
    BY <1>2, <1>4, <1>5, <1>9, <1>10, <2>3
  <2>6. AtPayload(c, f)'
    BY <2>2, <2>3, <2>4, <2>5 DEF AtPayload
  <2>7. InFrame'
    BY <1>1, <2>6 DEF InFrame
  <2>8. QED
    BY <1>12, <1>13, <2>7
<1>16. CASE take = reader.remaining
  <2>1. (Fed[c] % PacketLen) + take = Start(f) + HEADER + Chunk(f)
    BY <1>9, <1>14, <1>16, <1>a
  <2>2. reader' = FreshReader
    BY <1>4, <1>16
  <2>3. reader'.state = "header" /\ reader'.have = 0
    BY <2>2 DEF FreshReader
  <2>4. \E g \in Frame : Fed'[c] % PacketLen = Start(g)
    <3>1. CASE f # Frames - 1
      <4>1. f + 1 \in Frame /\ Start(f) + HEADER + Chunk(f) = Start(f + 1)
        BY <3>1, FrameEnds
      <4>2. Start(f + 1) < PacketLen /\ Start(f + 1) \in Nat
        BY <1>2, <4>1, FrameType, FrameInPacket, StreamsAssumption
      <4>3. (Fed[c] + take) % PacketLen = (Fed[c] % PacketLen) + take
        BY <1>2, <1>5, <1>7, <2>1, <4>1, <4>2, GoOn
      <4>4. QED
        BY <1>6, <2>1, <4>1, <4>3
    <3>2. CASE f = Frames - 1
      <4>1. (Fed[c] % PacketLen) + take = PacketLen
        BY <2>1, <3>2, FrameEnds
      <4>2. (Fed[c] + take) % PacketLen = 0
        BY <1>2, <1>5, <1>7, <4>1, GoOn
      <4>3. 0 \in Frame /\ Start(0) = 0
        BY FramesAreEnough, StreamsAssumption DEF Frame, Start
      <4>4. QED
        BY <1>6, <4>2, <4>3
    <3>3. QED
      BY <3>1, <3>2
  <2>5. PICK g \in Frame : Fed'[c] % PacketLen = Start(g) /\ Start(g) \in Nat
    BY <2>4, FrameType
  <2>6. AtHeader(c, g)'
    BY <2>3, <2>5 DEF AtHeader
  <2>7. InFrame'
    BY <1>1, <2>6 DEF InFrame
  <2>8. QED
    BY <1>12, <1>13, <2>7
<1>17. QED
  BY <1>15, <1>16

LEMMA NothingYet ==
  ASSUME NEW f \in Positions, \A c \in Clients : f[c] = 0, NEW S
  PROVE  Cardinality(Marked(f, S)) = 0 /\ Cardinality(Bytes(f)) = 0
<1>1. Bytes(f) = {} /\ Marked(f, S) = {}
  BY DEF Marked, Bytes
<1>2. Cardinality({}) = 0
  BY FS_EmptySet
<1>3. QED
  BY <1>1, <1>2, Zenon

LEMMA ReaderInvariant == Spec => [](InFrame /\ HeadersCounted /\ MessagesCounted)
<1>1. Init => InFrame /\ HeadersCounted /\ MessagesCounted
  <2> SUFFICES ASSUME Init PROVE InFrame /\ HeadersCounted /\ MessagesCounted
    OBVIOUS
  <2>1. /\ serving = {} /\ taken = [c \in Clients |-> 0]
        /\ received_packets = 0 /\ received_messages = 0 /\ invalid = 0
    BY DEF Init
  <2>2. Fed \in Positions /\ \A c \in Clients : Fed[c] = 0
    BY <2>1 DEF Fed, Position, Positions
  <2>3. Cardinality(Marked(Fed, HeaderEnd)) = 0 /\ Cardinality(Marked(Fed, ChannelEnd)) = 0
    BY <2>2, NothingYet
  <2>4. QED
    BY <2>1, <2>3 DEF InFrame, HeadersCounted, MessagesCounted
<1>2. /\ Places /\ Places' /\ InFrame /\ HeadersCounted /\ MessagesCounted /\ [Next]_vars
      => (InFrame /\ HeadersCounted /\ MessagesCounted)'
  <2> SUFFICES ASSUME Places, Places', InFrame, HeadersCounted, MessagesCounted, [Next]_vars
               PROVE  InFrame' /\ HeadersCounted' /\ MessagesCounted'
    OBVIOUS
  <2>1. CASE \E c \in Clients : FeedHeader(c) \/ FeedPayload(c)
    BY <2>1, HeaderStep, PayloadStep
  <2>2. CASE ~\E c \in Clients : FeedHeader(c) \/ FeedPayload(c)
    <3>1. Fed' = Fed /\ UNCHANGED <<received_packets, received_messages, invalid>>
      BY <2>2, FedStays
    <3>2. HeadersCounted' /\ MessagesCounted'
      BY <3>1 DEF HeadersCounted, MessagesCounted
    <3>3. CASE Accept
      <4>1. /\ serving = {} /\ queue # <<>> /\ serving' = {Head(queue)} /\ reader' = FreshReader
            /\ UNCHANGED <<taken, buffered>>
        BY <3>3 DEF Accept
      <4>2. queue \in Seq(Clients) /\ buffered = 0
        BY <4>1 DEF Places, TypeOK, OneServed
      <4>3. Head(queue) = queue[1] /\ queue[1] \in Clients /\ 1 \in 1 .. Len(queue)
        BY <4>1, <4>2
      <4>4. PICK c \in Clients : c = Head(queue)
        BY <4>3
      <4>5. taken[c] = 0
        BY <4>3, <4>4 DEF Places, Waiting
      <4>6. Fed'[c] = 0
        BY <3>1, <4>1, <4>2, <4>5 DEF Fed, Position
      <4>7. 0 \in Frame /\ Start(0) = 0
        BY FramesAreEnough, StreamsAssumption DEF Frame, Start
      <4>8. 0 % PacketLen = 0
        BY PacketType
      <4>9. reader'.state = "header" /\ reader'.have = 0
        BY <4>1 DEF FreshReader
      <4>10. AtHeader(c, 0)'
        BY <4>6, <4>7, <4>8, <4>9 DEF AtHeader
      <4>11. QED
        BY <3>2, <4>1, <4>4, <4>7, <4>10 DEF InFrame
    <3>4. CASE ~Accept
      <4>1. reader' = reader /\ serving' \in SUBSET serving
        BY <2>2, <3>4 DEF Next, ServerThread, ClientThread, Connect, Write, WriteFails, CountSent,
           Leave, Break, Stop, Read, EndOfStream, ServerLeaves, Ask, ReadPackets, ReadBytes, vars,
           clientVars, serverVars, debriefVars
      <4>2. InFrame'
        BY <3>1, <4>1 DEF InFrame, AtHeader, AtPayload
      <4>3. QED
        BY <3>2, <4>2
    <3>5. QED
      BY <3>3, <3>4
  <2>3. QED
    BY <2>1, <2>2
<1>3. QED
  BY <1>1, <1>2, PlacesInvariant, PTL DEF Spec

(* However the streams are cut into reads, the counters are those of the   *)
(* frames and headers in what was fed, and none is invalid.                *)
THEOREM InStepWithStreams == Spec => []ReaderInStep
<1>1. Places /\ HeadersCounted /\ MessagesCounted => ReaderInStep
  BY InStep
<1>2. QED
  BY <1>1, PlacesInvariant, ReaderInvariant, PTL

-----------------------------------------------------------------------------
(* The counters of bytes, and those of the client.                           *)

BytesCounted == received_bytes = Cardinality(Bytes(taken))

LEMMA BytesInvariant == Spec => []BytesCounted
<1>1. Init => BytesCounted
  <2> SUFFICES ASSUME Init PROVE BytesCounted
    OBVIOUS
  <2>1. taken \in Positions /\ (\A c \in Clients : taken[c] = 0) /\ received_bytes = 0
    BY DEF Init, Positions
  <2>2. QED
    BY <2>1, NothingYet DEF BytesCounted
<1>2. TypeOK /\ TypeOK' /\ BytesCounted /\ [Next]_vars => BytesCounted'
  <2> SUFFICES ASSUME TypeOK, TypeOK', BytesCounted, [Next]_vars PROVE BytesCounted'
    OBVIOUS
  <2>1. ASSUME NEW c \in Clients, NEW n \in 1 .. BufferSize, Read(c, n) PROVE BytesCounted'
    <3>1. taken' = [taken EXCEPT ![c] = @ + n] /\ received_bytes' = received_bytes + n
      BY <2>1 DEF Read
    <3>2. /\ taken \in Positions /\ taken' \in Positions
          /\ taken'[c] = taken[c] + n /\ \A d \in Clients \ {c} : taken'[d] = taken[d]
      BY <3>1 DEF TypeOK, Positions
    <3>3. n \in Nat
      BY StreamsAssumption
    <3>4. Cardinality(Bytes(taken')) = Cardinality(Bytes(taken)) + n
      BY <3>2, <3>3, GetOnAll
    <3>5. QED
      BY <3>1, <3>4 DEF BytesCounted
  <2>2. CASE ~\E c \in Clients, n \in 1 .. BufferSize : Read(c, n)
    <3>1. UNCHANGED <<taken, received_bytes>>
      BY <2>2 DEF Next, ServerThread, ClientThread, Connect, Write, WriteFails, CountSent, Leave,
         Break, Stop, Accept, FeedHeader, FeedPayload, EndOfStream, ServerLeaves, Ask,
         ReadPackets, ReadBytes, vars, clientVars, serverVars, debriefVars
    <3>2. QED
      BY <3>1 DEF BytesCounted
  <2>3. QED
    BY <2>1, <2>2
<1>3. QED
  BY <1>1, <1>2, TypeCorrect, PTL DEF Spec

(* The packets a client has counted: all that it wrote whole, but for the  *)
(* one it has just written.                                                *)
Logged == [c \in Clients |-> IF sender[c] = "sent" THEN put[c] - PacketLen
                             ELSE put[c] - (put[c] % PacketLen)]

(* Where in a packet a client thread is.                                   *)
AtPacket ==
  \A c \in Clients :
    /\ sender[c] \in {"connecting", "loop", "sent"} => put[c] % PacketLen = 0
    /\ sender[c] = "sent" => put[c] >= PacketLen
    /\ sender[c] = "writing" => put[c] % PacketLen # 0

SentCounted ==
  /\ sent_bytes = Cardinality(Bytes(Logged))
  /\ sent_packets = Cardinality(Marked(Logged, HeaderEnd))

LEMMA LoggedType ==
  ASSUME TypeOK, AtPacket
  PROVE  Logged \in Positions /\ \A c \in Clients : Logged[c] % PacketLen = 0
<1>1. PacketLen \in Nat \ {0} /\ put \in [Clients -> Nat]
  BY PacketType DEF TypeOK
<1> SUFFICES ASSUME NEW c \in Clients
             PROVE  Logged[c] \in Nat /\ Logged[c] % PacketLen = 0
  BY DEF Logged, Positions
<1> DEFINE q == put[c] \div PacketLen
           m == put[c] % PacketLen
<1>2. put[c] \in Nat /\ q \in Nat /\ m \in 0 .. PacketLen - 1 /\ put[c] = PacketLen * q + m
  BY <1>1, Division
<1>3. m = put[c] % PacketLen
  OBVIOUS
<1> HIDE DEF q, m
<1>4. CASE sender[c] = "sent"
  <2>1. m = 0 /\ put[c] >= PacketLen /\ Logged[c] = put[c] - PacketLen
    BY <1>3, <1>4 DEF AtPacket, Logged
  <2>2. q # 0
    BY <1>1, <1>2, <2>1
  <2>3. q - 1 \in Nat /\ 0 \in 0 .. PacketLen - 1 /\ Logged[c] = PacketLen * (q - 1) + 0
    BY <1>1, <1>2, <2>1, <2>2
  <2>4. (PacketLen * (q - 1) + 0) % PacketLen = 0
    BY <1>1, <2>3, Remainder
  <2>5. PacketLen * (q - 1) \in Nat
    BY <1>1, <2>3
  <2>6. QED
    BY <2>3, <2>4, <2>5
<1>5. CASE sender[c] # "sent"
  <2>0. Logged[c] = put[c] - m
    BY <1>3, <1>5 DEF Logged
  <2>1. Logged[c] = PacketLen * q + 0 /\ PacketLen * q \in Nat
    BY <1>1, <1>2, <2>0
  <2>2. 0 \in 0 .. PacketLen - 1
    BY <1>1
  <2>3. (PacketLen * q + 0) % PacketLen = 0
    BY <1>1, <1>2, <2>2, Remainder
  <2>4. QED
    BY <2>1, <2>3
<1>6. QED
  BY <1>4, <1>5

(* A client that gets on with a packet stays between two packets it has    *)
(* counted, or has just ended one.                                         *)
LEMMA WriteStep ==
  ASSUME TypeOK, AtPacket, NEW c \in Clients, Write(c)
  PROVE  AtPacket' /\ Logged' = Logged
<1>1. PICK n \in Nat \ {0} :
        /\ (put[c] % PacketLen) + n <= PacketLen
        /\ put' = [put EXCEPT ![c] = @ + n]
        /\ sender' = [sender EXCEPT
             ![c] = IF (put[c] + n) % PacketLen = 0 THEN "sent" ELSE "writing"]
  BY WriteTurn
<1>2. sender[c] \in {"loop", "writing"}
  BY DEF Write
<1>3. /\ put \in [Clients -> Nat]
      /\ sender \in [Clients -> {"connecting", "loop", "writing", "sent", "done"}]
  BY DEF TypeOK
<1>4. PacketLen \in Nat \ {0} /\ put[c] \in Nat /\ put[c] % PacketLen \in Nat
      /\ put[c] % PacketLen <= put[c]
  <2>1. PacketLen \in Nat \ {0} /\ put[c] \in Nat
    BY <1>3, PacketType
  <2>2. /\ put[c] \div PacketLen \in Nat /\ put[c] % PacketLen \in 0 .. PacketLen - 1
        /\ put[c] = PacketLen * (put[c] \div PacketLen) + (put[c] % PacketLen)
    BY <2>1, Division
  <2>3. PacketLen * (put[c] \div PacketLen) \in Nat
    BY <2>1, <2>2
  <2>4. QED
    BY <2>1, <2>2, <2>3
<1>5. put'[c] = put[c] + n /\ \A d \in Clients \ {c} : put'[d] = put[d] /\ sender'[d] = sender[d]
  BY <1>1, <1>3
<1>6. CASE (put[c] % PacketLen) + n < PacketLen
  <2>1. (put[c] + n) % PacketLen = (put[c] % PacketLen) + n
    BY <1>1, <1>4, <1>6, GoOn
  <2>2. sender'[c] = "writing" /\ put'[c] % PacketLen # 0
        /\ put'[c] - (put'[c] % PacketLen) = put[c] - (put[c] % PacketLen)
    BY <1>1, <1>3, <1>4, <1>5, <2>1
  <2>3. \A d \in Clients : Logged'[d] = Logged[d]
    BY <1>2, <1>5, <2>2 DEF Logged
  <2>4. AtPacket'
    BY <1>5, <2>2 DEF AtPacket
  <2>5. QED
    BY <2>3, <2>4 DEF Logged
<1>7. CASE (put[c] % PacketLen) + n = PacketLen
  <2>1. (put[c] + n) % PacketLen = 0
    BY <1>1, <1>4, <1>7, GoOn
  <2>2. sender'[c] = "sent" /\ put'[c] % PacketLen = 0 /\ put'[c] >= PacketLen
        /\ put'[c] - PacketLen = put[c] - (put[c] % PacketLen)
    BY <1>1, <1>3, <1>4, <1>5, <1>7, <2>1
  <2>3. \A d \in Clients : Logged'[d] = Logged[d]
    BY <1>2, <1>5, <2>2 DEF Logged
  <2>4. AtPacket'
    BY <1>5, <2>2 DEF AtPacket
  <2>5. QED
    BY <2>3, <2>4 DEF Logged
<1>8. QED
  BY <1>1, <1>4, <1>6, <1>7

LEMMA SenderInvariant == Spec => [](AtPacket /\ SentCounted)
<1>1. Init => AtPacket /\ SentCounted
  <2> SUFFICES ASSUME Init PROVE AtPacket /\ SentCounted
    OBVIOUS
  <2>1. 0 % PacketLen = 0
    BY PacketType
  <2>2. AtPacket
    BY <2>1 DEF Init, AtPacket
  <2>3. Logged \in Positions /\ (\A c \in Clients : Logged[c] = 0)
    BY <2>1 DEF Init, Logged, Positions
  <2>4. Cardinality(Marked(Logged, HeaderEnd)) = 0 /\ Cardinality(Bytes(Logged)) = 0
    BY <2>3, NothingYet
  <2>5. QED
    BY <2>2, <2>4 DEF Init, SentCounted
<1>2. TypeOK /\ TypeOK' /\ AtPacket /\ SentCounted /\ [Next]_vars
      => (AtPacket /\ SentCounted)'
  <2> SUFFICES ASSUME TypeOK, TypeOK', AtPacket, SentCounted, [Next]_vars
               PROVE  AtPacket' /\ SentCounted'
    OBVIOUS
  <2>0. /\ put \in [Clients -> Nat] /\ PacketLen \in Nat \ {0}
        /\ sender \in [Clients -> {"connecting", "loop", "writing", "sent", "done"}]
    BY PacketType DEF TypeOK
  <2>1. ASSUME NEW c \in Clients, CountSent(c) PROVE AtPacket' /\ SentCounted'
    <3>1. /\ sender[c] = "sent" /\ sender' = [sender EXCEPT ![c] = "loop"] /\ put' = put
          /\ sent_packets' = sent_packets + Frames /\ sent_bytes' = sent_bytes + PacketLen
      BY <2>1 DEF CountSent, Goto
    <3>2. put[c] % PacketLen = 0 /\ put[c] >= PacketLen
      BY <3>1 DEF AtPacket
    <3>3. AtPacket'
      BY <2>0, <3>1, <3>2 DEF AtPacket
    <3>4. Logged'[c] = Logged[c] + PacketLen /\ \A d \in Clients \ {c} : Logged'[d] = Logged[d]
      BY <2>0, <3>1, <3>2 DEF Logged
    <3>5. Logged \in Positions /\ \A d \in Clients : Logged[d] \in Nat /\ Logged[d] % PacketLen = 0
      BY LoggedType DEF Positions
    <3>6. Logged' \in Positions
      <4>1. Logged[c] + PacketLen \in Nat
        BY <2>0, <3>5
      <4>2. \A d \in Clients : Logged'[d] \in Nat
        BY <3>4, <3>5, <4>1
      <4>3. QED
        BY <4>2 DEF Logged, Positions
    <3>7. Cardinality(Bytes(Logged')) = Cardinality(Bytes(Logged)) + PacketLen
      BY <2>0, <3>4, <3>5, <3>6, GetOnAll
    <3>8. Cardinality(Marked(Logged', HeaderEnd)) =
            Cardinality(Marked(Logged, HeaderEnd))
              + Cardinality(After(Logged[c], PacketLen, HeaderEnd))
      BY <2>0, <3>4, <3>5, <3>6, GetOn
    <3>9. Cardinality(After(Logged[c], PacketLen, HeaderEnd)) = Frames
      BY <3>5, HeadersOfPacket
    <3>10. SentCounted'
      BY <3>1, <3>7, <3>8, <3>9 DEF SentCounted
    <3>11. QED
      BY <3>3, <3>10
  <2>2. ASSUME NEW c \in Clients, Write(c) PROVE AtPacket' /\ SentCounted'
    <3>1. AtPacket' /\ Logged' = Logged /\ UNCHANGED <<sent_bytes, sent_packets>>
      BY <2>2, WriteStep DEF Write
    <3>2. QED
      BY <3>1 DEF SentCounted
  <2>3. ASSUME NEW c \in Clients, Connect(c) \/ WriteFails(c) \/ Leave(c)
        PROVE  AtPacket' /\ SentCounted'
    <3>1. /\ put' = put /\ sender[c] # "sent" /\ UNCHANGED <<sent_bytes, sent_packets>>
          /\ sender' \in {[sender EXCEPT ![c] = "loop"], [sender EXCEPT ![c] = "done"]}
          /\ sender' = [sender EXCEPT ![c] = "loop"] => sender[c] = "connecting"
                                                        \/ sender' = [sender EXCEPT ![c] = "done"]
      BY <2>3 DEF Connect, WriteFails, Leave, Goto
    <3>2. AtPacket' /\ \A d \in Clients : Logged'[d] = Logged[d]
      BY <2>0, <3>1 DEF AtPacket, Logged
    <3>3. Logged' = Logged
      BY <3>2 DEF Logged
    <3>4. QED
      BY <3>1, <3>2, <3>3 DEF SentCounted
  <2>4. CASE ~\E c \in Clients : \/ Connect(c) \/ Write(c) \/ WriteFails(c)
                                 \/ CountSent(c) \/ Leave(c)
    <3>1. UNCHANGED <<put, sender, sent_bytes, sent_packets>>
      BY <2>4 DEF Next, ServerThread, ClientThread, Break, Stop, Accept, Read, FeedHeader,
         FeedPayload, EndOfStream, ServerLeaves, Ask, ReadPackets, ReadBytes, vars, clientVars,
         serverVars, debriefVars
    <3>2. QED
      BY <3>1 DEF AtPacket, SentCounted, Logged
  <2>5. QED
    BY <2>1, <2>2, <2>3, <2>4
<1>3. QED
  BY <1>1, <1>2, TypeCorrect, PTL DEF Spec

-----------------------------------------------------------------------------
(* The debrief.                                                              *)

Whole == debrief # "idle" /\ ~asked.partial

(* Once a debrief is asked for with no packet in part or uncounted, the    *)
(* clients are past writing, and the request is about all they wrote.      *)
Frozen ==
  Whole =>
    /\ stopping
    /\ \A c \in Clients : sender[c] \in {"connecting", "loop", "done"}
    /\ asked.bytes = Cardinality(Bytes(put))
    /\ asked.packets = Cardinality(Marked(put, HeaderEnd))

(* If then nothing was on its way when the packets were read, all of it    *)
(* was in.                                                                 *)
AllIn ==
  Whole /\ debrief = "packets" /\ ~tail =>
    counted = asked.packets /\ \A c \in Clients : taken[c] = put[c]

Verdict == MatchIsSound /\ NoFalseAlarm

(* Asked then, the client's counters are those of what was written.        *)
LEMMA AllLogged ==
  ASSUME TypeOK, AtPacket, SentCounted,
         ~\E c \in Clients : put[c] % PacketLen # 0 \/ sender[c] = "sent"
  PROVE  /\ \A c \in Clients : sender[c] \in {"connecting", "loop", "done"}
         /\ sent_bytes = Cardinality(Bytes(put))
         /\ sent_packets = Cardinality(Marked(put, HeaderEnd))
<1>1. /\ put \in [Clients -> Nat]
      /\ sender \in [Clients -> {"connecting", "loop", "writing", "sent", "done"}]
  BY DEF TypeOK
<1>2. \A c \in Clients : sender[c] \in {"connecting", "loop", "done"} /\ Logged[c] = put[c]
  BY <1>1 DEF AtPacket, Logged
<1>3. Logged = put
  BY <1>1, <1>2 DEF Logged
<1>4. QED
  BY <1>2, <1>3, Zenon DEF SentCounted

LEMMA DebriefInvariant == Spec => [](Frozen /\ AllIn /\ Verdict)
<1> DEFINE Counts == BytesCounted /\ HeadersCounted /\ AtPacket /\ SentCounted
<1>1. Init => Frozen /\ AllIn /\ Verdict
  BY DEF Init, Frozen, AllIn, Verdict, Whole, MatchIsSound, NoFalseAlarm
<1>2. Places /\ Counts /\ Frozen /\ AllIn /\ Verdict /\ [Next]_vars
      => (Frozen /\ AllIn /\ Verdict)'
  <2> SUFFICES ASSUME Places, Counts, Frozen, AllIn, Verdict, [Next]_vars
               PROVE  Frozen' /\ AllIn' /\ Verdict'
    OBVIOUS
  <2>0. TypeOK /\ Behind /\ taken \in Positions /\ put \in Positions
    BY DEF Places, TypeOK, Positions
  <2>1. CASE Ask
    <3>1. /\ stopping /\ debrief' = "asked" /\ UNCHANGED <<stopping, sender, put>>
          /\ asked' = [packets |-> sent_packets, bytes |-> sent_bytes,
               partial |-> \E c \in Clients : put[c] % PacketLen # 0 \/ sender[c] = "sent"]
      BY <2>1 DEF Ask, clientVars
    <3>2. Frozen'
      <4> SUFFICES ASSUME Whole' PROVE Frozen'
        BY DEF Frozen
      <4>1. ~\E c \in Clients : put[c] % PacketLen # 0 \/ sender[c] = "sent"
        BY <3>1 DEF Whole
      <4>2. /\ \A c \in Clients : sender[c] \in {"connecting", "loop", "done"}
            /\ sent_bytes = Cardinality(Bytes(put))
            /\ sent_packets = Cardinality(Marked(put, HeaderEnd))
        BY <2>0, <4>1, AllLogged
      <4>3. asked'.bytes = sent_bytes /\ asked'.packets = sent_packets
        BY <3>1
      <4>4. QED
        BY <3>1, <4>2, <4>3 DEF Frozen
    <3>3. QED
      BY <3>1, <3>2 DEF AllIn, Verdict, MatchIsSound, NoFalseAlarm
  <2>2. CASE ReadPackets
    <3>1. /\ debrief = "asked" /\ debrief' = "packets" /\ counted' = received_packets
          /\ tail' = \E c \in Clients : Position(c) # put[c]
          /\ UNCHANGED <<stopping, sender, put, taken, asked>>
      BY <2>2 DEF ReadPackets, clientVars, serverVars
    <3>2. Frozen'
      BY <3>1 DEF Frozen, Whole
    <3>3. ASSUME Whole', ~tail' PROVE counted' = asked'.packets /\ \A c \in Clients : taken[c] = put[c]
      <4>1. /\ asked.packets = Cardinality(Marked(put, HeaderEnd))
            /\ \A c \in Clients : Position(c) = put[c]
        BY <3>1, <3>3 DEF Frozen, Whole
      <4>2. Fed = put
        BY <2>0, <4>1 DEF Fed, Positions
      <4>3. received_packets = asked.packets
        BY <4>1, <4>2, Zenon DEF HeadersCounted
      <4>4. \A c \in Clients : Position(c) <= taken[c]
        <5>1. BufferSize \in Nat /\ buffered \in 0 .. BufferSize
          BY <2>0, StreamsAssumption DEF TypeOK
        <5>2. buffered \in Nat
          BY <5>1
        <5>3. QED
          BY <2>0, <5>2 DEF Position, Positions
      <4>5. \A c \in Clients : taken[c] = put[c]
        BY <2>0, <4>1, <4>4 DEF Behind, Positions
      <4>6. QED
        BY <3>1, <4>3, <4>5
    <3>4. QED
      BY <3>1, <3>2, <3>3 DEF AllIn, Verdict, MatchIsSound, NoFalseAlarm
  <2>3. CASE ReadBytes
    <3>1. /\ debrief = "packets"
          /\ debrief' = IF counted = asked.packets /\ received_bytes = asked.bytes
                        THEN "match" ELSE "mismatch"
          /\ UNCHANGED <<stopping, sender, put, taken, asked, tail>>
      BY <2>3 DEF ReadBytes, clientVars, serverVars
    <3>2. Frozen'
      BY <3>1 DEF Frozen, Whole
    <3>3. ~asked.partial => asked.bytes = Cardinality(Bytes(put))
      BY <3>1 DEF Frozen, Whole
    <3>4. MatchIsSound'
      <4> SUFFICES ASSUME debrief' = "match", ~asked.partial
                   PROVE  \A c \in Clients : taken[c] = put[c]
        BY <3>1 DEF MatchIsSound
      <4>1. Cardinality(Bytes(taken)) = Cardinality(Bytes(put))
        BY <3>1, <3>3 DEF BytesCounted
      <4>2. QED
        BY <2>0, <4>1, SameBytes DEF Behind
    <3>5. NoFalseAlarm'
      <4> SUFFICES ASSUME ~asked.partial, ~tail PROVE debrief' = "match"
        BY <3>1 DEF NoFalseAlarm
      <4>1. counted = asked.packets /\ \A c \in Clients : taken[c] = put[c]
        BY <3>1 DEF AllIn, Whole
      <4>2. taken = put
        BY <2>0, <4>1 DEF Positions
      <4>3. received_bytes = asked.bytes
        BY <3>3, <4>2, Zenon DEF BytesCounted
      <4>4. QED
        BY <3>1, <4>1, <4>3
    <3>6. AllIn'
      BY <3>1 DEF AllIn
    <3>7. QED
      BY <3>2, <3>4, <3>5, <3>6 DEF Verdict
  <2>4. CASE ~(Ask \/ ReadPackets \/ ReadBytes)
    <3>1. UNCHANGED <<debrief, asked, counted, tail>>
      BY <2>4 DEF Next, ServerThread, ClientThread, Connect, Write, WriteFails, CountSent, Leave,
         Break, Stop, Accept, Read, FeedHeader, FeedPayload, EndOfStream, ServerLeaves, vars,
         debriefVars
    <3>2. NoFalseAlarm'
      BY <3>1 DEF Verdict, NoFalseAlarm
    <3>3. ASSUME Whole
          PROVE  /\ stopping' /\ put' = put
                 /\ \A c \in Clients : sender'[c] \in {"connecting", "loop", "done"}
      <4>1. stopping /\ \A c \in Clients : sender[c] \in {"connecting", "loop", "done"}
        BY <3>3 DEF Frozen
      <4>2. ~\E c \in Clients : Connect(c) \/ Write(c) \/ WriteFails(c) \/ CountSent(c)
        BY <4>1 DEF Connect, Write, WriteFails, CountSent
      <4>3. ~Stop
        BY <4>1 DEF Stop
      <4>4. CASE \E c \in Clients : Leave(c)
        BY <2>0, <4>1, <4>4 DEF TypeOK, Leave, Goto
      <4>5. CASE ~\E c \in Clients : Leave(c)
        <5>1. UNCHANGED <<stopping, put, sender>>
          BY <2>4, <4>2, <4>3, <4>5 DEF Next, ServerThread, ClientThread, Break, Accept, Read,
             FeedHeader, FeedPayload, EndOfStream, ServerLeaves, vars, clientVars
        <5>2. QED
          BY <4>1, <5>1
      <4>6. QED
        BY <4>4, <4>5
    <3>4. Frozen'
      BY <3>1, <3>3 DEF Frozen, Whole
    <3>5. ASSUME \A c \in Clients : taken[c] = put[c]
          PROVE  taken' = taken
      <4>1. ~\E c \in Clients, n \in 1 .. BufferSize : Read(c, n)
        <5> SUFFICES ASSUME NEW c \in Clients, NEW n \in 1 .. BufferSize, Read(c, n) PROVE FALSE
          OBVIOUS
        <5>1. n <= put[c] - taken[c] /\ n >= 1 /\ put[c] \in Nat /\ put[c] = taken[c] /\ n \in Int
          BY <2>0, <3>5, StreamsAssumption DEF Read, Positions
        <5>2. QED
          BY <5>1
      <4>2. QED
        BY <4>1 DEF Next, ServerThread, ClientThread, Connect, Write, WriteFails, CountSent, Leave,
           Break, Stop, Accept, FeedHeader, FeedPayload, EndOfStream, ServerLeaves, Ask,
           ReadPackets, ReadBytes, vars, clientVars, serverVars
    <3>6. AllIn'
      <4> SUFFICES ASSUME Whole', debrief' = "packets", ~tail'
                   PROVE  counted' = asked'.packets /\ \A c \in Clients : taken'[c] = put'[c]
        BY DEF AllIn
      <4>1. Whole /\ counted = asked.packets /\ \A c \in Clients : taken[c] = put[c]
        BY <3>1 DEF AllIn, Whole
      <4>2. QED
        BY <3>1, <3>3, <3>5, <4>1
    <3>7. MatchIsSound'
      <4> SUFFICES ASSUME debrief' = "match", ~asked'.partial
                   PROVE  \A c \in Clients : taken'[c] = put'[c]
        BY DEF MatchIsSound
      <4>1. Whole /\ \A c \in Clients : taken[c] = put[c]
        BY <3>1 DEF Verdict, MatchIsSound, Whole
      <4>2. QED
        BY <3>3, <3>5, <4>1
    <3>8. QED
      BY <3>2, <3>4, <3>6, <3>7 DEF Verdict
  <2>5. QED
    BY <2>1, <2>2, <2>3, <2>4
<1>3. QED
  BY <1>1, <1>2, PlacesInvariant, ReaderInvariant, BytesInvariant, SenderInvariant, PTL DEF Spec

(* A debrief that matches means that every byte any client ever wrote has  *)
(* been read, unless it was asked for with a packet in part or uncounted.  *)
THEOREM MatchProvesDelivery == Spec => []MatchIsSound
<1>1. Verdict => MatchIsSound
  BY DEF Verdict
<1>2. QED
  BY <1>1, DebriefInvariant, PTL

(* A mismatch is due to such a packet or to bytes that were on their way   *)
(* or lost when the server answered.                                       *)
THEOREM MismatchHasCause == Spec => []NoFalseAlarm
<1>1. Verdict => NoFalseAlarm
  BY DEF Verdict
<1>2. QED
  BY <1>1, DebriefInvariant, PTL

================================================================================
