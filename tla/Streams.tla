--------------------------------- MODULE Streams ---------------------------------
(***************************************************************************)
(* One run over TCP or SCTP (src/src/core.rs): the client threads that     *)
(* connect and write framed packets, the server thread that serves one     *)
(* connection at a time and counts frames with TcpFrameReader, and the     *)
(* debrief that compares the counters.  The bytes of a connection are all  *)
(* determined by their position in it, so a connection is the number of    *)
(* bytes written and read.                                                 *)
(***************************************************************************)
EXTENDS Integers, Sequences, SequencesExt, FiniteSets, FiniteSetsExt

CONSTANTS
  Clients,     (* client threads of the sending instance                    *)
  HEADER,      (* TCP_HEADER_LEN                                            *)
  CHUNK,       (* TCP_TIMESTAMP_CHUNK                                       *)
  CHANNEL,     (* webrtc::HEADER_LEN; above CHUNK when the layer is off     *)
  PayloadLen,  (* packet_size of send_stream_packets                        *)
  BufferSize,  (* PACKET_SIZE, the server's read buffer                     *)
  Capacity,    (* what the two hosts' socket buffers hold of a connection   *)
  Waits,       (* is the debrief preceded by execute_profile's 250 ms?      *)
  MaxPackets   (* bound on the packets of all clients                       *)

ASSUME StreamsAssumption ==
  /\ IsFiniteSet(Clients)
  /\ HEADER \in Nat \ {0} /\ CHUNK \in Nat \ {0} /\ CHANNEL \in Nat \ {0}
  /\ PayloadLen \in Nat \ {0} /\ BufferSize \in Nat \ {0} /\ Capacity \in Nat \ {0}
  /\ Waits \in BOOLEAN
  /\ MaxPackets \in Nat

VARIABLES
  stopping,        (* the client instance's stopping flag                       *)
  sender,          (* each client thread: "connecting", "loop", "writing",
                      "sent" (not counted yet), "done"                          *)
  put,             (* bytes each client wrote to its connection                 *)
  conn,            (* each connection: "none", "open", "closed", "reset"        *)
  queue,           (* connections the server has not accepted                   *)
  listening,       (* is the server in its accept loop, or in a connection's?   *)
  serving,         (* the connection being served, at most one                  *)
  taken,           (* bytes the server read from each connection                *)
  buffered,        (* bytes read and not yet fed to the frame reader            *)
  reader,          (* TcpFrameReader                                            *)
  sent_packets, sent_bytes, sent_messages,              (* client metrics       *)
  received_packets, received_bytes, received_messages,  (* server metrics       *)
  invalid,         (* server metrics: webrtc_invalid_frames                     *)
  debrief,         (* "idle", "asked", "packets", then "match" or "mismatch"    *)
  asked,           (* packets and bytes of the request; history: was there then
                      a packet written in part, or written and not yet counted? *)
  counted,         (* received_packets of the reply                             *)
  tail             (* history: were bytes on their way to the frame reader when
                      the packets were read?                                    *)

clientVars == <<stopping, sender, put, sent_packets, sent_bytes, sent_messages>>
serverVars == <<listening, serving, taken, buffered, reader, received_packets,
                received_bytes, received_messages, invalid>>
debriefVars == <<debrief, asked, counted, tail>>
vars == <<clientVars, conn, queue, serverVars, debriefVars>>

-----------------------------------------------------------------------------
(* The layout of a connection.                                               *)

Frames == (PayloadLen + CHUNK - 1) \div CHUNK

PacketLen == PayloadLen + Frames * HEADER

Frame == 0 .. Frames - 1

(* The payload of frame f, and where in its packet frame f starts.         *)
Chunk(f) == Min({CHUNK, PayloadLen - f * CHUNK})

Start(f) == f * (HEADER + CHUNK)

(* The frames whose payload opens with a data-channel header.              *)
Carriers == {f \in Frame : Chunk(f) >= CHANNEL}

(* The place in its packet of byte p of a connection; both count from 1.   *)
Offset(p) == 1 + ((p - 1) % PacketLen)

HeaderEnds(p) == \E f \in Frame : Start(f) + HEADER = Offset(p)

(* The length field of the header that ends with byte p.                   *)
LengthAt(p) ==
  IF HeaderEnds(p) THEN Chunk(CHOOSE f \in Frame : Start(f) + HEADER = Offset(p)) ELSE 0

(* Is what ends with byte p a data-channel header?                         *)
DecodesAt(p) == \E f \in Carriers : Start(f) + HEADER + CHANNEL = Offset(p)

(* The bytes of all connections up to a position in each of them.          *)
Bytes(position) == UNION {{c} \X (1 .. position[c]) : c \in Clients}

(* How far the frame reader is in a connection.                            *)
Position(c) == IF c \in serving THEN taken[c] - buffered ELSE taken[c]

-----------------------------------------------------------------------------

FreshReader == [state |-> "header", have |-> 0, remaining |-> 0, head |-> 0]

TypeOK ==
  /\ stopping \in BOOLEAN
  /\ sender \in [Clients -> {"connecting", "loop", "writing", "sent", "done"}]
  /\ put \in [Clients -> Nat]
  /\ conn \in [Clients -> {"none", "open", "closed", "reset"}]
  /\ queue \in Seq(Clients)
  /\ listening \in BOOLEAN
  /\ serving \in SUBSET Clients
  /\ taken \in [Clients -> Nat]
  /\ buffered \in 0 .. BufferSize
  /\ reader \in [state : {"header", "payload"}, have : 0 .. HEADER - 1,
                 remaining : 0 .. CHUNK, head : 0 .. CHANNEL]
  /\ sent_packets \in Nat /\ sent_bytes \in Nat /\ sent_messages \in Nat
  /\ received_packets \in Nat /\ received_bytes \in Nat /\ received_messages \in Nat
  /\ invalid \in Nat /\ counted \in Nat
  /\ debrief \in {"idle", "asked", "packets", "match", "mismatch"}
  /\ asked \in [packets : Nat, bytes : Nat, partial : BOOLEAN]
  /\ tail \in BOOLEAN

Init ==
  /\ stopping = FALSE
  /\ sender = [c \in Clients |-> "connecting"]
  /\ put = [c \in Clients |-> 0]
  /\ conn = [c \in Clients |-> "none"]
  /\ queue = <<>>
  /\ listening = TRUE
  /\ serving = {}
  /\ taken = [c \in Clients |-> 0]
  /\ buffered = 0
  /\ reader = FreshReader
  /\ sent_packets = 0 /\ sent_bytes = 0 /\ sent_messages = 0
  /\ received_packets = 0 /\ received_bytes = 0 /\ received_messages = 0
  /\ invalid = 0
  /\ debrief = "idle"
  /\ asked = [packets |-> 0, bytes |-> 0, partial |-> FALSE]
  /\ counted = 0
  /\ tail = FALSE

-----------------------------------------------------------------------------
(* The client threads.                                                       *)

Goto(c, state) == sender' = [sender EXCEPT ![c] = state]

Connect(c) ==
  /\ sender[c] = "connecting" /\ ~stopping
  /\ listening
  /\ Goto(c, "loop")
  /\ conn' = [conn EXCEPT ![c] = "open"]
  /\ queue' = Append(queue, c)
  /\ UNCHANGED <<stopping, put, sent_packets, sent_bytes, sent_messages, serverVars,
                 debriefVars>>

(* write_all of a packet returns only when all of it is in the socket      *)
(* buffers, which take what they have room for, and does not look at the   *)
(* flag while it waits.                                                    *)
Write(c) ==
  LET n == Min({PacketLen - (put[c] % PacketLen), Capacity - (put[c] - taken[c])})
  IN
  /\ \/ sender[c] = "loop" /\ ~stopping
     \/ sender[c] = "writing"
  /\ conn[c] = "open"
  /\ n > 0
  /\ put' = [put EXCEPT ![c] = @ + n]
  /\ Goto(c, IF (put[c] + n) % PacketLen = 0 THEN "sent" ELSE "writing")
  /\ UNCHANGED <<stopping, sent_packets, sent_bytes, sent_messages, conn, queue,
                 serverVars, debriefVars>>

WriteFails(c) ==
  /\ \/ sender[c] = "loop" /\ ~stopping
     \/ sender[c] = "writing"
  /\ conn[c] = "reset"
  /\ Goto(c, "done")
  /\ UNCHANGED <<stopping, put, sent_packets, sent_bytes, sent_messages, conn, queue,
                 serverVars, debriefVars>>

(* Mutant: a packet of several frames counts as one.                       *)
CountWrites(c) ==
  /\ sender[c] = "sent"
  /\ Goto(c, "loop")
  /\ sent_packets' = sent_packets + 1
  /\ sent_bytes' = sent_bytes + PacketLen
  /\ sent_messages' = sent_messages + Cardinality(Carriers)
  /\ UNCHANGED <<stopping, put, conn, queue, serverVars, debriefVars>>

CountSent(c) ==
  /\ sender[c] = "sent"
  /\ Goto(c, "loop")
  /\ sent_packets' = sent_packets + Frames
  /\ sent_bytes' = sent_bytes + PacketLen
  /\ sent_messages' = sent_messages + Cardinality(Carriers)
  /\ UNCHANGED <<stopping, put, conn, queue, serverVars, debriefVars>>

(* stopping is set or client_runtime is over; the connection is closed.    *)
Leave(c) ==
  /\ sender[c] \in {"connecting", "loop"}
  /\ Goto(c, "done")
  /\ conn' = [conn EXCEPT ![c] = IF @ = "open" THEN "closed" ELSE @]
  /\ UNCHANGED <<stopping, put, sent_packets, sent_bytes, sent_messages, queue,
                 serverVars, debriefVars>>

Stop ==
  /\ ~stopping
  /\ stopping' = TRUE
  /\ UNCHANGED <<sender, put, sent_packets, sent_bytes, sent_messages, conn, queue,
                 serverVars, debriefVars>>

(* The network resets a connection; what the server has not read is lost.  *)
Break(c) ==
  /\ conn[c] \in {"open", "closed"}
  /\ conn' = [conn EXCEPT ![c] = "reset"]
  /\ UNCHANGED <<clientVars, queue, serverVars, debriefVars>>

-----------------------------------------------------------------------------
(* The server thread.                                                        *)

Accept ==
  /\ listening
  /\ serving = {} /\ queue # <<>>
  /\ serving' = {Head(queue)}
  /\ queue' = Tail(queue)
  /\ reader' = FreshReader
  /\ UNCHANGED <<clientVars, conn, listening, taken, buffered, received_packets,
                 received_bytes, received_messages, invalid, debriefVars>>

(* A read returns any part of what has arrived; its bytes are counted      *)
(* before they are fed to the frame reader.                                *)
Read(c, n) ==
  /\ serving = {c}
  /\ buffered = 0
  /\ conn[c] # "reset"
  /\ n <= put[c] - taken[c]
  /\ taken' = [taken EXCEPT ![c] = @ + n]
  /\ buffered' = n
  /\ received_bytes' = received_bytes + n
  /\ UNCHANGED <<clientVars, conn, queue, listening, serving, reader, received_packets,
                 received_messages, invalid, debriefVars>>

(* feed, one turn of its loop in state Header.                             *)
FeedHeader(c) ==
  LET take == Min({HEADER - reader.have, buffered})
      complete == reader.have + take = HEADER
      length == LengthAt(Position(c) + take)
  IN
  /\ serving = {c}
  /\ buffered > 0 /\ reader.state = "header"
  /\ buffered' = buffered - take
  /\ received_packets' = received_packets + IF complete THEN 1 ELSE 0
  /\ reader' = IF ~complete THEN [reader EXCEPT !.have = @ + take]
               ELSE IF length = 0 THEN FreshReader
               ELSE [FreshReader EXCEPT !.state = "payload", !.remaining = length]
  /\ UNCHANGED <<clientVars, conn, queue, listening, serving, taken, received_bytes,
                 received_messages, invalid, debriefVars>>

(* Mutant: a payload is taken to end with the read.                        *)
FeedPayloadUncapped(c) ==
  LET take == buffered
      wanted == Min({CHANNEL - reader.head, take})
      complete == reader.head < CHANNEL /\ reader.head + wanted = CHANNEL
      decodes == DecodesAt(Position(c) + wanted)
  IN
  /\ serving = {c}
  /\ buffered > 0 /\ reader.state = "payload"
  /\ buffered' = buffered - take
  /\ received_messages' = received_messages + IF complete /\ decodes THEN 1 ELSE 0
  /\ invalid' = invalid + IF complete /\ ~decodes THEN 1 ELSE 0
  /\ reader' = IF take = reader.remaining THEN FreshReader
               ELSE [reader EXCEPT !.remaining = @ - take, !.head = @ + wanted]
  /\ UNCHANGED <<clientVars, conn, queue, listening, serving, taken, received_packets,
                 received_bytes, debriefVars>>

(* Mutant: the head of a payload is not kept from one read to the next.    *)
FeedPayloadForgets(c) ==
  LET take == Min({reader.remaining, buffered})
      complete == take >= CHANNEL
      decodes == DecodesAt(Position(c) + CHANNEL)
  IN
  /\ serving = {c}
  /\ buffered > 0 /\ reader.state = "payload"
  /\ buffered' = buffered - take
  /\ received_messages' = received_messages + IF complete /\ decodes THEN 1 ELSE 0
  /\ invalid' = invalid + IF complete /\ ~decodes THEN 1 ELSE 0
  /\ reader' = IF take = reader.remaining THEN FreshReader
               ELSE [reader EXCEPT !.remaining = @ - take]
  /\ UNCHANGED <<clientVars, conn, queue, listening, serving, taken, received_packets,
                 received_bytes, debriefVars>>

(* feed, one turn of its loop in state Payload.  Only the head of a        *)
(* payload is kept, across reads, until it holds a data-channel header.    *)
FeedPayload(c) ==
  LET take == Min({reader.remaining, buffered})
      wanted == Min({CHANNEL - reader.head, take})
      complete == reader.head < CHANNEL /\ reader.head + wanted = CHANNEL
      decodes == DecodesAt(Position(c) + wanted)
  IN
  /\ serving = {c}
  /\ buffered > 0 /\ reader.state = "payload"
  /\ buffered' = buffered - take
  /\ received_messages' = received_messages + IF complete /\ decodes THEN 1 ELSE 0
  /\ invalid' = invalid + IF complete /\ ~decodes THEN 1 ELSE 0
  /\ reader' = IF take = reader.remaining THEN FreshReader
               ELSE [reader EXCEPT !.remaining = @ - take, !.head = @ + wanted]
  /\ UNCHANGED <<clientVars, conn, queue, listening, serving, taken, received_packets,
                 received_bytes, debriefVars>>

(* Mutant: Ok(0) does not end the loop of a connection.                    *)
EndOnError(c) ==
  /\ serving = {c}
  /\ buffered = 0
  /\ conn[c] = "reset"
  /\ serving' = {}
  /\ UNCHANGED <<clientVars, conn, queue, listening, taken, buffered, reader,
                 received_packets, received_bytes, received_messages, invalid,
                 debriefVars>>

(* Mutant: a connection ends when its client has closed it, read or not.   *)
EndOnClose(c) ==
  /\ serving = {c}
  /\ buffered = 0
  /\ conn[c] \in {"closed", "reset"}
  /\ serving' = {}
  /\ UNCHANGED <<clientVars, conn, queue, listening, taken, buffered, reader,
                 received_packets, received_bytes, received_messages, invalid,
                 debriefVars>>

(* Ok(0) after the client closed, or an error: back to the accept loop.    *)
EndOfStream(c) ==
  /\ serving = {c}
  /\ buffered = 0
  /\ \/ conn[c] = "closed" /\ taken[c] = put[c]
     \/ conn[c] = "reset"
  /\ serving' = {}
  /\ UNCHANGED <<clientVars, conn, queue, listening, taken, buffered, reader,
                 received_packets, received_bytes, received_messages, invalid,
                 debriefVars>>

(* The server's own stopping flag or runtime ends both loops; dropping the *)
(* listener and the stream resets the connections that are left.           *)
ServerLeaves ==
  /\ listening
  /\ buffered = 0
  /\ listening' = FALSE
  /\ serving' = {}
  /\ queue' = <<>>
  /\ conn' = [c \in Clients |-> IF conn[c] = "open" THEN "reset" ELSE conn[c]]
  /\ UNCHANGED <<clientVars, taken, buffered, reader, received_packets, received_bytes,
                 received_messages, invalid, debriefVars>>

-----------------------------------------------------------------------------
(* The debrief.                                                              *)

(* 250 ms are enough to count what has been written, not to end a write_all *)
(* that waits for room.                                                    *)
Ask ==
  /\ stopping
  /\ debrief = "idle"
  /\ Waits => \A c \in Clients : sender[c] # "sent"
  /\ debrief' = "asked"
  /\ asked' = [packets |-> sent_packets, bytes |-> sent_bytes,
               partial |-> \E c \in Clients : put[c] % PacketLen # 0 \/ sender[c] = "sent"]
  /\ UNCHANGED <<clientVars, conn, queue, serverVars, counted, tail>>

(* serve_debrief loads the two counters one after the other.               *)
ReadPackets ==
  /\ debrief = "asked"
  /\ debrief' = "packets"
  /\ counted' = received_packets
  /\ tail' = \E c \in Clients : Position(c) # put[c]
  /\ UNCHANGED <<clientVars, conn, queue, serverVars, asked>>

(* Mutant: the byte counters are not compared.                             *)
ReadPacketsOnly ==
  /\ debrief = "packets"
  /\ debrief' = IF counted = asked.packets THEN "match" ELSE "mismatch"
  /\ UNCHANGED <<clientVars, conn, queue, serverVars, asked, counted, tail>>

ReadBytes ==
  /\ debrief = "packets"
  /\ debrief' = IF counted = asked.packets /\ received_bytes = asked.bytes
                THEN "match" ELSE "mismatch"
  /\ UNCHANGED <<clientVars, conn, queue, serverVars, asked, counted, tail>>

ServerThread ==
  \/ Accept
  \/ \E c \in Clients, n \in 1 .. BufferSize : Read(c, n)
  \/ \E c \in Clients : FeedHeader(c) \/ FeedPayload(c) \/ EndOfStream(c)

Begun == Cardinality({b \in Bytes(put) : Offset(b[2]) = 1})

WithinBound(c) == put[c] % PacketLen # 0 \/ Begun < MaxPackets

ClientThread(c) ==
  \/ WithinBound(c) /\ Write(c)
  \/ WriteFails(c)
  \/ CountSent(c)
  \/ Leave(c)

Next ==
  \/ \E c \in Clients : Connect(c) \/ ClientThread(c) \/ Break(c)
  \/ Stop
  \/ ServerThread
  \/ ServerLeaves
  \/ Ask
  \/ ReadPackets
  \/ ReadBytes

Spec == Init /\ [][Next]_vars

(* Every thread goes on as long as it has something to do; nobody has to   *)
(* stop the run, and the network need not fail.                            *)
Fairness ==
  /\ WF_vars(ServerThread)
  /\ \A c \in Clients : WF_vars(ClientThread(c))

FairSpec == Spec /\ Fairness

-----------------------------------------------------------------------------

(* However a stream is cut into reads, and whichever connections it came   *)
(* in, the server has counted the frames and the data-channel headers in   *)
(* what it has fed to the reader, and none as invalid (TcpFrameReader:     *)
(* "tolerating frames split arbitrarily across reads").                    *)
ReaderInStep ==
  LET fed == Bytes([c \in Clients |-> Position(c)])
  IN  /\ received_packets = Cardinality({b \in fed : HeaderEnds(b[2])})
      /\ received_messages = Cardinality({b \in fed : DecodesAt(b[2])})
      /\ invalid = 0

(* A debrief that matches means that every byte any client ever wrote has  *)
(* been read, unless a packet was written in part, or not yet counted,     *)
(* when it was asked for (src/doc/netmark.md, "TCP": the two counts line   *)
(* up exactly).                                                            *)
MatchIsSound ==
  debrief = "match" /\ ~asked.partial => \A c \in Clients : taken[c] = put[c]

(* A mismatch is only ever due to such a packet, or to bytes that were     *)
(* under way or lost when the server answered.                             *)
NoFalseAlarm == debrief = "mismatch" => asked.partial \/ tail

(* Connections are served one at a time, yet when all clients have closed  *)
(* theirs the server gets round to every byte of all of them, unless it    *)
(* stops first.                                                            *)
StreamsDrain ==
  (\A c \in Clients : sender[c] = "done")
    ~> (~listening \/ \A c \in Clients : conn[c] = "closed" => taken[c] = put[c])

(* stop ends every client thread, also one that is held up in write_all    *)
(* because its connection waits behind the one being served: the others    *)
(* close, the server gets to it and makes room.                            *)
StopEndsClients == stopping ~> \A c \in Clients : sender[c] = "done"

================================================================================
