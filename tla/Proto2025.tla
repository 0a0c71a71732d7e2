----------------------------- MODULE Proto2025 -----------------------------
(***************************************************************************)
(* RadioProtocol2025 (connection/src/protocol/proto2025/mod.rs): one robot's *)
(* protocol state at the host, the two lossy links and the robot at the     *)
(* other end.  Datagrams travel in chunks under a one-bit sequence number   *)
(* with retransmission; every packet carries the bit of the last datagram   *)
(* packet its sender received.                                              *)
(*                                                                         *)
(* The robot's firmware is not in the repository.  It is modelled by what   *)
(* the host code and the field docs of packet.rs expect of it: it drops a   *)
(* datagram packet whose seqnum it already has, it answers each packet with *)
(* one packet, and it resends a response chunk until that chunk is acked.   *)
(*                                                                         *)
(* A chunk's 27 bytes are abstracted to [id, type, part]: part number part  *)
(* of the id-th datagram, whose type fixes its size.  Packet counter and    *)
(* metrics are left out: no branch of this code depends on them.            *)
(***************************************************************************)
EXTENDS Naturals, Sequences, SequencesExt

CONSTANTS
    CmdSize,       \* byte size of every CommandDatagramType
    RespSize,      \* byte size of every ResponseDatagramType
    ChunkSize,     \* DATAGRAM_CHUNK_SIZE
    None,          \* Option::None
    MaxCycles,     \* where the saturating u8 counter saturates (255 in the code)
    MaxCmds,       \* bound: datagrams the caller queues
    MaxResps,      \* bound: response datagrams the robot starts
    ChanCap,       \* bound: packets in flight in each direction
    MaxDups,       \* bound: packets the links duplicate
    MaxReconnects, \* bound: times the driver loses the robot and connects it anew
    AllowAbandon   \* may the robot replace an unfinished response by a new one?

CmdType == DOMAIN CmdSize
RespType == DOMAIN RespSize

ASSUME SizeAssumption ==
    /\ ChunkSize \in Nat \ {0}
    /\ CmdSize \in [CmdType -> Nat]
    /\ RespSize \in [RespType -> Nat \ {0}]
ASSUME BoundAssumption ==
    /\ MaxCycles \in Nat \ {0}
    /\ MaxCmds \in Nat /\ MaxResps \in Nat /\ MaxDups \in Nat /\ MaxReconnects \in Nat
    /\ ChanCap \in Nat \ {0}
    /\ AllowAbandon \in BOOLEAN

Bit == {0, 1}

\* Chunks a payload of size bytes is cut into; an empty payload still takes one.
NumChunks(size) == IF size = 0 THEN 1 ELSE (size + ChunkSize - 1) \div ChunkSize

Chunks(d, size) ==
    [i \in 1..NumChunks(size) |-> [id |-> d.id, type |-> d.type, part |-> i]]

CmdDatagram == [id : 1..MaxCmds, type : CmdType]
CmdChunk == [id : 1..MaxCmds, type : CmdType, part : Nat]
RespChunk == [id : 1..MaxResps, type : RespType, part : Nat]

\* DatagramPayload, and a packet: the header's acknum and the payload (header.datagram
\* is dgram # None; the payload of a regular packet is abstracted away).
Payload(chunk) == [seqnum : Bit, chunk : chunk]
Packet(chunk) == [acknum : Bit, dgram : Payload(chunk) \cup {None}]

ASSUME NoneAssumption ==
    None \notin RespType \cup RespChunk \cup Payload(CmdChunk) \cup Payload(RespChunk)

VARIABLES
    datagram_queue, datagram_chunk_queue,              \* commands not yet sent
    sent_datagram_packet, cycles_since_datagram_send,  \* the unacked chunk
    seqnum_last_sent, seqnum_last_received,
    datagram_rx_type, datagram_rx_buf,                 \* response being reassembled
    rx_datagram,        \* chunks of the last datagram packet_received returned
    queued,             \* datagrams the caller has queued so far
    to_robot, to_host,  \* packets in flight, oldest first
    dups,               \* packets duplicated so far
    rb_last,            \* robot: seqnum of the last datagram packet it received
    accepted,           \* robot: command chunks it has taken, in order
    rb_seq, rb_chunk,   \* robot: last response chunk sent, and its seqnum
    rb_waiting,         \* robot: is that chunk still unacked?
    reconnects,         \* reconnects so far
    renewed,            \* no command chunk was sent since the last reconnect
    rb_renewed          \* how many of the robot's chunks a reconnect may still have cost

txVars == <<datagram_queue, datagram_chunk_queue, cycles_since_datagram_send,
            seqnum_last_sent, queued>>
rxVars == <<seqnum_last_received, datagram_rx_type, datagram_rx_buf, rx_datagram>>
robotVars == <<rb_last, accepted, rb_seq, rb_chunk, rb_waiting>>
history == <<reconnects, renewed, rb_renewed>>
vars == <<txVars, sent_datagram_packet, rxVars, to_robot, to_host, dups, robotVars, history>>

TypeOK ==
    /\ datagram_queue \in Seq(CmdDatagram)
    /\ datagram_chunk_queue \in Seq(CmdChunk)
    /\ sent_datagram_packet \in Payload(CmdChunk) \cup {None}
    /\ cycles_since_datagram_send \in 0..MaxCycles
    /\ seqnum_last_sent \in Bit /\ seqnum_last_received \in Bit
    /\ datagram_rx_type \in RespType \cup {None}
    /\ datagram_rx_buf \in Seq(RespChunk) /\ rx_datagram \in Seq(RespChunk)
    /\ queued \in 0..MaxCmds
    /\ to_robot \in Seq(Packet(CmdChunk)) /\ to_host \in Seq(Packet(RespChunk))
    /\ dups \in 0..MaxDups
    /\ rb_last \in Bit /\ accepted \in Seq(CmdChunk)
    /\ rb_seq \in Bit /\ rb_chunk \in RespChunk \cup {None}
    /\ rb_waiting \in BOOLEAN
    /\ reconnects \in 0..MaxReconnects /\ renewed \in BOOLEAN /\ rb_renewed \in 0..2

\* The ack sent before any datagram packet came (mutant: it acks sequence number 0, the
\* first one the robot uses).
FirstAckZero == 0
FirstAck == 1

Init ==
    /\ datagram_queue = <<>> /\ datagram_chunk_queue = <<>>
    /\ sent_datagram_packet = None
    /\ cycles_since_datagram_send = 0
    /\ seqnum_last_sent = 1 /\ seqnum_last_received = FirstAck
    /\ datagram_rx_type = None /\ datagram_rx_buf = <<>>
    /\ rx_datagram = <<>> /\ queued = 0
    /\ to_robot = <<>> /\ to_host = <<>> /\ dups = 0
    /\ rb_last = 1 /\ accepted = <<>>
    /\ rb_seq = 1 /\ rb_chunk = None /\ rb_waiting = FALSE
    /\ reconnects = 0 /\ renewed = FALSE /\ rb_renewed = 0
-----------------------------------------------------------------------------
(* Host: the caller's side                                                 *)

\* A full link loses its oldest packet to the new one.
Transmit(link, packet) ==
    Append(IF Len(link) < ChanCap THEN link ELSE Tail(link), packet)

QueueDatagram ==
    /\ queued < MaxCmds
    /\ queued' = queued + 1
    /\ \E t \in CmdType :
         datagram_queue' = Append(datagram_queue, [id |-> queued + 1, type |-> t])
    /\ UNCHANGED <<datagram_chunk_queue, cycles_since_datagram_send, seqnum_last_sent,
                   sent_datagram_packet, rxVars, to_robot, to_host, dups, robotVars, history>>

\* get_next_datagram_chunk: the chunks left of the datagram being sent, or those of
\* the next queued one, which leaves the queue.
NextChunks ==
    CASE datagram_chunk_queue # <<>> -> datagram_chunk_queue
      [] datagram_chunk_queue = <<>> /\ datagram_queue # <<>> ->
           Chunks(Head(datagram_queue), CmdSize[Head(datagram_queue).type])
      [] OTHER -> <<>>

\* next_packet, first branch: the chunk was not acked in time and is sent again.
MustResend == sent_datagram_packet # None /\ cycles_since_datagram_send >= 1

Resend ==
    /\ MustResend
    /\ cycles_since_datagram_send' = 0
    /\ to_robot' = Transmit(to_robot, [acknum |-> seqnum_last_received,
                                       dgram |-> sent_datagram_packet])
    /\ UNCHANGED <<datagram_queue, datagram_chunk_queue, seqnum_last_sent, queued,
                   sent_datagram_packet, rxVars, to_host, dups, robotVars, history>>

\* next_packet, second branch: nothing is unacked and there is a chunk to send.
SendNewChunk ==
    /\ sent_datagram_packet = None
    /\ NextChunks # <<>>
    /\ datagram_chunk_queue' = Tail(NextChunks)
    /\ datagram_queue' = IF datagram_chunk_queue # <<>> THEN datagram_queue
                                                        ELSE Tail(datagram_queue)
    /\ seqnum_last_sent' = 1 - seqnum_last_sent
    /\ sent_datagram_packet' = [seqnum |-> seqnum_last_sent', chunk |-> Head(NextChunks)]
    /\ cycles_since_datagram_send' = 0
    /\ to_robot' = Transmit(to_robot, [acknum |-> seqnum_last_received,
                                       dgram |-> sent_datagram_packet'])
    /\ renewed' = FALSE
    /\ UNCHANGED <<queued, rxVars, to_host, dups, robotVars, reconnects, rb_renewed>>

\* saturating_add(1) (mutant: plain addition).
CyclesUnsaturated == cycles_since_datagram_send + 1
NextCycles ==
    IF cycles_since_datagram_send < MaxCycles THEN cycles_since_datagram_send + 1
                                              ELSE MaxCycles

\* next_packet, last branch: a regular command packet.
SendRegular ==
    /\ ~MustResend
    /\ sent_datagram_packet # None \/ NextChunks = <<>>
    /\ cycles_since_datagram_send' = NextCycles
    /\ to_robot' = Transmit(to_robot, [acknum |-> seqnum_last_received, dgram |-> None])
    /\ UNCHANGED <<datagram_queue, datagram_chunk_queue, seqnum_last_sent, queued,
                   sent_datagram_packet, rxVars, to_host, dups, robotVars, history>>

next_packet == Resend \/ SendNewChunk \/ SendRegular

\* The driver gives the robot up and connects it again with a new protocol state; the
\* robot knows nothing of it.  That takes a connection_timeout without a packet, and no
\* packet is on its way for so long.
Reconnect ==
    /\ reconnects < MaxReconnects
    /\ to_robot = <<>> /\ to_host = <<>>
    /\ reconnects' = reconnects + 1
    /\ datagram_queue' = <<>> /\ datagram_chunk_queue' = <<>>
    /\ sent_datagram_packet' = None
    /\ cycles_since_datagram_send' = 0
    /\ seqnum_last_sent' = 1 /\ seqnum_last_received' = FirstAck
    /\ datagram_rx_type' = None /\ datagram_rx_buf' = <<>> /\ rx_datagram' = <<>>
    /\ renewed' = TRUE /\ rb_renewed' = 2
    /\ UNCHANGED <<queued, to_robot, to_host, dups, robotVars>>
-----------------------------------------------------------------------------
(* Host: packet_received                                                   *)

\* The ack clears the unacked chunk, whatever kind of packet carries it.
Acks(packet) == sent_datagram_packet # None /\ sent_datagram_packet.seqnum = packet.acknum

\* Mutants: any packet counts as the ack; only the ack of a datagram packet counts.
ClearAlways(packet) == sent_datagram_packet' = None
ClearOnDatagram(packet) ==
    sent_datagram_packet' =
        IF packet.dgram # None /\ Acks(packet) THEN None ELSE sent_datagram_packet

HandleAck(packet) ==
    sent_datagram_packet' = IF Acks(packet) THEN None ELSE sent_datagram_packet

\* Mutant: a chunk of another type does not clear the buffer.
RxAppendAny(chunk) == Append(datagram_rx_buf, chunk)

\* The reassembly buffer once chunk is in it: a chunk of another type first clears it.
RxAppend(chunk) ==
    IF datagram_rx_type # None /\ datagram_rx_type # chunk.type
    THEN <<chunk>> ELSE Append(datagram_rx_buf, chunk)

\* Every chunk counts with its full ChunkSize bytes.
Complete(buf, type) == Len(buf) * ChunkSize >= RespSize[type]

\* The datagram part of packet_received; a regular packet changes nothing here.
ReceiveChunk(dgram) ==
    LET buf == RxAppend(dgram.chunk)
        done == Complete(buf, dgram.chunk.type)
    IN  /\ seqnum_last_received' = dgram.seqnum
        /\ datagram_rx_type' = IF done THEN None ELSE dgram.chunk.type
        /\ datagram_rx_buf' = IF done THEN <<>> ELSE buf
        /\ rx_datagram' = IF done THEN buf ELSE rx_datagram

packet_received ==
    /\ to_host # <<>>
    /\ to_host' = Tail(to_host)
    /\ HandleAck(Head(to_host))
    /\ \/ Head(to_host).dgram = None /\ UNCHANGED rxVars
       \/ Head(to_host).dgram # None /\ ReceiveChunk(Head(to_host).dgram)
    /\ UNCHANGED <<txVars, to_robot, dups, robotVars, history>>
-----------------------------------------------------------------------------
(* The robot and the links (external)                                      *)

\* The robot takes the chunk of a datagram packet it has not seen.
RobotTake(packet) ==
    IF packet.dgram # None /\ packet.dgram.seqnum # rb_last
    THEN /\ accepted' = Append(accepted, packet.dgram.chunk)
         /\ rb_last' = packet.dgram.seqnum
    ELSE UNCHANGED <<accepted, rb_last>>

\* Chunks that may follow the one sent last: the rest of its datagram, or a new datagram.
FollowingChunks ==
    LET sofar == IF rb_chunk = None THEN 0 ELSE rb_chunk.id
        rest == IF rb_chunk # None /\ rb_chunk.part < NumChunks(RespSize[rb_chunk.type])
                THEN {[rb_chunk EXCEPT !.part = @ + 1]} ELSE {}
        fresh == IF sofar < MaxResps
                 THEN {[id |-> sofar + 1, type |-> t, part |-> 1] : t \in RespType} ELSE {}
    IN  IF rest = {} \/ AllowAbandon THEN rest \cup fresh ELSE rest

\* The answer to every packet: a regular response, the unacked chunk again, or the
\* next chunk once the last one is acked.
RobotAnswer(acknum) ==
    LET unacked == rb_waiting /\ acknum # rb_seq
        Answer(d) == to_host' = Transmit(to_host, [acknum |-> rb_last', dgram |-> d])
    IN  \/ /\ Answer(None)
           /\ rb_waiting' = unacked
           /\ UNCHANGED <<rb_seq, rb_chunk, rb_renewed>>
        \/ /\ unacked
           /\ Answer([seqnum |-> rb_seq, chunk |-> rb_chunk])
           /\ UNCHANGED <<rb_seq, rb_chunk, rb_waiting, rb_renewed>>
        \/ /\ ~unacked
           /\ rb_chunk' \in FollowingChunks
           /\ rb_seq' = 1 - rb_seq
           /\ rb_waiting' = TRUE
           /\ rb_renewed' = IF rb_renewed > 0 THEN rb_renewed - 1 ELSE 0
           /\ Answer([seqnum |-> rb_seq', chunk |-> rb_chunk'])

RobotReceive ==
    /\ to_robot # <<>>
    /\ to_robot' = Tail(to_robot)
    /\ RobotTake(Head(to_robot))
    /\ RobotAnswer(Head(to_robot).acknum)
    /\ UNCHANGED <<txVars, sent_datagram_packet, rxVars, dups, reconnects, renewed>>

\* The links lose packets, without bound, ...
LoseCommand ==
    /\ to_robot # <<>>
    /\ to_robot' = Tail(to_robot)
    /\ UNCHANGED <<txVars, sent_datagram_packet, rxVars, to_host, dups, robotVars, history>>

LoseResponse ==
    /\ to_host # <<>>
    /\ to_host' = Tail(to_host)
    /\ UNCHANGED <<txVars, sent_datagram_packet, rxVars, to_robot, dups, robotVars, history>>

\* ... and duplicate a few of them.
Duplicate ==
    /\ dups < MaxDups
    /\ dups' = dups + 1
    /\ \/ /\ to_robot # <<>> /\ Len(to_robot) < ChanCap
          /\ to_robot' = <<Head(to_robot)>> \o to_robot
          /\ UNCHANGED to_host
       \/ /\ to_host # <<>> /\ Len(to_host) < ChanCap
          /\ to_host' = <<Head(to_host)>> \o to_host
          /\ UNCHANGED to_robot
    /\ UNCHANGED <<txVars, sent_datagram_packet, rxVars, robotVars, history>>

Next ==
    \/ QueueDatagram \/ next_packet \/ packet_received \/ Reconnect
    \/ RobotReceive \/ LoseCommand \/ LoseResponse \/ Duplicate

Spec == Init /\ [][Next]_vars

\* The caller (PeriodicDriver's loop) calls next_packet for ever, the robot answers what
\* reaches it, and the links do not lose every packet, nor every datagram packet.
Fairness ==
    /\ WF_vars(next_packet)
    /\ WF_vars(RobotReceive)
    /\ SF_vars(RobotReceive /\ Head(to_robot).dgram # None)
    /\ SF_vars(packet_received)

FairSpec == Spec /\ Fairness
-----------------------------------------------------------------------------
(* Properties                                                              *)

\* Queued commands, of each the chunks that the robot does not have yet: what is left of
\* the datagram being sent, with the unacked chunk unless the robot has it, and the
\* datagrams in the queue.
Started ==
    (IF sent_datagram_packet # None /\ sent_datagram_packet.seqnum # rb_last
     THEN <<sent_datagram_packet.chunk>> ELSE <<>>) \o datagram_chunk_queue

Waiting(queue) == [i \in DOMAIN queue |-> Chunks(queue[i], CmdSize[queue[i].type])]

Undelivered == (IF Started = <<>> THEN <<>> ELSE <<Started>>) \o Waiting(datagram_queue)

\* Every queued command chunk reaches the robot exactly once and in order, however the
\* links lose and duplicate packets and acks (next_packet, packet_received); a reconnect
\* costs what was queued before it and at most one chunk after it.
Stream == INSTANCE ChunkStream WITH pending <- Undelivered, delivered <- accepted,
                                    fresh <- renewed
CommandStream == Stream!Spec

\* A command is never stuck: once something is queued or unacked, everything queued is
\* eventually at the robot and acked (the resend cooldown, the ack handling).
CommandsDrain ==
    (sent_datagram_packet # None \/ Undelivered # <<>>)
        ~> (sent_datagram_packet = None /\ Undelivered = <<>>)

LastAbsorbed ==
    IF datagram_rx_buf # <<>> THEN Last(datagram_rx_buf)
    ELSE IF rx_datagram # <<>> THEN Last(rx_datagram) ELSE None

\* The host's acknum never makes the robot drop a response chunk that the host does not
\* have: a chunk the robot no longer resends is the last one the host absorbed.  After a
\* reconnect the initial acknum may confirm the chunk sent last or the one after it.
NoResponseChunkLost ==
    rb_renewed = 0 /\ rb_chunk # None /\ ~rb_waiting => LastAbsorbed = rb_chunk

\* Reassembly never mixes response types, in the buffer or in what it returns, and a
\* buffer between packets is always short of a full datagram.
ReassemblyConsistent ==
    /\ datagram_rx_type = None <=> datagram_rx_buf = <<>>
    /\ \A i \in DOMAIN datagram_rx_buf : datagram_rx_buf[i].type = datagram_rx_type
    /\ datagram_rx_buf # <<>> => ~Complete(datagram_rx_buf, datagram_rx_type)
    /\ \A i, j \in DOMAIN rx_datagram : rx_datagram[i].type = rx_datagram[j].type

\* packet.rs:82 promises that the receiving side deduplicates datagram packets: a returned
\* response is then exactly the chunks of one datagram the robot sent.
ResponseIntact ==
    rx_datagram # <<>> =>
        rx_datagram = Chunks(rx_datagram[1], RespSize[rx_datagram[1].type])
=============================================================================
