--------------------------- MODULE Proto2025Proofs ---------------------------
(***************************************************************************)
(* What holds in every reachable state of Proto2025, for any datagram sizes, *)
(* any capacity of the links and any number of losses, repetitions and      *)
(* reconnects; that Proto2025 implements ChunkStream; and what the codecs   *)
(* of PacketCodec do to every number.                                       *)
(***************************************************************************)
EXTENDS Proto2025, PacketCodec, SequenceTheorems, TLAPS

-----------------------------------------------------------------------------
(* The inductive invariant                                                 *)

\* Acks of the robot's present chunk come after all other acks, and only once the host has
\* received it.
AcksInOrder ==
    /\ \A i \in DOMAIN to_robot :
         to_robot[i].acknum = rb_seq => seqnum_last_received = rb_seq
    /\ \A i, j \in DOMAIN to_robot :
         i <= j /\ to_robot[i].acknum = rb_seq => to_robot[j].acknum = rb_seq

\* A robot that resends nothing is told what it knows.
NoNewsForIdle ==
    ~rb_waiting => \A i \in DOMAIN to_robot : to_robot[i].acknum = seqnum_last_received

Carries(packet) == packet.dgram # None

\* Packets under the robot's present bit carry its present chunk and come after those of the
\* chunk before it, none of which is left once the host has received the present one.
ChunksInOrder ==
    /\ \A i \in DOMAIN to_host : Carries(to_host[i]) =>
         /\ to_host[i].dgram.seqnum = rb_seq => to_host[i].dgram.chunk = rb_chunk
         /\ seqnum_last_received = rb_seq => to_host[i].dgram.seqnum = rb_seq
    /\ \A i, j \in DOMAIN to_host :
         /\ i <= j /\ Carries(to_host[i]) /\ Carries(to_host[j])
         /\ to_host[i].dgram.seqnum = rb_seq
         => to_host[j].dgram.seqnum = rb_seq

\* A chunk is given up without the host's ack only by a reconnect, before anything new is sent.
AckedByReconnect ==
    ~rb_waiting /\ seqnum_last_received # rb_seq =>
        rb_renewed = 2 /\ \A i \in DOMAIN to_host : ~Carries(to_host[i])

WaitsForChunk == rb_waiting => rb_chunk # None

\* The chunk the host last acked is the one it absorbed last.
Absorbed ==
    rb_renewed = 0 /\ rb_chunk # None /\ seqnum_last_received = rb_seq => LastAbsorbed = rb_chunk

AlternatingBit ==
    /\ AcksInOrder /\ NoNewsForIdle /\ ChunksInOrder
    /\ AckedByReconnect /\ WaitsForChunk /\ Absorbed

IInv == TypeOK /\ ReassemblyConsistent /\ AlternatingBit

\* The parts of the type invariant, by what they are about.
CommandsTyped ==
    /\ datagram_queue \in Seq(CmdDatagram) /\ datagram_chunk_queue \in Seq(CmdChunk)
    /\ sent_datagram_packet \in Payload(CmdChunk) \cup {None}
    /\ cycles_since_datagram_send \in 0..MaxCycles
    /\ seqnum_last_sent \in Bit /\ queued \in 0..MaxCmds
ResponsesTyped ==
    /\ seqnum_last_received \in Bit
    /\ datagram_rx_type \in RespType \cup {None}
    /\ datagram_rx_buf \in Seq(RespChunk) /\ rx_datagram \in Seq(RespChunk)
CommandLinkTyped == to_robot \in Seq(Packet(CmdChunk))
ResponseLinkTyped == to_host \in Seq(Packet(RespChunk))
RobotTyped ==
    /\ rb_last \in Bit /\ accepted \in Seq(CmdChunk)
    /\ rb_seq \in Bit /\ rb_chunk \in RespChunk \cup {None} /\ rb_waiting \in BOOLEAN
HistoryTyped ==
    /\ dups \in 0..MaxDups
    /\ reconnects \in 0..MaxReconnects /\ renewed \in BOOLEAN /\ rb_renewed \in 0..2

LEMMA TypeParts ==
    TypeOK <=> /\ CommandsTyped /\ ResponsesTyped /\ CommandLinkTyped /\ ResponseLinkTyped
               /\ RobotTyped /\ HistoryTyped
  BY Zenon DEF TypeOK, CommandsTyped, ResponsesTyped, CommandLinkTyped, ResponseLinkTyped,
               RobotTyped, HistoryTyped

LEMMA TypePartsNext ==
    TypeOK' <=> /\ CommandsTyped' /\ ResponsesTyped' /\ CommandLinkTyped' /\ ResponseLinkTyped'
                /\ RobotTyped' /\ HistoryTyped'
  BY Zenon DEF TypeOK, CommandsTyped, ResponsesTyped, CommandLinkTyped, ResponseLinkTyped,
               RobotTyped, HistoryTyped

-----------------------------------------------------------------------------
(* What the links do to the order of packets                               *)

\* Nothing comes in that was not there, and what was in order stays so.
KeepsOrder(old, new) ==
    /\ \A i \in DOMAIN new : \E k \in DOMAIN old : new[i] = old[k]
    /\ \A i, j \in DOMAIN new : i <= j =>
         \E k, l \in DOMAIN old : k <= l /\ new[i] = old[k] /\ new[j] = old[l]

\* The same but for a packet that comes last.
AddsLast(old, new, packet) ==
    /\ \A i \in DOMAIN new : new[i] = packet \/ \E k \in DOMAIN old : new[i] = old[k]
    /\ \A i, j \in DOMAIN new : i <= j =>
         \/ new[j] = packet
         \/ \E k, l \in DOMAIN old : k <= l /\ new[i] = old[k] /\ new[j] = old[l]

LEMMA TailInOrder ==
    ASSUME NEW S, NEW link \in Seq(S), link # <<>>
    PROVE  /\ Tail(link) \in Seq(S) /\ Head(link) \in S /\ KeepsOrder(link, Tail(link))
           /\ 1 \in DOMAIN link /\ link[1] = Head(link)
           /\ \A i \in DOMAIN Tail(link) :
                i + 1 \in DOMAIN link /\ 1 <= i + 1 /\ Tail(link)[i] = link[i + 1]
<1>1. /\ Tail(link) \in Seq(S) /\ Head(link) = link[1] /\ Len(link) \in Nat
      /\ Len(Tail(link)) = Len(link) - 1 /\ Len(link) > 0
      /\ \A i \in 1..Len(Tail(link)) : Tail(link)[i] = link[i + 1]
  BY HeadTailProperties, LenProperties, EmptySeq
<1>2. DOMAIN link = 1..Len(link) /\ DOMAIN Tail(link) = 1..Len(Tail(link))
  BY <1>1, LenProperties
<1>3. \A i \in DOMAIN Tail(link) :
        i \in Int /\ i + 1 \in DOMAIN link /\ 1 <= i + 1 /\ Tail(link)[i] = link[i + 1]
  BY <1>1, <1>2
<1>4. KeepsOrder(link, Tail(link))
  <2>1. \A i, j \in DOMAIN Tail(link) : i <= j => i + 1 <= j + 1
    BY <1>3
  <2> QED BY <1>3, <2>1 DEF KeepsOrder
<1>5. 1 \in DOMAIN link /\ link[1] \in S
  BY <1>1, <1>2, ElementOfSeq
<1> QED BY <1>1, <1>3, <1>4, <1>5

LEMMA AppendInOrder ==
    ASSUME NEW S, NEW link \in Seq(S), NEW packet \in S
    PROVE  Append(link, packet) \in Seq(S) /\ AddsLast(link, Append(link, packet), packet)
<1> DEFINE new == Append(link, packet)
<1>1. PICK n \in Nat : n = Len(link)
  BY LenProperties
<1>2. /\ new \in Seq(S) /\ Len(new) = n + 1 /\ new[n + 1] = packet
      /\ \A i \in 1..n : new[i] = link[i]
  BY <1>1, AppendProperties
<1>3. DOMAIN link = 1..n /\ DOMAIN new = 1..(n + 1)
  BY <1>1, <1>2, LenProperties
<1> HIDE DEF new
<1>4. \A i \in 1..(n + 1) : i \in 1..n \/ i = n + 1
  OBVIOUS
<1>5. \A i, j \in 1..(n + 1) : i <= j /\ j \in 1..n => i \in 1..n
  OBVIOUS
<1>6. \A i \in DOMAIN new : new[i] = packet \/ (i \in DOMAIN link /\ new[i] = link[i])
  BY <1>2, <1>3, <1>4
<1>7. \A i, j \in DOMAIN new : i <= j =>
        \/ new[j] = packet
        \/ i \in DOMAIN link /\ j \in DOMAIN link /\ new[i] = link[i] /\ new[j] = link[j]
  <2> SUFFICES ASSUME NEW i \in 1..(n + 1), NEW j \in 1..n, i <= j
               PROVE  i \in 1..n /\ j \in 1..n /\ new[i] = link[i] /\ new[j] = link[j]
    BY <1>2, <1>3, <1>4
  <2>1. i \in 1..n
    BY <1>5, <1>4
  <2> QED BY <1>2, <2>1
<1> QED BY <1>2, <1>6, <1>7 DEF AddsLast, new

LEMMA TransmitInOrder ==
    ASSUME NEW S, NEW link \in Seq(S), NEW packet \in S
    PROVE  Transmit(link, packet) \in Seq(S) /\ AddsLast(link, Transmit(link, packet), packet)
<1>1. CASE Len(link) < ChanCap
  BY <1>1, AppendInOrder DEF Transmit
<1>2. CASE ~(Len(link) < ChanCap)
  <2> DEFINE rest == Tail(link)
             new == Append(rest, packet)
  <2>1. link # <<>>
    <3> SUFFICES ASSUME link = <<>> PROVE Len(link) < ChanCap
      BY <1>2
    <3>1. ChanCap \in Nat \ {0} /\ Len(link) = 0
      BY BoundAssumption
    <3> QED BY <3>1
  <2>2. rest \in Seq(S) /\ KeepsOrder(link, rest)
    BY <2>1, TailInOrder
  <2>3. Transmit(link, packet) = new
    BY <1>2 DEF Transmit
  <2> HIDE DEF rest
  <2>4. new \in Seq(S) /\ AddsLast(rest, new, packet)
    BY <2>2, AppendInOrder
  <2> HIDE DEF new
  <2>5. \A i \in DOMAIN new : new[i] = packet \/ \E k \in DOMAIN link : new[i] = link[k]
    BY <2>2, <2>4 DEF AddsLast, KeepsOrder
  <2>6. \A i, j \in DOMAIN new : i <= j =>
          \/ new[j] = packet
          \/ \E k, l \in DOMAIN link : k <= l /\ new[i] = link[k] /\ new[j] = link[l]
    BY <2>2, <2>4 DEF AddsLast, KeepsOrder
  <2> QED BY <2>3, <2>4, <2>5, <2>6 DEF AddsLast
<1> QED BY <1>1, <1>2

LEMMA RepeatInOrder ==
    ASSUME NEW S, NEW link \in Seq(S), link # <<>>
    PROVE  /\ <<Head(link)>> \o link \in Seq(S)
           /\ KeepsOrder(link, <<Head(link)>> \o link)
<1> DEFINE new == <<Head(link)>> \o link
<1>1. Head(link) \in S /\ 1 \in DOMAIN link /\ link[1] = Head(link)
  BY TailInOrder
<1>2. <<Head(link)>> \in Seq(S) /\ Len(<<Head(link)>>) = 1 /\ <<Head(link)>>[1] = Head(link)
  BY <1>1
<1>3. /\ new \in Seq(S) /\ Len(new) = 1 + Len(link) /\ Len(link) \in Nat
      /\ new[1] = Head(link)
      /\ \A i \in 2..(1 + Len(link)) : new[i] = link[i - 1]
  BY <1>1, <1>2, ConcatProperties, LenProperties
<1>4. DOMAIN link = 1..Len(link) /\ DOMAIN new = 1..(1 + Len(link))
  BY <1>3, LenProperties
<1> HIDE DEF new
<1> DEFINE at(i) == IF i = 1 THEN 1 ELSE i - 1
<1>5. \A i \in DOMAIN new : at(i) \in DOMAIN link /\ new[i] = link[at(i)]
  BY <1>1, <1>3, <1>4
<1>6. \A i, j \in DOMAIN new : i <= j => at(i) <= at(j)
  BY <1>3, <1>4
<1> HIDE DEF at
<1>7. KeepsOrder(link, new)
  BY <1>5, <1>6 DEF KeepsOrder
<1> QED BY <1>3, <1>7 DEF new

-----------------------------------------------------------------------------
(* Datagrams and their chunks                                              *)

LEMMA ChunksTyped ==
    ASSUME NEW d \in CmdDatagram
    PROVE  Chunks(d, CmdSize[d.type]) \in Seq(CmdChunk)
<1> DEFINE size == CmdSize[d.type]
           n == NumChunks(size)
<1>1. d.id \in 1..MaxCmds /\ d.type \in CmdType /\ size \in Nat
  BY SizeAssumption DEF CmdDatagram
<1>2. ChunkSize \in Nat \ {0}
  BY SizeAssumption
<1> HIDE DEF size
<1>3. n \in Nat
  <2>1. CASE size = 0
    BY <2>1 DEF NumChunks
  <2>2. CASE size # 0
    <3>1. PICK k \in Nat : k = size + ChunkSize - 1
      BY <1>1, <1>2
    <3>2. k \div ChunkSize \in Nat
      BY <1>2
    <3> QED BY <2>2, <3>1, <3>2 DEF NumChunks
  <2> QED BY <2>1, <2>2
<1> HIDE DEF n
<1>4. Chunks(d, size) = [i \in 1..n |-> [id |-> d.id, type |-> d.type, part |-> i]]
  BY DEF Chunks, n
<1>5. \A i \in 1..n : [id |-> d.id, type |-> d.type, part |-> i] \in CmdChunk
  BY <1>1, <1>3 DEF CmdChunk
<1> QED BY <1>3, <1>4, <1>5, IsASeq DEF size

LEMMA NextChunksTyped ==
    ASSUME CommandsTyped
    PROVE  /\ NextChunks \in Seq(CmdChunk)
           /\ NextChunks # <<>> /\ datagram_chunk_queue = <<>> => datagram_queue # <<>>
<1>1. CASE datagram_chunk_queue # <<>>
  BY <1>1 DEF NextChunks, CommandsTyped
<1>2. CASE datagram_chunk_queue = <<>> /\ datagram_queue # <<>>
  <2>1. Head(datagram_queue) \in CmdDatagram
    BY <1>2, HeadTailProperties DEF CommandsTyped
  <2>2. NextChunks = Chunks(Head(datagram_queue), CmdSize[Head(datagram_queue).type])
    BY <1>2 DEF NextChunks
  <2> QED BY <1>2, <2>1, <2>2, ChunksTyped
<1>3. CASE datagram_chunk_queue = <<>> /\ datagram_queue = <<>>
  <2>1. NextChunks = <<>>
    BY <1>3 DEF NextChunks
  <2> QED BY <2>1
<1> QED BY <1>1, <1>2, <1>3

\* Whatever a chunk completes or replaces, it is the one absorbed last, and neither the buffer
\* nor a response is of two types.
LEMMA ReceiveChunkEffect ==
    ASSUME ResponsesTyped, ReassemblyConsistent, NEW dgram \in Payload(RespChunk),
           ReceiveChunk(dgram)
    PROVE  /\ ResponsesTyped' /\ ReassemblyConsistent'
           /\ seqnum_last_received' = dgram.seqnum /\ LastAbsorbed' = dgram.chunk
<1> DEFINE chunk == dgram.chunk
           buf == RxAppend(chunk)
           done == Complete(buf, chunk.type)
<1>1. chunk \in RespChunk /\ dgram.seqnum \in Bit /\ chunk.type \in RespType
  BY DEF Payload, RespChunk
<1>2. /\ seqnum_last_received' = dgram.seqnum
      /\ datagram_rx_type' = IF done THEN None ELSE chunk.type
      /\ datagram_rx_buf' = IF done THEN <<>> ELSE buf
      /\ rx_datagram' = IF done THEN buf ELSE rx_datagram
  BY DEF ReceiveChunk
<1>3. /\ datagram_rx_buf \in Seq(RespChunk) /\ rx_datagram \in Seq(RespChunk)
      /\ datagram_rx_type = None <=> datagram_rx_buf = <<>>
      /\ \A i \in DOMAIN datagram_rx_buf : datagram_rx_buf[i].type = datagram_rx_type
      /\ \A i, j \in DOMAIN rx_datagram : rx_datagram[i].type = rx_datagram[j].type
  BY DEF ResponsesTyped, ReassemblyConsistent
<1>4. chunk.type # None
  BY <1>1, NoneAssumption
<1> HIDE DEF chunk
<1>5. /\ buf \in Seq(RespChunk) /\ buf # <<>> /\ Last(buf) = chunk
      /\ \A i \in DOMAIN buf : buf[i].type = chunk.type
  <2>1. CASE datagram_rx_type # None /\ datagram_rx_type # chunk.type
    <3>1. buf = <<chunk>>
      BY <2>1 DEF RxAppend
    <3>2. /\ <<chunk>> \in Seq(RespChunk) /\ <<chunk>> # <<>> /\ Len(<<chunk>>) = 1
          /\ <<chunk>>[1] = chunk /\ DOMAIN <<chunk>> = {1}
      BY <1>1
    <3> QED BY <3>1, <3>2 DEF Last
  <2>2. CASE datagram_rx_type = None \/ datagram_rx_type = chunk.type
    <3> DEFINE new == Append(datagram_rx_buf, chunk)
               n == Len(datagram_rx_buf)
    <3>1. buf = new
      BY <2>2 DEF RxAppend
    <3>2. /\ new \in Seq(RespChunk) /\ Len(new) = n + 1 /\ n \in Nat
          /\ \A i \in 1..n : new[i] = datagram_rx_buf[i]
          /\ new[n + 1] = chunk
      BY <1>1, <1>3, AppendProperties, LenProperties
    <3>3. DOMAIN new = 1..(n + 1) /\ DOMAIN datagram_rx_buf = 1..n
      BY <1>3, <3>2, LenProperties
    <3> HIDE DEF new, n
    <3>4. \A i \in 1..n : datagram_rx_buf[i].type = chunk.type
      <4>1. CASE datagram_rx_type = None
        <5>1. n = 0
          BY <1>3, <4>1 DEF n
        <5> QED BY <5>1
      <4>2. CASE datagram_rx_type = chunk.type
        BY <1>3, <3>3, <4>2
      <4> QED BY <2>2, <4>1, <4>2
    <3>5. \A i \in DOMAIN new : new[i].type = chunk.type
      <4> SUFFICES ASSUME NEW i \in 1..(n + 1) PROVE new[i].type = chunk.type
        BY <3>3
      <4>1. i \in 1..n \/ i = n + 1
        BY <3>2
      <4> QED BY <3>2, <3>4, <4>1
    <3>6. new # <<>>
      BY <3>2
    <3> QED BY <3>1, <3>2, <3>5, <3>6 DEF Last
  <2> QED BY <2>1, <2>2
<1> HIDE DEF buf, done
<1>6. CASE done
  <2>1. datagram_rx_buf' = <<>> /\ datagram_rx_type' = None /\ rx_datagram' = buf
    BY <1>2, <1>6
  <2>2. ReassemblyConsistent'
    BY <1>5, <2>1 DEF ReassemblyConsistent
  <2>3. ResponsesTyped'
    BY <1>1, <1>2, <1>5, <2>1 DEF ResponsesTyped
  <2> QED BY <1>2, <1>5, <2>1, <2>2, <2>3 DEF LastAbsorbed, chunk
<1>7. CASE ~done
  <2>1. datagram_rx_buf' = buf /\ datagram_rx_type' = chunk.type /\ UNCHANGED rx_datagram
    BY <1>2, <1>7
  <2>2. ReassemblyConsistent'
    BY <1>3, <1>4, <1>5, <1>7, <2>1 DEF ReassemblyConsistent, done
  <2>3. ResponsesTyped'
    BY <1>1, <1>2, <1>3, <1>5, <2>1 DEF ResponsesTyped
  <2> QED BY <1>2, <1>5, <2>1, <2>2, <2>3 DEF LastAbsorbed, chunk
<1> QED BY <1>6, <1>7

-----------------------------------------------------------------------------
(* Steps of the links and of the host keep the alternating bit             *)

\* Packets that are lost or repeated leave the order of acks as it is.
LEMMA CommandLinkKeeps ==
    ASSUME AcksInOrder, NoNewsForIdle, KeepsOrder(to_robot, to_robot'),
           UNCHANGED <<rb_seq, rb_waiting, seqnum_last_received>>
    PROVE  AcksInOrder' /\ NoNewsForIdle'
  BY DEF AcksInOrder, NoNewsForIdle, KeepsOrder

\* The host always sends what it received last.
LEMMA HostSends ==
    ASSUME AcksInOrder, NoNewsForIdle,
           NEW packet, packet.acknum = seqnum_last_received,
           AddsLast(to_robot, to_robot', packet),
           UNCHANGED <<rb_seq, rb_waiting, seqnum_last_received>>
    PROVE  AcksInOrder' /\ NoNewsForIdle'
<1>1. NoNewsForIdle'
  BY DEF NoNewsForIdle, AddsLast
<1>2. \A i \in DOMAIN to_robot' : to_robot'[i].acknum = rb_seq => seqnum_last_received = rb_seq
  BY DEF AcksInOrder, AddsLast
<1>3. \A i, j \in DOMAIN to_robot' :
        i <= j /\ to_robot'[i].acknum = rb_seq => to_robot'[j].acknum = rb_seq
  BY <1>2 DEF AcksInOrder, AddsLast
<1> QED BY <1>1, <1>2, <1>3 DEF AcksInOrder

LEMMA ResponseLinkKeeps ==
    ASSUME ChunksInOrder, AckedByReconnect, KeepsOrder(to_host, to_host'),
           UNCHANGED <<rb_seq, rb_chunk, rb_waiting, rb_renewed, seqnum_last_received>>
    PROVE  ChunksInOrder' /\ AckedByReconnect'
<1>1. AckedByReconnect'
  BY DEF AckedByReconnect, KeepsOrder
<1>2. \A i \in DOMAIN to_host' : Carries(to_host'[i]) =>
         /\ to_host'[i].dgram.seqnum = rb_seq => to_host'[i].dgram.chunk = rb_chunk
         /\ seqnum_last_received = rb_seq => to_host'[i].dgram.seqnum = rb_seq
  BY DEF ChunksInOrder, KeepsOrder
<1>3. \A i, j \in DOMAIN to_host' :
         /\ i <= j /\ Carries(to_host'[i]) /\ Carries(to_host'[j])
         /\ to_host'[i].dgram.seqnum = rb_seq
         => to_host'[j].dgram.seqnum = rb_seq
  BY DEF ChunksInOrder, KeepsOrder
<1> QED BY <1>1, <1>2, <1>3 DEF ChunksInOrder

\* A step that leaves the robot alone, and what the host has received.
LEMMA OnlyLinks ==
    ASSUME IInv,
           CommandsTyped', CommandLinkTyped', ResponseLinkTyped', HistoryTyped',
           UNCHANGED <<rxVars, robotVars, rb_renewed>>,
           \/ KeepsOrder(to_robot, to_robot') \/ UNCHANGED to_robot
           \/ \E packet : /\ packet.acknum = seqnum_last_received
                          /\ AddsLast(to_robot, to_robot', packet),
           KeepsOrder(to_host, to_host') \/ UNCHANGED to_host
    PROVE  IInv'
<1>1. /\ ResponsesTyped /\ RobotTyped
      /\ AcksInOrder /\ NoNewsForIdle /\ ChunksInOrder /\ AckedByReconnect
      /\ WaitsForChunk /\ Absorbed /\ ReassemblyConsistent
  BY TypeParts DEF IInv, AlternatingBit
<1>2. /\ UNCHANGED <<seqnum_last_received, datagram_rx_type, datagram_rx_buf, rx_datagram>>
      /\ UNCHANGED <<rb_last, accepted, rb_seq, rb_chunk, rb_waiting, rb_renewed>>
  BY DEF rxVars, robotVars
<1>3. AcksInOrder' /\ NoNewsForIdle'
  <2>1. CASE UNCHANGED to_robot
    BY <1>1, <1>2, <2>1 DEF AcksInOrder, NoNewsForIdle
  <2> QED BY <1>1, <1>2, <2>1, CommandLinkKeeps, HostSends
<1>4. ChunksInOrder' /\ AckedByReconnect'
  <2>1. CASE UNCHANGED to_host
    BY <1>1, <1>2, <2>1 DEF ChunksInOrder, AckedByReconnect
  <2> QED BY <1>1, <1>2, <2>1, ResponseLinkKeeps
<1>5. WaitsForChunk' /\ Absorbed' /\ ReassemblyConsistent'
  BY <1>1, <1>2 DEF WaitsForChunk, Absorbed, LastAbsorbed, ReassemblyConsistent
<1>6. ResponsesTyped' /\ RobotTyped'
  BY <1>1, <1>2 DEF ResponsesTyped, RobotTyped
<1>7. TypeOK'
  BY <1>6, TypePartsNext
<1> QED BY <1>3, <1>4, <1>5, <1>7 DEF IInv, AlternatingBit

LEMMA InitIInv == Init => IInv
<1> SUFFICES ASSUME Init PROVE IInv
  OBVIOUS
<1>1. TypeOK
  <2>1. MaxCycles \in Nat /\ MaxCmds \in Nat /\ MaxDups \in Nat /\ MaxReconnects \in Nat
    BY BoundAssumption
  <2>2. CommandsTyped
    BY <2>1 DEF Init, CommandsTyped, Bit
  <2>3. ResponsesTyped
    BY DEF Init, ResponsesTyped, Bit, FirstAck
  <2>4. rb_waiting \in BOOLEAN /\ renewed \in BOOLEAN
    BY Zenon DEF Init
  <2>5. RobotTyped
    BY <2>4 DEF Init, RobotTyped, Bit
  <2>6. CommandLinkTyped /\ ResponseLinkTyped
    BY DEF Init, CommandLinkTyped, ResponseLinkTyped
  <2>7. HistoryTyped
    BY <2>1, <2>4 DEF Init, HistoryTyped
  <2> QED BY <2>2, <2>3, <2>5, <2>6, <2>7, TypeParts
<1>2. ReassemblyConsistent
  BY DEF Init, ReassemblyConsistent
<1>3. AlternatingBit
  BY DEF Init, AlternatingBit, AcksInOrder, NoNewsForIdle, ChunksInOrder, AckedByReconnect,
         WaitsForChunk, Absorbed, FirstAck
<1> QED BY <1>1, <1>2, <1>3 DEF IInv

LEMMA QueueStep == ASSUME IInv, QueueDatagram PROVE IInv'
<1>1. /\ queued < MaxCmds /\ queued' = queued + 1
      /\ UNCHANGED <<datagram_chunk_queue, cycles_since_datagram_send, seqnum_last_sent,
                     sent_datagram_packet, rxVars, to_robot, to_host, dups, robotVars, history>>
  BY DEF QueueDatagram
<1>2. PICK t \in CmdType :
        datagram_queue' = Append(datagram_queue, [id |-> queued + 1, type |-> t])
  BY DEF QueueDatagram
<1>3. CommandsTyped /\ CommandLinkTyped /\ ResponseLinkTyped /\ HistoryTyped
  BY TypeParts DEF IInv
<1>4. queued \in 0..MaxCmds /\ MaxCmds \in Nat
  BY <1>3, BoundAssumption DEF CommandsTyped
<1>5. queued' \in 0..MaxCmds /\ queued + 1 \in 1..MaxCmds
  BY <1>1, <1>4
<1>6. datagram_queue' \in Seq(CmdDatagram)
  <2>1. [id |-> queued + 1, type |-> t] \in CmdDatagram
    BY <1>5 DEF CmdDatagram
  <2> QED BY <1>2, <1>3, <2>1, AppendProperties DEF CommandsTyped
<1>7. CommandsTyped'
  BY <1>1, <1>3, <1>5, <1>6 DEF CommandsTyped
<1>8. CommandLinkTyped' /\ ResponseLinkTyped' /\ HistoryTyped'
  BY <1>1, <1>3 DEF CommandLinkTyped, ResponseLinkTyped, HistoryTyped, history
<1> QED BY <1>1, <1>7, <1>8, OnlyLinks DEF history

\* A packet that is sent carries the host's ack, and a chunk of a command or none.
LEMMA SendEffect ==
    ASSUME IInv, NEW dgram \in Payload(CmdChunk) \cup {None},
           to_robot' = Transmit(to_robot, [acknum |-> seqnum_last_received, dgram |-> dgram]),
           CommandsTyped', HistoryTyped',
           UNCHANGED <<rxVars, to_host, robotVars, rb_renewed>>
    PROVE  IInv'
<1> DEFINE packet == [acknum |-> seqnum_last_received, dgram |-> dgram]
<1>1. to_robot \in Seq(Packet(CmdChunk)) /\ ResponseLinkTyped /\ seqnum_last_received \in Bit
  BY TypeParts DEF IInv, CommandLinkTyped, ResponsesTyped
<1>2. packet \in Packet(CmdChunk) /\ packet.acknum = seqnum_last_received
  BY <1>1 DEF Packet
<1> HIDE DEF packet
<1>3. /\ to_robot' \in Seq(Packet(CmdChunk))
      /\ AddsLast(to_robot, to_robot', packet)
  <2>1. to_robot' = Transmit(to_robot, packet)
    BY DEF packet
  <2> QED BY <1>1, <1>2, <2>1, TransmitInOrder
<1>4. CommandLinkTyped' /\ ResponseLinkTyped'
  BY <1>1, <1>3 DEF CommandLinkTyped, ResponseLinkTyped
<1> QED BY <1>2, <1>3, <1>4, OnlyLinks

LEMMA NextPacketStep == ASSUME IInv, next_packet PROVE IInv'
<1>1. CommandsTyped /\ HistoryTyped
  BY TypeParts DEF IInv
<1>2. CASE Resend
  <2>1. /\ sent_datagram_packet # None /\ cycles_since_datagram_send' = 0
        /\ to_robot' = Transmit(to_robot, [acknum |-> seqnum_last_received,
                                           dgram |-> sent_datagram_packet])
        /\ UNCHANGED <<datagram_queue, datagram_chunk_queue, seqnum_last_sent, queued,
                       sent_datagram_packet, rxVars, to_host, dups, robotVars, history>>
    BY <1>2 DEF Resend, MustResend
  <2>2. CommandsTyped' /\ HistoryTyped'
    BY <1>1, <2>1, BoundAssumption DEF CommandsTyped, HistoryTyped, history
  <2>3. sent_datagram_packet \in Payload(CmdChunk) \cup {None}
    BY <1>1 DEF CommandsTyped
  <2> QED BY <2>1, <2>2, <2>3, SendEffect DEF history
<1>3. CASE SendNewChunk
  <2>1. /\ NextChunks # <<>>
        /\ datagram_chunk_queue' = Tail(NextChunks)
        /\ datagram_queue' = IF datagram_chunk_queue # <<>> THEN datagram_queue
                                                            ELSE Tail(datagram_queue)
        /\ seqnum_last_sent' = 1 - seqnum_last_sent
        /\ sent_datagram_packet' = [seqnum |-> seqnum_last_sent', chunk |-> Head(NextChunks)]
        /\ cycles_since_datagram_send' = 0
        /\ to_robot' = Transmit(to_robot, [acknum |-> seqnum_last_received,
                                           dgram |-> sent_datagram_packet'])
        /\ renewed' = FALSE
        /\ UNCHANGED <<queued, rxVars, to_host, dups, robotVars, reconnects, rb_renewed>>
    BY <1>3 DEF SendNewChunk
  <2>2. /\ NextChunks \in Seq(CmdChunk)
        /\ datagram_chunk_queue = <<>> => datagram_queue # <<>>
    BY <1>1, <2>1, NextChunksTyped
  <2>3. Head(NextChunks) \in CmdChunk /\ datagram_chunk_queue' \in Seq(CmdChunk)
    BY <2>1, <2>2, HeadTailProperties
  <2>4. datagram_queue' \in Seq(CmdDatagram)
    BY <1>1, <2>1, <2>2, HeadTailProperties DEF CommandsTyped
  <2>5. seqnum_last_sent' \in Bit
    BY <1>1, <2>1 DEF CommandsTyped, Bit
  <2>6. sent_datagram_packet' \in Payload(CmdChunk)
    BY <2>1, <2>3, <2>5 DEF Payload
  <2>7. cycles_since_datagram_send' \in 0..MaxCycles /\ queued' \in 0..MaxCmds
    BY <1>1, <2>1, BoundAssumption DEF CommandsTyped
  <2>8. CommandsTyped'
    BY <2>3, <2>4, <2>5, <2>6, <2>7 DEF CommandsTyped
  <2>9. HistoryTyped'
    BY <1>1, <2>1 DEF HistoryTyped
  <2> QED BY <2>1, <2>6, <2>8, <2>9, SendEffect
<1>4. CASE SendRegular
  <2>1. /\ cycles_since_datagram_send' = NextCycles
        /\ to_robot' = Transmit(to_robot, [acknum |-> seqnum_last_received, dgram |-> None])
        /\ UNCHANGED <<datagram_queue, datagram_chunk_queue, seqnum_last_sent, queued,
                       sent_datagram_packet, rxVars, to_host, dups, robotVars, history>>
    BY <1>4 DEF SendRegular
  <2>2. cycles_since_datagram_send' \in 0..MaxCycles
    <3>1. cycles_since_datagram_send \in 0..MaxCycles /\ MaxCycles \in Nat \ {0}
      BY <1>1, BoundAssumption DEF CommandsTyped
    <3> QED BY <2>1, <3>1 DEF NextCycles
  <2>3. CommandsTyped' /\ HistoryTyped'
    BY <1>1, <2>1, <2>2 DEF CommandsTyped, HistoryTyped, history
  <2> QED BY <2>1, <2>3, SendEffect DEF history
<1> QED BY <1>2, <1>3, <1>4 DEF next_packet

\* A link that loses or repeats its oldest packet.
LEMMA LinkStep == ASSUME IInv, LoseCommand \/ LoseResponse \/ Duplicate PROVE IInv'
<1>1. /\ CommandsTyped /\ HistoryTyped
      /\ to_robot \in Seq(Packet(CmdChunk)) /\ to_host \in Seq(Packet(RespChunk))
  BY TypeParts DEF IInv, CommandLinkTyped, ResponseLinkTyped
<1>2. /\ UNCHANGED <<txVars, sent_datagram_packet, rxVars, robotVars, history>>
      /\ UNCHANGED dups \/ (dups < MaxDups /\ dups' = dups + 1)
      /\ \/ to_robot # <<>> /\ to_robot' = Tail(to_robot)
         \/ to_robot # <<>> /\ to_robot' = <<Head(to_robot)>> \o to_robot
         \/ UNCHANGED to_robot
      /\ \/ to_host # <<>> /\ to_host' = Tail(to_host)
         \/ to_host # <<>> /\ to_host' = <<Head(to_host)>> \o to_host
         \/ UNCHANGED to_host
  BY DEF LoseCommand, LoseResponse, Duplicate
<1>3. CommandsTyped'
  BY <1>1, <1>2 DEF CommandsTyped, txVars
<1>4. dups' \in 0..MaxDups
  <2>1. dups \in 0..MaxDups /\ MaxDups \in Nat
    BY <1>1, BoundAssumption DEF HistoryTyped
  <2> QED BY <1>2, <2>1
<1>5. HistoryTyped'
  BY <1>1, <1>2, <1>4 DEF HistoryTyped, history
<1>6. CommandLinkTyped' /\ (KeepsOrder(to_robot, to_robot') \/ UNCHANGED to_robot)
  BY <1>1, <1>2, TailInOrder, RepeatInOrder DEF CommandLinkTyped
<1>7. ResponseLinkTyped' /\ (KeepsOrder(to_host, to_host') \/ UNCHANGED to_host)
  BY <1>1, <1>2, TailInOrder, RepeatInOrder DEF ResponseLinkTyped
<1> QED BY <1>2, <1>3, <1>5, <1>6, <1>7, OnlyLinks DEF history

\* A new protocol state knows nothing of the robot; with both links empty nothing is out of
\* order, and what the robot takes for acked is counted by rb_renewed.
LEMMA ReconnectStep == ASSUME IInv, Reconnect PROVE IInv'
<1>1. /\ reconnects < MaxReconnects /\ reconnects' = reconnects + 1
      /\ to_robot = <<>> /\ to_host = <<>>
      /\ datagram_queue' = <<>> /\ datagram_chunk_queue' = <<>>
      /\ sent_datagram_packet' = None /\ cycles_since_datagram_send' = 0
      /\ seqnum_last_sent' = 1 /\ seqnum_last_received' = 1
      /\ datagram_rx_type' = None /\ datagram_rx_buf' = <<>> /\ rx_datagram' = <<>>
      /\ renewed' = TRUE /\ rb_renewed' = 2
      /\ UNCHANGED <<queued, to_robot, to_host, dups>>
      /\ UNCHANGED <<rb_last, accepted, rb_seq, rb_chunk, rb_waiting>>
  BY DEF Reconnect, FirstAck, robotVars
<1>2. CommandsTyped /\ HistoryTyped /\ RobotTyped /\ WaitsForChunk
  BY TypeParts DEF IInv, AlternatingBit
<1>3. CommandsTyped' /\ ResponsesTyped'
  BY <1>1, <1>2, BoundAssumption DEF CommandsTyped, ResponsesTyped, Bit
<1>4. CommandLinkTyped' /\ ResponseLinkTyped' /\ RobotTyped'
  BY <1>1, <1>2 DEF CommandLinkTyped, ResponseLinkTyped, RobotTyped
<1>5. HistoryTyped'
  <2>1. reconnects \in 0..MaxReconnects /\ MaxReconnects \in Nat
    BY <1>2, BoundAssumption DEF HistoryTyped
  <2>2. reconnects' \in 0..MaxReconnects
    BY <1>1, <2>1
  <2> QED BY <1>1, <1>2, <2>2 DEF HistoryTyped
<1>6. ReassemblyConsistent'
  BY <1>1 DEF ReassemblyConsistent
<1>7. AlternatingBit'
  BY <1>1, <1>2
     DEF AlternatingBit, AcksInOrder, NoNewsForIdle, ChunksInOrder, AckedByReconnect,
         WaitsForChunk, Absorbed
<1> QED BY <1>3, <1>4, <1>5, <1>6, <1>7, TypePartsNext DEF IInv

-----------------------------------------------------------------------------
(* What the host receives                                                  *)

LEMMA ReceiveStep == ASSUME IInv, packet_received PROVE IInv'
<1> DEFINE packet == Head(to_host)
           dgram == packet.dgram
<1>1. /\ to_host # <<>> /\ to_host' = Tail(to_host)
      /\ HandleAck(packet)
      /\ (dgram = None /\ UNCHANGED rxVars) \/ (dgram # None /\ ReceiveChunk(dgram))
      /\ UNCHANGED <<txVars, to_robot, dups, robotVars, history>>
  BY DEF packet_received
<1>2. /\ CommandsTyped /\ ResponsesTyped /\ CommandLinkTyped /\ RobotTyped /\ HistoryTyped
      /\ to_host \in Seq(Packet(RespChunk))
      /\ ReassemblyConsistent /\ AlternatingBit
  BY TypeParts DEF IInv, ResponseLinkTyped
<1>3. /\ ResponseLinkTyped' /\ packet \in Packet(RespChunk)
      /\ KeepsOrder(to_host, to_host')
      /\ 1 \in DOMAIN to_host /\ to_host[1] = packet
      /\ \A i \in DOMAIN to_host' :
           i + 1 \in DOMAIN to_host /\ 1 <= i + 1 /\ to_host'[i] = to_host[i + 1]
  BY <1>1, <1>2, TailInOrder DEF ResponseLinkTyped
<1>4. CommandsTyped'
  <2>1. sent_datagram_packet' \in {sent_datagram_packet, None}
    BY <1>1 DEF HandleAck
  <2> QED BY <1>1, <1>2, <2>1 DEF CommandsTyped, txVars
<1>5. CommandLinkTyped' /\ HistoryTyped' /\ RobotTyped'
  BY <1>1, <1>2 DEF CommandLinkTyped, HistoryTyped, RobotTyped, history, robotVars
<1> HIDE DEF packet
<1>6. CASE dgram = None /\ UNCHANGED rxVars
  BY <1>1, <1>3, <1>4, <1>5, <1>6, OnlyLinks DEF history
<1>7. CASE dgram # None /\ ReceiveChunk(dgram)
  <2>1. dgram \in Payload(RespChunk)
    BY <1>3, <1>7 DEF Packet
  <2>2. /\ ResponsesTyped' /\ ReassemblyConsistent'
        /\ seqnum_last_received' = dgram.seqnum /\ LastAbsorbed' = dgram.chunk
    BY <1>2, <1>7, <2>1, ReceiveChunkEffect
  <2>3. UNCHANGED <<to_robot, rb_seq, rb_chunk, rb_waiting, rb_renewed>>
    BY <1>1 DEF robotVars, history
  <2>4. /\ AcksInOrder /\ NoNewsForIdle /\ ChunksInOrder /\ AckedByReconnect /\ WaitsForChunk
    BY <1>2 DEF AlternatingBit
  <2>5. /\ dgram.seqnum = rb_seq => dgram.chunk = rb_chunk
        /\ seqnum_last_received = rb_seq => dgram.seqnum = rb_seq
        /\ ~rb_waiting => seqnum_last_received = rb_seq
    BY <1>3, <1>7, <2>4 DEF ChunksInOrder, AckedByReconnect, Carries
  <2>6. AcksInOrder'
    BY <2>2, <2>3, <2>4, <2>5 DEF AcksInOrder
  <2>7. NoNewsForIdle' /\ AckedByReconnect' /\ WaitsForChunk'
    BY <2>2, <2>3, <2>4, <2>5 DEF NoNewsForIdle, AckedByReconnect, WaitsForChunk
  <2>8. Absorbed'
    BY <2>2, <2>3, <2>5 DEF Absorbed
  <2>9. ChunksInOrder'
    <3>1. \A i \in DOMAIN to_host' : Carries(to_host'[i]) =>
             /\ to_host'[i].dgram.seqnum = rb_seq => to_host'[i].dgram.chunk = rb_chunk
             /\ dgram.seqnum = rb_seq => to_host'[i].dgram.seqnum = rb_seq
      BY <1>3, <1>7, <2>4 DEF ChunksInOrder, Carries
    <3>2. \A i, j \in DOMAIN to_host' :
             /\ i <= j /\ Carries(to_host'[i]) /\ Carries(to_host'[j])
             /\ to_host'[i].dgram.seqnum = rb_seq
             => to_host'[j].dgram.seqnum = rb_seq
      BY <1>3, <2>4 DEF ChunksInOrder, KeepsOrder
    <3> QED BY <2>2, <2>3, <3>1, <3>2 DEF ChunksInOrder
  <2> QED BY <1>3, <1>4, <1>5, <2>2, <2>6, <2>7, <2>8, <2>9, TypePartsNext
          DEF IInv, AlternatingBit
<1> QED BY <1>1, <1>6, <1>7

-----------------------------------------------------------------------------
(* What the robot does                                                     *)

LEMMA FollowingTyped == ASSUME RobotTyped PROVE FollowingChunks \subseteq RespChunk
<1> DEFINE sofar == IF rb_chunk = None THEN 0 ELSE rb_chunk.id
           rest == IF rb_chunk # None /\ rb_chunk.part < NumChunks(RespSize[rb_chunk.type])
                   THEN {[rb_chunk EXCEPT !.part = @ + 1]} ELSE {}
           fresh == IF sofar < MaxResps
                    THEN {[id |-> sofar + 1, type |-> t, part |-> 1] : t \in RespType} ELSE {}
<1>1. rb_chunk # None => rb_chunk \in RespChunk
  BY DEF RobotTyped
<1>2. rest \subseteq RespChunk
  <2>1. CASE rb_chunk # None
    <3>1. [rb_chunk EXCEPT !.part = @ + 1] \in RespChunk
      BY <1>1, <2>1 DEF RespChunk
    <3> QED BY <3>1
  <2>2. CASE rb_chunk = None
    BY <2>2
  <2> QED BY <2>1, <2>2
<1>3. fresh \subseteq RespChunk
  <2>1. MaxResps \in Nat /\ sofar \in Nat
    BY <1>1, BoundAssumption DEF RespChunk
  <2> HIDE DEF sofar
  <2>2. sofar < MaxResps => sofar + 1 \in 1..MaxResps
    BY <2>1
  <2> QED BY <2>2 DEF RespChunk
<1>4. FollowingChunks \subseteq rest \cup fresh
  BY DEF FollowingChunks
<1> HIDE DEF rest, fresh
<1> QED BY <1>2, <1>3, <1>4

\* What the robot resends, or sends instead, is in order with what is on its way already.
LEMMA RobotStep == ASSUME IInv, RobotReceive PROVE IInv'
<1> DEFINE packet == Head(to_robot)
           unacked == rb_waiting /\ packet.acknum # rb_seq
<1>1. /\ to_robot # <<>> /\ to_robot' = Tail(to_robot)
      /\ RobotTake(packet) /\ RobotAnswer(packet.acknum)
      /\ UNCHANGED <<txVars, sent_datagram_packet, rxVars, dups, reconnects, renewed>>
  BY DEF RobotReceive
<1>2. /\ CommandsTyped /\ ResponsesTyped /\ RobotTyped /\ HistoryTyped
      /\ to_robot \in Seq(Packet(CmdChunk)) /\ to_host \in Seq(Packet(RespChunk))
      /\ ReassemblyConsistent /\ AlternatingBit
  BY TypeParts DEF IInv, ResponseLinkTyped, CommandLinkTyped
<1>3. /\ CommandLinkTyped' /\ packet \in Packet(CmdChunk)
      /\ KeepsOrder(to_robot, to_robot')
      /\ 1 \in DOMAIN to_robot /\ to_robot[1] = packet
      /\ \A i \in DOMAIN to_robot' :
           i + 1 \in DOMAIN to_robot /\ 1 <= i + 1 /\ to_robot'[i] = to_robot[i + 1]
  BY <1>1, <1>2, TailInOrder DEF CommandLinkTyped
<1> HIDE DEF packet
<1>4. /\ CommandsTyped' /\ ResponsesTyped' /\ ReassemblyConsistent' /\ LastAbsorbed' = LastAbsorbed
      /\ UNCHANGED <<seqnum_last_received, dups, reconnects, renewed>>
  BY <1>1, <1>2
     DEF CommandsTyped, ResponsesTyped, ReassemblyConsistent, LastAbsorbed, txVars, rxVars
<1>5. rb_last' \in Bit /\ accepted' \in Seq(CmdChunk)
  <2>1. rb_last \in Bit /\ accepted \in Seq(CmdChunk)
    BY <1>2 DEF RobotTyped
  <2>2. CASE /\ packet.dgram # None
             /\ accepted' = Append(accepted, packet.dgram.chunk)
             /\ rb_last' = packet.dgram.seqnum
    <3>1. packet.dgram \in Payload(CmdChunk)
      BY <1>3, <2>2 DEF Packet
    <3>2. packet.dgram.chunk \in CmdChunk /\ packet.dgram.seqnum \in Bit
      BY <3>1 DEF Payload
    <3> QED BY <2>1, <2>2, <3>2, AppendProperties
  <2> QED BY <1>1, <2>1, <2>2 DEF RobotTake
<1>6. /\ AcksInOrder /\ NoNewsForIdle /\ ChunksInOrder
      /\ AckedByReconnect /\ WaitsForChunk /\ Absorbed
  BY <1>2 DEF AlternatingBit
<1>7. /\ rb_seq \in Bit /\ rb_chunk \in RespChunk \cup {None} /\ rb_waiting \in BOOLEAN
      /\ rb_renewed \in 0..2 /\ seqnum_last_received \in Bit
  BY <1>2 DEF RobotTyped, HistoryTyped, ResponsesTyped
\* An ack of the present chunk is followed by nothing else, and the host has the chunk.
<1>8. packet.acknum = rb_seq =>
        /\ seqnum_last_received = rb_seq
        /\ \A i \in DOMAIN to_robot' : to_robot'[i].acknum = seqnum_last_received
  BY <1>3, <1>6 DEF AcksInOrder
<1>9. ~rb_waiting => \A i \in DOMAIN to_robot' : to_robot'[i].acknum = seqnum_last_received
  BY <1>3, <1>6 DEF NoNewsForIdle
<1>10. ~unacked => \A i \in DOMAIN to_robot' : to_robot'[i].acknum = seqnum_last_received
  BY <1>8, <1>9
<1>11. ~unacked /\ seqnum_last_received # rb_seq =>
         rb_renewed = 2 /\ \A i \in DOMAIN to_host : ~Carries(to_host[i])
  BY <1>6, <1>8 DEF AckedByReconnect
<1>12. ASSUME NEW d \in Payload(RespChunk) \cup {None},
              to_host' = Transmit(to_host, [acknum |-> rb_last', dgram |-> d])
       PROVE  /\ ResponseLinkTyped'
              /\ \E sent : sent.dgram = d /\ AddsLast(to_host, to_host', sent)
  <2> DEFINE sent == [acknum |-> rb_last', dgram |-> d]
  <2>1. sent \in Packet(RespChunk) /\ sent.dgram = d
    BY <1>5, <1>12 DEF Packet
  <2>2. to_host' \in Seq(Packet(RespChunk)) /\ AddsLast(to_host, to_host', sent)
    BY <1>2, <1>12, <2>1, TransmitInOrder
  <2> HIDE DEF sent
  <2> QED BY <2>1, <2>2 DEF ResponseLinkTyped
<1> HIDE DEF unacked
\* A packet without a chunk.
<1>13. CASE /\ to_host' = Transmit(to_host, [acknum |-> rb_last', dgram |-> None])
            /\ rb_waiting' = unacked
            /\ UNCHANGED <<rb_seq, rb_chunk, rb_renewed>>
  <2>1. PICK sent : sent.dgram = None /\ AddsLast(to_host, to_host', sent)
    BY <1>12, <1>13
  <2>2. ~Carries(sent) /\ ResponseLinkTyped'
    BY <1>12, <1>13, <2>1 DEF Carries
  <2>3. RobotTyped' /\ HistoryTyped'
    <3>1. rb_waiting' \in BOOLEAN
      BY <1>13 DEF unacked
    <3> QED BY <1>2, <1>4, <1>5, <1>13, <3>1 DEF RobotTyped, HistoryTyped
  <2>4. AcksInOrder'
    BY <1>3, <1>4, <1>6, <1>13 DEF AcksInOrder, KeepsOrder
  <2>5. NoNewsForIdle'
    BY <1>4, <1>10, <1>13 DEF NoNewsForIdle
  <2>6. ChunksInOrder'
    BY <1>4, <1>6, <1>13, <2>1, <2>2 DEF ChunksInOrder, AddsLast
  <2>7. AckedByReconnect'
    BY <1>4, <1>11, <1>13, <2>1, <2>2 DEF AckedByReconnect, AddsLast
  <2>8. WaitsForChunk' /\ Absorbed'
    BY <1>4, <1>6, <1>13 DEF WaitsForChunk, Absorbed, unacked
  <2> QED BY <1>3, <1>4, <2>2, <2>3, <2>4, <2>5, <2>6, <2>7, <2>8, TypePartsNext
          DEF IInv, AlternatingBit
\* The unacked chunk again.
<1>14. CASE /\ unacked
            /\ to_host' = Transmit(to_host, [acknum |-> rb_last',
                                   dgram |-> [seqnum |-> rb_seq, chunk |-> rb_chunk]])
            /\ UNCHANGED <<rb_seq, rb_chunk, rb_waiting, rb_renewed>>
  <2> DEFINE d == [seqnum |-> rb_seq, chunk |-> rb_chunk]
  <2>1. rb_waiting /\ d \in Payload(RespChunk)
    BY <1>6, <1>7, <1>14 DEF unacked, WaitsForChunk, Payload
  <2>2. d # None /\ d.seqnum = rb_seq /\ d.chunk = rb_chunk
    BY <2>1, NoneAssumption
  <2>3. PICK sent : sent.dgram = d /\ AddsLast(to_host, to_host', sent)
    BY <1>12, <1>14, <2>1
  <2>4. ResponseLinkTyped' /\ RobotTyped' /\ HistoryTyped'
    BY <1>2, <1>4, <1>5, <1>12, <1>14, <2>1 DEF RobotTyped, HistoryTyped
  <2> HIDE DEF d
  <2>5. AcksInOrder' /\ NoNewsForIdle'
    BY <1>3, <1>4, <1>6, <1>14, CommandLinkKeeps
  <2>6. \A i \in DOMAIN to_host' : Carries(to_host'[i]) =>
           /\ to_host'[i].dgram.seqnum = rb_seq => to_host'[i].dgram.chunk = rb_chunk
           /\ seqnum_last_received = rb_seq => to_host'[i].dgram.seqnum = rb_seq
    BY <1>6, <2>2, <2>3 DEF ChunksInOrder, AddsLast
  <2>7. \A i, j \in DOMAIN to_host' :
           /\ i <= j /\ Carries(to_host'[i]) /\ Carries(to_host'[j])
           /\ to_host'[i].dgram.seqnum = rb_seq
           => to_host'[j].dgram.seqnum = rb_seq
    BY <1>6, <2>2, <2>3 DEF ChunksInOrder, AddsLast
  <2>8. ChunksInOrder'
    BY <1>4, <1>14, <2>6, <2>7 DEF ChunksInOrder
  <2>9. AckedByReconnect' /\ WaitsForChunk' /\ Absorbed'
    BY <1>4, <1>6, <1>14, <2>1 DEF AckedByReconnect, WaitsForChunk, Absorbed
  <2> QED BY <1>3, <1>4, <2>4, <2>5, <2>8, <2>9, TypePartsNext DEF IInv, AlternatingBit
\* The next chunk.
<1>15. CASE /\ ~unacked
            /\ rb_chunk' \in FollowingChunks
            /\ rb_seq' = 1 - rb_seq
            /\ rb_waiting' = TRUE
            /\ rb_renewed' = IF rb_renewed > 0 THEN rb_renewed - 1 ELSE 0
            /\ to_host' = Transmit(to_host, [acknum |-> rb_last',
                                   dgram |-> [seqnum |-> rb_seq', chunk |-> rb_chunk']])
  <2> DEFINE d == [seqnum |-> rb_seq', chunk |-> rb_chunk']
  <2>1. rb_chunk' \in RespChunk /\ rb_chunk' # None
    BY <1>2, <1>15, FollowingTyped, NoneAssumption
  <2>2. rb_seq' \in Bit /\ rb_seq' # rb_seq /\ (seqnum_last_received = rb_seq'
                                                \/ seqnum_last_received = rb_seq)
    BY <1>7, <1>15 DEF Bit
  <2>3. /\ d \in Payload(RespChunk) /\ d # None
        /\ d.seqnum = rb_seq' /\ d.chunk = rb_chunk'
    BY <2>1, <2>2, NoneAssumption DEF Payload
  <2>4. PICK sent : sent.dgram = d /\ AddsLast(to_host, to_host', sent)
    BY <1>12, <1>15, <2>3
  <2>5. ResponseLinkTyped'
    BY <1>12, <1>15, <2>3
  <2>6. RobotTyped' /\ HistoryTyped'
    <3>1. rb_renewed' \in 0..2
      BY <1>7, <1>15
    <3>2. rb_waiting' \in BOOLEAN
      BY <1>15
    <3> QED BY <1>2, <1>4, <1>5, <2>1, <2>2, <3>1, <3>2 DEF RobotTyped, HistoryTyped
  <2> HIDE DEF d
  <2>7. AcksInOrder'
    BY <1>4, <1>10, <1>15 DEF AcksInOrder
  <2>8. \A i \in DOMAIN to_host : Carries(to_host[i]) =>
          to_host[i].dgram.seqnum = rb_seq /\ seqnum_last_received = rb_seq
    BY <1>6, <1>11, <1>15 DEF ChunksInOrder
  <2>9. \A i \in DOMAIN to_host' : Carries(to_host'[i]) =>
           /\ to_host'[i].dgram.seqnum = rb_seq' => to_host'[i].dgram.chunk = rb_chunk'
           /\ seqnum_last_received = rb_seq' => to_host'[i].dgram.seqnum = rb_seq'
    BY <2>2, <2>3, <2>4, <2>8 DEF AddsLast
  <2>10. \A i, j \in DOMAIN to_host' :
           /\ i <= j /\ Carries(to_host'[i]) /\ Carries(to_host'[j])
           /\ to_host'[i].dgram.seqnum = rb_seq'
           => to_host'[j].dgram.seqnum = rb_seq'
    BY <2>2, <2>3, <2>4, <2>8 DEF AddsLast
  <2>11. ChunksInOrder'
    BY <1>4, <2>9, <2>10 DEF ChunksInOrder
  <2>12. NoNewsForIdle' /\ AckedByReconnect' /\ WaitsForChunk'
    BY <1>15, <2>1 DEF NoNewsForIdle, AckedByReconnect, WaitsForChunk
  <2>13. Absorbed'
    <3>1. seqnum_last_received = rb_seq' => rb_renewed' = 1
      BY <1>11, <1>15, <2>2
    <3> QED BY <1>4, <3>1 DEF Absorbed
  <2> QED BY <1>3, <1>4, <2>5, <2>6, <2>7, <2>11, <2>12, <2>13, TypePartsNext
          DEF IInv, AlternatingBit
<1> QED BY <1>1, <1>13, <1>14, <1>15 DEF RobotAnswer, unacked

LEMMA StutterStep == ASSUME IInv, UNCHANGED vars PROVE IInv'
<1>1. /\ CommandsTyped' /\ CommandLinkTyped' /\ ResponseLinkTyped' /\ HistoryTyped'
  BY TypeParts
     DEF IInv, CommandsTyped, CommandLinkTyped, ResponseLinkTyped, HistoryTyped, vars, txVars,
         history
<1> QED BY <1>1, OnlyLinks DEF vars, history

LEMMA NextKeeps == IInv /\ [Next]_vars => IInv'
<1> SUFFICES ASSUME IInv, [Next]_vars PROVE IInv'
  OBVIOUS
<1> QED
  BY QueueStep, NextPacketStep, ReceiveStep, ReconnectStep, RobotStep, LinkStep, StutterStep
     DEF Next

\* The invariant holds in every state of every behaviour of the protocol as modelled.
THEOREM IInvHolds == Spec => []IInv
  BY InitIInv, NextKeeps, PTL DEF Spec

\* Every variable keeps its type: sequence numbers stay bits, the counter of cycles stays in
\* its range, and only chunks of queued datagrams are sent (proto2025/mod.rs:101-210).
THEOREM ProtocolTypeCorrect == Spec => []TypeOK
<1>1. IInv => TypeOK
  BY DEF IInv
<1> QED BY <1>1, IInvHolds, PTL

\* Neither the buffer nor a returned response mixes chunks of two types, and a complete
\* datagram never stays in the buffer, whatever is lost, repeated or given up half way
\* (proto2025/mod.rs:117-147).
THEOREM ReassemblyAlwaysConsistent == Spec => []ReassemblyConsistent
<1>1. IInv => ReassemblyConsistent
  BY DEF IInv
<1> QED BY <1>1, IInvHolds, PTL

\* The robot never stops resending a chunk that the host has not absorbed, but for the two
\* that a reconnect may cost, however packets and acks are lost and repeated
\* (proto2025/mod.rs:46, 126, 163).
THEOREM ResponseChunksNeverLost == Spec => []NoResponseChunkLost
<1>1. IInv => NoResponseChunkLost
  BY DEF IInv, AlternatingBit, AckedByReconnect, Absorbed, NoResponseChunkLost
<1> QED BY <1>1, IInvHolds, PTL

-----------------------------------------------------------------------------
(* Commands: the invariant behind the chunk stream                         *)

\* The chunk of a packet that the robot does not have yet is the unacked one; packets of the
\* chunk before it come first, and none of them is left once the robot has the present one.
CommandsInOrder ==
    /\ \A i \in DOMAIN to_robot : Carries(to_robot[i]) =>
         IF rb_last = seqnum_last_sent
         THEN to_robot[i].dgram.seqnum = seqnum_last_sent
         ELSE to_robot[i].dgram.seqnum = seqnum_last_sent =>
                  to_robot[i].dgram = sent_datagram_packet
    /\ \A i, j \in DOMAIN to_robot :
         /\ i <= j /\ Carries(to_robot[i]) /\ Carries(to_robot[j])
         /\ to_robot[i].dgram.seqnum = seqnum_last_sent
         => to_robot[j].dgram.seqnum = seqnum_last_sent

\* Acks of the present chunk come last, and only once the robot has it.
CommandAcksInOrder ==
    /\ \A i \in DOMAIN to_host :
         to_host[i].acknum = seqnum_last_sent => rb_last = seqnum_last_sent
    /\ \A i, j \in DOMAIN to_host :
         i <= j /\ to_host[i].acknum = seqnum_last_sent => to_host[j].acknum = seqnum_last_sent

\* When nothing is unacked, the robot has the chunk sent last (or nothing was sent since a
\* reconnect), and every ack on its way says what it has.
NothingUnacked ==
    sent_datagram_packet = None =>
        /\ rb_last = seqnum_last_sent \/ renewed
        /\ \A i \in DOMAIN to_host : to_host[i].acknum = rb_last

UnackedIsLast ==
    sent_datagram_packet # None => sent_datagram_packet.seqnum = seqnum_last_sent

\* A new protocol state has sent no chunk, and no packet of the old one is under way.
NothingSentAnew ==
    renewed => /\ sent_datagram_packet = None
               /\ \A i \in DOMAIN to_robot : ~Carries(to_robot[i])

CommandInv ==
    /\ CommandsInOrder /\ CommandAcksInOrder
    /\ NothingUnacked /\ UnackedIsLast /\ NothingSentAnew

\* What neither side does anything but send a packet for, and what the links do by themselves.
LEMMA CommandOnlyLinks ==
    ASSUME CommandInv,
           UNCHANGED <<seqnum_last_sent, sent_datagram_packet, rb_last, renewed>>,
           \/ KeepsOrder(to_robot, to_robot') \/ UNCHANGED to_robot
           \/ \E packet : /\ Carries(packet) => packet.dgram = sent_datagram_packet
                          /\ AddsLast(to_robot, to_robot', packet),
           KeepsOrder(to_host, to_host') \/ UNCHANGED to_host
    PROVE  CommandInv'
<1>1. /\ CommandsInOrder /\ CommandAcksInOrder
      /\ NothingUnacked /\ UnackedIsLast /\ NothingSentAnew
  BY DEF CommandInv
<1>2. CommandsInOrder' /\ NothingSentAnew'
  <2>1. CASE UNCHANGED to_robot
    BY <1>1, <2>1 DEF CommandsInOrder, NothingSentAnew
  <2>2. CASE KeepsOrder(to_robot, to_robot')
    <3>1. CommandsInOrder'
      BY <1>1, <2>2 DEF CommandsInOrder, KeepsOrder
    <3> QED BY <1>1, <2>2, <3>1 DEF NothingSentAnew, KeepsOrder
  <2>3. CASE \E packet : /\ Carries(packet) => packet.dgram = sent_datagram_packet
                         /\ AddsLast(to_robot, to_robot', packet)
    <3>1. PICK packet : /\ Carries(packet) => packet.dgram = sent_datagram_packet
                        /\ AddsLast(to_robot, to_robot', packet)
      BY <2>3
    <3>2. Carries(packet) => /\ sent_datagram_packet # None
                             /\ packet.dgram = sent_datagram_packet
                             /\ packet.dgram.seqnum = seqnum_last_sent
      BY <1>1, <3>1 DEF Carries, UnackedIsLast
    <3>3. CommandsInOrder'
      BY <1>1, <3>1, <3>2 DEF CommandsInOrder, AddsLast
    <3> QED BY <1>1, <3>1, <3>2, <3>3 DEF NothingSentAnew, AddsLast
  <2> QED BY <2>1, <2>2, <2>3
<1>3. CommandAcksInOrder' /\ NothingUnacked'
  <2>1. CASE UNCHANGED to_host
    BY <1>1, <2>1 DEF CommandAcksInOrder, NothingUnacked
  <2>2. CASE KeepsOrder(to_host, to_host')
    <3>1. CommandAcksInOrder'
      BY <1>1, <2>2 DEF CommandAcksInOrder, KeepsOrder
    <3> QED BY <1>1, <2>2, <3>1 DEF NothingUnacked, KeepsOrder
  <2> QED BY <2>1, <2>2
<1>4. UnackedIsLast'
  BY <1>1 DEF UnackedIsLast
<1> QED BY <1>2, <1>3, <1>4 DEF CommandInv

LEMMA CommandInit == Init => CommandInv
  BY DEF Init, CommandInv, CommandsInOrder, CommandAcksInOrder, NothingUnacked, UnackedIsLast,
         NothingSentAnew

\* The bit is turned when the robot has the last chunk, so that nothing under the new bit is on
\* its way yet; after a reconnect the robot may have that bit already, and drops the chunk.
LEMMA CommandSend == ASSUME IInv, CommandInv, SendNewChunk PROVE CommandInv'
<1> DEFINE packet == [acknum |-> seqnum_last_received, dgram |-> sent_datagram_packet']
<1>1. /\ sent_datagram_packet = None /\ NextChunks # <<>>
      /\ seqnum_last_sent' = 1 - seqnum_last_sent
      /\ sent_datagram_packet' = [seqnum |-> seqnum_last_sent', chunk |-> Head(NextChunks)]
      /\ to_robot' = Transmit(to_robot, packet)
      /\ renewed' = FALSE
      /\ UNCHANGED <<to_host, rb_last>>
  BY DEF SendNewChunk, robotVars
<1>2. /\ CommandsInOrder /\ CommandAcksInOrder
      /\ NothingUnacked /\ UnackedIsLast /\ NothingSentAnew
  BY DEF CommandInv
<1>3. /\ seqnum_last_sent \in Bit /\ rb_last \in Bit
      /\ to_robot \in Seq(Packet(CmdChunk)) /\ to_host \in Seq(Packet(RespChunk))
  BY TypeParts DEF IInv, CommandsTyped, RobotTyped, CommandLinkTyped, ResponseLinkTyped
<1>4. seqnum_last_sent' \in Bit /\ seqnum_last_sent' # seqnum_last_sent
  BY <1>1, <1>3 DEF Bit
<1>5. \A i \in DOMAIN to_robot : Carries(to_robot[i]) => to_robot[i].dgram.seqnum \in Bit
  <2> SUFFICES ASSUME NEW i \in DOMAIN to_robot, Carries(to_robot[i])
               PROVE  to_robot[i].dgram.seqnum \in Bit
    OBVIOUS
  <2>1. to_robot[i] \in Packet(CmdChunk)
    BY <1>3, LenProperties, ElementOfSeq
  <2>2. to_robot[i].dgram \in Payload(CmdChunk)
    BY <2>1 DEF Carries, Packet
  <2> QED BY <2>2 DEF Payload
<1>6. \A i \in DOMAIN to_robot : Carries(to_robot[i]) =>
         rb_last = seqnum_last_sent /\ to_robot[i].dgram.seqnum = seqnum_last_sent
  BY <1>1, <1>2 DEF NothingUnacked, NothingSentAnew, CommandsInOrder
<1>7. /\ AddsLast(to_robot, to_robot', packet)
      /\ packet.dgram = sent_datagram_packet' /\ packet.dgram.seqnum = seqnum_last_sent'
      /\ sent_datagram_packet'.seqnum = seqnum_last_sent'
  <2> DEFINE S == Packet(CmdChunk) \cup {packet}
  <2>1. to_robot \in Seq(S) /\ packet \in S
    BY <1>3, SeqMonotonic
  <2> HIDE DEF S
  <2>2. packet.dgram = sent_datagram_packet'
    OBVIOUS
  <2>3. sent_datagram_packet'.seqnum = seqnum_last_sent'
    BY <1>1
  <2> HIDE DEF packet
  <2> QED BY <1>1, <2>1, <2>2, <2>3, TransmitInOrder
<1>8. sent_datagram_packet' # None
  <2>1. NextChunks \in Seq(CmdChunk)
    BY NextChunksTyped, TypeParts DEF IInv
  <2>2. sent_datagram_packet' \in Payload(CmdChunk)
    BY <1>1, <1>4, <2>1, HeadTailProperties DEF Payload
  <2> QED BY <2>2, NoneAssumption
<1> HIDE DEF packet
<1>9. CommandsInOrder'
  <2>1. \A i \in DOMAIN to_robot' : Carries(to_robot'[i]) =>
          \/ to_robot'[i] = packet
          \/ /\ to_robot'[i].dgram.seqnum = seqnum_last_sent
             /\ rb_last = seqnum_last_sent
    BY <1>6, <1>7 DEF AddsLast
  <2>2. \A i \in DOMAIN to_robot' : Carries(to_robot'[i]) =>
         IF rb_last' = seqnum_last_sent'
         THEN to_robot'[i].dgram.seqnum = seqnum_last_sent'
         ELSE to_robot'[i].dgram.seqnum = seqnum_last_sent' =>
                  to_robot'[i].dgram = sent_datagram_packet'
    BY <1>1, <1>4, <1>7, <2>1
  <2>3. \A i, j \in DOMAIN to_robot' :
         /\ i <= j /\ Carries(to_robot'[i]) /\ Carries(to_robot'[j])
         /\ to_robot'[i].dgram.seqnum = seqnum_last_sent'
         => to_robot'[j].dgram.seqnum = seqnum_last_sent'
    <3> SUFFICES ASSUME NEW i \in DOMAIN to_robot', NEW j \in DOMAIN to_robot', i <= j,
                        Carries(to_robot'[i]), to_robot'[j] # packet
                 PROVE  to_robot'[i].dgram.seqnum # seqnum_last_sent'
      BY <1>7
    <3>1. \E k \in DOMAIN to_robot : to_robot'[i] = to_robot[k]
      BY <1>7 DEF AddsLast
    <3> QED BY <1>4, <1>6, <3>1
  <2> QED BY <2>2, <2>3 DEF CommandsInOrder
<1>10. CommandAcksInOrder'
  <2>1. \A i \in DOMAIN to_host' : to_host'[i].acknum = rb_last
    BY <1>1, <1>2 DEF NothingUnacked
  <2> QED BY <1>1, <2>1 DEF CommandAcksInOrder
<1>11. NothingUnacked' /\ UnackedIsLast' /\ NothingSentAnew'
  BY <1>1, <1>7, <1>8 DEF NothingUnacked, UnackedIsLast, NothingSentAnew
<1> QED BY <1>9, <1>10, <1>11 DEF CommandInv

LEMMA CommandAcked == ASSUME IInv, CommandInv, packet_received PROVE CommandInv'
<1> DEFINE packet == Head(to_host)
<1>1. /\ to_host # <<>> /\ to_host' = Tail(to_host)
      /\ sent_datagram_packet' = IF Acks(packet) THEN None ELSE sent_datagram_packet
      /\ UNCHANGED <<to_robot, seqnum_last_sent, rb_last, renewed>>
  BY DEF packet_received, HandleAck, txVars, robotVars, history
<1>2. to_host \in Seq(Packet(RespChunk))
  BY TypeParts DEF IInv, ResponseLinkTyped
<1>3. /\ KeepsOrder(to_host, to_host') /\ 1 \in DOMAIN to_host /\ to_host[1] = packet
      /\ \A i \in DOMAIN to_host' :
           i + 1 \in DOMAIN to_host /\ 1 <= i + 1 /\ to_host'[i] = to_host[i + 1]
  BY <1>1, <1>2, TailInOrder
<1> HIDE DEF packet
<1>4. CASE ~Acks(packet)
  BY <1>1, <1>3, <1>4, CommandOnlyLinks
<1>5. CASE Acks(packet)
  <2>1. /\ CommandsInOrder /\ CommandAcksInOrder
        /\ NothingUnacked /\ UnackedIsLast /\ NothingSentAnew
    BY DEF CommandInv
  <2>2. packet.acknum = seqnum_last_sent /\ sent_datagram_packet' = None
    BY <1>1, <1>5, <2>1 DEF Acks, UnackedIsLast
  <2>3. rb_last = seqnum_last_sent
    BY <1>3, <2>1, <2>2 DEF CommandAcksInOrder
  <2>4. \A i \in DOMAIN to_host' : to_host'[i].acknum = seqnum_last_sent
    BY <1>3, <2>1, <2>2 DEF CommandAcksInOrder
  <2>5. CommandsInOrder'
    BY <1>1, <2>1, <2>3 DEF CommandsInOrder
  <2>6. CommandAcksInOrder' /\ NothingUnacked'
    BY <1>1, <2>3, <2>4 DEF CommandAcksInOrder, NothingUnacked
  <2>7. UnackedIsLast' /\ NothingSentAnew'
    BY <1>1, <2>1, <2>2 DEF UnackedIsLast, NothingSentAnew
  <2> QED BY <2>5, <2>6, <2>7 DEF CommandInv
<1> QED BY <1>4, <1>5

\* What the robot takes is the unacked chunk, under the bit sent last.
LEMMA RobotTakes ==
    ASSUME IInv, CommandInv, to_robot # <<>>,
           Head(to_robot).dgram # None, Head(to_robot).dgram.seqnum # rb_last
    PROVE  /\ Head(to_robot).dgram = sent_datagram_packet /\ sent_datagram_packet # None
           /\ sent_datagram_packet.seqnum = seqnum_last_sent /\ rb_last # seqnum_last_sent
<1> DEFINE packet == Head(to_robot)
<1>1. /\ seqnum_last_sent \in Bit /\ rb_last \in Bit /\ to_robot \in Seq(Packet(CmdChunk))
  BY TypeParts DEF IInv, CommandsTyped, RobotTyped, CommandLinkTyped
<1>2. packet \in Packet(CmdChunk) /\ 1 \in DOMAIN to_robot /\ to_robot[1] = packet
  BY <1>1, TailInOrder
<1> HIDE DEF packet
<1>3. packet.dgram \in Payload(CmdChunk) /\ packet.dgram # None /\ packet.dgram.seqnum # rb_last
  BY <1>2 DEF packet, Packet
<1>4. packet.dgram.seqnum \in Bit
  BY <1>3 DEF Payload
<1>5. Carries(packet)
  BY <1>3 DEF Carries
<1>6. CommandsInOrder
  BY DEF CommandInv
<1>7. rb_last # seqnum_last_sent
  BY <1>2, <1>3, <1>5, <1>6 DEF CommandsInOrder
<1>8. packet.dgram.seqnum = seqnum_last_sent
  BY <1>1, <1>3, <1>4, <1>7 DEF Bit
<1>9. packet.dgram = sent_datagram_packet
  BY <1>2, <1>5, <1>6, <1>7, <1>8 DEF CommandsInOrder
<1> QED BY <1>3, <1>7, <1>8, <1>9 DEF packet

LEMMA CommandTaken == ASSUME IInv, CommandInv, RobotReceive PROVE CommandInv'
<1> DEFINE packet == Head(to_robot)
           new == packet.dgram # None /\ packet.dgram.seqnum # rb_last
<1>1. /\ to_robot # <<>> /\ to_robot' = Tail(to_robot)
      /\ rb_last' = IF new THEN packet.dgram.seqnum ELSE rb_last
      /\ UNCHANGED <<seqnum_last_sent, sent_datagram_packet, renewed>>
  BY DEF RobotReceive, RobotTake, txVars
<1>2. PICK d : to_host' = Transmit(to_host, [acknum |-> rb_last', dgram |-> d])
  BY DEF RobotReceive, RobotAnswer
<1>3. /\ to_robot \in Seq(Packet(CmdChunk)) /\ to_host \in Seq(Packet(RespChunk))
  BY TypeParts DEF IInv, CommandLinkTyped, ResponseLinkTyped
<1>4. /\ KeepsOrder(to_robot, to_robot') /\ 1 \in DOMAIN to_robot /\ to_robot[1] = packet
      /\ \A i \in DOMAIN to_robot' :
           i + 1 \in DOMAIN to_robot /\ 1 <= i + 1 /\ to_robot'[i] = to_robot[i + 1]
  BY <1>1, <1>3, TailInOrder
<1>5. PICK answer : answer.acknum = rb_last' /\ AddsLast(to_host, to_host', answer)
  <2> DEFINE answer == [acknum |-> rb_last', dgram |-> d]
             S == Packet(RespChunk) \cup {answer}
  <2>1. to_host \in Seq(S) /\ answer \in S
    BY <1>3, SeqMonotonic
  <2>2. answer.acknum = rb_last' /\ to_host' = Transmit(to_host, answer)
    BY <1>2
  <2> HIDE DEF S, answer
  <2> QED BY <2>1, <2>2, TransmitInOrder
<1>6. /\ CommandsInOrder /\ CommandAcksInOrder
      /\ NothingUnacked /\ UnackedIsLast /\ NothingSentAnew
  BY DEF CommandInv
<1>7. new => /\ packet.dgram = sent_datagram_packet /\ sent_datagram_packet # None
             /\ packet.dgram.seqnum = seqnum_last_sent /\ rb_last # seqnum_last_sent
  BY <1>1, RobotTakes
<1> HIDE DEF packet
<1>8. rb_last = seqnum_last_sent => rb_last' = rb_last
  BY <1>1, <1>7
<1>9. rb_last' = rb_last \/ (rb_last' = seqnum_last_sent /\ sent_datagram_packet # None)
  BY <1>1, <1>7
<1>10. CommandsInOrder'
  <2>1. CASE ~new
    BY <1>1, <1>4, <1>6, <2>1 DEF CommandsInOrder, KeepsOrder
  <2>2. CASE new
    <3>1. /\ Carries(packet) /\ packet.dgram.seqnum = seqnum_last_sent
          /\ rb_last' = seqnum_last_sent'
      BY <1>1, <1>7, <2>2 DEF Carries
    <3>2. \A i \in DOMAIN to_robot' :
            Carries(to_robot'[i]) => to_robot'[i].dgram.seqnum = seqnum_last_sent'
      BY <1>1, <1>4, <1>6, <3>1 DEF CommandsInOrder
    <3> QED BY <3>1, <3>2 DEF CommandsInOrder
  <2> QED BY <2>1, <2>2
<1>11. CommandAcksInOrder'
  BY <1>1, <1>5, <1>6, <1>8, <1>9 DEF CommandAcksInOrder, AddsLast
<1>12. NothingUnacked'
  BY <1>1, <1>5, <1>6, <1>8, <1>9 DEF NothingUnacked, AddsLast
<1>13. UnackedIsLast' /\ NothingSentAnew'
  BY <1>1, <1>4, <1>6 DEF UnackedIsLast, NothingSentAnew, KeepsOrder
<1> QED BY <1>10, <1>11, <1>12, <1>13 DEF CommandInv

LEMMA CommandInvKept == ASSUME IInv, CommandInv, [Next]_vars PROVE CommandInv'
<1>1. ASSUME QueueDatagram \/ LoseCommand \/ LoseResponse \/ Duplicate \/ UNCHANGED vars
      PROVE  CommandInv'
  <2>1. to_robot \in Seq(Packet(CmdChunk)) /\ to_host \in Seq(Packet(RespChunk))
    BY TypeParts DEF IInv, CommandLinkTyped, ResponseLinkTyped
  <2>2. /\ UNCHANGED <<seqnum_last_sent, sent_datagram_packet, rb_last, renewed>>
        /\ \/ to_robot # <<>> /\ to_robot' = Tail(to_robot)
           \/ to_robot # <<>> /\ to_robot' = <<Head(to_robot)>> \o to_robot
           \/ UNCHANGED to_robot
        /\ \/ to_host # <<>> /\ to_host' = Tail(to_host)
           \/ to_host # <<>> /\ to_host' = <<Head(to_host)>> \o to_host
           \/ UNCHANGED to_host
    BY <1>1 DEF QueueDatagram, LoseCommand, LoseResponse, Duplicate, vars, txVars, robotVars,
                history
  <2>3. KeepsOrder(to_robot, to_robot') \/ UNCHANGED to_robot
    BY <2>1, <2>2, TailInOrder, RepeatInOrder
  <2>4. KeepsOrder(to_host, to_host') \/ UNCHANGED to_host
    BY <2>1, <2>2, TailInOrder, RepeatInOrder
  <2> QED BY <2>2, <2>3, <2>4, CommandOnlyLinks
<1>2. ASSUME Resend \/ SendRegular PROVE CommandInv'
  <2>1. PICK d \in {sent_datagram_packet, None} :
          to_robot' = Transmit(to_robot, [acknum |-> seqnum_last_received, dgram |-> d])
    BY <1>2 DEF Resend, SendRegular
  <2>2. UNCHANGED <<seqnum_last_sent, sent_datagram_packet, rb_last, renewed, to_host>>
    BY <1>2 DEF Resend, SendRegular, robotVars, history
  <2>3. \E packet : /\ Carries(packet) => packet.dgram = sent_datagram_packet
                    /\ AddsLast(to_robot, to_robot', packet)
    <3> DEFINE packet == [acknum |-> seqnum_last_received, dgram |-> d]
               S == Packet(CmdChunk) \cup {packet}
    <3>1. to_robot \in Seq(Packet(CmdChunk))
      BY TypeParts DEF IInv, CommandLinkTyped
    <3>2. to_robot \in Seq(S) /\ packet \in S
      BY <3>1, SeqMonotonic
    <3>3. (Carries(packet) => packet.dgram = sent_datagram_packet)
          /\ to_robot' = Transmit(to_robot, packet)
      BY <2>1 DEF Carries
    <3> HIDE DEF packet, S
    <3> QED BY <3>2, <3>3, TransmitInOrder
  <2> QED BY <2>2, <2>3, CommandOnlyLinks
<1>3. ASSUME Reconnect PROVE CommandInv'
  BY <1>3 DEF Reconnect, CommandInv, CommandsInOrder, CommandAcksInOrder, NothingUnacked,
              UnackedIsLast, NothingSentAnew
<1> QED BY <1>1, <1>2, <1>3, CommandSend, CommandAcked, CommandTaken DEF Next, next_packet

CommandIInv == IInv /\ CommandInv

LEMMA CommandIInvHolds == Spec => []CommandIInv
<1>1. Init => CommandIInv
  BY InitIInv, CommandInit DEF CommandIInv
<1>2. CommandIInv /\ [Next]_vars => CommandIInv'
  BY NextKeeps, CommandInvKept DEF CommandIInv
<1> QED BY <1>1, <1>2, PTL DEF Spec

-----------------------------------------------------------------------------
(* Commands: the refinement of ChunkStream                                 *)

LEMMA FirstAndRest ==
    ASSUME NEW S, NEW x \in S, NEW s \in Seq(S)
    PROVE  /\ <<x>> \o s \in Seq(S) /\ <<x>> \o s # <<>>
           /\ Head(<<x>> \o s) = x /\ Tail(<<x>> \o s) = s
<1> DEFINE t == <<x>> \o s
<1>1. <<x>> \in Seq(S) /\ Len(<<x>>) = 1 /\ <<x>>[1] = x
  OBVIOUS
<1>2. PICK n \in Nat : n = Len(s)
  BY LenProperties
<1>3. /\ t \in Seq(S) /\ Len(t) = 1 + n /\ t[1] = x
      /\ \A i \in 2..(1 + n) : t[i] = s[i - 1]
  BY <1>1, <1>2, ConcatProperties
<1> HIDE DEF t
<1>4. t # <<>>
  <2> SUFFICES ASSUME t = <<>> PROVE FALSE
    OBVIOUS
  <2> QED BY <1>2, <1>3
<1>5. Tail(t) = s
  <2>1. /\ Tail(t) \in Seq(S) /\ Len(Tail(t)) = n
        /\ \A i \in 1..n : Tail(t)[i] = t[i + 1]
    BY <1>2, <1>3, <1>4, HeadTailProperties
  <2>2. \A i \in 1..n : i + 1 \in 2..(1 + n) /\ (i + 1) - 1 = i
    BY <1>2
  <2>3. \A i \in 1..n : Tail(t)[i] = s[i]
    BY <1>3, <2>1, <2>2
  <2> QED BY <1>2, <2>1, <2>3, SeqEqual
<1> QED BY <1>3, <1>4, <1>5 DEF t

LEMMA HeadAndTail ==
    ASSUME NEW S, NEW s \in Seq(S), s # <<>>
    PROVE  s = <<Head(s)>> \o Tail(s)
<1>1. /\ Head(s) \in S /\ Tail(s) \in Seq(S) /\ Len(Tail(s)) = Len(s) - 1
      /\ \A i \in 1..Len(Tail(s)) : Tail(s)[i] = s[i + 1]
  BY HeadTailProperties
<1>2. PICK n \in Nat : n = Len(s) /\ n > 0
  BY EmptySeq, LenProperties
<1>3. <<Head(s)>> \in Seq(S) /\ Len(<<Head(s)>>) = 1 /\ <<Head(s)>>[1] = Head(s)
  BY <1>1
<1> DEFINE t == <<Head(s)>> \o Tail(s)
<1>4. /\ t \in Seq(S) /\ Len(t) = n /\ t[1] = Head(s)
      /\ \A i \in 2..n : t[i] = Tail(s)[i - 1]
  BY <1>1, <1>2, <1>3, ConcatProperties
<1> HIDE DEF t
<1>5. Head(s) = s[1]
  OBVIOUS
<1>6. \A i \in 2..n : i - 1 \in 1..Len(Tail(s)) /\ (i - 1) + 1 = i
  BY <1>1, <1>2
<1>7. \A i \in 2..n : t[i] = s[i]
  BY <1>1, <1>4, <1>6
<1>8. \A i \in 1..n : i = 1 \/ i \in 2..n
  BY <1>2
<1>9. \A i \in 1..n : t[i] = s[i]
  BY <1>4, <1>5, <1>7, <1>8
<1> QED BY <1>2, <1>4, <1>9, SeqEqual DEF t

\* A datagram takes at least one chunk, so none is forgotten.
LEMMA ChunksNotEmpty ==
    ASSUME NEW d \in CmdDatagram
    PROVE  Chunks(d, CmdSize[d.type]) # <<>>
<1> DEFINE size == CmdSize[d.type]
           n == NumChunks(size)
<1>1. size \in Nat /\ ChunkSize \in Nat \ {0}
  BY SizeAssumption DEF CmdDatagram
<1> HIDE DEF size
<1>2. n \in Nat /\ n >= 1
  <2>1. CASE size = 0
    BY <2>1 DEF NumChunks
  <2>2. CASE size # 0
    <3>1. PICK k \in Nat : k = size + ChunkSize - 1 /\ k >= ChunkSize
      BY <1>1, <2>2
    <3>2. k \div ChunkSize \in Nat /\ k \div ChunkSize >= 1
      BY <1>1, <3>1
    <3> QED BY <2>2, <3>1, <3>2 DEF NumChunks
  <2> QED BY <2>1, <2>2
<1> HIDE DEF n
<1>3. DOMAIN Chunks(d, size) = 1..n
  BY DEF Chunks, n
<1>4. Chunks(d, size) \in Seq(CmdChunk)
  BY ChunksTyped DEF size
<1>5. Len(Chunks(d, size)) = n
  BY <1>2, <1>3, <1>4, LenProperties
<1> SUFFICES ASSUME Chunks(d, size) = <<>> PROVE FALSE
  BY DEF size
<1> QED BY <1>2, <1>5

LEMMA WaitingTyped ==
    ASSUME NEW queue \in Seq(CmdDatagram)
    PROVE  /\ Waiting(queue) \in Seq(Seq(CmdChunk)) /\ Len(Waiting(queue)) = Len(queue)
           /\ \A i \in 1..Len(queue) :
                Waiting(queue)[i] = Chunks(queue[i], CmdSize[queue[i].type])
<1>1. PICK n \in Nat : n = Len(queue) /\ DOMAIN queue = 1..n
  BY LenProperties
<1>2. \A i \in 1..n : Chunks(queue[i], CmdSize[queue[i].type]) \in Seq(CmdChunk)
  BY <1>1, ElementOfSeq, ChunksTyped
<1>3. Waiting(queue) = [i \in 1..n |-> Chunks(queue[i], CmdSize[queue[i].type])]
  BY <1>1 DEF Waiting
<1>4. Waiting(queue) \in Seq(Seq(CmdChunk))
  BY <1>2, <1>3, IsASeq
<1>5. Len(Waiting(queue)) = n
  BY <1>1, <1>3, <1>4, LenProperties
<1> QED BY <1>1, <1>3, <1>4, <1>5

LEMMA WaitingAppend ==
    ASSUME NEW queue \in Seq(CmdDatagram), NEW d \in CmdDatagram
    PROVE  Waiting(Append(queue, d)) = Append(Waiting(queue), Chunks(d, CmdSize[d.type]))
<1> DEFINE new == Append(queue, d)
           chunks(e) == Chunks(e, CmdSize[e.type])
           w == Waiting(queue)
           wnew == Waiting(new)
           t == Append(w, chunks(d))
<1>1. PICK n \in Nat : n = Len(queue)
  BY LenProperties
<1>2. /\ new \in Seq(CmdDatagram) /\ Len(new) = n + 1 /\ new[n + 1] = d
      /\ \A i \in 1..n : new[i] = queue[i]
  BY <1>1, AppendProperties
<1> HIDE DEF new
<1>3. chunks(d) \in Seq(CmdChunk)
  BY ChunksTyped
<1>4. w \in Seq(Seq(CmdChunk)) /\ Len(w) = n /\ \A i \in 1..n : w[i] = chunks(queue[i])
  BY <1>1, WaitingTyped
<1>5. /\ wnew \in Seq(Seq(CmdChunk)) /\ Len(wnew) = n + 1
      /\ \A i \in 1..(n + 1) : wnew[i] = chunks(new[i])
  BY <1>2, WaitingTyped
<1> HIDE DEF w, wnew, chunks
<1>6. /\ t \in Seq(Seq(CmdChunk)) /\ Len(t) = n + 1 /\ t[n + 1] = chunks(d)
      /\ \A i \in 1..n : t[i] = w[i]
  <2> DEFINE S == Seq(CmdChunk)
             c == chunks(d)
  <2>1. w \in Seq(S) /\ c \in S
    BY <1>3, <1>4
  <2> HIDE DEF S, c
  <2>2. /\ Append(w, c) \in Seq(S) /\ Len(Append(w, c)) = n + 1 /\ Append(w, c)[n + 1] = c
        /\ \A i \in 1..n : Append(w, c)[i] = w[i]
    BY <1>4, <2>1, AppendProperties
  <2> QED BY <2>2 DEF S, c
<1> HIDE DEF t
<1>7. \A i \in 1..(n + 1) : i = n + 1 \/ i \in 1..n
  OBVIOUS
<1>8. \A i \in 1..(n + 1) : wnew[i] = t[i]
  BY <1>2, <1>4, <1>5, <1>6, <1>7
<1>9. wnew = t
  BY <1>5, <1>6, <1>8, SeqEqual
<1> QED BY <1>9 DEF wnew, t, new, w, chunks

LEMMA WaitingSplit ==
    ASSUME NEW queue \in Seq(CmdDatagram), queue # <<>>
    PROVE  Waiting(queue) = <<Chunks(Head(queue), CmdSize[Head(queue).type])>>
                                \o Waiting(Tail(queue))
<1> DEFINE chunks(e) == Chunks(e, CmdSize[e.type])
           w == Waiting(queue)
           wtail == Waiting(Tail(queue))
<1>1. PICK n \in Nat : n = Len(queue) /\ n > 0
  BY EmptySeq, LenProperties
<1>2. /\ Tail(queue) \in Seq(CmdDatagram) /\ Len(Tail(queue)) = n - 1
      /\ \A i \in 1..(n - 1) : Tail(queue)[i] = queue[i + 1]
  BY <1>1, HeadTailProperties
<1>3. Head(queue) = queue[1]
  OBVIOUS
<1>4. w \in Seq(Seq(CmdChunk)) /\ Len(w) = n /\ \A i \in 1..n : w[i] = chunks(queue[i])
  BY <1>1, WaitingTyped
<1>5. /\ wtail \in Seq(Seq(CmdChunk)) /\ Len(wtail) = n - 1
      /\ \A i \in 1..(n - 1) : wtail[i] = chunks(Tail(queue)[i])
  BY <1>2, WaitingTyped
<1> HIDE DEF w, wtail, chunks
<1>6. w # <<>>
  <2> SUFFICES ASSUME w = <<>> PROVE FALSE
    OBVIOUS
  <2> QED BY <1>1, <1>4
<1>7. Head(w) = chunks(Head(queue))
  <2>1. Head(w) = w[1] /\ 1 \in 1..n
    BY <1>1
  <2> QED BY <1>3, <1>4, <2>1
<1>8. Tail(w) = wtail
  <2>1. /\ Tail(w) \in Seq(Seq(CmdChunk)) /\ Len(Tail(w)) = n - 1
        /\ \A i \in 1..(n - 1) : Tail(w)[i] = w[i + 1]
    BY <1>4, <1>6, HeadTailProperties
  <2>2. \A i \in 1..(n - 1) : i + 1 \in 1..n
    BY <1>1
  <2>3. \A i \in 1..(n - 1) : Tail(w)[i] = wtail[i]
    BY <1>2, <1>4, <1>5, <2>1, <2>2
  <2> QED BY <1>5, <2>1, <2>3, SeqEqual
<1>9. w = <<Head(w)>> \o Tail(w)
  BY <1>4, <1>6, HeadAndTail
<1> QED BY <1>7, <1>8, <1>9 DEF w, wtail, chunks

\* What is pending without its oldest chunk.
LEMMA StreamRest ==
    ASSUME NEW chunk \in CmdChunk, NEW left \in Seq(CmdChunk), NEW others \in Seq(Seq(CmdChunk)),
           Undelivered = <<<<chunk>> \o left>> \o others
    PROVE  /\ Undelivered # <<>> /\ Head(Head(Undelivered)) = chunk
           /\ Stream!Rest = (IF left = <<>> THEN <<>> ELSE <<left>>) \o others
<1>1. /\ <<chunk>> \o left \in Seq(CmdChunk)
      /\ Head(<<chunk>> \o left) = chunk /\ Tail(<<chunk>> \o left) = left
  BY FirstAndRest
<1> DEFINE datagram == <<chunk>> \o left
<1> HIDE DEF datagram
<1>2. /\ datagram \in Seq(CmdChunk) /\ Head(datagram) = chunk /\ Tail(datagram) = left
      /\ Undelivered = <<datagram>> \o others
  BY <1>1 DEF datagram
<1>3. /\ Undelivered # <<>> /\ Head(Undelivered) = datagram /\ Tail(Undelivered) = others
  <2> DEFINE S == Seq(CmdChunk)
  <2>1. datagram \in S /\ others \in Seq(S)
    BY <1>2
  <2> HIDE DEF S
  <2>2. /\ <<datagram>> \o others # <<>>
        /\ Head(<<datagram>> \o others) = datagram /\ Tail(<<datagram>> \o others) = others
    BY <2>1, FirstAndRest
  <2> QED BY <1>2, <2>2
<1> QED BY <1>2, <1>3 DEF Stream!Rest, Stream!Left

LEMMA NothingPending == <<>> \o <<>> = <<>> /\ Waiting(<<>>) = <<>>
<1>1. <<>> \in Seq(CmdChunk) /\ <<>> \in Seq(Seq(CmdChunk)) /\ <<>> \in Seq(CmdDatagram)
  BY EmptySeq
<1>2. <<>> \o <<>> = <<>>
  BY <1>1, ConcatEmptySeq
<1>3. Waiting(<<>>) = <<>>
  <2>1. Waiting(<<>>) \in Seq(Seq(CmdChunk)) /\ Len(Waiting(<<>>)) = 0
    BY <1>1, WaitingTyped, EmptySeq
  <2> QED BY <2>1, EmptySeq
<1> QED BY <1>2, <1>3

LEMMA StreamInit == Init => Stream!Init
<1> SUFFICES ASSUME Init PROVE Stream!Init
  OBVIOUS
<1>1. /\ datagram_queue = <<>> /\ datagram_chunk_queue = <<>> /\ sent_datagram_packet = None
      /\ accepted = <<>> /\ renewed = FALSE
  BY DEF Init
<1>2. Undelivered = <<>>
  BY <1>1, NothingPending DEF Undelivered, Started
<1> QED BY <1>1, <1>2 DEF Stream!Init

\* What is pending keeps its type, so that the laws of sequences apply.
LEMMA StartedTyped ==
    ASSUME CommandsTyped
    PROVE  /\ Started \in Seq(CmdChunk)
           /\ (IF Started = <<>> THEN <<>> ELSE <<Started>>) \in Seq(Seq(CmdChunk))
           /\ Waiting(datagram_queue) \in Seq(Seq(CmdChunk))
<1>1. /\ datagram_queue \in Seq(CmdDatagram) /\ datagram_chunk_queue \in Seq(CmdChunk)
      /\ sent_datagram_packet # None => sent_datagram_packet.chunk \in CmdChunk
  BY DEF CommandsTyped, Payload
<1>2. Started \in Seq(CmdChunk)
  <2>1. CASE sent_datagram_packet # None /\ sent_datagram_packet.seqnum # rb_last
    BY <1>1, <2>1, FirstAndRest DEF Started
  <2>2. CASE ~(sent_datagram_packet # None /\ sent_datagram_packet.seqnum # rb_last)
    BY <1>1, <2>2, ConcatEmptySeq DEF Started
  <2> QED BY <2>1, <2>2
<1>3. (IF Started = <<>> THEN <<>> ELSE <<Started>>) \in Seq(Seq(CmdChunk))
  BY <1>2
<1> QED BY <1>1, <1>2, <1>3, WaitingTyped

LEMMA QueueSubmits == ASSUME IInv, QueueDatagram PROVE Stream!Submit
<1>1. PICK t \in CmdType :
        datagram_queue' = Append(datagram_queue, [id |-> queued + 1, type |-> t])
  BY DEF QueueDatagram
<1> DEFINE d == [id |-> queued + 1, type |-> t]
           chunks == Chunks(d, CmdSize[d.type])
           old == IF Started = <<>> THEN <<>> ELSE <<Started>>
           waiting == Waiting(datagram_queue)
<1>2. CommandsTyped /\ queued < MaxCmds
  BY TypeParts DEF IInv, QueueDatagram
<1>3. d \in CmdDatagram /\ datagram_queue \in Seq(CmdDatagram)
  <2>1. queued \in 0..MaxCmds /\ MaxCmds \in Nat
    BY <1>2, BoundAssumption DEF CommandsTyped
  <2>2. queued + 1 \in 1..MaxCmds
    BY <1>2, <2>1
  <2> QED BY <1>2, <2>2 DEF CmdDatagram, CommandsTyped
<1>4. /\ UNCHANGED <<datagram_chunk_queue, sent_datagram_packet, rb_last, accepted, renewed>>
      /\ datagram_queue' = Append(datagram_queue, d)
  BY <1>1 DEF QueueDatagram, robotVars, history
<1> HIDE DEF d
<1>5. chunks \in Seq(CmdChunk) /\ chunks # <<>>
  BY <1>3, ChunksTyped, ChunksNotEmpty
<1>6. Waiting(datagram_queue') = Append(waiting, chunks)
  BY <1>3, <1>4, WaitingAppend
<1>7. Started' = Started
  BY <1>4 DEF Started
<1>8. old \in Seq(Seq(CmdChunk)) /\ waiting \in Seq(Seq(CmdChunk))
  BY <1>2, StartedTyped
<1>9. Undelivered = old \o waiting /\ Undelivered' = old \o Append(waiting, chunks)
  BY <1>6, <1>7 DEF Undelivered
<1> DEFINE S == Seq(CmdChunk)
<1>10. old \in Seq(S) /\ waiting \in Seq(S) /\ chunks \in S
  BY <1>5, <1>8
<1> HIDE DEF old, waiting, chunks, S
<1>11. old \o Append(waiting, chunks) = Append(old \o waiting, chunks)
  <2>1. <<chunks>> \in Seq(S) /\ old \o waiting \in Seq(S)
    BY <1>10, ConcatProperties
  <2>2. Append(waiting, chunks) = waiting \o <<chunks>>
    BY <1>10, AppendIsConcat
  <2>3. Append(old \o waiting, chunks) = (old \o waiting) \o <<chunks>>
    BY <1>10, <2>1, AppendIsConcat
  <2> QED BY <1>10, <2>1, <2>2, <2>3, ConcatAssociative
<1>12. Undelivered \in Seq(S) /\ Undelivered' = Append(Undelivered, chunks)
  BY <1>9, <1>10, <1>11, ConcatProperties
<1>13. chunks \in Range(Undelivered')
  <2>1. PICK n \in Nat : n = Len(Undelivered)
    BY <1>12, LenProperties
  <2>2. /\ Undelivered' \in Seq(S) /\ Len(Undelivered') = n + 1
        /\ Undelivered'[n + 1] = chunks
    BY <1>10, <1>12, <2>1, AppendProperties
  <2>3. n + 1 \in 1..(n + 1) /\ DOMAIN Undelivered' = 1..(n + 1)
    BY <2>2, LenProperties
  <2> QED BY <2>2, <2>3 DEF Range
<1> QED BY <1>4, <1>5, <1>12, <1>13 DEF Stream!Submit, Stream!Range, Range, chunks

\* The chunk of a datagram that is being sent is no longer in a queue, but still pending. Only
\* under the bit the robot has from before a reconnect it is lost.
LEMMA SendResumes ==
    ASSUME IInv, CommandInv, SendNewChunk
    PROVE  Stream!Resume \/ UNCHANGED Stream!vars
<1> DEFINE rest == Waiting(datagram_queue')
<1>1. /\ sent_datagram_packet = None /\ NextChunks # <<>>
      /\ datagram_chunk_queue' = Tail(NextChunks)
      /\ datagram_queue' = IF datagram_chunk_queue # <<>> THEN datagram_queue
                                                          ELSE Tail(datagram_queue)
      /\ seqnum_last_sent' = 1 - seqnum_last_sent
      /\ sent_datagram_packet' = [seqnum |-> seqnum_last_sent', chunk |-> Head(NextChunks)]
      /\ renewed' = FALSE
      /\ UNCHANGED <<rb_last, accepted>>
  BY DEF SendNewChunk, robotVars
<1>2. /\ CommandsTyped /\ seqnum_last_sent \in Bit /\ rb_last \in Bit
      /\ datagram_chunk_queue \in Seq(CmdChunk) /\ datagram_queue \in Seq(CmdDatagram)
  BY TypeParts DEF IInv, CommandsTyped, RobotTyped
<1>3. NextChunks \in Seq(CmdChunk) /\ (datagram_chunk_queue = <<>> => datagram_queue # <<>>)
  BY <1>1, <1>2, NextChunksTyped
<1>4. /\ Head(NextChunks) \in CmdChunk /\ Tail(NextChunks) \in Seq(CmdChunk)
      /\ NextChunks = <<Head(NextChunks)>> \o Tail(NextChunks)
  BY <1>1, <1>3, HeadTailProperties, HeadAndTail
<1>5. datagram_queue' \in Seq(CmdDatagram) /\ rest \in Seq(Seq(CmdChunk))
  <2>1. datagram_queue' \in Seq(CmdDatagram)
    BY <1>1, <1>2, <1>3, HeadTailProperties
  <2> QED BY <2>1, WaitingTyped
<1>6. Undelivered = <<NextChunks>> \o rest
  <2>1. Started = datagram_chunk_queue
    BY <1>1, <1>2, ConcatEmptySeq DEF Started
  <2>2. CASE datagram_chunk_queue # <<>>
    <3>1. NextChunks = datagram_chunk_queue
      BY <2>2 DEF NextChunks
    <3> QED BY <1>1, <2>1, <2>2, <3>1 DEF Undelivered
  <2>3. CASE datagram_chunk_queue = <<>>
    <3>1. /\ NextChunks = Chunks(Head(datagram_queue), CmdSize[Head(datagram_queue).type])
          /\ datagram_queue # <<>> /\ datagram_queue' = Tail(datagram_queue)
      BY <1>1, <1>3, <2>3 DEF NextChunks
    <3>2. Waiting(datagram_queue) = <<NextChunks>> \o rest
      BY <1>2, <3>1, WaitingSplit
    <3>3. Waiting(datagram_queue) \in Seq(Seq(CmdChunk))
      BY <1>2, WaitingTyped
    <3> QED BY <2>1, <2>3, <3>2, <3>3, ConcatEmptySeq DEF Undelivered
  <2> QED BY <2>2, <2>3
<1>7. sent_datagram_packet' # None
  <2>1. seqnum_last_sent' \in Bit
    BY <1>1, <1>2 DEF Bit
  <2>2. sent_datagram_packet' \in Payload(CmdChunk)
    BY <1>1, <1>4, <2>1 DEF Payload
  <2> QED BY <2>2, NoneAssumption
<1>8. /\ sent_datagram_packet'.seqnum = 1 - seqnum_last_sent
      /\ sent_datagram_packet'.chunk = Head(NextChunks)
  BY <1>1
<1> DEFINE chunk == Head(NextChunks)
           left == Tail(NextChunks)
<1>9. /\ chunk \in CmdChunk /\ left \in Seq(CmdChunk)
      /\ Undelivered = <<<<chunk>> \o left>> \o rest
  BY <1>4, <1>6
<1>10. CASE 1 - seqnum_last_sent # rb_last
  <2>1. Started' = NextChunks
    BY <1>1, <1>4, <1>7, <1>8, <1>10 DEF Started
  <2>2. Undelivered' = Undelivered
    BY <1>1, <1>6, <2>1 DEF Undelivered
  <2>3. CASE renewed
    <3>1. Undelivered # <<>>
      <4> HIDE DEF chunk, left, rest
      <4> QED BY <1>5, <1>9, StreamRest DEF rest
    <3> QED BY <1>1, <2>2, <2>3, <3>1 DEF Stream!Resume
  <2>4. CASE ~renewed
    <3>1. renewed \in BOOLEAN
      BY TypeParts DEF IInv, HistoryTyped
    <3>2. renewed' = renewed
      BY <1>1, <2>4, <3>1, Zenon
    <3> QED BY <1>1, <2>2, <3>2 DEF Stream!vars
  <2> QED BY <2>3, <2>4
<1>11. CASE 1 - seqnum_last_sent = rb_last
  <2>1. renewed
    <3>1. rb_last # seqnum_last_sent
      BY <1>2, <1>11 DEF Bit
    <3> QED BY <1>1, <3>1 DEF CommandInv, NothingUnacked
  <2>2. Started' = left
    BY <1>1, <1>4, <1>8, <1>11, ConcatEmptySeq DEF Started
  <2>3. Undelivered' = (IF left = <<>> THEN <<>> ELSE <<left>>) \o rest
    BY <2>2 DEF Undelivered
  <2> HIDE DEF chunk, left, rest
  <2>4. Undelivered # <<>> /\ Undelivered' = Stream!Rest
    BY <1>5, <1>9, <2>3, StreamRest DEF rest
  <2> QED BY <1>1, <2>1, <2>4 DEF Stream!Resume
<1> QED BY <1>10, <1>11

\* The robot takes the oldest chunk, or none.
LEMMA TakeDelivers ==
    ASSUME IInv, CommandInv, RobotReceive
    PROVE  Stream!Deliver \/ UNCHANGED Stream!vars
<1> DEFINE packet == Head(to_robot)
           new == packet.dgram # None /\ packet.dgram.seqnum # rb_last
           rest == Waiting(datagram_queue)
           left == datagram_chunk_queue
<1>1. /\ to_robot # <<>>
      /\ new => /\ accepted' = Append(accepted, packet.dgram.chunk)
                /\ rb_last' = packet.dgram.seqnum
      /\ ~new => UNCHANGED <<accepted, rb_last>>
      /\ UNCHANGED <<datagram_queue, datagram_chunk_queue, sent_datagram_packet, renewed>>
  BY DEF RobotReceive, RobotTake, txVars
<1>2. CASE ~new
  <2>1. Undelivered' = Undelivered
    BY <1>1, <1>2 DEF Undelivered, Started
  <2> QED BY <1>1, <1>2, <2>1 DEF Stream!vars
<1>3. CASE new
  <2>1. /\ packet.dgram = sent_datagram_packet /\ sent_datagram_packet # None
        /\ sent_datagram_packet.seqnum # rb_last
    BY <1>1, <1>3, RobotTakes
  <2>2. rb_last' = sent_datagram_packet.seqnum
    BY <1>1, <1>3, <2>1
  <2> DEFINE chunk == sent_datagram_packet.chunk
  <2>3. CommandsTyped
    BY TypeParts DEF IInv
  <2>4. chunk \in CmdChunk /\ left \in Seq(CmdChunk) /\ rest \in Seq(Seq(CmdChunk))
    BY <2>1, <2>3, StartedTyped DEF CommandsTyped, Payload
  <2>5. Started = <<chunk>> \o left
    BY <2>1 DEF Started
  <2>6. <<chunk>> \o left # <<>>
    BY <2>4, FirstAndRest
  <2>7. Undelivered = <<<<chunk>> \o left>> \o rest
    BY <2>5, <2>6 DEF Undelivered
  <2>8. Started' = left
    BY <1>1, <2>2, <2>4, ConcatEmptySeq DEF Started
  <2>9. Undelivered' = (IF left = <<>> THEN <<>> ELSE <<left>>) \o rest
    BY <1>1, <2>8 DEF Undelivered
  <2>10. accepted' = Append(accepted, chunk)
    BY <1>1, <1>3, <2>1
  <2> HIDE DEF chunk, left, rest
  <2>11. /\ Undelivered # <<>> /\ Head(Head(Undelivered)) = chunk
         /\ Undelivered' = Stream!Rest
    BY <2>4, <2>7, <2>9, StreamRest
  <2> QED BY <1>1, <2>10, <2>11 DEF Stream!Deliver
<1> QED BY <1>2, <1>3

\* An ack only clears a chunk that the robot has.
LEMMA AckStutters == ASSUME IInv, CommandInv, packet_received PROVE UNCHANGED Stream!vars
<1>1. /\ to_host # <<>>
      /\ sent_datagram_packet' = IF Acks(Head(to_host)) THEN None ELSE sent_datagram_packet
      /\ UNCHANGED <<datagram_queue, datagram_chunk_queue, rb_last, accepted, renewed>>
  BY DEF packet_received, HandleAck, txVars, robotVars, history
<1>2. Acks(Head(to_host)) => sent_datagram_packet.seqnum = rb_last
  <2> SUFFICES ASSUME Acks(Head(to_host)) PROVE sent_datagram_packet.seqnum = rb_last
    OBVIOUS
  <2>1. /\ sent_datagram_packet.seqnum = Head(to_host).acknum
        /\ sent_datagram_packet.seqnum = seqnum_last_sent
    BY DEF Acks, CommandInv, UnackedIsLast
  <2>2. to_host \in Seq(Packet(RespChunk))
    BY TypeParts DEF IInv, ResponseLinkTyped
  <2>3. 1 \in DOMAIN to_host /\ to_host[1] = Head(to_host)
    BY <1>1, <2>2, TailInOrder
  <2> QED BY <2>1, <2>3 DEF CommandInv, CommandAcksInOrder
<1>3. Started' = Started
  BY <1>1, <1>2 DEF Started
<1>4. Undelivered' = Undelivered
  BY <1>1, <1>3 DEF Undelivered
<1> QED BY <1>1, <1>4 DEF Stream!vars

LEMMA StreamStep ==
    ASSUME CommandIInv, [Next]_vars
    PROVE  [Stream!Next]_(Stream!vars)
<1>1. IInv /\ CommandInv
  BY DEF CommandIInv
<1>2. ASSUME Resend \/ SendRegular \/ LoseCommand \/ LoseResponse \/ Duplicate \/ UNCHANGED vars
      PROVE  UNCHANGED Stream!vars
  <2>1. UNCHANGED <<datagram_queue, datagram_chunk_queue, sent_datagram_packet, rb_last,
                    accepted, renewed>>
    BY <1>2 DEF Resend, SendRegular, LoseCommand, LoseResponse, Duplicate, vars, txVars,
                robotVars, history
  <2>2. Undelivered' = Undelivered
    BY <2>1 DEF Undelivered, Started
  <2> QED BY <2>1, <2>2 DEF Stream!vars
<1>3. ASSUME Reconnect PROVE Stream!Reset
  <2>1. /\ datagram_queue' = <<>> /\ datagram_chunk_queue' = <<>>
        /\ sent_datagram_packet' = None /\ renewed' = TRUE /\ accepted' = accepted
    BY <1>3 DEF Reconnect, robotVars
  <2>2. Undelivered' = <<>>
    BY <2>1, NothingPending DEF Undelivered, Started
  <2> QED BY <2>1, <2>2 DEF Stream!Reset
<1>4. CASE QueueDatagram
  BY <1>1, <1>4, QueueSubmits DEF Stream!Next
<1>5. CASE SendNewChunk
  BY <1>1, <1>5, SendResumes DEF Stream!Next
<1>6. CASE packet_received
  BY <1>1, <1>6, AckStutters
<1>7. CASE RobotReceive
  BY <1>1, <1>7, TakeDelivers DEF Stream!Next
<1>8. CASE Reconnect
  BY <1>3, <1>8 DEF Stream!Next
<1> QED BY <1>2, <1>4, <1>5, <1>6, <1>7, <1>8 DEF Next, next_packet

\* Every chunk of a queued command reaches the robot once and in order, for any datagram sizes
\* and however the links lose and repeat packets and acks; a reconnect costs what was queued
\* and at most the first chunk after it (proto2025/mod.rs:113, 170-195).
THEOREM ProtocolKeepsStream == Spec => CommandStream
<1>1. Init => Stream!Init
  BY StreamInit
<1>2. CommandIInv /\ [Next]_vars => [Stream!Next]_(Stream!vars)
  BY StreamStep
<1> QED BY <1>1, <1>2, CommandIInvHolds, PTL DEF Spec, CommandStream, Stream!Spec

-----------------------------------------------------------------------------
(* The layout of packets                                                   *)

\* The sizes stand in the code next to the fields, not derived from them, and pack_to_slice
\* unwraps the error of a struct that outgrows its size (deku_helpers.rs:72): none does, and
\* the longest trajectories fill a packet to its last bit.
THEOREM EverythingFits ==
    /\ \A layout \in Layouts : layout.bits <= 8 * layout.size
    /\ RegularCommandPayload(4 + TrajectoryPath) = 8 * PAYLOAD_SIZE
    /\ RegularCommandPayload(4 + Spline) = 8 * PAYLOAD_SIZE
  BY DEF Layouts, PacketHeader, DatagramPayload, TrajectoryPath, Spline, Trajectory,
         RegularCommandPayload, MotorStatus, KickerStatus, IMUStatus, SdStatus,
         RegularResponsePayload, EchoDatagram, BoardIdsResponseDatagram,
         WriteKickCalibrationCommandDatagram, HEADER_SIZE, PAYLOAD_SIZE,
         DATAGRAM_CHUNK_SIZE, POS, VEL, ACC, JERK, ANGLE, ANGLE_VEL, ANGLE_ACC,
         ANGLE_JERK, DRIBBLER, LOAD_TORQUE, MEASURED, PATH

-----------------------------------------------------------------------------
(* What the codecs do                                                      *)

\* A quotient is the number of whole multiples in a number.
LEMMA Quotient ==
    ASSUME NEW a \in Int, NEW b \in Nat \ {0}
    PROVE  a \div b \in Int /\ b * (a \div b) <= a /\ a < b * (a \div b) + b
OBVIOUS

\* Multiples are ordered as their factors are.
LEMMA Multiples ==
    ASSUME NEW b \in Nat \ {0}, NEW p \in Int, NEW q \in Int, b * p < b * q + b
    PROVE  p <= q
<1>1. ~(p >= q + 1)
  <2> SUFFICES ASSUME p >= q + 1 PROVE FALSE
    OBVIOUS
  <2>1. PICK k \in Nat : p = q + 1 + k
    <3>1. p - q - 1 \in Nat /\ p = q + 1 + (p - q - 1)
      OBVIOUS
    <3> QED BY <3>1
  <2>2. b * p = b * q + b + b * k
    BY <2>1
  <2>3. b * k >= 0
    OBVIOUS
  <2> QED BY <2>2, <2>3
<1> QED BY <1>1

\* The nearest code is at most half a step away.
LEMMA NearestIsNear ==
    ASSUME NEW M \in Nat \ {0}, NEW x \in Int
    PROVE  /\ Nearest(x, M) \in Int
           /\ (2 * M) * Nearest(x, M) <= x + M
           /\ x + M < (2 * M) * Nearest(x, M) + 2 * M
<1>1. x + M \in Int /\ 2 * M \in Nat \ {0}
  OBVIOUS
<1> QED BY <1>1, Quotient DEF Nearest

\* Nothing else is.
LEMMA NearestUnique ==
    ASSUME NEW M \in Nat \ {0}, NEW x \in Int, NEW q \in Int,
           (2 * M) * q <= x + M, x + M < (2 * M) * q + 2 * M
    PROVE  Nearest(x, M) = q
<1>1. PICK n \in Int : n = Nearest(x, M) /\ (2 * M) * n <= x + M /\ x + M < (2 * M) * n + 2 * M
  BY NearestIsNear
<1>2. 2 * M \in Nat \ {0}
  OBVIOUS
<1>3. (2 * M) * n < (2 * M) * q + 2 * M /\ (2 * M) * q < (2 * M) * n + 2 * M
  BY <1>1
<1>4. n <= q /\ q <= n
  BY <1>2, <1>3, Multiples
<1> QED BY <1>1, <1>4

LEMMA TopIsPositive ==
    ASSUME NEW H \in Nat \ {0}, NEW M \in Nat \ {0}
    PROVE  /\ Top(H, M) \in Nat
           /\ Top(H, M) = (2 * M) * (2 * H - 1)
           /\ Middle(H, M) \in 0..Top(H, M)
<1>1. H * M \in Nat /\ H * M >= M
  <2>1. PICK h \in Nat : H = h + 1
    <3>1. H - 1 \in Nat /\ H = (H - 1) + 1
      OBVIOUS
    <3> QED BY <3>1
  <2>2. H * M = h * M + M /\ h * M \in Nat
    BY <2>1
  <2> QED BY <2>2
<1>2. Top(H, M) = 4 * (H * M) - 2 * M /\ Middle(H, M) = 2 * (H * M) - M
  BY DEF Top, Middle
<1>3. (2 * M) * (2 * H - 1) = 4 * (H * M) - 2 * M
  OBVIOUS
<1> QED BY <1>1, <1>2, <1>3

LEMMA ClampInside ==
    ASSUME NEW low \in Int, NEW high \in Int, low <= high, NEW x \in Int
    PROVE  /\ Clamp(x, low, high) \in low..high
           /\ x \in low..high => Clamp(x, low, high) = x
  BY DEF Clamp

\* Inside the interval the second clamp has nothing to do.
LEMMA NearestInRange ==
    ASSUME NEW H \in Nat \ {0}, NEW M \in Nat \ {0}, NEW x \in 0..Top(H, M)
    PROVE  Nearest(x, M) \in 0..(2 * H - 1)
<1> DEFINE n == Nearest(x, M)
<1>1. n \in Int /\ (2 * M) * n <= x + M /\ x + M < (2 * M) * n + 2 * M
  BY NearestIsNear
<1>2. Top(H, M) \in Nat /\ Top(H, M) = (2 * M) * (2 * H - 1)
  BY TopIsPositive
<1> HIDE DEF n
<1>3. (2 * M) * n < (2 * M) * (2 * H - 1) + 2 * M
  BY <1>1, <1>2
<1>4. (2 * M) * 0 < (2 * M) * n + 2 * M
  BY <1>1
<1>5. n <= 2 * H - 1 /\ 0 <= n
  BY <1>1, <1>3, <1>4, Multiples
<1> QED BY <1>1, <1>5 DEF n

LEMMA CodesOf ==
    ASSUME NEW H \in Nat \ {0}, NEW M \in Nat \ {0}, NEW x \in 0..Top(H, M)
    PROVE  /\ float_to_uint(x, H, M) = Nearest(x, M)
           /\ float_to_int(x, H, M) = -H + Nearest(x, M)
           /\ Nearest(x, M) \in 0..(2 * H - 1)
<1>1. Clamp(x, 0, Top(H, M)) = x
  BY TopIsPositive, ClampInside
<1>2. Nearest(x, M) \in 0..(2 * H - 1)
  BY NearestInRange
<1>3. ASSUME NEW n \in 0..(2 * H - 1)
      PROVE  Clamp(n, 0, 2 * H - 1) = n /\ Clamp(-H + n, -H, H - 1) = -H + n
  BY DEF Clamp
<1> QED BY <1>1, <1>2, <1>3 DEF float_to_uint, float_to_int

\* Every number, in the interval or not, gets a code that fits in the codec's bits:
\* unsigned, or as a two's complement number.
THEOREM CodesFit ==
    ASSUME NEW H \in Nat \ {0}, NEW M \in Nat \ {0}, NEW x \in Int
    PROVE  /\ float_to_uint(x, H, M) \in 0..(2 * H - 1)
           /\ float_to_int(x, H, M) \in -H..(H - 1)
<1>1. Clamp(x, 0, Top(H, M)) \in Int
  BY TopIsPositive, ClampInside
<1>2. Nearest(Clamp(x, 0, Top(H, M)), M) \in Int
  BY <1>1, NearestIsNear
<1>3. ASSUME NEW n \in Int
      PROVE  Clamp(n, 0, 2 * H - 1) \in 0..(2 * H - 1) /\ Clamp(-H + n, -H, H - 1) \in -H..(H - 1)
  BY DEF Clamp
<1> QED BY <1>2, <1>3 DEF float_to_uint, float_to_int

\* A number in the interval comes back with an error of at most half a step.
THEOREM HalfAStep ==
    ASSUME NEW H \in Nat \ {0}, NEW M \in Nat \ {0}, NEW x \in 0..Top(H, M)
    PROVE  /\ float_from_uint(float_to_uint(x, H, M), M) - x \in -M..M
           /\ float_from_int(float_to_int(x, H, M), H, M) - x \in -M..M
<1> DEFINE n == Nearest(x, M)
<1>1. n \in Int /\ (2 * M) * n <= x + M /\ x + M < (2 * M) * n + 2 * M
  BY TopIsPositive, NearestIsNear
<1>2. float_to_uint(x, H, M) = n /\ float_to_int(x, H, M) = -H + n
  BY CodesOf
<1> HIDE DEF n
<1>3. float_from_uint(n, M) = (2 * M) * n /\ float_from_int(-H + n, H, M) = (2 * M) * n
  BY <1>1 DEF float_from_uint, float_from_int
<1>4. (2 * M) * n \in Int /\ x \in Int
  BY <1>1, TopIsPositive
<1>5. (2 * M) * n - x \in -M..M
  BY <1>1, <1>4
<1> QED BY <1>2, <1>3, <1>5

\* A code stands for a number that has that code: what a robot reads and reports again
\* stays as it is.
THEOREM CodesAreStable ==
    ASSUME NEW H \in Nat \ {0}, NEW M \in Nat \ {0}, NEW y \in 0..(2 * H - 1)
    PROVE  /\ float_to_uint(float_from_uint(y, M), H, M) = y
           /\ float_to_int(float_from_int(y - H, H, M), H, M) = y - H
<1> DEFINE x == (2 * M) * y
<1>1. float_from_uint(y, M) = x /\ float_from_int(y - H, H, M) = x
  BY DEF float_from_uint, float_from_int
<1>2. x \in 0..Top(H, M)
  <2>1. PICK k \in Nat : 2 * H - 1 = y + k
    <3>1. 2 * H - 1 - y \in Nat /\ 2 * H - 1 = y + (2 * H - 1 - y)
      OBVIOUS
    <3> QED BY <3>1
  <2>2. (2 * M) * (2 * H - 1) = x + (2 * M) * k
    BY <2>1
  <2>3. x \in Nat /\ (2 * M) * k \in Nat
    OBVIOUS
  <2>4. Top(H, M) = x + (2 * M) * k
    BY <2>2, TopIsPositive
  <2> HIDE DEF x
  <2> QED BY <2>3, <2>4
<1>3. x \in Int /\ (2 * M) * y <= x + M /\ x + M < (2 * M) * y + 2 * M
  OBVIOUS
<1>4. Nearest(x, M) = y
  BY <1>3, NearestUnique
<1> HIDE DEF x
<1> QED BY <1>1, <1>2, <1>4, CodesOf

\* A greater number never gets a smaller code.
THEOREM CodesAreOrdered ==
    ASSUME NEW H \in Nat \ {0}, NEW M \in Nat \ {0},
           NEW x \in 0..Top(H, M), NEW z \in 0..Top(H, M), x <= z
    PROVE  /\ float_to_uint(x, H, M) <= float_to_uint(z, H, M)
           /\ float_to_int(x, H, M) <= float_to_int(z, H, M)
<1> DEFINE n == Nearest(x, M)
           m == Nearest(z, M)
<1>1. /\ n \in Int /\ (2 * M) * n <= x + M
      /\ m \in Int /\ z + M < (2 * M) * m + 2 * M
  BY TopIsPositive, NearestIsNear
<1>2. (2 * M) * n < (2 * M) * m + 2 * M
  BY <1>1, TopIsPositive
<1>3. /\ float_to_uint(x, H, M) = n /\ float_to_int(x, H, M) = -H + n
      /\ float_to_uint(z, H, M) = m /\ float_to_int(z, H, M) = -H + m
  BY CodesOf
<1> HIDE DEF n, m
<1>4. n <= m
  BY <1>1, <1>2, Multiples
<1> QED BY <1>1, <1>3, <1>4

\* deku_helpers.rs:146-149: 0 in a symmetric interval is mapped to 0.
THEOREM ZeroStaysZero ==
    ASSUME NEW H \in Nat \ {0}, NEW M \in Nat \ {0}
    PROVE  float_to_int(Middle(H, M), H, M) = 0
<1>1. Middle(H, M) \in 0..Top(H, M)
  BY TopIsPositive
<1>2. Middle(H, M) \in Int /\ Middle(H, M) + M = (2 * M) * H
  BY DEF Middle
<1>3. (2 * M) * H <= Middle(H, M) + M /\ Middle(H, M) + M < (2 * M) * H + 2 * M
  BY <1>2
<1>4. Nearest(Middle(H, M), M) = H
  BY <1>2, <1>3, NearestUnique
<1> QED BY <1>1, <1>4, CodesOf
=============================================================================
