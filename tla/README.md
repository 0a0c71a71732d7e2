# A TLA+ verification of the robot radio connection

This directory models the connection software of the repository: the library `connection`
(driver, transceivers, radio protocol, metrics), and what the programs around it do with it.
`PROJECT.json` lists components, runs, mutants, theorems, hazards, findings and, in `map`,
the source lines behind every definition.

## 1. The system

A host program talks to robots through `ConnectionDriver`. One *mio thread* polls the
transceivers (UDP and serial); client threads call the driver's methods; a robot answers
every command packet with a response packet.

    client threads                      mio thread                        robots
    send_packet, queue_datagram  --ctl channel, waker-->  transceivers  --packets-->  firmware
    recv, ConnectionStateCache   <--event channel------   active_connections <--packets--
             \______ active_connections: RwLock of a DualHashMap of protocols ______/

| Component | State | Operations | Correct if |
|---|---|---|---|
| `ConnectionDriver` (`driver.rs`) | `active_connections`, two `flume` channels of 100, a waker, the mio thread's locals | `send_packet`, `queue_datagram`, accessors, `recv`, `Drop`; the poll loop | the two keys of a connection agree; the event stream tells what happened to `active_connections`, in order; no wakeup is lost; no call waits for ever |
| `DualHashMap` (`dual_map.rs`) | two hash maps | `insert`, `remove_*`, `retain`, lookups | the maps stay inverse to each other |
| `ConnectionStateCache` (`cache.rs`) | connections, latest responses | `update` | it is `active_connections` as of the events received |
| `RobotIdFilter` (`id_filter.rs`) | white or black list | `apply` | (a pure predicate) |
| `RadioProtocol2025` (`proto2025/mod.rs`) | queues, the unacked chunk, sequence bits, reassembly buffer | `queue_datagram`, `next_packet`, `packet_received` | command chunks arrive once and in order; responses are reassembled as sent |
| Encodings (`packet.rs`, `datagrams.rs`, `deku_helpers.rs`) | none | pack, unpack, float codecs | round trips |
| `MetricsTracker` (`metrics_tracker.rs`) | send time per 6 bit counter | `sent`, `received` | one sample per packet, right round trip time, losses reported |
| `MetricsAnalyzer`, `MetricsLogger` | histories; a file | `update`, averages; output | bounded history |
| `Transceiver` trait, `TransceiverGroup` (`transceivers/mod.rs`) | none | the callbacks of the poll loop | see *Transceiver* below |
| `UdpTransceiver` (`udp.rs`) | timeout per address and their cached minimum, next beacon, filter | beacons, discovery, data | contract; silent robots lost in time; present ones found |
| `SerialTransceiver` (`serial.rs`) | connections with token and timeout, ports being probed, cached timeout, filter, receive buffer | probing, data, framing | the same; no port open twice; frames received |
| `PeriodicConnectionDriver` (`periodic.rs`) | last packet per robot, period, a control channel of 100 | a sending thread above the driver; `set_send_period`, the forwarded methods, `Drop` | it is one more client of the driver; every connected robot is served; both drops return |
| `udp2serial` (`serial.rs`, `main.rs`) | the port, `last_command_addr`, `last_received_time`, `discovery_connected` | finding the robot, two forwarding threads, a discovery loop | answers go to the host they are for; a host that keeps sending is not displaced; beacons are heard on every interface without a host, and with one as little as the code sees to |
| `udp2serial/mock.rs`, `wifi-switcher` | (test robot; one config file) | I/O | |

What is hard about it: client threads and the mio thread share a lock and two *bounded*
channels, and events are sent with the lock held; the waker is a flag, not a counter;
transceivers and driver each keep a set of connections and only agree through events and
a filter; packets are lost, duplicated and reordered; timeouts are cached; counters wrap;
a reconnect starts one side of a protocol anew; the bridge learns whom an answer is for
from state that may have changed since the command.
Each such place is a line of `hazards` in `PROJECT.json`.

## 2. Modules

| Module | Models | Role |
|---|---|---|
| `DualMap` | `DualHashMap` | pure operators, used by `ConnectionDriver` and `SerialTransceiver` |
| `ConnectionDriver` | driver, channels, lock, waker, cache, `Drop` | the core |
| `MCConnectionDriver` | | symmetry for TLC |
| `ChunkStream` | what the datagram layer promises | abstract specification |
| `Proto2025`, `MCProto2025` | `RadioProtocol2025`, links, robot | implements `ChunkStream` |
| `MetricsTracker` | the tracker and the protocol's counter | |
| `Transceiver` | what the driver relies on in a transceiver | abstract specification |
| `UdpTransceiver` | `udp.rs` | implements `Transceiver` |
| `SerialTransceiver` | `serial.rs` but for framing | implements `Transceiver` |
| `SerialFraming` | the byte loop of `receive_serial_packets` | |
| `PeriodicDriver` | `periodic.rs`, composed with `ConnectionDriver` | |
| `Bridge` | `udp2serial` but for `mock.rs` | |
| `PacketCodec` | `deku_helpers.rs`, layouts of `packet.rs` and `datagrams.rs` | pure operators |
| `DualMapProofs`, `ConnectionDriverProofs`, `PeriodicDriverProofs`, `Proto2025Proofs` (and `PacketCodec`), `MetricsTrackerProofs`, `UdpTransceiverProofs`, `SerialTransceiverProofs`, `BridgeProofs` | | theorems |

Definitions keep the source's names where there is one (`next_packet`, `mio_timeout`,
`set_id_filter`, ...).

**ConnectionDriver.** A step is what happens between two points where another thread can
interfere: taking the lock, one message into or out of a channel, one wake. `call[t]` is
where client thread `t` is in a method; `mio` is where the loop is: *poll*, *collect*
(transceivers called, control channel drained), *process* (one `TransceiverEvent` after the
other), *send* (an event on its way into the channel, with the lock if that arm of the
`match` took it), *stopped*. The lock is held across steps only where the code sends
under it (`driver.rs` 326, 336, 348, 371); other critical sections are one step. Readers'
and writers' locks are not told apart: the modelled methods hold it for one step or for
writing. Transceivers are the `Environment`: `tconns` is what they consider connected.

**Proto2025.** One robot. A chunk's 27 bytes are `[id, type, part]`. `next_packet` has
one action per branch. The robot is not in the repository; it does what the field docs
in `packet.rs` ask for (drop a datagram packet whose bit it has, answer each packet, resend
a chunk until it is acked). The links are FIFO, lose anything, and duplicate a bounded
number of packets: an alternating bit is not meant to stand reordering. `Reconnect` is the
driver giving the robot up and connecting it anew: the host's protocol state is the initial
one, the robot keeps its bits. It comes when both links are empty (the timeout is a second,
a packet's flight some milliseconds) and at most `MaxReconnects` times. What
was queued goes with the old state, and the robot may take the first chunk of the new one
for a repetition: `ChunkStream` allows for both with `Reset` and `Resume`, and for no more.

**MetricsTracker.** A packet is known by its number, the tracker sees only its counter.
Responses are a set: lost, reordered, delivered again, at most `MaxDelay` packets late.

**Transceiver, UdpTransceiver, SerialTransceiver.** `Transceiver` has three steps: `Change`
(connections come and go, each announced), `Receive` (packets of connected addresses only)
and `SetFilter`. In the detailed modules time is a number of ticks: timers count down, are
due below zero, and stop at `Past`. `Tick` is as fine as the model gets; a handler takes no
time by itself, but the mio thread may take up to `MaxStall` ticks over what it has to do.
The UDP handlers take one packet per step and end in `WouldBlock`, which brings the cached
timeout up to date; the serial module has one step per token, and only ever lowers the
cached timeout there. The environment switches robots on and off at will. It also pulls the cable
of a connected serial port (`HangUp`): its next read is the last thing the mio thread does
(`ReadForEver`, see section 4), and the clocks stand still from there on.

**PeriodicDriver.** It extends `ConnectionDriver`; the library's thread is one of its
`Senders`, whose calls are made by `StartCycle` (ask for the connected robots),
`TakeSnapshot` (when it has the lock), `SendNext` and `InSendPacket` (the steps inside
`send_packet`), in that order, round after round. `Sleep` is the end of a cycle, after *all*
control messages were handled: the `while let` of `periodic.rs:64` drains the channel. `Drop`
stops and joins the thread first; then the last reference to the driver goes, and its own
drop runs (`InnerDrop`). Other threads call `queue_datagram` and the accessors. Because every
action is an action of the driver under further conditions, or leaves it alone, what is proved
of the driver carries over; that is a way to reuse proofs, not a property of `periodic.rs`.

**Bridge.** One step per datagram, serial packet, turn of the discovery loop or tick. `age` is
the time since `last_received_time`, which is when the thread *reads* a datagram; the owner's
silence as the host sees it is `gap`. An entry of `line` is an answer on its way, with the
host it is for and its age: what `AnswersGoHome` is about and the bridge does not know.
`port.clear` and a dead reader lose what is on the line (`AnswerLost`). A failed write ends
the thread that takes commands, an error of the port the other one, as in the code.
There is a beacon group for IPv4 and one for IPv6. `shown` is what the code looks at in an
interface, at each decision anew: the family of the address it takes (IPv4 if there is one), or
none. `members` is where the sockets have joined. Joining may fail on any interface, and nobody
looks at that; leaving is of the group of the present address. An interface may lose its
address with or without its memberships.

**PacketCodec.** Numbers are counted in parts of a step from the lower end of the interval,
so that rounding and clamping are exact integer arithmetic; the rounding of `f32` itself is
left out. Layouts are sums of bit widths next to the sizes the code declares.

**SerialFraming.** A byte is `[frame, place]`, and COBS is what it does: `FrameLength` bytes
of one frame in order decode, anything else does not.

## 3. Runs

| Run | Question | Bounds |
|---|---|---|
| `driver` | Do `active_connections`, event stream, cache, blacklist and waker agree in every interleaving, a drop included? | 2 robots, 2 addresses, a sender, a receiver, channels of 2, 2 events a batch, metrics on |
| `periodic` | Is every connected robot served, also one that moves, does every call return, and do both drops? | 1 robot, 2 addresses, the periodic and a user's thread, a receiver, channels of 1, 1 event a batch |
| `driver_lock` (violation) | And with one thread for both sending and receiving? | channels of 1 |
| `proto_cmd` | Is the command stream delivered once, in order, in the end, also over a reconnect? | 3 datagrams of 1 and 2 chunks, 3 packets in flight each way, 1 duplicate, 1 reconnect |
| `proto_resp` | Is no response chunk lost, and are types never mixed? | 2 responses of 1 or 2 chunks, abandoned at will, 1 command, 1 duplicate, 1 reconnect |
| `proto_dup` (violation) | Are responses deduplicated? | 1 response |
| `metrics` | Are samples unique, exact and complete in an outage? | counter of 4, 2 pending, 7 packets, 3 late |
| `metrics_loss` (violation) | Is every loss reported? | the same |
| `udp` | Contract, cached timeout, no connection dropped without cause, lost and found in the end | 2 addresses, one of them watched, timeout 2, period 2, stall 1, gap 1 |
| `serial` | Contract, no port twice, cached timeout, lost and found | 2 ports, one of them watched, timeout 1, probe period 3, window 1, stall 1 |
| `framing_host` (violation) | Is every frame received? | 3 frames of 4 bytes, reads of any size |
| `bridge` | Do answers find their host, is the active host kept and a lone one served, are beacons heard without one, and not with one? | 2 hosts, one of them watched, 1 interface, both families, timeout 2, retry 3, period 3, answers 2 late, stall 1, gap 1, 2 datagrams and 1 answer under way, 1 restart |

The largest runs are `driver` (1,322,945 distinct states) and `udp` (628,517); the longest are
those with liveness, `bridge` (302,250), `udp`, `periodic` (72,933) and `serial` (133,600).

Why these bounds are enough for the interesting cases: channels of one or two places are
full and empty all the time; two robots and two addresses are the least for one robot at
two addresses and for two events of one batch to concern each other; three queued
datagrams use the sequence bit more than once around, and one reconnect meets it at either
value; seven packets wrap a counter of four; two addresses make a cached minimum differ
from the other one's timeout; two hosts are a host and the one that displaces it, and a
queue of two has one's datagram behind the other's; one answer under way is enough for it to
meet a takeover, a restart or the next attempt, which it does at every age. The decision about
the groups is rarer than the timeout, so that a host can come and go in between. Where a
property is about each robot or host by itself and the instance treats them alike, it is stated
for one of them (`Watched`) while the other one does as it likes. In `periodic` two threads compete with
the mio thread for the lock and for the one place in each channel. For `udp`, the
premise of `PunctualStays`, `MaxGap + MaxStall <= Timeout`, is tight: with a timeout one tick
less TLC finds a punctual robot dropped, because timeouts are handled before the packets
that wait. The code's values are a second and more against a loop of milliseconds.
The same holds of `ActiveKept`, and `AnswersGoHome` needs `DelayAssumption`: an answer that
takes longer than `CONNECTION_TIMEOUT` can reach a host that took over, since the bridge
looks the host up when the answer has come (`udp2serial/src/serial.rs:90`).

**Properties.** In `driver`: `ConnsConsistent` (no half entry), `CacheCoherent` (the receiver's
cache plus the events in flight is `active_connections`), `EventsFitCache` (no event that does
not fit the ones before), `NoZombie` (what a transceiver gave up is being removed),
`FilterCurrent`, `NoLostWakeup`. In `proto_cmd`: `CommandStream` is the refinement of
`ChunkStream`, with what is unsent and unacked as its pending stream. `NoResponseChunkLost`
needs the first ack to be 1: with 0 the robot's first chunk is acked before it arrives.
`TimeoutCached` is equality for UDP and a lower bound for serial, as the code has it.
In `periodic`, `RobotsServed` is about a robot that stays at an address in the end, wherever it
was when the thread took its snapshot; it has the premise that calls of `set_send_period` cease, because a caller who
never stops keeps the drain loop of `periodic.rs:64` from its next cycle;
`PeriodicDropReturns` allows for the one case in which a drop hangs: the event channel that
nobody reads any more is full, and the mio thread or the periodic thread waits for room in it.
In `bridge`, `HostServed` has the premise that the forwarding thread lives: after a failed
write it is gone until the process is started anew (a hazard of its own), and it says nothing
of the answers, whose thread may be gone as well. `ActiveKept` counts a datagram that the full
socket drops as silence of its sender: floods are covered within `MaxStall` only. `GroupsLeft`
is about interfaces whose memberships are all of their present address (section 4).
In `serial`, `SilentLost` and `Discovered` have the premise `CallsReturn`, that no port that
hung up has stopped the mio thread; without it TLC finds both violated, as the code would.
`Discovered`, of both transceivers, asks that what the robot answers is not filtered.
Every property of a passing run has a mutant of the code that violates it (`mutants`); the
mutant's definition stands before the one it replaces.

**Deadlock** is checked but where the model really stops: in `driver` and `periodic` once the
driver is dropped (or its drop waits for a channel nobody reads), in `driver_lock`, which is
about getting stuck, and in `metrics`, `metrics_loss` and `framing_host` at the end of their
input.

**Fairness.** Driver: threads are scheduled, and one that waits for a lock or a place in a
channel that comes free again and again gets it (strong fairness of the mio thread and of
each method: `flume` queues its waiters; `std::sync::RwLock` promises no order, so that it
starves nobody is an assumption), and the receiver goes on
receiving. The periodic thread is one more such thread, and sleeps end.
Protocol: `next_packet` is called for ever, as `RobotsServed` shows of the periodic driver,
and the links do not lose every packet. UDP: the mio thread is scheduled, time passes, a
socket is empty again and again (packets are read faster than they come in: the receive
loop only ends then), and not every answer to a beacon is lost. Serial: the same but for the
sockets, and a port that is probed again and again is opened and accepted without an I/O error
some time. Bridge: the process is scheduled, time passes, the data socket is empty again and
again while its thread lives, a robot that is asked for its id again and again answers some
time, and a group that is joined again and again is joined without an error some time; hosts
owe nothing, their sending is a premise of `HostServed`.

## 4. Findings

* `driver_lock`: events are sent into the bounded event channel with `active_connections`
  locked. `driver.rs:190` explains why a send must not do that for the control channel; for
  the event channel a client with one thread for sending and receiving waits for ever.
* `proto_dup`: `packet_received` does not look at the sequence number of a response chunk,
  though `packet.rs:82` says it is there to deduplicate. A resent chunk is reassembled twice.
* `metrics_loss`: an isolated loss stays pending until its counter comes round again and is
  overwritten without a sample, against `metrics_tracker.rs:9`.
* `framing_host`: the delimiter found in the serial buffer is kept at its beginning
  (`serial.rs:325`), in a buffer sized without it (`:271`): after the first frame each one is
  cut one byte short. `udp2serial/src/serial.rs:193` clears its buffer without the delimiter.

Not runs, but worth knowing:

* The lookup that "should always succeed" (`udp.rs:128`) fails for a packet that was queued
  before its connection was lost; it is dropped silently. The model has the step (`HandleSend`
  for an address not in `tconns`).
* A connected serial port whose device is pulled reads as `Ok(0)`, for ever. The receive loop
  has no case for it and goes on (`serial.rs:331-333`), so the mio thread never returns: no
  robot is lost, discovered or sent to any more, and `Drop` never joins. `end_discovery` has
  the case (`serial.rs:241`).
* The bridge leaves the group of the address an interface has now, once (`main.rs:93-104`). One
  that was joined on IPv6 and got an IPv4 address since stays in its IPv6 group while a host is
  connected, against the comment at `main.rs:94`. So does one that is without an address at
  that moment and keeps its memberships.

## 5. Proofs

For every value of the constants that the modules' assumptions allow (any robots,
addresses, hosts and threads, any capacities, timeouts and delays), `tlapm` checks:

| Theorem | Module | States |
|---|---|---|
| `InsertGood`, `RetainGood` | `DualMapProofs` | the map operations keep both halves inverse to each other |
| `TypeCorrect`, `ConnsAlwaysConsistent`, `WakeupNeverLost`, `FilterAlwaysCurrent` | `ConnectionDriverProofs` | `[]TypeOK`, `[]ConnsConsistent`, `[]NoLostWakeup`, `[]FilterCurrent` |
| `NoZombieEver` | `ConnectionDriverProofs` | `[]NoZombie` |
| `EventsAlwaysFit`, `CacheAlwaysCoherent` | `ConnectionDriverProofs` | `[]EventsFitCache`, `[]CacheCoherent` |
| `PeriodicTypeCorrect`, `PeriodicKeepsPromises` | `PeriodicDriverProofs` | `[]PeriodicTypeOK`; what is proved of the driver's events, cache and waker holds under the periodic driver |
| `UdpTypeCorrect`, `TimeoutAlwaysCached`, `PunctualAlwaysStays`, `UdpKeepsContract` | `UdpTransceiverProofs` | `[]TypeOK`, `[]TimeoutCached`, `PunctualStays`; `UdpTransceiver` implements `Transceiver` |
| `SerialTypeCorrect`, `NeverOpenTwice`, `TimeoutBoundCached`, `SerialKeepsContract` | `SerialTransceiverProofs` | `[]TypeOK`, `[]OpenOnce`, `[]TimeoutCached`; `SerialTransceiver` implements `Transceiver` |
| `TrackerTypeCorrect`, `AlwaysSampledOnce`, `LossAlwaysLate`, `RttAlwaysExact`, `OutageAlwaysSeen` | `MetricsTrackerProofs` | `[]TypeOK`, `[]SampledOnce`, `[]LossIsLate`, `[]RttExact`, `[]OutageSeen` |
| `BridgeTypeCorrect`, `AnswersReachTheirHost`, `ActiveHostKept` | `BridgeProofs` | `[]TypeOK`, `[]AnswersGoHome`, `ActiveKept` |
| `ProtocolTypeCorrect`, `ReassemblyAlwaysConsistent`, `ResponseChunksNeverLost` | `Proto2025Proofs` | `[]TypeOK`, `[]ReassemblyConsistent`, `[]NoResponseChunkLost` |
| `ProtocolKeepsStream` | `Proto2025Proofs` | `Proto2025` implements `ChunkStream` (`CommandStream`) |
| `EverythingFits` | `Proto2025Proofs` | no layout outgrows its size, the longest trajectories fill it |
| `CodesFit`, `CodesAreOrdered` | `Proto2025Proofs` | a code fits into its bits; a greater number never gets a smaller code |
| `HalfAStep`, `CodesAreStable`, `ZeroStaysZero` | `Proto2025Proofs` | a number moves by at most half a step; a code stays itself; zero stays zero |

The argument for the driver goes up in layers, each inductive relative to the one below:

1. `Inv` adds to the types what each place in a method implies (`CallOK`: a thread about to
   send a sample holds the lock and its robot is connected), who may hold the lock when
   (`LockDiscipline`), and what the mio thread may be about to send (`PendOK`). That the
   maps stay inverse is a lemma per map operation.
2. `WakeInv` is `NoLostWakeup` and that only a collecting thread is draining: the drain ends
   only on an empty channel, so `DrainDone` and `Poll` cannot forget a message.
3. `FilterInv` says that while nothing is stale the filter is the set of connected ids: every
   change of `conns` sets `stale`, which ends the iteration with an update.
4. `EventsInv` relates the transceivers' view to the driver's over the batch `tev`: what
   is connected, in the map or by a collected event, is alive or lost later in the batch,
   and between two connects of an address there is a loss. This gives `NoZombie`.
5. `CacheInv` follows the stream event by event (what the receiver *will believe* after
   each), which is stronger than the two properties and, unlike them, inductive: an event in
   the middle of the channel has to fit what is before it, not the present cache. A sample
   is sent by a client thread, but under the lock, so nothing can come between.

The periodic driver needs no invariant of its own beyond types: each of its steps is a step of
the driver or leaves it alone (`PeriodicIsDriver`, by construction), so `Inv` carries over.

`UdpTransceiver` is about time. `IInv` adds three parts to the types. `TimeoutCached` needs
that a tick keeps the earliest timeout the earliest, and that a bounded set of timeouts has
one (the only use of well-foundedness). `BeaconInTime`: an overdue beacon makes the mio
thread `Busy`, so `stall` bounds how late it is. `Punctual` bounds the timeout of a robot that
is not late from below, by its silence while no packet of it waits, and by `MaxGap + stall`
while one does that came after the last poll. At the poll, either bound together with
`MaxGap + MaxStall <= Timeout` contradicts an expired timeout, which is `PunctualStays`.

`SerialTransceiver` needs `ProbedApart` (no two ports are probed with one token) for the ports
that are accepted together not to displace each other, and `OpenOnce` for them not to displace
a connection: then `WithPorts` is a union of disjoint maps. There is a free token for every
port because `start_discovery` only opens ports that are not connected (`TokensSuffice`, an
argument by cardinality from the assumption on `Tokens`). `OnSchedule` bounds how late
discovery is: a step that is due is made in the next turn of the poll loop, so `Slack` (the
time to it plus what the present turn has taken) does not change while a step is overdue, and
each step adds its wait to it. That needs two turns of the loop to fit into a round of
discovery (`Fast`); without it discovery falls behind without bound, and the code has nothing
to stop it: the next time is advanced from the last one, not from now (`serial.rs:98`). The
type invariant claims the bound only under that premise. `Change` of the contract is then
read off `TimeoutEffect`, which says what one call of `mio_timeout` does to both keys.

`MetricsTracker` is about remainders. `PendingInv` says that what is pending under a counter is
the packet sent last with it, less than a turn of the counter ago; `ResponsesInv` the same of
responses in flight, but with `MaxDelay`. So a response that is younger than a turn finds its
own packet or none (`RttExact`). `UnreportedInv` is the converse: what has no sample and is
less than a turn old is pending; with at most `MaxPending` counters in use that is `OutageSeen`.
`LossIsLate` is a cardinality argument: the oldest of `MaxPending` distinct pending packets is
`MaxPending` behind the new one.

For the bridge, `AnswersGoHome` is inductive only together with where the clocks can be:
`HostAnswers` says that an answer for a host is no younger than the last command that was
accepted, and that its host is the owner; `IdAnswers` and `Attempts` that a robot id on its way
is of the present attempt or gone before the next; `Owned` that none is under way once there is
an owner. A takeover needs `age > Timeout`: then `MaxDelay <= Timeout` means that the line is
empty. A new attempt comes `RetryDelay` after the last one: then `MaxDelay < RetryDelay` does.
`ActiveKept` is the argument of `PunctualStays` again (`Kept`): the time since the owner's last
datagram was read is at most its silence while none waits, and `MaxGap + stall` while one does.

`Proto2025`'s responses are an alternating bit protocol, and `AlternatingBit` is why it works: on
each link, what belongs to the robot's present bit comes after everything older (`AcksInOrder`,
`ChunksInOrder`; `TailInOrder`, `AppendInOrder`, `TransmitInOrder` and `RepeatInOrder` are what a
FIFO link that loses and repeats does to such an order). Then the first ack of the present bit
means that the host has the present chunk, and once the host has it no older chunk is still to
come, so that `Absorbed` (the chunk acked last is the one absorbed last) is inductive. It
gives `NoResponseChunkLost`. A robot with nothing to resend is only told what it knows
(`NoNewsForIdle`), but for a reconnect, whose initial ack may be wrong about the present chunk and,
through it, about the next: `AckedByReconnect` keeps that count. `ReassemblyConsistent` is inductive
by itself, chunk by chunk (`ReceiveChunkEffect`). `NoneAssumption` says that no value is also used
for its absence, as in Rust's `Option`. The reconnect's guard (both links empty) is used: without it
an ack of the old connection could arrive in the new one.

Commands go the other way under the same rule, and `CommandInv` says it of `seqnum_last_sent`:
`CommandsInOrder`, `CommandAcksInOrder`, and that with nothing unacked every ack on its way
repeats what the robot has (`NothingUnacked`), so that the next bit is not acked in advance. A
reconnect is where this fails: the robot may have the first bit of the new state already, which
`NothingSentAnew` confines to the first chunk. The refinement mapping counts what is pending
datagram by datagram, as the code's queue does, so no concatenation of all of them is needed:
`SendResumes` moves a datagram from the queue to being sent and leaves what is pending alone
(or loses one chunk after a reconnect), `RobotTakes` shows that what the robot takes is the
oldest pending chunk, and `AckStutters` that an ack only clears a chunk the robot has.

The codecs are arithmetic over all widths `H` and subdivisions `M`, and a finite sum per layout.

Only model-checked: all liveness, which is out of the prover's reach (`RobotsServed`,
`PeriodicCallsReturn`, `PeriodicDropReturns`, `CommandsDrain`, `SilentLost`, `Discovered`,
`HostServed`, `Discoverable`, `GroupsLeft`).

## 6. Not modelled

* Bytes: bit packing (derived by `deku`), rounding of `f32`, COBS and checksums but for their
  effect, parsing of the serial answer, `normalize_angle`, and what the fields mean.
* Panics: an unknown datagram type makes `unpack().unwrap()` panic under the lock
  (`proto2025/mod.rs:121`); packets are well formed here.
* `latest_response` of the cache, which is only overwritten, and white lists, which the driver
  never builds. `set_regular_packet` of the periodic driver: which packet a robot gets is not
  told apart, only that it gets one.
* `MetricsAnalyzer` (averages and percentiles of floats over a bounded history; what it
  relies on is `EventsFitCache`) and `MetricsLogger` (output to a file).
* `mock.rs`, a stand-in robot behind a feature flag, and `wifi-switcher`, which rewrites one
  configuration file: I/O without state of their own.

## 7. Plan

Done: the driver with its channels and proofs; the protocol, over reconnects too, and the
proofs about commands and responses; the metrics and their proofs; the transceivers, their
contract and the proofs about both; serial framing; the periodic driver on top of the driver;
the bridge and its proofs; the codecs. Left, in this order:

1. The abstract driver: a map of connections with an event stream, implemented by
   `ConnectionDriver`; `CacheCoherent` is its refinement mapping in disguise.
2. The bridge's reader beside the host's in `SerialFraming`, where it should receive what
   `framing_host` loses.
