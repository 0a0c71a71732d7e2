--------------------------- MODULE UdpTransceiver ---------------------------
(***************************************************************************)
(* UdpTransceiver (connection/src/transceivers/udp.rs), called by the mio   *)
(* thread's poll loop, and the robots that answer its beacons.              *)
(*                                                                         *)
(* Time passes in ticks.  A point in time is kept as the ticks left until   *)
(* then, which is all that comparisons with Instant::now() can tell; Past   *)
(* stands for every point before now.  The ipv4 and the ipv6 socket of a    *)
(* pair are handled alike and modelled as one.                              *)
(***************************************************************************)
EXTENDS Integers, FiniteSetsExt, Functions

CONSTANTS
    Addrs, Ids,    \* data addresses of the robots, robot ids below 32
    None,
    Timeout,       \* connection_timeout
    Period,        \* ticks between two beacons
    MaxStall,      \* the mio thread polls again within this time while there is work
    MaxGap,        \* a robot that sends less often than that is late
    Watched        \* the robots the properties over time are stated for

ASSUME TimeAssumption ==
    /\ Timeout \in Nat \ {0} /\ Period \in Nat \ {0}
    /\ MaxStall \in Nat /\ MaxGap \in Nat
    /\ MaxStall < Period
    /\ Watched \subseteq Addrs
    /\ None \notin Int

Past == -1

VARIABLES
    connection_timeouts,  \* per connected address, when it times out
    next_conn_timeout, next_beacon_time,
    id_filter,            \* blacklisted ids
    emitted,              \* events pushed to events_out by the last step
    mio,                  \* where the poll loop is; "discovery" and "data": in that handler
    ready,                \* sockets the last poll reported that are not handled yet
    discovery, data,      \* unread packets of the sockets: a second one of the same
                          \* robot changes nothing
    alive,                \* robots that are switched on
    asked,                \* robots that have heard a beacon and not answered it
    quiet,                \* ticks since the last packet of a connected robot came in
    late,                 \* connected robots that were quiet for longer than MaxGap
    stall                 \* ticks with work to do since the last poll

timers == <<connection_timeouts, next_conn_timeout, next_beacon_time>>
robots == <<alive, asked, quiet, late>>
vars == <<timers, id_filter, emitted, mio, ready, discovery, data, robots, stall>>

Event == INSTANCE Transceiver WITH
    connected <- DOMAIN connection_timeouts, filter <- id_filter

TypeOK ==
    /\ connection_timeouts \in UNION {[S -> Past..Timeout] : S \in SUBSET Addrs}
    /\ next_conn_timeout \in Past..Timeout \cup {None}
    /\ next_beacon_time \in -MaxStall..Period
    /\ id_filter \subseteq Ids
    /\ mio \in {"wait", "events", "discovery", "data"}
    /\ ready \subseteq {"discovery", "data"}
    /\ discovery \subseteq [addr : Addrs, id : Ids] /\ data \subseteq Addrs
    /\ alive \subseteq Addrs /\ asked \subseteq Addrs /\ late \subseteq Watched
    /\ quiet \in [Watched -> 0..MaxGap + 1]
    /\ stall \in 0..MaxStall

Init ==
    /\ connection_timeouts = [a \in {} |-> Timeout]
    /\ next_conn_timeout = None /\ next_beacon_time = Period
    /\ id_filter = {} /\ emitted = {}
    /\ mio = "wait" /\ ready = {}
    /\ discovery = {} /\ data = {}
    /\ alive = {} /\ asked = {} /\ late = {}
    /\ quiet = [a \in Watched |-> 0]
    /\ stall = 0

Known == DOMAIN connection_timeouts

\* The earliest of some timeouts, None of none.
Earliest(timeouts) == IF DOMAIN timeouts = {} THEN None ELSE Min(Range(timeouts))

next_timeout ==
    IF next_conn_timeout = None THEN next_beacon_time
                                ELSE Min({next_conn_timeout, next_beacon_time})
-----------------------------------------------------------------------------
(* The poll loop's calls                                                   *)

\* Mutant: a beacon is sent again and again once it is time for one.
BeaconStuck == next_beacon_time
NextBeacon == next_beacon_time + Period

BeaconDue == next_beacon_time <= 0

\* Sending may fail, on every interface for a reason of its own.
Beacon ==
    \/ BeaconDue /\ next_beacon_time' = NextBeacon /\ asked' = alive
    \/ ~BeaconDue /\ UNCHANGED <<next_beacon_time, asked>>

\* Mutant: the cached timeout is only taken, not computed anew.
TakeCached(timeouts) == None
NextConn(timeouts) == Earliest(timeouts)

\* mio_timeout: it does nothing before next_timeout, whether the driver calls it or not.
mio_timeout ==
    LET due == next_conn_timeout # None /\ next_conn_timeout < 0
        expired == {a \in Known : due /\ connection_timeouts[a] < 0}
    IN  /\ connection_timeouts' = Restrict(connection_timeouts, Known \ expired)
        /\ next_conn_timeout' = IF due THEN NextConn(connection_timeouts')
                                       ELSE next_conn_timeout
        /\ Beacon
        /\ \E failures \in IF BeaconDue THEN {{}, {Event!Failure}} ELSE {{}} :
             emitted' = {Event!Lost(a) : a \in expired} \cup failures
        /\ quiet' = [a \in Watched |-> IF a \in expired THEN 0 ELSE quiet[a]]
        /\ late' = late \ expired

\* The poll returns, also for the waker's or another transceiver's sake.
Poll ==
    /\ mio = "wait"
    /\ mio' = "events"
    /\ mio_timeout
    /\ ready' = {s \in {"discovery"} : discovery # {}} \cup {s \in {"data"} : data # {}}
    /\ stall' = 0
    /\ UNCHANGED <<id_filter, discovery, data, alive>>

\* mio_event for one of the sockets.
BeginHandler ==
    /\ mio = "events"
    /\ \E s \in ready : mio' = s /\ ready' = ready \ {s}
    /\ emitted' = {}
    /\ UNCHANGED <<timers, id_filter, discovery, data, robots, stall>>

\* Mutants: an address that is known already is announced again; a new one only while
\* there is no connection at all.
AcceptAlways(packet) == packet.id \notin id_filter
AcceptIfIdle(packet) == packet.id \notin id_filter /\ Known = {}
Accept(packet) == packet.id \notin id_filter /\ packet.addr \notin Known

SetTimeout(addr) ==
    connection_timeouts' = [a \in Known \cup {addr} |->
                              IF a = addr THEN Timeout ELSE connection_timeouts[a]]

receive_discovery_packet ==
    /\ mio = "discovery"
    /\ \E packet \in discovery :
         /\ discovery' = discovery \ {packet}
         /\ \/ /\ Accept(packet)
               /\ SetTimeout(packet.addr)
               /\ emitted' = {Event!Connected(packet.addr, packet.id)}
            \/ /\ ~Accept(packet)
               /\ emitted' = {}
               /\ UNCHANGED connection_timeouts
    /\ UNCHANGED <<next_conn_timeout, next_beacon_time, id_filter, mio, ready, data,
                   robots, stall>>

\* Mutant: a data packet does not put off the timeout.
KeepTimeout(addr) == UNCHANGED connection_timeouts
RefreshTimeout(addr) == SetTimeout(addr)

receive_data_packet ==
    /\ mio = "data"
    /\ \E addr \in data :
         /\ data' = data \ {addr}
         /\ \/ /\ addr \in Known
               /\ RefreshTimeout(addr)
               /\ emitted' = {Event!Arrived(addr)}
            \/ /\ addr \notin Known
               /\ emitted' = {}
               /\ UNCHANGED connection_timeouts
    /\ UNCHANGED <<next_conn_timeout, next_beacon_time, id_filter, mio, ready, discovery,
                   robots, stall>>

\* recv_from fails; the loop goes on.
ReceiveFails ==
    /\ mio \in {"discovery", "data"}
    /\ emitted' = {Event!Failure}
    /\ UNCHANGED <<timers, id_filter, mio, ready, discovery, data, robots, stall>>

\* Mutant: the handlers leave the cached timeout alone.
KeepCached == next_conn_timeout
Cached == Earliest(connection_timeouts)

\* WouldBlock ends the handler, and mio_event brings the cached timeout up to date.
WouldBlock ==
    /\ \/ mio = "discovery" /\ discovery = {}
       \/ mio = "data" /\ data = {}
    /\ mio' = "events"
    /\ next_conn_timeout' = Cached
    /\ emitted' = {}
    /\ UNCHANGED <<connection_timeouts, next_beacon_time, id_filter, ready, discovery, data,
                   robots, stall>>

\* A control message: only sending to a known address can fail.
send_packet ==
    /\ mio = "events"
    /\ Known # {}
    /\ emitted' \in {{}, {Event!Failure}}
    /\ UNCHANGED <<timers, id_filter, mio, ready, discovery, data, robots, stall>>

\* The driver processes the events, and then passes on the ids that are connected.
set_id_filter ==
    /\ mio = "events" /\ ready = {}
    /\ mio' = "wait"
    /\ id_filter' \in SUBSET Ids
    /\ emitted' = {}
    /\ UNCHANGED <<timers, ready, discovery, data, robots, stall>>
-----------------------------------------------------------------------------
(* Time and the robots (external)                                          *)

Later(t) == IF t \in {None, Past} THEN t ELSE t - 1

Busy == mio # "wait" \/ discovery # {} \/ data # {} \/ next_timeout <= 0

Tick ==
    /\ Busy => stall < MaxStall
    /\ stall' = IF Busy THEN stall + 1 ELSE 0
    /\ connection_timeouts' = [a \in Known |-> Later(connection_timeouts[a])]
    /\ next_conn_timeout' = Later(next_conn_timeout)
    /\ next_beacon_time' = next_beacon_time - 1
    /\ quiet' = [a \in Watched |-> IF a \in Known /\ quiet[a] <= MaxGap
                                 THEN quiet[a] + 1 ELSE quiet[a]]
    /\ late' = {a \in Watched : a \in late \/ quiet'[a] > MaxGap}
    /\ emitted' = {}
    /\ UNCHANGED <<id_filter, mio, ready, discovery, data, alive, asked>>

Switch(a) ==
    /\ alive' = IF a \in alive THEN alive \ {a} ELSE alive \cup {a}
    /\ asked' = asked \ {a}
    /\ emitted' = {}
    /\ UNCHANGED <<timers, id_filter, mio, ready, discovery, data, quiet, late, stall>>

Answer(a) ==
    /\ a \in asked
    /\ asked' = asked \ {a}
    /\ \E id \in Ids : discovery' = discovery \cup {[addr |-> a, id |-> id]}
    /\ emitted' = {}
    /\ UNCHANGED <<timers, id_filter, mio, ready, data, alive, quiet, late, stall>>

SendData(a) ==
    /\ a \in alive
    /\ data' = data \cup {a}
    /\ quiet' = IF a \in late THEN quiet ELSE [quiet EXCEPT ![a] = 0]
    /\ emitted' = {}
    /\ UNCHANGED <<timers, id_filter, mio, ready, discovery, alive, asked, late, stall>>
-----------------------------------------------------------------------------
MioStep ==
    \/ Poll \/ BeginHandler \/ receive_discovery_packet \/ receive_data_packet
    \/ WouldBlock \/ set_id_filter

Next ==
    \/ MioStep \/ ReceiveFails \/ send_packet
    \/ Tick \/ \E a \in Addrs : Switch(a) \/ Answer(a) \/ SendData(a)

Spec == Init /\ [][Next]_vars

\* The mio thread is scheduled, and reads packets faster than they come in, so that every
\* socket is empty again and again; time passes; not every answer to a beacon is lost.
Fairness ==
    /\ WF_vars(MioStep) /\ SF_vars(WouldBlock)
    /\ []<>(discovery = {}) /\ []<>(data = {})
    /\ WF_vars(Tick)
    /\ \A a \in Watched : SF_vars(Answer(a))

FairSpec == Spec /\ Fairness
-----------------------------------------------------------------------------
(* Properties                                                              *)

\* The transceiver keeps the contract the driver is built on: an address connects once,
\* under an id the filter lets pass, every connection given up is announced, and only
\* packets of connected robots are passed on.
KeepsContract == Event!Spec

\* Between the handlers the cached timeout is the earliest of the connections': the poll
\* wakes up in time for each of them (udp.rs:166 and 198).
TimeoutCached ==
    mio \in {"wait", "events"} => next_conn_timeout = Earliest(connection_timeouts)

\* A robot that is never quiet for long keeps its connection, although expired timeouts
\* are handled before the packets that wait in the sockets.
PunctualStays ==
    [][MaxGap + MaxStall <= Timeout => (Known \ Known') \cap Watched \subseteq late]_vars

\* A robot that is switched off is given up in the end, whatever other robots do.
SilentLost == \A a \in Watched : <>[](a \notin alive) => <>[](a \notin Known)

\* A robot that is on and whose answers the filter lets pass is discovered, also after it was
\* lost.
Discovered ==
    \A a \in Watched :
        <>[](a \in alive /\ \A d \in discovery : d.addr = a => d.id \notin id_filter)
            => []<>(a \in Known)
=============================================================================
