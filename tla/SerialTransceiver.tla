-------------------------- MODULE SerialTransceiver --------------------------
(***************************************************************************)
(* SerialTransceiver (connection/src/transceivers/serial.rs): it opens the  *)
(* ports that are not connected, asks for a robot id, and looks at the      *)
(* answers half a second later; a connection is then kept as long as its    *)
(* packets come in.  It is called by the mio thread's poll loop.            *)
(*                                                                         *)
(* Time is kept as in UdpTransceiver.  Whether the bytes of a port make up  *)
(* a valid packet is the environment's choice here; SerialFraming models it.*)
(* A port that hangs up, its cable pulled, either fails every read of its   *)
(* open stream or tells of an end of file at each of them.                  *)
(***************************************************************************)
EXTENDS Integers, FiniteSetsExt, DualMap

CONSTANTS
    Ports, Ids,    \* serial ports that a robot may be at, robot ids
    Tokens,        \* mio tokens: the code counts up, here those nothing refers to come again
    None,
    Timeout,       \* connection_timeout
    ProbePeriod,   \* probe_period
    Window,        \* how long robots have to answer (500 ms in the code)
    MaxStall,      \* the mio thread takes at most this long over one iteration
    Watched        \* ports whose robots fairness and liveness are about

ASSUME SerialAssumption ==
    /\ Timeout \in Nat \ {0} /\ Window \in Nat \ {0} /\ ProbePeriod \in Nat
    /\ MaxStall \in Nat
    /\ IsFiniteSet(Ports) /\ IsFiniteSet(Tokens) /\ Watched \subseteq Ports
    /\ Cardinality(Tokens) >= 2 * Cardinality(Ports)
    /\ None \notin Int \cup UNION {[S -> Tokens] : S \in SUBSET Ports}

Past == -1

VARIABLES
    active_connections,      \* primary key token, secondary key port
    timeouts,                \* per token, when the connection times out
    active_discovery_ports,  \* None, or the token of every port being probed
    next_discovery_time, next_conn_timeout,
    id_filter,               \* blacklisted ids
    emitted,                 \* events pushed to events_out by the last step
    mio,                     \* where the poll loop is; "stuck": in a read loop without end
    ready,                   \* tokens the last poll reported that are not handled yet
    alive,                   \* ports with a robot that is switched on
    answer,                  \* id in the last answer read from a port being probed
    data,                    \* connected ports that have become readable since they were read
    hung,                    \* open ports that have hung up
    stall                    \* ticks the poll loop has taken over what it has to do

discoveryVars == <<active_discovery_ports, next_discovery_time>>
connVars == <<active_connections, timeouts, next_conn_timeout>>
robots == <<alive, answer, data, hung>>
vars == <<discoveryVars, connVars, id_filter, emitted, mio, ready, robots, stall>>

Event == INSTANCE Transceiver WITH
    Addrs <- Ports, connected <- Secs(active_connections), filter <- id_filter

Probed == IF active_discovery_ports = None THEN {} ELSE DOMAIN active_discovery_ports

\* How long it is until the next step of discovery: until the answers are read, then until
\* the ports are opened again.  Mutant: at once.
NoWait(started) == 0
Wait(started) ==
    IF started THEN Window ELSE IF ProbePeriod > Window THEN ProbePeriod - Window ELSE 0

\* Discovery is only ahead of its schedule by a step; it falls behind by at most four times
\* what a turn of the poll loop takes, if that is fast enough for it.
OnTime ==
    /\ next_discovery_time <= Window \/ next_discovery_time <= ProbePeriod - Window
    /\ 2 * MaxStall <= Window \/ 2 * MaxStall <= ProbePeriod => -4 * MaxStall <= next_discovery_time

TypeOK ==
    /\ active_connections \in Maps(Tokens, Ports) /\ MutuallyInverse(active_connections)
    /\ timeouts \in [Prims(active_connections) -> Past..Timeout]
    /\ next_conn_timeout \in Past..Timeout \cup {None}
    /\ active_discovery_ports \in {None} \cup UNION {[S -> Tokens] : S \in SUBSET Ports}
    /\ next_discovery_time \in Int /\ OnTime
    /\ id_filter \subseteq Ids
    /\ mio \in {"wait", "events", "stuck"}
    /\ ready \subseteq Tokens
    /\ alive \subseteq Ports /\ data \subseteq Ports /\ hung \subseteq Ports
    /\ answer \in [Ports -> Ids \cup {None}]
    /\ stall \in 0..MaxStall

Init ==
    /\ active_connections = EmptyMap /\ timeouts = [t \in {} |-> Timeout]
    /\ active_discovery_ports = None
    /\ next_discovery_time = 0 /\ next_conn_timeout = None
    /\ id_filter = {} /\ emitted = {}
    /\ mio = "wait" /\ ready = {}
    /\ alive = {} /\ data = {} /\ hung = {}
    /\ answer = [p \in Ports |-> None]
    /\ stall = 0

Earliest(times) == IF times = {} THEN None ELSE Min(times)

next_timeout == Min({next_discovery_time} \cup ({next_conn_timeout} \ {None}))
-----------------------------------------------------------------------------
(* Discovery                                                               *)

ProbeDue == next_discovery_time < 0

\* Mutant: ports are not looked up among the connections.
AnyPort == Ports
NewPort == Ports \ Secs(active_connections)

\* start_discovery: of the new ports, those that can be opened, written to and registered.
start_discovery ==
    /\ ProbeDue /\ active_discovery_ports = None
    /\ \E opened \in SUBSET NewPort :
         active_discovery_ports' =
             CHOOSE f \in Injection(opened, Tokens \ (Prims(active_connections) \cup ready')) :
                 TRUE
    /\ next_discovery_time' = next_discovery_time + Wait(TRUE)

\* end_discovery: ports that answered with an id the filter lets pass are connected, the
\* others are closed.  Reading a port may fail.
\* Mutants: the filter is not asked; only a first connection is accepted.
AcceptedAny == {p \in Probed : answer[p] # None}
AcceptedIfIdle == IF Secs(active_connections) = {} THEN AcceptedAny ELSE {}
Accepted == {p \in Probed : answer[p] # None /\ answer[p] \notin id_filter}

end_discovery ==
    /\ ProbeDue /\ active_discovery_ports # None
    /\ active_discovery_ports' = None
    /\ next_discovery_time' = next_discovery_time + Wait(FALSE)

no_discovery == ~ProbeDue /\ UNCHANGED discoveryVars

\* What active_connections, timeouts and next_conn_timeout are with the accepted ports.  Each
\* is inserted under its own token, so they do not displace each other.
WithPorts(accepted) ==
    LET new == Restrict(active_discovery_ports, accepted)
        rest == Retain(active_connections,
                    {t \in Prims(active_connections) \ Range(new) :
                        active_connections.prim_to_val[t] \notin accepted})
    IN  [prim_to_val |-> [t \in Prims(rest) \cup Range(new) |->
                            IF t \in Range(new) THEN AntiFunction(new)[t] ELSE rest.prim_to_val[t]],
         sec_to_prim |-> [p \in Secs(rest) \cup accepted |->
                            IF p \in accepted THEN new[p] ELSE rest.sec_to_prim[p]]]

WithTimeouts(conns) ==
    [t \in Prims(conns) |-> IF t \in DOMAIN timeouts THEN timeouts[t] ELSE Timeout]

\* Mutant: the timeout of a first connection is not taken over into the cached one.
OnlyLower(accepted) ==
    IF next_conn_timeout = None THEN None
    ELSE Earliest({next_conn_timeout} \cup {Timeout : p \in accepted})
Lowered(accepted) ==
    Earliest(({next_conn_timeout} \ {None}) \cup {Timeout : p \in accepted})
-----------------------------------------------------------------------------
(* The poll loop's calls                                                   *)

\* Mutant: the cached timeout is only taken, not computed anew.
TakeCached == None
Cached == Earliest({timeouts'[t] : t \in DOMAIN timeouts'})

\* mio_timeout: discovery first, then the timeouts, also of what was just accepted.
mio_timeout ==
    \E accepted \in IF ProbeDue /\ active_discovery_ports # None THEN SUBSET Accepted ELSE {{}} :
      \E conns \in {WithPorts(accepted)} :
        LET times == WithTimeouts(conns)
            due == Lowered(accepted) # None /\ Lowered(accepted) < 0
            expired == {t \in Prims(conns) : due /\ times[t] < 0}
        IN  /\ active_connections' = Retain(conns, Prims(conns) \ expired)
            /\ timeouts' = Restrict(times, Prims(conns) \ expired)
            /\ next_conn_timeout' = IF due THEN Cached ELSE Lowered(accepted)
            /\ \E failures \in IF ProbeDue THEN {{}, {Event!Failure}} ELSE {{}} :
                 emitted' = {Event!Lost(conns.prim_to_val[t]) : t \in expired}
                            \cup {Event!Connected(p, answer[p]) : p \in accepted}
                            \cup failures

\* The poll returns with the tokens of ports that have unread bytes or have hung up.  Those of
\* ports being probed are ignored by mio_event and left out.  A stream that is given up is closed.
Poll ==
    /\ mio = "wait"
    /\ mio' = "events"
    /\ ready' = {t \in Prims(active_connections) : active_connections.prim_to_val[t] \in data}
    /\ start_discovery \/ end_discovery \/ no_discovery
    /\ mio_timeout
    /\ answer' = IF ProbeDue THEN [p \in Ports |-> None] ELSE answer
    /\ data' = data \cap Secs(active_connections')
    /\ hung' = hung \cap (Secs(active_connections') \cup Probed')
    /\ UNCHANGED <<id_filter, alive, stall>>

\* A whole packet puts off the timeout; the cached one is only ever lowered here.
ReadPackets(t) ==
    LET port == active_connections.prim_to_val[t]
    IN  /\ port \notin hung
        /\ timeouts' = [timeouts EXCEPT ![t] = Timeout]
        /\ next_conn_timeout' = IF next_conn_timeout # None THEN Min({next_conn_timeout, Timeout})
                                                           ELSE None
        /\ data' = data \ {port}
        /\ emitted' \in {{Event!Arrived(port)}, {Event!Arrived(port), Event!Failure}}
        /\ UNCHANGED mio

\* The bytes make up no packet, or a checksum is wrong, or reading fails.
ReadNothing(t) ==
    /\ data' = data \ {active_connections.prim_to_val[t]}
    /\ emitted' \in {{}, {Event!Failure}}
    /\ UNCHANGED <<timeouts, next_conn_timeout, mio>>

\* At an end of file read returns no bytes and no error, now and ever after: the loop has no
\* case for that (serial.rs:331-333) and the mio thread never leaves it.
ReadForEver(t) ==
    /\ active_connections.prim_to_val[t] \in hung
    /\ mio' = "stuck"
    /\ emitted' = {}
    /\ UNCHANGED <<timeouts, next_conn_timeout, data>>

\* mio_event for a token: ignored if it belongs to no connection any more.
mio_event ==
    /\ mio = "events"
    /\ \E t \in ready :
         /\ ready' = ready \ {t}
         /\ \/ /\ t \in Prims(active_connections)
               /\ ReadPackets(t) \/ ReadNothing(t) \/ ReadForEver(t)
            \/ /\ t \notin Prims(active_connections)
               /\ emitted' = {}
               /\ UNCHANGED <<timeouts, next_conn_timeout, data, mio>>
    /\ UNCHANGED <<discoveryVars, active_connections, id_filter, alive, answer, hung, stall>>

\* A control message: only writing to a connected port can fail.
send_packet ==
    /\ mio = "events"
    /\ Secs(active_connections) # {}
    /\ emitted' \in {{}, {Event!Failure}}
    /\ UNCHANGED <<discoveryVars, connVars, id_filter, mio, ready, robots, stall>>

\* The driver processes the events, and then passes on the ids that are connected.
set_id_filter ==
    /\ mio = "events" /\ ready = {}
    /\ mio' = "wait"
    /\ id_filter' \in SUBSET Ids
    /\ emitted' = {}
    /\ stall' = 0
    /\ UNCHANGED <<discoveryVars, connVars, ready, robots>>
-----------------------------------------------------------------------------
(* Time and the robots (external)                                          *)

Later(t) == IF t \in {None, Past} THEN t ELSE t - 1

Busy == mio # "wait" \/ data # {} \/ next_timeout <= 0

\* What is due and what comes in does not matter any more once the mio thread is stuck: its
\* clocks stand still, and its ports are left alone.
Tick ==
    /\ mio # "stuck"
    /\ Busy => stall < MaxStall
    /\ stall' = IF Busy THEN stall + 1 ELSE 0
    /\ timeouts' = [t \in DOMAIN timeouts |-> Later(timeouts[t])]
    /\ next_conn_timeout' = Later(next_conn_timeout)
    /\ next_discovery_time' = next_discovery_time - 1
    /\ emitted' = {}
    /\ UNCHANGED <<active_discovery_ports, active_connections, id_filter, mio, ready, robots>>

Switch(p) ==
    /\ alive' = IF p \in alive THEN alive \ {p} ELSE alive \cup {p}
    /\ emitted' = {}
    /\ UNCHANGED <<discoveryVars, connVars, id_filter, mio, ready, answer, data, hung, stall>>

Answer(p) ==
    /\ mio # "stuck" /\ p \in (alive \cap Probed) \ hung
    /\ answer[p] = None
    /\ \E id \in Ids : answer' = [answer EXCEPT ![p] = id]
    /\ emitted' = {}
    /\ UNCHANGED <<discoveryVars, connVars, id_filter, mio, ready, alive, data, hung, stall>>

SendData(p) ==
    /\ mio # "stuck" /\ p \in (alive \cap Secs(active_connections)) \ hung
    /\ data' = data \cup {p}
    /\ emitted' = {}
    /\ UNCHANGED <<discoveryVars, connVars, id_filter, mio, ready, alive, answer, hung, stall>>

\* The cable of an open port is pulled: what was not read yet is gone, and a connected port is
\* reported as readable once more.
HangUp(p) ==
    /\ mio # "stuck" /\ p \in (Secs(active_connections) \cup Probed) \ hung
    /\ hung' = hung \cup {p}
    /\ alive' = alive \ {p}
    /\ answer' = [answer EXCEPT ![p] = None]
    /\ data' = data \cup ({p} \cap Secs(active_connections))
    /\ emitted' = {}
    /\ UNCHANGED <<discoveryVars, connVars, id_filter, mio, ready, stall>>
-----------------------------------------------------------------------------
MioStep == Poll \/ mio_event \/ set_id_filter

Next ==
    \/ MioStep \/ send_packet
    \/ Tick \/ \E p \in Ports : Switch(p) \/ Answer(p) \/ SendData(p) \/ HangUp(p)

Spec == Init /\ [][Next]_vars

\* The mio thread is scheduled, time passes, robots answer, and a port that is probed and
\* has answered again and again is opened and accepted without a failure some time.
Fairness ==
    /\ WF_vars(MioStep) /\ WF_vars(Tick)
    /\ \A p \in Watched : /\ SF_vars(Answer(p))
                          /\ SF_vars(Poll /\ p \in Probed')
                          /\ SF_vars(Poll /\ p \in Secs(active_connections'))

FairSpec == Spec /\ Fairness
-----------------------------------------------------------------------------
(* Properties                                                              *)

\* The transceiver keeps the contract the driver is built on (see Transceiver).
KeepsContract == Event!Spec

\* No port is open twice: what is being probed is not connected, nor is a token used for
\* two ports (the filter for new ports in start_discovery, half a second earlier).
OpenOnce ==
    /\ Probed \cap Secs(active_connections) = {}
    /\ \A p \in Probed : active_discovery_ports[p] \notin Prims(active_connections)

\* The cached timeout is never later than a connection's, so that the poll wakes up in
\* time; it is never recomputed on received packets, so it may be earlier (serial.rs:137).
TimeoutCached ==
    /\ next_conn_timeout = None => Prims(active_connections) = {}
    /\ \A t \in Prims(active_connections) : next_conn_timeout <= timeouts[t]

\* Every call of the transceiver returns: the code does not see to it once the cable of a
\* connected port was pulled, and what follows only holds as long as it is so.
CallsReturn == [](mio # "stuck")

\* A robot that is switched off or unplugged is given up in the end, whatever other robots do,
\* unless a port that hung up keeps the mio thread in its read loop (serial.rs:314-334).
SilentLost ==
    CallsReturn =>
      \A p \in Watched : <>[](p \notin alive) => <>[](p \notin Secs(active_connections))

\* A robot that is on and whose answers the filter lets pass is discovered, also after it was
\* lost, under the same condition.
Discovered ==
    CallsReturn =>
      \A p \in Watched :
        <>[](p \in alive /\ answer[p] \notin id_filter) => []<>(p \in Secs(active_connections))
=============================================================================
