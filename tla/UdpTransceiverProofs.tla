------------------------ MODULE UdpTransceiverProofs ------------------------
(***************************************************************************)
(* What holds in every reachable state of UdpTransceiver, for any robots,   *)
(* timeouts and delays that satisfy its assumptions, and that it implements *)
(* the contract of a transceiver.                                           *)
(***************************************************************************)
EXTENDS UdpTransceiver, WellFoundedInduction, TLAPS

Timeouts == UNION {[S -> Past..Timeout] : S \in SUBSET Addrs}

-----------------------------------------------------------------------------
(* Timeouts and their minimum                                              *)

LEMMA Constants ==
    /\ Timeout \in Nat /\ Period \in Nat /\ MaxStall \in Nat /\ MaxGap \in Nat
    /\ Timeout > 0 /\ Period > 0 /\ MaxStall < Period /\ Watched \subseteq Addrs
    /\ None \notin Int /\ Past = -1
  BY TimeAssumption DEF Past

LEMMA TimeoutsAt ==
    ASSUME NEW f \in Timeouts
    PROVE  /\ DOMAIN f \subseteq Addrs /\ f = [a \in DOMAIN f |-> f[a]]
           /\ \A a \in DOMAIN f : f[a] \in Past..Timeout /\ f[a] \in Int /\ -1 <= f[a]
                                  /\ f[a] <= Timeout /\ f[a] # None
<1>1. PICK S \in SUBSET Addrs : f \in [S -> Past..Timeout]
  BY DEF Timeouts
<1> QED BY <1>1, Constants

LEMMA MakeTimeouts ==
    ASSUME NEW S \in SUBSET Addrs, NEW f \in [S -> Past..Timeout]
    PROVE  f \in Timeouts
  BY DEF Timeouts

\* m is the earliest of the timeouts f, or None of none.
EarliestIs(f, m) ==
    \/ DOMAIN f = {} /\ m = None
    \/ /\ \E a \in DOMAIN f : f[a] = m
       /\ \A a \in DOMAIN f : m <= f[a]

\* Timeouts are bounded below, so there is an earliest one.
LEMMA LeastExists ==
    ASSUME NEW S \in SUBSET (Past..Timeout), S # {}
    PROVE  \E x \in S : \A y \in S : x <= y
<1> DEFINE T == {x + 1 : x \in S}
           R == OpToRel(<, Nat)
<1>1. T \subseteq Nat /\ T # {}
  <2>1. \A x \in S : x \in Int /\ x >= -1 /\ x + 1 \in Nat
    BY Constants
  <2> QED BY <2>1
<1>2. IsWellFoundedOn(R, Nat)
  BY NatLessThanWellFounded
<1>3. \A x, y \in Nat : <<y, x>> \in R <=> y < x
  BY DEF OpToRel
<1> HIDE DEF R
<1>4. PICK t \in T : \A u \in T : ~(<<u, t>> \in R)
  BY <1>1, <1>2, WFMin
<1>5. PICK x \in S : t = x + 1
  BY <1>4
<1>6. \A y \in S : x <= y
  <2> SUFFICES ASSUME NEW y \in S PROVE x <= y
    OBVIOUS
  <2>1. y + 1 \in T /\ y + 1 \in Nat /\ t \in Nat
    BY <1>1
  <2>2. ~(y + 1 < t)
    BY <1>3, <1>4, <2>1
  <2> QED BY <1>5, <2>2, Constants
<1> QED BY <1>6

LEMMA EarliestCorrect ==
    ASSUME NEW f \in Timeouts
    PROVE  /\ EarliestIs(f, Earliest(f))
           /\ \A m : EarliestIs(f, m) => m = Earliest(f)
           /\ Earliest(f) \in Past..Timeout \cup {None}
<1>1. CASE DOMAIN f = {}
  BY <1>1 DEF EarliestIs, Earliest
<1>2. CASE DOMAIN f # {}
  <2> DEFINE S == Range(f)
  <2>1. S \in SUBSET (Past..Timeout) /\ S # {}
    BY <1>2, TimeoutsAt DEF Range
  <2>2. PICK x \in S : \A y \in S : x <= y
    BY <2>1, LeastExists
  <2>3. Min(S) \in S /\ \A y \in S : Min(S) <= y
    BY <2>2 DEF Min
  <2>4. Earliest(f) = Min(S)
    BY <1>2 DEF Earliest
  <2>5. EarliestIs(f, Min(S))
    BY <2>3 DEF EarliestIs, Range
  <2>6. ASSUME NEW m, EarliestIs(f, m) PROVE m = Min(S)
    <3>1. m \in S /\ \A y \in S : m <= y
      BY <1>2, <2>6 DEF EarliestIs, Range
    <3>2. m <= Min(S) /\ Min(S) <= m /\ m \in Int /\ Min(S) \in Int
      BY <2>1, <2>3, <3>1, Constants
    <3> QED BY <3>2
  <2> QED BY <2>1, <2>3, <2>4, <2>5, <2>6
<1> QED BY <1>1, <1>2

LEMMA LaterIs ==
    ASSUME NEW t \in Past..Timeout
    PROVE  Later(t) = (IF t = -1 THEN -1 ELSE t - 1) /\ Later(t) \in Past..Timeout
  BY Constants DEF Later

\* A tick does not change which timeout is the earliest.
LEMMA TickKeepsEarliest ==
    ASSUME NEW f \in Timeouts, NEW m, EarliestIs(f, m)
    PROVE  /\ [a \in DOMAIN f |-> Later(f[a])] \in Timeouts
           /\ EarliestIs([a \in DOMAIN f |-> Later(f[a])], Later(m))
<1> DEFINE g == [a \in DOMAIN f |-> Later(f[a])]
<1>1. g \in Timeouts
  <2>1. DOMAIN f \in SUBSET Addrs /\ g \in [DOMAIN f -> Past..Timeout]
    BY TimeoutsAt, LaterIs
  <2> QED BY <2>1, MakeTimeouts
<1>2. EarliestIs(g, Later(m))
  <2>1. CASE DOMAIN f = {} /\ m = None
    BY <2>1 DEF EarliestIs, Later
  <2>2. ASSUME NEW a \in DOMAIN f, f[a] = m, \A b \in DOMAIN f : m <= f[b]
        PROVE  EarliestIs(g, Later(m))
    <3>1. \A b \in DOMAIN f : Later(m) <= g[b]
      BY <2>2, TimeoutsAt, LaterIs, Constants
    <3>2. g[a] = Later(m)
      BY <2>2
    <3> QED BY <3>1, <3>2 DEF EarliestIs
  <2> QED BY <2>1, <2>2 DEF EarliestIs
<1> QED BY <1>1, <1>2

LEMMA LessOfTwo ==
    ASSUME NEW a \in Int, NEW b \in Int
    PROVE  Min({a, b}) <= b
<1>1. \E x \in {a, b} : \A y \in {a, b} : x <= y
  OBVIOUS
<1>2. \A y \in {a, b} : Min({a, b}) <= y
  BY <1>1 DEF Min
<1> QED BY <1>2

-----------------------------------------------------------------------------
(* The inductive invariant                                                 *)

\* A beacon that is overdue keeps the mio thread busy, so it is sent within MaxStall.
BeaconInTime == next_beacon_time <= 0 => 0 <= next_beacon_time + stall

\* What waits in the data socket came after the last poll.
Unpolled == mio = "wait" \/ (mio # "data" /\ "data" \notin ready)

\* A robot that is not late was heard of within MaxGap.  Its timeout is put off when its
\* packet is read, which is no earlier than the packet came in, and at most a stall later.
Punctual ==
    \A a \in Watched : a \notin late =>
        /\ quiet[a] <= MaxGap
        /\ a \in Known /\ a \notin data => Timeout <= connection_timeouts[a] + quiet[a]
        /\ a \in Known /\ a \in data /\ Unpolled =>
             Timeout <= connection_timeouts[a] + MaxGap + stall

IInv == TypeOK /\ TimeoutCached /\ BeaconInTime /\ Punctual

\* The parts of the type invariant.
Timers ==
    /\ connection_timeouts \in Timeouts
    /\ next_conn_timeout \in Past..Timeout \cup {None}
    /\ next_beacon_time \in -MaxStall..Period
Places ==
    /\ id_filter \subseteq Ids
    /\ mio \in {"wait", "events", "discovery", "data"}
    /\ ready \subseteq {"discovery", "data"}
    /\ discovery \subseteq [addr : Addrs, id : Ids] /\ data \subseteq Addrs
Robots ==
    /\ alive \subseteq Addrs /\ asked \subseteq Addrs /\ late \subseteq Watched
    /\ quiet \in [Watched -> 0..MaxGap + 1]
    /\ stall \in 0..MaxStall

LEMMA TypeParts ==
    /\ TypeOK <=> Timers /\ Places /\ Robots
    /\ TypeOK' <=> Timers' /\ Places' /\ Robots'
  BY Zenon DEF TypeOK, Timers, Places, Robots, Timeouts

LEMMA Numbers ==
    ASSUME TypeOK
    PROVE  /\ next_beacon_time \in Int /\ -MaxStall <= next_beacon_time
           /\ next_beacon_time <= Period
           /\ stall \in Nat /\ stall <= MaxStall
           /\ quiet = [a \in Watched |-> quiet[a]]
           /\ \A a \in Watched : quiet[a] \in Nat /\ quiet[a] <= MaxGap + 1
           /\ connection_timeouts \in Timeouts /\ Known \subseteq Addrs
           /\ \A a \in Known : connection_timeouts[a] \in Int /\ connection_timeouts[a] >= -1
<1>1. connection_timeouts \in Timeouts /\ Robots /\ next_beacon_time \in -MaxStall..Period
  BY TypeParts DEF Timers
<1> QED BY <1>1, Constants, TimeoutsAt DEF Robots, Known

LEMMA InitIInv == Init => IInv
<1> SUFFICES ASSUME Init PROVE IInv
  OBVIOUS
<1>1. connection_timeouts \in Timeouts /\ DOMAIN connection_timeouts = {}
  <2>1. connection_timeouts \in [{} -> Past..Timeout]
    BY DEF Init
  <2> QED BY <2>1, MakeTimeouts
<1>2. Timers /\ Places /\ Robots
  BY <1>1, Constants DEF Init, Timers, Places, Robots
<1>3. TimeoutCached
  BY <1>1 DEF Init, TimeoutCached, Earliest
<1>4. BeaconInTime /\ Punctual
  BY <1>1, Constants DEF Init, BeaconInTime, Punctual, Known
<1> QED BY <1>2, <1>3, <1>4, TypeParts DEF IInv

-----------------------------------------------------------------------------
(* Its steps                                                               *)

\* A robot's timeout is put off.
LEMMA SetTimeoutKeeps ==
    ASSUME TypeOK, NEW addr \in Addrs, SetTimeout(addr)
    PROVE  /\ connection_timeouts' \in Timeouts /\ Known' = Known \cup {addr}
           /\ connection_timeouts'[addr] = Timeout
           /\ \A a \in Known : a # addr => connection_timeouts'[a] = connection_timeouts[a]
<1>1. Known \subseteq Addrs /\ \A a \in Known : connection_timeouts[a] \in Past..Timeout
  BY TypeParts, TimeoutsAt DEF Timers, Known
<1>2. connection_timeouts' \in [Known \cup {addr} -> Past..Timeout]
  BY <1>1, Constants DEF SetTimeout
<1>3. connection_timeouts' \in Timeouts
  BY <1>1, <1>2, MakeTimeouts
<1> QED BY <1>2, <1>3 DEF SetTimeout, Known

\* What the parts of IInv that are about time need of a step that takes no time.
LEMMA NoTimePasses ==
    ASSUME IInv, UNCHANGED <<next_beacon_time, stall, quiet, late>>,
           \A a \in Known' : \/ connection_timeouts'[a] = Timeout
                             \/ a \in Known /\ connection_timeouts'[a] = connection_timeouts[a],
           \A a \in Known' : a \in data => a \in data' \/ connection_timeouts'[a] = Timeout,
           \A a \in Addrs : a \in data' => a \in data,
           Unpolled' => Unpolled \/ data' = {}
    PROVE  BeaconInTime' /\ Punctual'
<1>1. BeaconInTime'
  BY DEF IInv, BeaconInTime
<1>2. ASSUME NEW a \in Watched, a \notin late
      PROVE  /\ quiet[a] <= MaxGap
             /\ a \in Known' /\ a \notin data' => Timeout <= connection_timeouts'[a] + quiet[a]
             /\ a \in Known' /\ a \in data' /\ Unpolled' =>
                  Timeout <= connection_timeouts'[a] + MaxGap + stall
  <2>1. quiet[a] \in Nat /\ stall \in Nat /\ quiet[a] <= MaxGap /\ a \in Addrs
    BY <1>2, Numbers, Constants DEF IInv, Punctual
  <2>2. CASE a \in Known' /\ connection_timeouts'[a] = Timeout
    BY <2>1, <2>2, Constants
  <2>3. CASE a \in Known' /\ connection_timeouts'[a] # Timeout
    <3>1. /\ a \in Known /\ connection_timeouts'[a] = connection_timeouts[a]
          /\ a \in data' <=> a \in data
      BY <2>1, <2>3
    <3> QED BY <1>2, <2>1, <3>1 DEF IInv, Punctual
  <2> QED BY <2>1, <2>2, <2>3
<1> QED BY <1>1, <1>2 DEF Punctual

LEMMA PollStep == IInv /\ Poll => IInv' /\ (MaxGap + MaxStall <= Timeout =>
                                              (Known \ Known') \cap Watched \subseteq late)
<1> SUFFICES ASSUME IInv, Poll
             PROVE  IInv' /\ (MaxGap + MaxStall <= Timeout =>
                                (Known \ Known') \cap Watched \subseteq late)
  OBVIOUS
<1> DEFINE due == next_conn_timeout # None /\ next_conn_timeout < 0
           expired == {a \in Known : due /\ connection_timeouts[a] < 0}
<1>1. /\ mio = "wait" /\ mio' = "events" /\ stall' = 0
      /\ UNCHANGED <<id_filter, discovery, data, alive>>
      /\ ready' = {s \in {"discovery"} : discovery # {}} \cup {s \in {"data"} : data # {}}
      /\ connection_timeouts' = Restrict(connection_timeouts, Known \ expired)
      /\ next_conn_timeout' = IF due THEN Earliest(connection_timeouts') ELSE next_conn_timeout
      /\ Beacon
      /\ quiet' = [a \in Watched |-> IF a \in expired THEN 0 ELSE quiet[a]]
      /\ late' = late \ expired
  BY Zenon DEF Poll, mio_timeout, NextConn
<1>2. TypeOK /\ connection_timeouts \in Timeouts
  BY Numbers DEF IInv
<1>3. /\ connection_timeouts' \in Timeouts /\ Known' = Known \ expired
      /\ \A a \in Known' : connection_timeouts'[a] = connection_timeouts[a]
  <2>1. connection_timeouts' \in [Known \ expired -> Past..Timeout]
    BY <1>1, <1>2, TimeoutsAt DEF Restrict, Known
  <2>2. connection_timeouts' \in Timeouts
    BY <1>2, <2>1, MakeTimeouts, TimeoutsAt DEF Known
  <2> QED BY <1>1, <2>1, <2>2 DEF Restrict, Known
<1> HIDE DEF expired
<1>4. TimeoutCached' /\ Timers'
  <2>1. next_conn_timeout' = Earliest(connection_timeouts')
    <3>1. CASE due
      BY <1>1, <3>1
    <3>2. CASE ~due
      <4>1. connection_timeouts' = connection_timeouts
        BY <1>1, <1>2, <3>2, TimeoutsAt DEF expired, Restrict, Known
      <4> QED BY <1>1, <3>2, <4>1 DEF IInv, TimeoutCached
    <3> QED BY <3>1, <3>2
  <2>2. next_beacon_time' \in -MaxStall..Period
    BY <1>1, <1>2, Numbers, Constants DEF Beacon, BeaconDue, NextBeacon
  <2> QED BY <1>3, <2>1, <2>2, EarliestCorrect DEF TimeoutCached, Timers
<1>5. BeaconInTime'
  <2>1. next_beacon_time' > 0
    BY <1>1, <1>2, Numbers, Constants DEF Beacon, BeaconDue, NextBeacon
  <2> QED BY <1>4, <2>1, Constants DEF BeaconInTime, Timers
<1>6. Places'
  BY <1>1, <1>2, TypeParts DEF Places
<1>7. Robots'
  <2>1. asked' \subseteq Addrs /\ alive' \subseteq Addrs /\ late' \subseteq Watched
    BY <1>1, <1>2, TypeParts DEF Beacon, Robots
  <2>2. quiet' \in [Watched -> 0..MaxGap + 1]
    BY <1>1, <1>2, TypeParts, Constants DEF Robots
  <2> QED BY <1>1, <2>1, <2>2, Constants DEF Robots
<1>8. Punctual'
  <2> SUFFICES ASSUME NEW a \in Watched, a \notin late'
               PROVE  /\ quiet'[a] <= MaxGap
                      /\ a \in Known' /\ a \notin data' =>
                           Timeout <= connection_timeouts'[a] + quiet'[a]
                      /\ ~(a \in data' /\ Unpolled')
    BY DEF Punctual
  <2>1. ~(a \in data' /\ Unpolled')
    BY <1>1 DEF Unpolled
  <2>2. CASE a \in expired
    BY <1>1, <1>3, <2>1, <2>2, Constants
  <2>3. CASE a \notin expired
    <3>1. a \notin late /\ quiet'[a] = quiet[a]
      BY <1>1, <2>3
    <3> QED BY <1>1, <1>3, <2>1, <3>1 DEF IInv, Punctual
  <2> QED BY <2>2, <2>3
<1>9. ASSUME MaxGap + MaxStall <= Timeout, NEW a \in Known \cap Watched, a \notin Known',
             a \notin late
      PROVE  FALSE
  <2>1. connection_timeouts[a] < 0 /\ connection_timeouts[a] \in Int
    BY <1>2, <1>3, <1>9, Numbers DEF expired
  <2>2. \/ Timeout <= connection_timeouts[a] + quiet[a]
        \/ Timeout <= connection_timeouts[a] + MaxGap + stall
    BY <1>1, <1>9 DEF IInv, Punctual, Unpolled
  <2>3. quiet[a] \in Nat /\ quiet[a] <= MaxGap /\ stall \in Nat /\ stall <= MaxStall
    BY <1>2, <1>9, Numbers DEF IInv, Punctual
  <2> QED BY <1>9, <2>1, <2>2, <2>3, Constants
<1> QED BY <1>4, <1>5, <1>6, <1>7, <1>8, <1>9, TypeParts DEF IInv

LEMMA BeginHandlerStep == IInv /\ BeginHandler => IInv'
<1> SUFFICES ASSUME IInv, BeginHandler PROVE IInv'
  OBVIOUS
<1>1. /\ mio = "events" /\ mio' \in ready /\ ready' = ready \ {mio'}
      /\ UNCHANGED <<timers, id_filter, discovery, data, robots, stall>>
  BY DEF BeginHandler
<1>2. Timers' /\ Places' /\ Robots' /\ mio' \in {"discovery", "data"}
  BY <1>1, TypeParts DEF IInv, Timers, Places, Robots, timers, robots
<1>3. TimeoutCached'
  BY <1>2 DEF TimeoutCached
<1>4. BeaconInTime' /\ Punctual'
  BY <1>1, <1>2, NoTimePasses DEF timers, robots, Known, Unpolled
<1> QED BY <1>2, <1>3, <1>4, TypeParts DEF IInv

LEMMA DiscoveryStep == IInv /\ receive_discovery_packet => IInv'
<1> SUFFICES ASSUME IInv, receive_discovery_packet PROVE IInv'
  OBVIOUS
<1>1. PICK packet \in discovery :
        /\ mio = "discovery" /\ discovery' = discovery \ {packet}
        /\ SetTimeout(packet.addr) \/ UNCHANGED connection_timeouts
  BY DEF receive_discovery_packet
<1>2. UNCHANGED <<next_conn_timeout, next_beacon_time, id_filter, mio, ready, data, robots, stall>>
  BY DEF receive_discovery_packet
<1>3. TypeOK /\ packet.addr \in Addrs
  BY TypeParts DEF IInv, Places
<1>4. /\ connection_timeouts' \in Timeouts
      /\ \A a \in Known' : \/ connection_timeouts'[a] = Timeout
                           \/ a \in Known /\ connection_timeouts'[a] = connection_timeouts[a]
  BY <1>1, <1>3, SetTimeoutKeeps, Numbers DEF Known
<1>5. Timers' /\ Places' /\ Robots'
  BY <1>1, <1>2, <1>4, TypeParts DEF IInv, Timers, Places, Robots, robots
<1>6. TimeoutCached'
  BY <1>1, <1>2 DEF TimeoutCached
<1>7. BeaconInTime' /\ Punctual'
  BY <1>2, <1>4, NoTimePasses DEF robots, Unpolled
<1> QED BY <1>5, <1>6, <1>7, TypeParts DEF IInv

LEMMA DataStep == IInv /\ receive_data_packet => IInv'
<1> SUFFICES ASSUME IInv, receive_data_packet PROVE IInv'
  OBVIOUS
<1>1. PICK addr \in data :
        /\ mio = "data" /\ data' = data \ {addr}
        /\ \/ addr \in Known /\ SetTimeout(addr)
           \/ addr \notin Known /\ UNCHANGED connection_timeouts
  BY DEF receive_data_packet, RefreshTimeout
<1>2. UNCHANGED <<next_conn_timeout, next_beacon_time, id_filter, mio, ready, discovery, robots,
                  stall>>
  BY DEF receive_data_packet
<1>3. TypeOK /\ addr \in Addrs
  BY TypeParts DEF IInv, Places
<1>4. /\ connection_timeouts' \in Timeouts
      /\ \A a \in Known' : \/ connection_timeouts'[a] = Timeout
                           \/ /\ a \in Known /\ connection_timeouts'[a] = connection_timeouts[a]
                              /\ a # addr
  BY <1>1, <1>3, SetTimeoutKeeps, Numbers DEF Known
<1>5. Timers' /\ Places' /\ Robots'
  BY <1>1, <1>2, <1>4, TypeParts DEF IInv, Timers, Places, Robots, robots
<1>6. TimeoutCached'
  BY <1>1, <1>2 DEF TimeoutCached
<1>7. BeaconInTime' /\ Punctual'
  BY <1>1, <1>2, <1>4, NoTimePasses DEF robots, Unpolled
<1> QED BY <1>5, <1>6, <1>7, TypeParts DEF IInv

LEMMA WouldBlockStep == IInv /\ WouldBlock => IInv'
<1> SUFFICES ASSUME IInv, WouldBlock PROVE IInv'
  OBVIOUS
<1>1. /\ mio = "discovery" \/ (mio = "data" /\ data = {})
      /\ mio' = "events" /\ next_conn_timeout' = Earliest(connection_timeouts)
      /\ UNCHANGED <<connection_timeouts, next_beacon_time, id_filter, ready, discovery, data,
                     robots, stall>>
  BY DEF WouldBlock, Cached
<1>2. connection_timeouts \in Timeouts
  BY Numbers DEF IInv
<1>3. Timers' /\ Places' /\ Robots'
  BY <1>1, <1>2, EarliestCorrect, TypeParts DEF IInv, Timers, Places, Robots, robots
<1>4. TimeoutCached'
  BY <1>1 DEF TimeoutCached
<1>5. BeaconInTime' /\ Punctual'
  BY <1>1, NoTimePasses DEF robots, Known, Unpolled
<1> QED BY <1>3, <1>4, <1>5, TypeParts DEF IInv

LEMMA DriverStep == IInv /\ (ReceiveFails \/ send_packet \/ set_id_filter) => IInv'
<1> SUFFICES ASSUME IInv, ReceiveFails \/ send_packet \/ set_id_filter PROVE IInv'
  OBVIOUS
<1>1. /\ UNCHANGED <<timers, ready, discovery, data, robots, stall>>
      /\ id_filter' = id_filter \/ id_filter' \in SUBSET Ids
      /\ mio' = mio \/ (mio = "events" /\ ready = {} /\ mio' = "wait")
  BY DEF ReceiveFails, send_packet, set_id_filter
<1>2. Timers' /\ Places' /\ Robots'
  BY <1>1, TypeParts DEF IInv, Timers, Places, Robots, timers, robots
<1>3. TimeoutCached'
  BY <1>1 DEF IInv, TimeoutCached, timers
<1>4. BeaconInTime' /\ Punctual'
  BY <1>1, NoTimePasses DEF timers, robots, Known, Unpolled
<1> QED BY <1>2, <1>3, <1>4, TypeParts DEF IInv

LEMMA RobotStep == ASSUME IInv, NEW a \in Addrs, Switch(a) \/ Answer(a) PROVE IInv'
<1>1. /\ UNCHANGED <<timers, id_filter, mio, ready, data, quiet, late, stall>>
      /\ alive' \subseteq Addrs /\ asked' \subseteq Addrs
      /\ discovery' \subseteq [addr : Addrs, id : Ids]
  BY TypeParts DEF IInv, Robots, Places, Switch, Answer
<1>2. Timers' /\ Places' /\ Robots'
  BY <1>1, TypeParts DEF IInv, Timers, Places, Robots, timers
<1>3. TimeoutCached'
  BY <1>1 DEF IInv, TimeoutCached, timers
<1>4. BeaconInTime' /\ Punctual'
  BY <1>1, NoTimePasses DEF timers, Known, Unpolled
<1> QED BY <1>2, <1>3, <1>4, TypeParts DEF IInv

LEMMA SendDataStep == ASSUME IInv, NEW b \in Addrs, SendData(b) PROVE IInv'
<1>1. /\ UNCHANGED <<timers, id_filter, mio, ready, discovery, alive, asked, late, stall>>
      /\ data' = data \cup {b}
      /\ quiet' = IF b \in late THEN quiet ELSE [quiet EXCEPT ![b] = 0]
  BY DEF SendData
<1>2. \A a \in Watched : quiet'[a] = IF a = b /\ b \notin late THEN 0 ELSE quiet[a]
  BY <1>1, Numbers DEF IInv
<1>3. Robots'
  <2>1. quiet \in [Watched -> 0..MaxGap + 1] /\ 0 \in 0..MaxGap + 1
    BY TypeParts, Constants DEF IInv, Robots
  <2>2. [quiet EXCEPT ![b] = 0] \in [Watched -> 0..MaxGap + 1]
    BY <2>1
  <2>3. quiet' \in [Watched -> 0..MaxGap + 1]
    BY <1>1, <2>1, <2>2
  <2> QED BY <1>1, <2>3, TypeParts DEF IInv, Robots
<1>4. Timers' /\ Places'
  BY <1>1, TypeParts DEF IInv, Timers, Places, timers
<1>5. TimeoutCached' /\ BeaconInTime'
  BY <1>1 DEF IInv, TimeoutCached, BeaconInTime, timers
<1>6. Punctual'
  <2> SUFFICES ASSUME NEW a \in Watched, a \notin late
               PROVE  /\ quiet'[a] <= MaxGap
                      /\ a \in Known /\ a \notin data' =>
                           Timeout <= connection_timeouts[a] + quiet'[a]
                      /\ a \in Known /\ a \in data' /\ Unpolled =>
                           Timeout <= connection_timeouts[a] + MaxGap + stall
    BY <1>1 DEF Punctual, Known, Unpolled, timers
  <2>1. /\ quiet[a] \in Nat /\ quiet[a] <= MaxGap /\ stall \in Nat
        /\ a \in Known => connection_timeouts[a] \in Int
    BY Numbers DEF IInv, Punctual
  <2>2. CASE a = b
    BY <1>1, <1>2, <2>1, <2>2, Constants DEF IInv, Punctual
  <2>3. CASE a # b
    BY <1>1, <1>2, <2>1, <2>3 DEF IInv, Punctual
  <2> QED BY <2>2, <2>3
<1> QED BY <1>3, <1>4, <1>5, <1>6, TypeParts DEF IInv

LEMMA TickStep == IInv /\ Tick => IInv'
<1> SUFFICES ASSUME IInv, Tick PROVE IInv'
  OBVIOUS
<1>1. /\ Busy => stall < MaxStall
      /\ stall' = IF Busy THEN stall + 1 ELSE 0
      /\ connection_timeouts' = [a \in Known |-> Later(connection_timeouts[a])]
      /\ next_conn_timeout' = Later(next_conn_timeout)
      /\ next_beacon_time' = next_beacon_time - 1
      /\ quiet' = [a \in Watched |-> IF a \in Known /\ quiet[a] <= MaxGap
                                     THEN quiet[a] + 1 ELSE quiet[a]]
      /\ late' = {a \in Watched : a \in late \/ quiet'[a] > MaxGap}
      /\ UNCHANGED <<id_filter, mio, ready, discovery, data, alive, asked>>
  BY DEF Tick
<1>2. TypeOK /\ connection_timeouts \in Timeouts /\ Known \subseteq Addrs
  BY Numbers DEF IInv
<1>3. next_beacon_time <= 0 => Busy
  <2> SUFFICES ASSUME next_beacon_time <= 0 PROVE next_timeout <= 0
    BY DEF Busy
  <2>1. CASE next_conn_timeout = None
    BY <2>1 DEF next_timeout
  <2>2. CASE next_conn_timeout # None
    <3>1. next_conn_timeout \in Int /\ next_beacon_time \in Int
      BY <1>2, <2>2, TypeParts, Numbers, Constants DEF Timers
    <3>2. Min({next_conn_timeout, next_beacon_time}) <= next_beacon_time
      BY <3>1, LessOfTwo
    <3>3. Min({next_conn_timeout, next_beacon_time}) \in {next_conn_timeout, next_beacon_time}
      <4>1. \E x \in {next_conn_timeout, next_beacon_time} :
              \A y \in {next_conn_timeout, next_beacon_time} : x <= y
        BY <3>1
      <4> QED BY <4>1 DEF Min
    <3> QED BY <2>2, <3>1, <3>2, <3>3 DEF next_timeout
  <2> QED BY <2>1, <2>2
<1>4. stall' \in 0..MaxStall
  <2>1. stall \in Nat
    BY <1>2, Numbers
  <2> HIDE DEF Busy
  <2> QED BY <1>1, <2>1, Constants
<1>5. BeaconInTime' /\ next_beacon_time' \in -MaxStall..Period
  <2>1. /\ next_beacon_time \in Int /\ -MaxStall <= next_beacon_time
        /\ next_beacon_time <= Period /\ stall \in Nat
    BY <1>2, Numbers
  <2>2. CASE next_beacon_time <= 0
    BY <1>1, <1>3, <2>1, <2>2, Constants DEF IInv, BeaconInTime
  <2>3. CASE next_beacon_time > 0
    BY <1>1, <1>4, <2>1, <2>3, Constants DEF BeaconInTime
  <2> QED BY <2>1, <2>2, <2>3
<1>6. connection_timeouts' \in Timeouts
  BY <1>1, <1>2, EarliestCorrect, TickKeepsEarliest DEF Known
<1>7. next_conn_timeout' \in Past..Timeout \cup {None}
  <2>1. next_conn_timeout \in Past..Timeout \cup {None}
    BY <1>2, TypeParts DEF Timers
  <2> QED BY <1>1, <2>1, LaterIs DEF Later
<1>8. TimeoutCached'
  <2> SUFFICES ASSUME mio \in {"wait", "events"}
               PROVE  next_conn_timeout' = Earliest(connection_timeouts')
    BY <1>1 DEF TimeoutCached
  <2>1. EarliestIs(connection_timeouts, next_conn_timeout)
    BY <1>2, EarliestCorrect DEF IInv, TimeoutCached
  <2>2. EarliestIs(connection_timeouts', next_conn_timeout')
    BY <1>1, <1>2, <2>1, TickKeepsEarliest DEF Known
  <2> QED BY <1>6, <2>2, EarliestCorrect
<1>9. \A a \in Watched : quiet'[a] \in 0..MaxGap + 1
  BY <1>1, <1>2, Numbers, Constants
<1>10. Timers' /\ Places' /\ Robots'
  <2>1. Robots'
    BY <1>1, <1>2, <1>4, <1>9, TypeParts DEF Robots
  <2> QED BY <1>1, <1>2, <1>5, <1>6, <1>7, <2>1, TypeParts DEF Timers, Places
<1>11. Punctual'
  <2> SUFFICES ASSUME NEW a \in Watched, a \notin late'
               PROVE  /\ quiet'[a] <= MaxGap
                      /\ a \in Known' /\ a \notin data' =>
                           Timeout <= connection_timeouts'[a] + quiet'[a]
                      /\ a \in Known' /\ a \in data' /\ Unpolled' =>
                           Timeout <= connection_timeouts'[a] + MaxGap + stall'
    BY DEF Punctual
  <2>1. quiet'[a] <= MaxGap /\ quiet'[a] \in Nat /\ a \notin late
    BY <1>1, <1>9, Constants
  <2>2. CASE a \in Known
    <3>1. quiet'[a] = quiet[a] + 1 /\ quiet[a] \in Nat
      BY <1>1, <1>2, <2>1, <2>2, Numbers DEF IInv, Punctual
    <3>2. /\ connection_timeouts[a] \in Past..Timeout /\ connection_timeouts[a] \in Int
          /\ connection_timeouts'[a] = Later(connection_timeouts[a])
      BY <1>1, <1>2, <2>2, TimeoutsAt DEF Known
    <3>3. connection_timeouts'[a] \in Int /\ connection_timeouts[a] - 1 <= connection_timeouts'[a]
      BY <3>2, LaterIs
    <3>4. ASSUME a \notin data' PROVE Timeout <= connection_timeouts'[a] + quiet'[a]
      <4>1. Timeout <= connection_timeouts[a] + quiet[a]
        BY <1>1, <2>1, <2>2, <3>4 DEF IInv, Punctual
      <4> QED BY <3>1, <3>2, <3>3, <4>1, Constants
    <3>5. ASSUME a \in data', Unpolled'
          PROVE  Timeout <= connection_timeouts'[a] + MaxGap + stall'
      <4>1. Timeout <= connection_timeouts[a] + MaxGap + stall
        BY <1>1, <2>1, <2>2, <3>5 DEF IInv, Punctual, Unpolled
      <4>2. stall' = stall + 1 /\ stall \in Nat
        BY <1>1, <1>2, <3>5, Numbers DEF Busy
      <4> QED BY <3>2, <3>3, <4>1, <4>2, Constants
    <3> QED BY <2>1, <3>4, <3>5
  <2>3. CASE a \notin Known
    BY <1>1, <2>1, <2>3 DEF Known
  <2> QED BY <2>2, <2>3
<1> QED BY <1>5, <1>8, <1>10, <1>11, TypeParts DEF IInv

LEMMA StutterStep == IInv /\ UNCHANGED vars => IInv'
  BY DEF IInv, TypeOK, TimeoutCached, BeaconInTime, Punctual, Unpolled, Known, vars, timers, robots

LEMMA NextKeeps == IInv /\ [Next]_vars => IInv'
<1> SUFFICES ASSUME IInv, [Next]_vars PROVE IInv'
  OBVIOUS
<1>1. CASE MioStep
  BY <1>1, PollStep, BeginHandlerStep, DiscoveryStep, DataStep, WouldBlockStep, DriverStep
     DEF MioStep
<1>2. CASE ReceiveFails \/ send_packet
  BY <1>2, DriverStep
<1>3. CASE Tick
  BY <1>3, TickStep
<1>4. ASSUME NEW a \in Addrs, Switch(a) \/ Answer(a) \/ SendData(a) PROVE IInv'
  BY <1>4, RobotStep, SendDataStep
<1>5. CASE UNCHANGED vars
  BY <1>5, StutterStep
<1> QED BY <1>1, <1>2, <1>3, <1>4, <1>5 DEF Next

\* The invariant holds in every state of every behaviour of udp.rs as modelled.
THEOREM IInvHolds == Spec => []IInv
  BY InitIInv, NextKeeps, PTL DEF Spec

\* Every timer stays within its bounds: a timeout is at most connection_timeout away, and a
\* beacon is late by at most the time between two polls (udp.rs:161-198).
THEOREM UdpTypeCorrect == Spec => []TypeOK
<1>1. IInv => TypeOK
  BY DEF IInv
<1> QED BY <1>1, IInvHolds, PTL

\* The cached timeout is the earliest of the connections' whenever no handler runs, for any
\* number of robots (udp.rs:166 and 198).
THEOREM TimeoutAlwaysCached == Spec => []TimeoutCached
<1>1. IInv => TimeoutCached
  BY DEF IInv
<1> QED BY <1>1, IInvHolds, PTL

-----------------------------------------------------------------------------
(* Connections are kept and announced                                      *)

\* Only mio_timeout ends a connection.
LEMMA OthersKeepKnown ==
    ASSUME IInv, [Next]_vars, ~Poll
    PROVE  Known \subseteq Known'
<1>1. CASE receive_discovery_packet
  BY <1>1 DEF receive_discovery_packet, SetTimeout, Known
<1>2. CASE receive_data_packet
  BY <1>2 DEF receive_data_packet, RefreshTimeout, SetTimeout, Known
<1>3. CASE Tick
  BY <1>3 DEF Tick, Known
<1>4. CASE UNCHANGED connection_timeouts
  BY <1>4 DEF Known
<1> QED
  BY <1>1, <1>2, <1>3, <1>4
     DEF Next, MioStep, BeginHandler, WouldBlock, set_id_filter, ReceiveFails, send_packet,
         Switch, Answer, SendData, vars, timers

\* A robot that never is quiet for longer than MaxGap is never given up, whatever the order
\* in which timeouts and packets are handled, if MaxGap and the longest time between two
\* polls are within connection_timeout (udp.rs:161-198).
THEOREM PunctualAlwaysStays == Spec => PunctualStays
<1>1. IInv /\ [Next]_vars =>
        [MaxGap + MaxStall <= Timeout => (Known \ Known') \cap Watched \subseteq late]_vars
  BY PollStep, OthersKeepKnown
<1> QED BY <1>1, IInvHolds, PTL DEF Spec, PunctualStays

\* Steps that neither begin nor end a connection change nothing of the contract.
LEMMA QuietStep ==
    ASSUME Known' = Known, UNCHANGED id_filter, emitted' \subseteq {Event!Failure}
    PROVE  Event!Change
<1> DEFINE id == [a \in {} |-> a]
<1>1. id \in [Known' \ Known -> Ids \ id_filter]
  OBVIOUS
<1>2. emitted' \ {Event!Failure} = {Event!Lost(addr) : addr \in Known \ Known'}
                  \cup {Event!Connected(addr, id[addr]) : addr \in Known' \ Known}
  OBVIOUS
<1> HIDE DEF id
<1> QED BY <1>1, <1>2 DEF Event!Change, Known

LEMMA PollEvents == ASSUME IInv, Poll PROVE Event!Change
<1> DEFINE due == next_conn_timeout # None /\ next_conn_timeout < 0
           expired == {a \in Known : due /\ connection_timeouts[a] < 0}
           id == [a \in {} |-> a]
<1>1. /\ connection_timeouts' = Restrict(connection_timeouts, Known \ expired)
      /\ UNCHANGED id_filter
      /\ \E failures \in {{}, {Event!Failure}} :
           emitted' = {Event!Lost(a) : a \in expired} \cup failures
  BY DEF Poll, mio_timeout
<1> HIDE DEF expired
<1>2. expired \subseteq Known
  BY DEF expired
<1>3. Known' = Known \ expired
  BY <1>1 DEF Restrict, Known
<1>4. Known \ Known' = expired /\ Known' \ Known = {}
  BY <1>2, <1>3
<1>5. id \in [Known' \ Known -> Ids \ id_filter]
  BY <1>4
<1>6. \A a \in expired : Event!Lost(a) # Event!Failure
  BY DEF Event!Lost, Event!Failure
<1>7. emitted' \ {Event!Failure} = {Event!Lost(a) : a \in expired}
  BY <1>1, <1>6
<1>8. emitted' \ {Event!Failure} = {Event!Lost(addr) : addr \in Known \ Known'}
                  \cup {Event!Connected(addr, id[addr]) : addr \in Known' \ Known}
  BY <1>4, <1>7
<1> HIDE DEF id
<1> QED BY <1>1, <1>5, <1>8 DEF Event!Change, Known

LEMMA DiscoveryEvents == ASSUME IInv, receive_discovery_packet PROVE Event!Change
<1>1. PICK packet \in discovery :
        \/ /\ Accept(packet) /\ SetTimeout(packet.addr)
           /\ emitted' = {Event!Connected(packet.addr, packet.id)}
        \/ emitted' = {} /\ UNCHANGED connection_timeouts
  BY DEF receive_discovery_packet
<1>2. UNCHANGED id_filter
  BY DEF receive_discovery_packet
<1>3. CASE emitted' = {} /\ UNCHANGED connection_timeouts
  BY <1>2, <1>3, QuietStep DEF Known
<1>4. CASE /\ Accept(packet) /\ SetTimeout(packet.addr)
           /\ emitted' = {Event!Connected(packet.addr, packet.id)}
  <2> DEFINE id == [a \in {packet.addr} |-> packet.id]
  <2>1. packet.addr \in Addrs /\ packet.id \in Ids /\ packet.id \notin id_filter
        /\ packet.addr \notin Known
    BY <1>4, TypeParts DEF IInv, Places, Accept
  <2>2. Known' = Known \cup {packet.addr}
    BY <1>4 DEF SetTimeout, Known
  <2>3. Known' \ Known = {packet.addr} /\ Known \ Known' = {}
    BY <2>1, <2>2
  <2>4. id \in [Known' \ Known -> Ids \ id_filter]
    BY <2>1, <2>3
  <2>5. Event!Connected(packet.addr, packet.id) # Event!Failure
    BY DEF Event!Connected, Event!Failure
  <2>6. emitted' \ {Event!Failure} = {Event!Lost(addr) : addr \in Known \ Known'}
                  \cup {Event!Connected(addr, id[addr]) : addr \in Known' \ Known}
    BY <1>4, <2>3, <2>5
  <2> HIDE DEF id
  <2> QED BY <1>2, <2>4, <2>6 DEF Event!Change, Known
<1> QED BY <1>1, <1>3, <1>4

LEMMA DataEvents == ASSUME IInv, receive_data_packet PROVE Event!Next
<1>1. PICK addr \in data :
        \/ /\ addr \in Known /\ SetTimeout(addr)
           /\ emitted' = {Event!Arrived(addr)}
        \/ emitted' = {} /\ UNCHANGED connection_timeouts
  BY DEF receive_data_packet, RefreshTimeout
<1>2. UNCHANGED id_filter
  BY DEF receive_data_packet
<1>3. CASE emitted' = {} /\ UNCHANGED connection_timeouts
  BY <1>2, <1>3, QuietStep DEF Event!Next, Known
<1>4. CASE /\ addr \in Known /\ SetTimeout(addr)
           /\ emitted' = {Event!Arrived(addr)}
  <2>1. Known' = Known
    BY <1>4 DEF SetTimeout, Known
  <2>2. Event!Arrived(addr) # Event!Failure
    BY DEF Event!Arrived, Event!Failure
  <2>3. Event!Receive
    BY <1>2, <1>4, <2>1, <2>2 DEF Event!Receive, Known
  <2> QED BY <2>3 DEF Event!Next
<1> QED BY <1>1, <1>3, <1>4

LEMMA FilterEvents == ASSUME set_id_filter PROVE Event!SetFilter
  BY DEF set_id_filter, Event!SetFilter, timers, Known

LEMMA NextEvents == IInv /\ [Next]_vars => [Event!Next]_(Event!vars)
<1> SUFFICES ASSUME IInv, [Next]_vars PROVE [Event!Next]_(Event!vars)
  OBVIOUS
<1>1. CASE Poll
  BY <1>1, PollEvents DEF Event!Next
<1>2. CASE receive_discovery_packet
  BY <1>2, DiscoveryEvents DEF Event!Next
<1>3. CASE receive_data_packet
  BY <1>3, DataEvents
<1>4. CASE set_id_filter
  BY <1>4, FilterEvents DEF Event!Next
<1>5. CASE /\ emitted' \subseteq {Event!Failure} /\ UNCHANGED id_filter
           /\ UNCHANGED connection_timeouts \/ Known' = Known
  BY <1>5, QuietStep DEF Event!Next, Known
<1>6. CASE UNCHANGED vars
  BY <1>6 DEF vars, timers, Event!vars
<1>7. Tick => Known' = Known /\ emitted' = {} /\ UNCHANGED id_filter
  BY DEF Tick, Known
<1> QED
  BY <1>1, <1>2, <1>3, <1>4, <1>5, <1>6, <1>7
     DEF Next, MioStep, BeginHandler, WouldBlock, ReceiveFails, send_packet, Switch, Answer,
         SendData, timers

\* To the driver the transceiver is the contract of transceivers/mod.rs: an address connects
\* once, under an id the filter lets pass, and every connection given up is announced
\* (udp.rs:161-425).
THEOREM UdpKeepsContract == Spec => KeepsContract
<1>1. Init => Event!Init
  BY DEF Init, Event!Init
<1> QED BY <1>1, NextEvents, IInvHolds, PTL DEF Spec, KeepsContract, Event!Spec

=============================================================================
