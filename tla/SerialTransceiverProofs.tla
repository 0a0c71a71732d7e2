----------------------- MODULE SerialTransceiverProofs -----------------------
(***************************************************************************)
(* What holds in every reachable state of SerialTransceiver, for any ports, *)
(* robots, timeouts and delays, and that it implements the contract of a    *)
(* transceiver.                                                             *)
(***************************************************************************)
EXTENDS SerialTransceiver, DualMapProofs, FiniteSetTheorems, TLAPS

-----------------------------------------------------------------------------
(* The inductive invariant                                                 *)

\* No two ports are probed with the same token.
ProbedApart ==
    \A p, q \in Probed : active_discovery_ports[p] = active_discovery_ports[q] => p = q

\* Poll loops that are fast enough for discovery (see OnTime).
Fast == 2 * MaxStall <= Window \/ 2 * MaxStall <= ProbePeriod

\* How late discovery is, apart from what the current turn of the poll loop takes: a step
\* that is due is made in the next turn, and puts off the one after it.
Slack == next_discovery_time + stall
OnSchedule ==
    Fast /\ next_discovery_time <= 0 =>
        /\ active_discovery_ports = None /\ mio = "wait" => -2 * MaxStall <= Slack
        /\ active_discovery_ports = None /\ mio = "events" => -MaxStall <= Slack
        /\ active_discovery_ports # None /\ mio = "wait" =>
             -MaxStall <= Slack \/ Window - 3 * MaxStall <= Slack
        /\ active_discovery_ports # None /\ mio = "events" =>
             0 <= Slack \/ Window - 2 * MaxStall <= Slack

IInv == TypeOK /\ OpenOnce /\ TimeoutCached /\ ProbedApart /\ OnSchedule

\* The parts of the type invariant, by what they are about.
Connections == Good(active_connections, Tokens, Ports)
Timers == /\ timeouts \in [Prims(active_connections) -> Past..Timeout]
          /\ next_conn_timeout \in Past..Timeout \cup {None}
Probes == active_discovery_ports \in {None} \cup UNION {[S -> Tokens] : S \in SUBSET Ports}
Schedule == next_discovery_time \in Int /\ OnTime
Loop == mio \in {"wait", "events", "stuck"} /\ ready \subseteq Tokens /\ stall \in 0..MaxStall
Robots == /\ id_filter \subseteq Ids /\ alive \subseteq Ports /\ data \subseteq Ports
          /\ answer \in [Ports -> Ids \cup {None}] /\ hung \subseteq Ports

LEMMA TypeParts == TypeOK <=> Connections /\ Timers /\ Probes /\ Schedule /\ Loop /\ Robots
  BY Zenon DEF TypeOK, Connections, Good, Timers, Probes, Schedule, Loop, Robots

LEMMA TypePartsNext ==
    TypeOK' <=> Connections' /\ Timers' /\ Probes' /\ Schedule' /\ Loop' /\ Robots'
  BY Zenon DEF TypeOK, Connections, Good, Timers, Probes, Schedule, Loop, Robots

LEMMA Constants ==
    /\ Timeout \in Nat /\ Timeout > 0 /\ Window \in Nat /\ Window > 0
    /\ ProbePeriod \in Nat /\ MaxStall \in Nat
    /\ None \notin Int /\ Past = -1
  BY SerialAssumption DEF Past

\* The two steps of discovery together take a probe period, or the window if that is longer.
LEMMA Waits ==
    /\ Wait(TRUE) = Window
    /\ \E w \in Nat : /\ w = Wait(FALSE)
                      /\ w = 0 \/ w = ProbePeriod - Window
                      /\ Fast => 2 * MaxStall <= Window + w
<1>1. CASE ProbePeriod > Window
  <2>1. Wait(FALSE) = ProbePeriod - Window /\ ProbePeriod - Window \in Nat
    BY <1>1, Constants DEF Wait
  <2>2. Fast => 2 * MaxStall <= Window + (ProbePeriod - Window)
    BY <1>1, Constants DEF Fast
  <2> QED BY <2>1, <2>2 DEF Wait
<1>2. CASE ~(ProbePeriod > Window)
  BY <1>2, Constants DEF Wait, Fast
<1> QED BY <1>1, <1>2

\* What the type says of the ports being probed.
LEMMA ProbedTyped ==
    ASSUME Probes
    PROVE  /\ Probed \subseteq Ports
           /\ active_discovery_ports # None => Probed = DOMAIN active_discovery_ports
           /\ \A p \in Probed : active_discovery_ports[p] \in Tokens
<1>1. CASE active_discovery_ports = None
  BY <1>1 DEF Probed
<1>2. ASSUME NEW S \in SUBSET Ports, active_discovery_ports \in [S -> Tokens],
             active_discovery_ports # None
      PROVE  /\ Probed \subseteq Ports /\ Probed = DOMAIN active_discovery_ports
             /\ \A p \in Probed : active_discovery_ports[p] \in Tokens
  BY <1>2 DEF Probed
<1> QED BY <1>1, <1>2 DEF Probes

\* Every connection is found by its port.
LEMMA ConnectionsTyped ==
    ASSUME Connections
    PROVE  /\ Prims(active_connections) \subseteq Tokens
           /\ Secs(active_connections) \subseteq Ports
           /\ \A t \in Prims(active_connections) :
                active_connections.prim_to_val[t] \in Secs(active_connections)
           /\ \A t, u \in Prims(active_connections) :
                active_connections.prim_to_val[t] = active_connections.prim_to_val[u] => t = u
<1>1. /\ active_connections \in Maps(Tokens, Ports) /\ MutuallyInverse(active_connections)
  BY DEF Connections, Good
<1> QED BY <1>1, MapsFields DEF MutuallyInverse

LEMMA TimersTyped ==
    ASSUME Timers
    PROVE  /\ DOMAIN timeouts = Prims(active_connections)
           /\ \A t \in Prims(active_connections) : timeouts[t] \in Past..Timeout
           /\ next_conn_timeout # None => next_conn_timeout \in Past..Timeout
           /\ \A x \in Past..Timeout : x \in Int /\ -1 <= x /\ x <= Timeout /\ x # None
  BY Constants DEF Timers

-----------------------------------------------------------------------------
(* Minima of timeouts                                                      *)

\* Timeouts are bounded below, so there is an earliest one.
LEMMA LeastExists ==
    ASSUME NEW S \in SUBSET (Past..Timeout), S # {}
    PROVE  \E x \in S : \A y \in S : x <= y
<1> DEFINE T == {x + 1 : x \in S}
           R == OpToRel(<, Nat)
<1>1. T \subseteq Nat /\ T # {}
  <2>1. \A x \in S : x \in Int /\ x >= -1 /\ x + 1 \in Nat
    BY Constants
  <2> QED BY <2>1
<1>2. IsWellFoundedOn(R, Nat)
  BY NatLessThanWellFounded
<1>3. \A x, y \in Nat : <<y, x>> \in R <=> y < x
  BY DEF OpToRel
<1> HIDE DEF R
<1>4. PICK t \in T : \A u \in T : ~(<<u, t>> \in R)
  BY <1>1, <1>2, WFMin
<1>5. PICK x \in S : t = x + 1
  BY <1>4
<1>6. \A y \in S : x <= y
  <2> SUFFICES ASSUME NEW y \in S PROVE x <= y
    OBVIOUS
  <2>1. y + 1 \in T /\ y + 1 \in Nat /\ t \in Nat
    BY <1>1
  <2>2. ~(y + 1 < t)
    BY <1>3, <1>4, <2>1
  <2> QED BY <1>5, <2>2, Constants
<1> QED BY <1>6

LEMMA EarliestIs ==
    ASSUME NEW S \in SUBSET (Past..Timeout)
    PROVE  /\ Earliest(S) \in Past..Timeout \cup {None}
           /\ Earliest(S) = None <=> S = {}
           /\ S # {} => Earliest(S) \in S
           /\ \A y \in S : Earliest(S) <= y
<1>1. CASE S = {}
  BY <1>1 DEF Earliest
<1>2. CASE S # {}
  <2>1. PICK x \in S : \A y \in S : x <= y
    BY <1>2, LeastExists
  <2>2. Min(S) \in S /\ \A y \in S : Min(S) <= y
    BY <2>1 DEF Min
  <2>3. Earliest(S) = Min(S)
    BY <1>2 DEF Earliest
  <2>4. Earliest(S) # None
    <3>1. \A y \in Past..Timeout : y \in Int
      BY Constants
    <3>2. Earliest(S) \in Int
      BY <2>2, <2>3, <3>1
    <3> QED BY <3>2, Constants
  <2> QED BY <1>2, <2>2, <2>3, <2>4
<1> QED BY <1>1, <1>2

LEMMA MinOfTwo ==
    ASSUME NEW a \in Int, NEW b \in Int
    PROVE  Min({a, b}) \in {a, b} /\ Min({a, b}) <= a /\ Min({a, b}) <= b
<1>1. \E x \in {a, b} : \A y \in {a, b} : x <= y
  OBVIOUS
<1>2. Min({a, b}) \in {a, b} /\ \A y \in {a, b} : Min({a, b}) <= y
  BY <1>1 DEF Min
<1> QED BY <1>2

\* A cached timeout that is lowered by what is accepted is not later than either.
LEMMA LoweredIs ==
    ASSUME Timers, NEW accepted
    PROVE  /\ Lowered(accepted) \in Past..Timeout \cup {None}
           /\ Lowered(accepted) = None <=> next_conn_timeout = None /\ accepted = {}
           /\ next_conn_timeout # None => Lowered(accepted) <= next_conn_timeout
           /\ accepted # {} => Lowered(accepted) <= Timeout
<1> DEFINE S == ({next_conn_timeout} \ {None}) \cup {Timeout : p \in accepted}
<1>1. S \in SUBSET (Past..Timeout)
  BY TimersTyped, Constants
<1>2. Lowered(accepted) = Earliest(S)
  BY DEF Lowered
<1>3. /\ S = {} <=> next_conn_timeout = None /\ accepted = {}
      /\ next_conn_timeout # None => next_conn_timeout \in S
      /\ accepted # {} => Timeout \in S
  OBVIOUS
<1> HIDE DEF S
<1>4. /\ Earliest(S) \in Past..Timeout \cup {None}
      /\ Earliest(S) = None <=> S = {}
      /\ \A y \in S : Earliest(S) <= y
  BY <1>1, EarliestIs
<1> QED BY <1>2, <1>3, <1>4

-----------------------------------------------------------------------------
(* Accepting and giving up ports                                           *)

\* What WithPorts does: the accepted ports are added under their tokens, and nothing is
\* displaced, since neither they nor their tokens are in use (OpenOnce).
LEMMA PortsAdded ==
    ASSUME IInv, NEW accepted \in SUBSET Probed
    PROVE  /\ Good(WithPorts(accepted), Tokens, Ports)
           /\ Prims(WithPorts(accepted)) = Prims(active_connections)
                \cup {active_discovery_ports[p] : p \in accepted}
           /\ Secs(WithPorts(accepted)) = Secs(active_connections) \cup accepted
           /\ \A t \in Prims(active_connections) :
                WithPorts(accepted).prim_to_val[t] = active_connections.prim_to_val[t]
<1> DEFINE m == active_connections
           adp == active_discovery_ports
           new == Restrict(adp, accepted)
           R == {adp[p] : p \in accepted}
           kept == {t \in Prims(m) \ R : m.prim_to_val[t] \notin accepted}
           rest == Retain(m, kept)
           conns == WithPorts(accepted)
<1>1. /\ Connections /\ Probes /\ m \in Maps(Tokens, Ports) /\ MutuallyInverse(m)
      /\ Prims(m) \subseteq Tokens /\ m.prim_to_val \in [Prims(m) -> Ports]
      /\ Secs(m) \subseteq Ports /\ m.sec_to_prim \in [Secs(m) -> Tokens]
      /\ \A t \in Prims(m) : m.prim_to_val[t] \in Secs(m)
  BY TypeParts, MapsFields, ConnectionsTyped DEF IInv, Connections, Good
<1>2. /\ \A p \in accepted : adp[p] \in Tokens /\ adp[p] \notin Prims(m) /\ p \notin Secs(m)
      /\ \A p, q \in accepted : adp[p] = adp[q] => p = q
      /\ accepted \subseteq Ports
  BY <1>1, ProbedTyped DEF IInv, OpenOnce, ProbedApart
<1>3. Range(new) = R /\ \A p \in accepted : new[p] = adp[p]
  BY DEF Restrict, Range
<1>4. kept = Prims(m)
  BY <1>1, <1>2
<1>5. rest.prim_to_val = m.prim_to_val /\ rest.sec_to_prim = m.sec_to_prim
  <2>1. {m.prim_to_val[k] : k \in Prims(m) \ kept} = {}
    BY <1>4
  <2>2. rest = [prim_to_val |-> Restrict(m.prim_to_val, Prims(m)),
                sec_to_prim |-> Restrict(m.sec_to_prim, Secs(m))]
    BY <1>4, <2>1 DEF Retain
  <2> HIDE DEF rest
  <2>3. rest.prim_to_val = [x \in Prims(m) |-> m.prim_to_val[x]]
        /\ rest.sec_to_prim = [x \in Secs(m) |-> m.sec_to_prim[x]]
    BY <2>2 DEF Restrict
  <2> QED BY <1>1, <2>3
<1> DEFINE f == [t \in Prims(m) \cup R |-> IF t \in R THEN AntiFunction(new)[t]
                                                    ELSE m.prim_to_val[t]]
           g == [p \in Secs(m) \cup accepted |-> IF p \in accepted THEN new[p]
                                                               ELSE m.sec_to_prim[p]]
<1>6. conns = [prim_to_val |-> f, sec_to_prim |-> g]
  BY <1>3, <1>5 DEF WithPorts, Prims, Secs
<1>7. \A p \in accepted : AntiFunction(new)[adp[p]] = p
  <2> SUFFICES ASSUME NEW p \in accepted PROVE AntiFunction(new)[adp[p]] = p
    OBVIOUS
  <2>1. DOMAIN new = accepted
    BY DEF Restrict
  <2>2. adp[p] \in Range(new)
    BY <1>3
  <2> HIDE DEF new
  <2>3. AntiFunction(new)[adp[p]] = CHOOSE q \in accepted : adp[p] \in Range(new) =>
                                                           new[q] = adp[p]
    BY <2>1, <2>2 DEF AntiFunction, Inverse
  <2> QED BY <1>2, <1>3, <2>2, <2>3
<1> HIDE DEF new
<1>8. /\ DOMAIN f = Prims(m) \cup R /\ DOMAIN g = Secs(m) \cup accepted
      /\ \A t \in Prims(m) : f[t] = m.prim_to_val[t]
      /\ \A p \in accepted : f[adp[p]] = p /\ g[p] = adp[p]
      /\ \A p \in Secs(m) : g[p] = m.sec_to_prim[p]
  BY <1>1, <1>2, <1>3, <1>7
<1>9. f \in [Prims(m) \cup R -> Ports] /\ g \in [Secs(m) \cup accepted -> Tokens]
  <2>1. \A t \in Prims(m) \cup R : f[t] \in Ports
    BY <1>1, <1>2, <1>8
  <2>2. \A p \in Secs(m) \cup accepted : g[p] \in Tokens
    BY <1>1, <1>2, <1>8
  <2> QED BY <2>1, <2>2
<1> HIDE DEF f, g, rest, conns
<1>10. /\ Prims(conns) = Prims(m) \cup R /\ Secs(conns) = Secs(m) \cup accepted
       /\ conns.prim_to_val = f /\ conns.sec_to_prim = g
  BY <1>6, <1>8 DEF Prims, Secs
<1>11. conns \in Maps(Tokens, Ports)
  <2>1. Prims(m) \cup R \in SUBSET Tokens /\ Secs(m) \cup accepted \in SUBSET Ports
    BY <1>1, <1>2
  <2> QED BY <1>6, <1>9, <2>1, MapsIntro
<1>12. MutuallyInverse(conns)
  <2>1. ASSUME NEW t \in Prims(m) \cup R
        PROVE  f[t] \in Secs(m) \cup accepted /\ g[f[t]] = t
    BY <1>1, <1>8 DEF MutuallyInverse
  <2>2. ASSUME NEW p \in Secs(m) \cup accepted
        PROVE  g[p] \in Prims(m) \cup R /\ f[g[p]] = p
    BY <1>1, <1>8 DEF MutuallyInverse
  <2> QED BY <1>10, <2>1, <2>2 DEF MutuallyInverse
<1> QED BY <1>8, <1>10, <1>11, <1>12 DEF Good, conns

\* What mio_timeout does: ports it accepted come in under their tokens, connections that are
\* overdue go, the timeouts and the cached one fit what is left, and all of it is announced.
LEMMA TimeoutEffect ==
    ASSUME IInv, mio_timeout
    PROVE  \E accepted \in SUBSET Accepted, expired \in SUBSET Prims(active_connections) :
             /\ accepted # {} => ProbeDue /\ active_discovery_ports # None
             /\ Connections' /\ Timers' /\ TimeoutCached'
             /\ Prims(active_connections') = (Prims(active_connections) \ expired)
                  \cup {active_discovery_ports[p] : p \in accepted}
             /\ Secs(active_connections') = accepted \cup
                  (Secs(active_connections)
                     \ {active_connections.prim_to_val[t] : t \in expired})
             /\ \E failures \in {{}, {Event!Failure}} :
                  emitted' = {Event!Lost(active_connections.prim_to_val[t]) : t \in expired}
                             \cup {Event!Connected(p, answer[p]) : p \in accepted}
                             \cup failures
<1>1. PICK accepted \in SUBSET Accepted :
        LET conns == WithPorts(accepted)
            times == WithTimeouts(conns)
            due == Lowered(accepted) # None /\ Lowered(accepted) < 0
            expired == {t \in Prims(conns) : due /\ times[t] < 0}
        IN  /\ accepted # {} => ProbeDue /\ active_discovery_ports # None
            /\ active_connections' = Retain(conns, Prims(conns) \ expired)
            /\ timeouts' = Restrict(times, Prims(conns) \ expired)
            /\ next_conn_timeout' = IF due THEN Cached ELSE Lowered(accepted)
            /\ \E failures \in {{}, {Event!Failure}} :
                 emitted' = {Event!Lost(conns.prim_to_val[t]) : t \in expired}
                            \cup {Event!Connected(p, answer[p]) : p \in accepted}
                            \cup failures
  BY DEF mio_timeout
<1> DEFINE conns == WithPorts(accepted)
           times == WithTimeouts(conns)
           low == Lowered(accepted)
           due == low # None /\ low < 0
           expired == {t \in Prims(conns) : due /\ times[t] < 0}
           P == Prims(active_connections)
           R == {active_discovery_ports[p] : p \in accepted}
<1>2. Connections /\ Timers /\ Probes /\ TimeoutCached /\ OpenOnce /\ accepted \subseteq Probed
  BY TypeParts DEF IInv, Accepted
<1>3. /\ Good(conns, Tokens, Ports)
      /\ Prims(conns) = P \cup R /\ Secs(conns) = Secs(active_connections) \cup accepted
      /\ \A t \in P : conns.prim_to_val[t] = active_connections.prim_to_val[t]
  BY <1>2, PortsAdded
<1>4. R \cap P = {}
  BY <1>2 DEF OpenOnce
<1>5. /\ times = [t \in P \cup R |-> IF t \in P THEN timeouts[t] ELSE Timeout]
  BY <1>2, <1>3, TimersTyped DEF WithTimeouts
<1>6. /\ low \in Past..Timeout \cup {None}
      /\ low = None <=> next_conn_timeout = None /\ accepted = {}
      /\ next_conn_timeout # None => low <= next_conn_timeout
      /\ accepted # {} => low <= Timeout
  BY <1>2, LoweredIs
<1>7. /\ active_connections' = Retain(conns, Prims(conns) \ expired)
      /\ timeouts' = Restrict(times, Prims(conns) \ expired)
      /\ next_conn_timeout' = IF due THEN Cached ELSE low
      /\ \E failures \in {{}, {Event!Failure}} :
           emitted' = {Event!Lost(conns.prim_to_val[t]) : t \in expired}
                      \cup {Event!Connected(p, answer[p]) : p \in accepted}
                      \cup failures
  BY <1>1
<1> HIDE DEF conns, times, low
<1>8. \A t \in P \cup R : times[t] \in Past..Timeout /\ (t \in R => times[t] = Timeout)
  BY <1>2, <1>4, <1>5, TimersTyped, Constants
<1>9. expired \subseteq P
  BY <1>3, <1>8, Constants
<1>10. ~due => expired = {}
  OBVIOUS
<1> HIDE DEF expired
<1>11. /\ Connections' /\ Prims(active_connections') = (P \ expired) \cup R
  <2>1. /\ Good(active_connections', Tokens, Ports)
        /\ Prims(active_connections') = Prims(conns) \cap (Prims(conns) \ expired)
    BY <1>3, <1>7, RetainGood
  <2> QED BY <1>3, <1>4, <1>9, <2>1 DEF Connections
<1>12. Secs(active_connections') = accepted \cup
         (Secs(active_connections) \ {active_connections.prim_to_val[t] : t \in expired})
  <2>1. Secs(active_connections') =
          Secs(conns) \ {conns.prim_to_val[k] : k \in Prims(conns) \ (Prims(conns) \ expired)}
    BY <1>7 DEF Retain, Restrict, Secs
  <2>2. Prims(conns) \ (Prims(conns) \ expired) = expired
    BY <1>3, <1>9
  <2>3. \A t \in expired : /\ conns.prim_to_val[t] = active_connections.prim_to_val[t]
                           /\ active_connections.prim_to_val[t] \notin accepted
    BY <1>2, <1>3, <1>9, ConnectionsTyped DEF OpenOnce
  <2> QED BY <1>3, <2>1, <2>2, <2>3
<1>13. /\ timeouts' \in [Prims(active_connections') -> Past..Timeout]
       /\ \A t \in Prims(active_connections') : timeouts'[t] = times[t]
       /\ DOMAIN timeouts' = Prims(active_connections')
  <2>1. Prims(active_connections') = Prims(conns) \ expired
    BY <1>3, <1>4, <1>9, <1>11
  <2>2. timeouts' = [t \in Prims(active_connections') |-> times[t]]
    BY <1>7, <2>1 DEF Restrict
  <2> QED BY <1>3, <1>8, <2>1, <2>2
<1>14. Timers' /\ TimeoutCached'
  <2>1. CASE due
    <3> DEFINE S == {timeouts'[t] : t \in DOMAIN timeouts'}
    <3>1. next_conn_timeout' = Earliest(S)
      BY <1>7, <2>1 DEF Cached
    <3>2. S \in SUBSET (Past..Timeout) /\ (S = {} => Prims(active_connections') = {})
      BY <1>13
    <3>3. \A t \in Prims(active_connections') : timeouts'[t] \in S
      BY <1>13
    <3> HIDE DEF S
    <3>4. /\ Earliest(S) \in Past..Timeout \cup {None} /\ (Earliest(S) = None <=> S = {})
          /\ \A y \in S : Earliest(S) <= y
      BY <3>2, EarliestIs
    <3> QED BY <1>13, <3>1, <3>2, <3>3, <3>4 DEF Timers, TimeoutCached
  <2>2. CASE ~due
    <3>1. next_conn_timeout' = low /\ Prims(active_connections') = P \cup R
      BY <1>7, <1>10, <1>11, <2>2
    <3>2. low = None => P \cup R = {}
      BY <1>2, <1>6 DEF TimeoutCached
    <3>3. \A t \in P : low <= timeouts[t]
      <4> SUFFICES ASSUME NEW t \in P PROVE low <= timeouts[t]
        OBVIOUS
      <4>1. next_conn_timeout # None /\ next_conn_timeout <= timeouts[t]
        BY <1>2 DEF TimeoutCached
      <4>2. low <= next_conn_timeout /\ low \in Past..Timeout
        BY <1>6, <4>1
      <4> QED BY <1>2, <4>1, <4>2, TimersTyped
    <3>4. \A t \in R : low <= times[t]
      BY <1>6, <1>8
    <3>5. \A t \in P : times[t] = timeouts[t]
      BY <1>5
    <3>6. \A t \in P \cup R : low <= timeouts'[t]
      BY <1>13, <3>1, <3>3, <3>4, <3>5
    <3> HIDE DEF due, P, R
    <3> QED BY <1>6, <1>13, <3>1, <3>2, <3>6 DEF Timers, TimeoutCached
  <2> QED BY <2>1, <2>2
<1>15. \E failures \in {{}, {Event!Failure}} :
         emitted' = {Event!Lost(active_connections.prim_to_val[t]) : t \in expired}
                    \cup {Event!Connected(p, answer[p]) : p \in accepted}
                    \cup failures
  <2>1. {Event!Lost(conns.prim_to_val[t]) : t \in expired} =
          {Event!Lost(active_connections.prim_to_val[t]) : t \in expired}
    BY <1>3, <1>9
  <2> QED BY <1>7, <2>1
<1>16. accepted # {} => ProbeDue /\ active_discovery_ports # None
  BY <1>1
<1> QED BY <1>9, <1>11, <1>12, <1>14, <1>15, <1>16

-----------------------------------------------------------------------------
(* Every step keeps the invariant                                          *)

LEMMA InitIInv == Init => IInv
<1> SUFFICES ASSUME Init PROVE IInv
  OBVIOUS
<1>1. Connections /\ Prims(active_connections) = {} /\ Secs(active_connections) = {}
  BY EmptyGood DEF Init, Connections, EmptyMap, Prims, Secs
<1>2. Timers
  <2>1. timeouts \in [{} -> Past..Timeout]
    BY DEF Init
  <2> QED BY <1>1, <2>1 DEF Init, Timers
<1>3. Probes /\ Probed = {} /\ active_discovery_ports = None
  BY DEF Init, Probes, Probed
<1>4. Schedule
  BY Constants DEF Init, Schedule, OnTime
<1>5. Loop /\ Robots
  BY Constants DEF Init, Loop, Robots
<1>6. OnSchedule
  <2>1. Slack = 0 /\ mio = "wait"
    BY DEF Init, Slack
  <2> QED BY <1>3, <2>1, Constants DEF OnSchedule
<1> QED BY <1>1, <1>2, <1>3, <1>4, <1>5, <1>6, TypeParts
        DEF IInv, OpenOnce, TimeoutCached, ProbedApart

\* There is a free token for every port that is opened.
LEMMA TokensSuffice ==
    ASSUME Connections, NEW opened \in SUBSET (Ports \ Secs(active_connections)),
           NEW used \in SUBSET Prims(active_connections)
    PROVE  \E f \in Injection(opened, Tokens \ (Prims(active_connections) \cup used)) : TRUE
<1> DEFINE m == active_connections
           free == Tokens \ Prims(m)
<1>1. /\ m \in Maps(Tokens, Ports) /\ MutuallyInverse(m)
      /\ Prims(m) \subseteq Tokens /\ m.prim_to_val \in [Prims(m) -> Ports]
      /\ Secs(m) \subseteq Ports /\ m.sec_to_prim \in [Secs(m) -> Tokens]
  BY MapsFields DEF Connections, Good
<1>2. IsFiniteSet(Ports) /\ IsFiniteSet(Tokens) /\ IsFiniteSet(Secs(m)) /\ IsFiniteSet(free)
      /\ IsFiniteSet(opened) /\ IsFiniteSet(Prims(m))
  BY <1>1, SerialAssumption, FS_Subset
<1>3. Cardinality(Prims(m)) <= Cardinality(Secs(m))
  <2>1. m.prim_to_val \in [Prims(m) -> Secs(m)]
    BY <1>1 DEF MutuallyInverse
  <2>2. \A j, k \in Prims(m) : m.prim_to_val[j] = m.prim_to_val[k] => j = k
    BY <1>1 DEF MutuallyInverse
  <2>3. m.prim_to_val \in Injection(Prims(m), Secs(m))
    BY <2>1, <2>2 DEF Injection, IsInjective
  <2> QED BY <1>2, <2>3, FS_Injection
<1>4. Cardinality(opened) + Cardinality(Secs(m)) <= Cardinality(Ports)
  <2>1. opened \cap Secs(m) = {} /\ opened \cup Secs(m) \in SUBSET Ports
    BY <1>1
  <2>2. Cardinality(opened \cup Secs(m)) = Cardinality(opened) + Cardinality(Secs(m)) - 0
    BY <1>2, <2>1, FS_Union, FS_EmptySet
  <2>3. Cardinality(opened \cup Secs(m)) <= Cardinality(Ports)
    BY <1>2, <2>1, FS_Subset
  <2> QED BY <1>2, <2>2, <2>3, FS_CardinalityType
<1>5. Cardinality(free) = Cardinality(Tokens) - Cardinality(Prims(m))
  <2>1. Tokens \cap Prims(m) = Prims(m)
    BY <1>1
  <2> QED BY <1>2, <2>1, FS_Difference
<1>6. /\ Cardinality(opened) \in Nat /\ Cardinality(free) \in Nat /\ Cardinality(Ports) \in Nat
      /\ Cardinality(Secs(m)) \in Nat /\ Cardinality(Prims(m)) \in Nat
      /\ Cardinality(Tokens) \in Nat
  BY <1>2, FS_CardinalityType
<1>7. Cardinality(opened) <= Cardinality(free)
  BY <1>3, <1>4, <1>5, <1>6, SerialAssumption
<1> DEFINE n == Cardinality(opened)
           k == Cardinality(free)
<1>8. PICK a \in Bijection(opened, 1..n) : TRUE
  <2>1. IsFiniteSet(1..n) /\ Cardinality(1..n) = n
    BY <1>6, FS_Interval
  <2> QED BY <1>2, <2>1, FS_SameCardinalityBij DEF ExistsBijection
<1>9. PICK b \in Bijection(1..k, free) : TRUE
  BY <1>2, FS_CardinalityType DEF ExistsBijection
<1> DEFINE f == [x \in opened |-> b[a[x]]]
<1>10. /\ a \in [opened -> 1..n] /\ b \in [1..k -> free]
       /\ \A x, y \in opened : a[x] = a[y] => x = y
       /\ \A x, y \in 1..k : b[x] = b[y] => x = y
  BY <1>8, <1>9 DEF Bijection, Injection, Surjection, IsInjective
<1>11. \A x \in opened : a[x] \in 1..k
  BY <1>6, <1>7, <1>10
<1>12. f \in Injection(opened, free)
  <2>1. f \in [opened -> free]
    BY <1>10, <1>11
  <2>2. \A x, y \in opened : f[x] = f[y] => x = y
    BY <1>10, <1>11
  <2> QED BY <2>1, <2>2 DEF Injection, IsInjective
<1>13. Tokens \ (Prims(m) \cup used) = free
  OBVIOUS
<1> QED BY <1>12, <1>13

LEMMA StartEffect ==
    ASSUME IInv, start_discovery, ready' \subseteq Prims(active_connections)
    PROVE  \E opened \in SUBSET (Ports \ Secs(active_connections)) :
             /\ active_discovery_ports' \in [opened -> Tokens \ Prims(active_connections)]
             /\ \A p, q \in opened :
                  active_discovery_ports'[p] = active_discovery_ports'[q] => p = q
             /\ active_discovery_ports' # None
<1> DEFINE T == Tokens \ (Prims(active_connections) \cup ready')
<1>1. PICK opened \in SUBSET (Ports \ Secs(active_connections)) :
        active_discovery_ports' = CHOOSE f \in Injection(opened, T) : TRUE
  BY DEF start_discovery, NewPort
<1>2. \E f \in Injection(opened, T) : TRUE
  BY TokensSuffice, TypeParts DEF IInv
<1>3. active_discovery_ports' \in Injection(opened, T)
  <2> HIDE DEF T
  <2> QED BY <1>1, <1>2
<1>4. /\ active_discovery_ports' \in [opened -> T]
      /\ \A p, q \in opened :
           active_discovery_ports'[p] = active_discovery_ports'[q] => p = q
  BY <1>3 DEF Injection, IsInjective
<1>5. active_discovery_ports' \in [opened -> Tokens \ Prims(active_connections)]
  BY <1>4
<1>6. active_discovery_ports' # None
  <2>1. opened \in SUBSET Ports /\ active_discovery_ports' \in [opened -> Tokens]
    BY <1>4
  <2>2. None \notin [opened -> Tokens]
    BY <2>1, SerialAssumption
  <2> QED BY <2>1, <2>2
<1> QED BY <1>4, <1>5, <1>6

\* A step of discovery moves the schedule on by one step.
LEMMA DiscoveryKeepsSchedule ==
    ASSUME IInv, mio = "wait", mio' = "events", UNCHANGED stall,
           start_discovery \/ end_discovery \/ no_discovery,
           start_discovery => active_discovery_ports' # None
    PROVE  Schedule' /\ OnSchedule'
<1>1. /\ next_discovery_time \in Int /\ OnTime /\ stall \in Nat /\ stall <= MaxStall /\ OnSchedule
  BY TypeParts, Constants DEF IInv, Schedule, Loop
<1>2. Slack \in Int /\ Slack = next_discovery_time + stall /\ Slack' = next_discovery_time' + stall
  BY <1>1 DEF Slack
<1>3. CASE start_discovery
  <2>1. /\ next_discovery_time < 0 /\ active_discovery_ports = None
        /\ next_discovery_time' = next_discovery_time + Window
        /\ active_discovery_ports' # None
    BY <1>3, Waits DEF start_discovery, ProbeDue
  <2>2. Schedule'
    BY <1>1, <2>1, Constants DEF Schedule, OnTime
  <2>3. Fast => -2 * MaxStall <= Slack
    BY <1>1, <2>1 DEF OnSchedule
  <2>4. Slack' = Slack + Window
    BY <1>1, <1>2, <2>1, Constants
  <2>5. Fast => Window - 2 * MaxStall <= Slack'
    BY <1>2, <2>3, <2>4, Constants
  <2> QED BY <2>1, <2>2, <2>5 DEF OnSchedule
<1>4. CASE end_discovery
  <2>1. PICK w \in Nat : /\ w = Wait(FALSE)
                         /\ w = 0 \/ w = ProbePeriod - Window
                         /\ Fast => 2 * MaxStall <= Window + w
    BY Waits
  <2>2. /\ next_discovery_time < 0 /\ active_discovery_ports # None
        /\ next_discovery_time' = next_discovery_time + w
        /\ active_discovery_ports' = None
    BY <1>4, <2>1 DEF end_discovery, ProbeDue
  <2>3. /\ w = 0 \/ w = ProbePeriod - Window
        /\ Fast => 2 * MaxStall <= Window + w
    BY <2>1
  <2>4. Schedule'
    BY <1>1, <2>2, <2>3, Constants DEF Schedule, OnTime
  <2>5. Fast => -MaxStall <= Slack \/ Window - 3 * MaxStall <= Slack
    BY <1>1, <2>2 DEF OnSchedule
  <2>6. Slack' = Slack + w
    BY <1>1, <1>2, <2>2
  <2>7. Fast => -MaxStall <= Slack'
    BY <1>2, <2>3, <2>5, <2>6, Constants
  <2> QED BY <2>2, <2>4, <2>7 DEF OnSchedule
<1>5. CASE no_discovery
  <2>1. ~(next_discovery_time < 0) /\ UNCHANGED <<next_discovery_time, active_discovery_ports>>
    BY <1>5 DEF no_discovery, ProbeDue, discoveryVars
  <2>2. Schedule'
    BY <1>1, <2>1 DEF Schedule, OnTime
  <2>3. 0 <= Slack'
    BY <1>1, <1>2, <2>1
  <2>4. -MaxStall <= Slack'
    BY <1>1, <1>2, <2>1, <2>3, Constants
  <2> QED BY <2>2, <2>3, <2>4 DEF OnSchedule
<1> QED BY <1>3, <1>4, <1>5

LEMMA PollStep == ASSUME IInv, Poll PROVE IInv'
<1> DEFINE m == active_connections
<1>1. /\ mio = "wait" /\ mio' = "events"
      /\ ready' = {t \in Prims(m) : m.prim_to_val[t] \in data}
      /\ start_discovery \/ end_discovery \/ no_discovery
      /\ mio_timeout
      /\ answer' = IF ProbeDue THEN [p \in Ports |-> None] ELSE answer
      /\ data' = data \cap Secs(active_connections') /\ hung' \subseteq hung
      /\ UNCHANGED <<id_filter, alive, stall>>
  BY DEF Poll
<1>2. PICK accepted \in SUBSET Accepted, expired \in SUBSET Prims(m) :
        /\ accepted # {} => ProbeDue /\ active_discovery_ports # None
        /\ Connections' /\ Timers' /\ TimeoutCached'
        /\ Prims(active_connections') = (Prims(m) \ expired)
             \cup {active_discovery_ports[p] : p \in accepted}
        /\ Secs(active_connections') = accepted \cup
             (Secs(m) \ {m.prim_to_val[t] : t \in expired})
  BY <1>1, TimeoutEffect
<1>3. Connections /\ Probes /\ Prims(m) \subseteq Tokens
  BY TypeParts, ConnectionsTyped DEF IInv
<1>4. Probes' /\ OpenOnce' /\ ProbedApart' /\ (start_discovery => active_discovery_ports' # None)
  <2>1. CASE start_discovery
    <3>1. PICK opened \in SUBSET (Ports \ Secs(m)) :
            /\ active_discovery_ports' \in [opened -> Tokens \ Prims(m)]
            /\ \A p, q \in opened :
                 active_discovery_ports'[p] = active_discovery_ports'[q] => p = q
            /\ active_discovery_ports' # None
      BY <1>1, <2>1, StartEffect
    <3>2. Probed' = opened
      BY <3>1 DEF Probed
    <3>3. accepted = {}
      BY <1>2, <2>1 DEF start_discovery
    <3>4. Prims(active_connections') \subseteq Prims(m) /\ Secs(active_connections') \subseteq Secs(m)
      BY <1>2, <3>3
    <3>5. Probes'
      <4>1. opened \in SUBSET Ports /\ active_discovery_ports' \in [opened -> Tokens]
        BY <3>1
      <4> QED BY <4>1 DEF Probes
    <3>6. \A p \in opened : active_discovery_ports'[p] \notin Prims(m)
      BY <3>1
    <3> QED BY <3>1, <3>2, <3>4, <3>5, <3>6 DEF OpenOnce, ProbedApart
  <2>2. CASE end_discovery
    BY <2>2 DEF end_discovery, Probes, Probed, OpenOnce, ProbedApart, start_discovery
  <2>3. CASE no_discovery
    <3>1. accepted = {} /\ UNCHANGED active_discovery_ports /\ ~start_discovery
      BY <1>2, <2>3 DEF no_discovery, discoveryVars, start_discovery
    <3>2. Prims(active_connections') \subseteq Prims(m) /\ Secs(active_connections') \subseteq Secs(m)
      BY <1>2, <3>1
    <3> QED BY <1>3, <3>1, <3>2 DEF IInv, Probes, Probed, OpenOnce, ProbedApart
  <2> QED BY <1>1, <2>1, <2>2, <2>3
<1>5. Schedule' /\ OnSchedule'
  BY <1>1, <1>4, DiscoveryKeepsSchedule
<1>6. Loop' /\ Robots'
  BY <1>1, <1>3, TypeParts DEF IInv, Loop, Robots
<1> QED BY <1>2, <1>4, <1>5, <1>6, TypePartsNext DEF IInv

\* Steps that leave discovery alone do not disturb what only it is about, nor does one that
\* is the last the mio thread makes.
LEMMA DiscoveryAlone ==
    ASSUME IInv, UNCHANGED <<discoveryVars, active_connections, stall>>, mio' \in {mio, "stuck"}
    PROVE  Connections' /\ Probes' /\ Schedule' /\ OpenOnce' /\ ProbedApart' /\ OnSchedule'
  BY TypeParts
     DEF IInv, Connections, Probes, Schedule, OnTime, OpenOnce, ProbedApart, Probed, OnSchedule,
         Slack, discoveryVars

LEMMA EventStep == ASSUME IInv, mio_event PROVE IInv'
<1> DEFINE m == active_connections
<1>1. /\ mio = "events"
      /\ UNCHANGED <<discoveryVars, active_connections, id_filter, alive, answer, hung, stall>>
  BY DEF mio_event
<1>2. PICK t \in ready :
         /\ ready' = ready \ {t}
         /\ \/ t \in Prims(m) /\ (ReadPackets(t) \/ ReadNothing(t))
            \/ UNCHANGED <<timeouts, next_conn_timeout, data>>
         /\ mio' \in {mio, "stuck"}
  BY DEF mio_event, ReadPackets, ReadNothing, ReadForEver
<1>3. Connections /\ Timers /\ Loop /\ Robots /\ TimeoutCached
  BY TypeParts DEF IInv
<1>4. Loop' /\ Robots'
  <2>1. data' \subseteq data
    BY <1>2 DEF ReadPackets, ReadNothing
  <2> QED BY <1>1, <1>2, <1>3, <2>1 DEF Loop, Robots
<1>5. Timers' /\ TimeoutCached'
  <2>1. CASE UNCHANGED <<timeouts, next_conn_timeout>>
    BY <1>1, <1>3, <2>1 DEF Timers, TimeoutCached
  <2>2. CASE t \in Prims(m) /\ ReadPackets(t)
    <3>1. /\ timeouts' = [timeouts EXCEPT ![t] = Timeout]
          /\ next_conn_timeout' = IF next_conn_timeout # None
                                  THEN Min({next_conn_timeout, Timeout}) ELSE None
      BY <2>2 DEF ReadPackets
    <3>2. next_conn_timeout # None
      BY <1>3, <2>2 DEF TimeoutCached
    <3>3. next_conn_timeout \in Past..Timeout /\ next_conn_timeout \in Int /\ Timeout \in Int
      BY <1>3, <3>2, TimersTyped, Constants
    <3>4. /\ next_conn_timeout' \in {next_conn_timeout, Timeout}
          /\ next_conn_timeout' <= next_conn_timeout /\ next_conn_timeout' <= Timeout
      BY <3>1, <3>2, <3>3, MinOfTwo
    <3>5. Timeout \in Past..Timeout
      BY Constants
    <3>6. timeouts' \in [Prims(m) -> Past..Timeout]
      BY <1>3, <3>1, <3>5 DEF Timers
    <3>7. \A u \in Prims(m) : next_conn_timeout' <= timeouts'[u]
      <4> SUFFICES ASSUME NEW u \in Prims(m) PROVE next_conn_timeout' <= timeouts'[u]
        OBVIOUS
      <4>1. timeouts'[u] = IF u = t THEN Timeout ELSE timeouts[u]
        BY <1>3, <3>1 DEF Timers
      <4>2. next_conn_timeout <= timeouts[u] /\ timeouts[u] \in Int
        BY <1>3, TimersTyped DEF TimeoutCached
      <4> QED BY <3>3, <3>4, <4>1, <4>2
    <3>8. next_conn_timeout' \in Past..Timeout /\ next_conn_timeout' # None
      BY <3>3, <3>4, <3>5, TimersTyped, <1>3
    <3> QED BY <1>1, <3>6, <3>7, <3>8 DEF Timers, TimeoutCached
  <2> QED BY <1>2, <2>1, <2>2 DEF ReadNothing
<1>6. Connections' /\ Probes' /\ Schedule' /\ OpenOnce' /\ ProbedApart' /\ OnSchedule'
  BY <1>1, <1>2, DiscoveryAlone
<1> QED BY <1>4, <1>5, <1>6, TypePartsNext DEF IInv

LEMMA FilterStep == ASSUME IInv, set_id_filter PROVE IInv'
<1>1. /\ mio = "events" /\ mio' = "wait" /\ id_filter' \in SUBSET Ids /\ stall' = 0
      /\ UNCHANGED <<discoveryVars, connVars, ready, robots>>
  BY DEF set_id_filter
<1>2. /\ Connections' /\ Timers' /\ Probes' /\ Schedule' /\ Robots'
      /\ OpenOnce' /\ ProbedApart' /\ TimeoutCached'
  BY <1>1, TypeParts
     DEF IInv, Connections, Timers, Probes, Schedule, OnTime, Robots, OpenOnce, ProbedApart, Probed,
         TimeoutCached, discoveryVars, connVars, robots
<1>3. Loop'
  BY <1>1, Constants, TypeParts DEF IInv, Loop
<1>4. OnSchedule'
  <2>1. next_discovery_time \in Int /\ stall \in Nat /\ stall <= MaxStall /\ OnSchedule
    BY TypeParts, Constants DEF IInv, Schedule, Loop
  <2>2. UNCHANGED <<next_discovery_time, active_discovery_ports>>
    BY <1>1 DEF discoveryVars
  <2>3. /\ Slack = next_discovery_time + stall /\ Slack' = next_discovery_time
        /\ Slack \in Int /\ Slack' \in Int /\ Slack - MaxStall <= Slack'
    BY <1>1, <2>1, <2>2, Constants DEF Slack
  <2> SUFFICES ASSUME Fast, next_discovery_time <= 0
               PROVE  /\ active_discovery_ports = None => -2 * MaxStall <= Slack'
                      /\ active_discovery_ports # None =>
                           -MaxStall <= Slack' \/ Window - 3 * MaxStall <= Slack'
    BY <1>1, <2>2 DEF OnSchedule
  <2>4. CASE active_discovery_ports = None
    <3>1. -MaxStall <= Slack
      BY <1>1, <2>1, <2>4 DEF OnSchedule
    <3> QED BY <2>3, <2>4, <3>1, Constants
  <2>5. CASE active_discovery_ports # None
    <3>1. 0 <= Slack \/ Window - 2 * MaxStall <= Slack
      BY <1>1, <2>1, <2>5 DEF OnSchedule
    <3> QED BY <2>3, <2>5, <3>1, Constants
  <2> QED BY <2>4, <2>5
<1> QED BY <1>2, <1>3, <1>4, TypePartsNext DEF IInv

\* Sending, and what robots do.
LEMMA OtherStep ==
    ASSUME IInv, send_packet \/ \E p \in Ports : Switch(p) \/ Answer(p) \/ SendData(p) \/ HangUp(p)
    PROVE  IInv'
<1>1. UNCHANGED <<discoveryVars, connVars, id_filter, mio, ready, stall>>
  BY DEF send_packet, Switch, Answer, SendData, HangUp
<1>2. Robots'
  <2>1. CASE send_packet
    BY <2>1, TypeParts DEF IInv, send_packet, robots, Robots
  <2>2. ASSUME NEW p \in Ports, Switch(p) PROVE Robots'
    BY <2>2, TypeParts DEF IInv, Switch, Robots
  <2>3. ASSUME NEW p \in Ports, Answer(p) PROVE Robots'
    BY <2>3, TypeParts DEF IInv, Answer, Robots
  <2>4. ASSUME NEW p \in Ports, SendData(p) PROVE Robots'
    BY <2>4, TypeParts DEF IInv, SendData, Robots
  <2>5. ASSUME NEW p \in Ports, HangUp(p) PROVE Robots'
    BY <2>5, TypeParts DEF IInv, HangUp, Robots
  <2> QED BY <2>1, <2>2, <2>3, <2>4, <2>5
<1>3. Timers' /\ Loop' /\ TimeoutCached'
  BY <1>1, TypeParts DEF IInv, Timers, Loop, TimeoutCached, connVars
<1>4. Connections' /\ Probes' /\ Schedule' /\ OpenOnce' /\ ProbedApart' /\ OnSchedule'
  BY <1>1, DiscoveryAlone DEF connVars
<1> QED BY <1>2, <1>3, <1>4, TypePartsNext DEF IInv

LEMMA BehindByOneTurn ==
    ASSUME NEW slack \in Int, NEW next \in Int, NEW taken \in Nat, NEW longest \in Nat,
           slack = next + taken, taken <= longest, -3 * longest <= slack
    PROVE  -4 * longest <= next
  OBVIOUS

LEMMA TickStep == ASSUME IInv, Tick PROVE IInv'
<1>1. /\ Busy => stall < MaxStall
      /\ stall' = IF Busy THEN stall + 1 ELSE 0
      /\ timeouts' = [t \in DOMAIN timeouts |-> Later(timeouts[t])]
      /\ next_conn_timeout' = Later(next_conn_timeout)
      /\ next_discovery_time' = next_discovery_time - 1
      /\ UNCHANGED <<active_discovery_ports, active_connections, id_filter, mio, ready, robots>>
      /\ mio # "stuck"
  BY DEF Tick
<1>2. /\ Connections /\ Timers /\ Loop /\ TimeoutCached /\ OnSchedule
      /\ next_discovery_time \in Int /\ OnTime /\ stall \in Nat /\ stall <= MaxStall
  BY TypeParts, Constants DEF IInv, Schedule, Loop
<1>3. next_discovery_time <= 0 => Busy
  <2> SUFFICES ASSUME next_discovery_time <= 0 PROVE next_timeout <= 0
    BY DEF Busy
  <2>1. CASE next_conn_timeout = None
    <3>1. {next_discovery_time} \cup ({next_conn_timeout} \ {None}) =
            {next_discovery_time, next_discovery_time}
      BY <2>1
    <3>2. Min({next_discovery_time, next_discovery_time}) <= next_discovery_time
          /\ Min({next_discovery_time, next_discovery_time}) = next_discovery_time
      BY <1>2, MinOfTwo
    <3> QED BY <3>1, <3>2 DEF next_timeout
  <2>2. CASE next_conn_timeout # None
    <3>1. next_conn_timeout \in Int
      BY <1>2, <2>2, TimersTyped
    <3>2. {next_discovery_time} \cup ({next_conn_timeout} \ {None}) =
            {next_discovery_time, next_conn_timeout}
      BY <2>2
    <3>3. /\ Min({next_discovery_time, next_conn_timeout}) <= next_discovery_time
          /\ Min({next_discovery_time, next_conn_timeout}) \in Int
      BY <1>2, <3>1, MinOfTwo
    <3> QED BY <1>2, <3>2, <3>3 DEF next_timeout
  <2> QED BY <2>1, <2>2
<1>4. Loop'
  <2>1. stall' \in 0..MaxStall
    <3> HIDE DEF Busy
    <3> QED BY <1>1, <1>2, Constants
  <2> QED BY <1>1, <1>2, <2>1 DEF Loop
<1>5. \A x \in Past..Timeout : Later(x) \in Past..Timeout /\ (x = -1 => Later(x) = -1)
                               /\ (x # -1 => Later(x) = x - 1)
  BY Constants DEF Later
<1>6. Timers' /\ TimeoutCached'
  <2>1. timeouts' \in [Prims(active_connections) -> Past..Timeout]
    BY <1>1, <1>2, <1>5, TimersTyped
  <2>2. CASE next_conn_timeout = None
    <3>1. next_conn_timeout' = None
      BY <1>1, <2>2 DEF Later
    <3> QED BY <1>1, <1>2, <2>1, <2>2, <3>1 DEF Timers, TimeoutCached
  <2>3. CASE next_conn_timeout # None
    <3>1. next_conn_timeout \in Past..Timeout
      BY <1>2, <2>3, TimersTyped
    <3>2. next_conn_timeout' \in Past..Timeout /\ next_conn_timeout' # None
      BY <1>1, <1>2, <1>5, <3>1, TimersTyped
    <3>3. \A t \in Prims(active_connections) : next_conn_timeout' <= timeouts'[t]
      <4> SUFFICES ASSUME NEW t \in Prims(active_connections)
                   PROVE  next_conn_timeout' <= timeouts'[t]
        OBVIOUS
      <4>1. next_conn_timeout <= timeouts[t] /\ timeouts[t] \in Past..Timeout
        BY <1>2, TimersTyped DEF TimeoutCached
      <4>2. timeouts'[t] = Later(timeouts[t])
        BY <1>1, <1>2, TimersTyped
      <4> QED BY <1>1, <1>2, <1>5, <3>1, <4>1, <4>2, TimersTyped
    <3> QED BY <1>1, <2>1, <3>2, <3>3 DEF Timers, TimeoutCached
  <2> QED BY <2>2, <2>3
<1>7. OnSchedule'
  <2>1. Slack = next_discovery_time + stall /\ Slack' = next_discovery_time - 1 + stall'
    BY <1>1 DEF Slack
  <2>2. CASE next_discovery_time <= 0
    <3>1. Slack' = Slack
      BY <1>1, <1>2, <1>3, <2>1, <2>2
    <3> QED BY <1>1, <1>2, <2>2, <3>1 DEF OnSchedule
  <2>3. CASE next_discovery_time > 0
    <3>1. next_discovery_time' <= 0 => 0 <= Slack'
      BY <1>1, <1>2, <2>1, <2>3
    <3>2. next_discovery_time' <= 0 => -MaxStall <= Slack' /\ -2 * MaxStall <= Slack'
      BY <1>1, <1>2, <2>1, <2>3, Constants
    <3> QED BY <3>1, <3>2 DEF OnSchedule
  <2> QED BY <1>2, <2>2, <2>3
<1>8. Schedule'
  <2>1. next_discovery_time' \in Int
    BY <1>1, <1>2
  <2>2. next_discovery_time' <= Window \/ next_discovery_time' <= ProbePeriod - Window
    BY <1>1, <1>2, Constants DEF OnTime
  <2>3. Fast => -4 * MaxStall <= next_discovery_time'
    <3> SUFFICES ASSUME Fast, next_discovery_time' <= 0 PROVE -4 * MaxStall <= next_discovery_time'
      BY <2>1, Constants
    <3>1. stall' \in Nat /\ stall' <= MaxStall
      BY <1>4, Constants DEF Loop
    <3>2. Slack' = next_discovery_time' + stall' /\ Slack' \in Int
      BY <2>1, <3>1 DEF Slack
    <3>3. -3 * MaxStall <= Slack'
      <4>1. mio' \in {"wait", "events"}
        BY <1>1, <1>4 DEF Loop
      <4> QED BY <1>7, <3>2, <4>1, Constants DEF OnSchedule
    <3> QED BY <2>1, <3>1, <3>2, <3>3, BehindByOneTurn, Constants
  <2> QED BY <2>1, <2>2, <2>3 DEF Schedule, OnTime, Fast
<1>9. Connections' /\ Probes' /\ OpenOnce' /\ ProbedApart' /\ Robots'
  BY <1>1, TypeParts
     DEF IInv, Connections, Probes, OpenOnce, ProbedApart, Probed, Robots, robots
<1> QED BY <1>4, <1>6, <1>7, <1>8, <1>9, TypePartsNext DEF IInv

LEMMA StutterStep == ASSUME IInv, UNCHANGED vars PROVE IInv'
<1>1. Connections' /\ Probes' /\ Schedule' /\ OpenOnce' /\ ProbedApart' /\ OnSchedule'
  BY DiscoveryAlone DEF vars, connVars
<1>2. Timers' /\ Loop' /\ Robots' /\ TimeoutCached'
  BY TypeParts DEF IInv, Timers, Loop, Robots, TimeoutCached, vars, connVars, robots
<1> QED BY <1>1, <1>2, TypePartsNext DEF IInv

LEMMA NextKeeps == IInv /\ [Next]_vars => IInv'
<1> SUFFICES ASSUME IInv, [Next]_vars PROVE IInv'
  OBVIOUS
<1>1. CASE MioStep
  BY <1>1, PollStep, EventStep, FilterStep DEF MioStep
<1>2. CASE send_packet \/ \E p \in Ports : Switch(p) \/ Answer(p) \/ SendData(p) \/ HangUp(p)
  BY <1>2, OtherStep
<1>3. CASE Tick
  BY <1>3, TickStep
<1>4. CASE UNCHANGED vars
  BY <1>4, StutterStep
<1> QED BY <1>1, <1>2, <1>3, <1>4 DEF Next

\* The invariant holds in every state of every behaviour of serial.rs as modelled.
THEOREM IInvHolds == Spec => []IInv
  BY InitIInv, NextKeeps, PTL DEF Spec

\* Every timer stays within its bounds, connections are found by token and by port alike, and
\* discovery falls behind its schedule by at most four times MaxStall if the poll loop is fast
\* enough for it (serial.rs:85-163).
THEOREM SerialTypeCorrect == Spec => []TypeOK
<1>1. IInv => TypeOK
  BY DEF IInv
<1> QED BY <1>1, IInvHolds, PTL

\* A port is never opened twice, nor a token given to two ports, for any number of ports and
\* however discovery and the timeouts of connections interleave (serial.rs:167-293).
THEOREM NeverOpenTwice == Spec => []OpenOnce
<1>1. IInv => OpenOnce
  BY DEF IInv
<1> QED BY <1>1, IInvHolds, PTL

\* The cached timeout is never later than that of a connection, although received packets
\* only lower it: the poll wakes up in time for each of them (serial.rs:85-163).
THEOREM TimeoutBoundCached == Spec => []TimeoutCached
<1>1. IInv => TimeoutCached
  BY DEF IInv
<1> QED BY <1>1, IInvHolds, PTL

-----------------------------------------------------------------------------
(* Connections are announced                                               *)

\* Steps that neither begin nor end a connection change nothing of the contract.
LEMMA QuietStep ==
    ASSUME UNCHANGED <<active_connections, id_filter>>, emitted' \subseteq {Event!Failure}
    PROVE  Event!Change
<1> DEFINE S == Secs(active_connections)
           id == [p \in {} |-> p]
<1>1. S' = S
  OBVIOUS
<1>2. id \in [S' \ S -> Ids \ id_filter]
  BY <1>1
<1>3. emitted' \ {Event!Failure} = {Event!Lost(p) : p \in S \ S'}
                  \cup {Event!Connected(p, id[p]) : p \in S' \ S}
  BY <1>1
<1> HIDE DEF id
<1> QED BY <1>2, <1>3 DEF Event!Change

\* One call of mio_timeout announces what it accepts and what it gives up, and nothing else.
LEMMA PollEvents == ASSUME IInv, Poll PROVE Event!Change
<1> DEFINE m == active_connections
           S == Secs(active_connections)
<1>1. mio_timeout /\ UNCHANGED id_filter
  BY DEF Poll
<1>2. PICK accepted \in SUBSET Accepted, expired \in SUBSET Prims(m) :
        /\ S' = accepted \cup (S \ {m.prim_to_val[t] : t \in expired})
        /\ \E failures \in {{}, {Event!Failure}} :
             emitted' = {Event!Lost(m.prim_to_val[t]) : t \in expired}
                        \cup {Event!Connected(p, answer[p]) : p \in accepted}
                        \cup failures
  BY <1>1, TimeoutEffect
<1>3. Connections /\ Probes /\ Robots /\ OpenOnce
  BY TypeParts DEF IInv
<1>4. accepted \cap S = {}
  BY <1>3 DEF Accepted, OpenOnce
<1>5. \A t \in expired : m.prim_to_val[t] \in S
  BY <1>3, ConnectionsTyped
<1>6. S' \ S = accepted /\ S \ S' = {m.prim_to_val[t] : t \in expired}
  BY <1>2, <1>4, <1>5
<1> DEFINE id == [p \in accepted |-> answer[p]]
<1>7. id \in [S' \ S -> Ids \ id_filter]
  <2>1. \A p \in accepted : answer[p] \in Ids \ id_filter
    BY <1>3, ProbedTyped DEF Accepted, Robots
  <2> QED BY <1>6, <2>1
<1>8. /\ \A p : Event!Lost(p) # Event!Failure
      /\ \A p, i : Event!Connected(p, i) # Event!Failure
  BY DEF Event!Lost, Event!Connected, Event!Failure
<1>9. emitted' \ {Event!Failure} = {Event!Lost(p) : p \in S \ S'}
                  \cup {Event!Connected(p, id[p]) : p \in S' \ S}
  <2>1. {Event!Lost(m.prim_to_val[t]) : t \in expired} = {Event!Lost(p) : p \in S \ S'}
    BY <1>6
  <2>2. {Event!Connected(p, answer[p]) : p \in accepted} =
          {Event!Connected(p, id[p]) : p \in S' \ S}
    BY <1>6
  <2>3. emitted' \ {Event!Failure} = {Event!Lost(p) : p \in S \ S'}
                    \cup {Event!Connected(p, answer[p]) : p \in accepted}
    BY <1>2, <1>8, <2>1
  <2> QED BY <2>2, <2>3
<1> HIDE DEF id
<1> QED BY <1>1, <1>7, <1>9 DEF Event!Change

\* Packets are only passed on for a port that is connected.
LEMMA ReadEvents == ASSUME IInv, mio_event PROVE Event!Next
<1>1. PICK t \in ready :
         \/ t \in Prims(active_connections) /\ ReadPackets(t)
         \/ emitted' \subseteq {Event!Failure}
  BY DEF mio_event, ReadNothing, ReadForEver
<1>2. UNCHANGED <<active_connections, id_filter>>
  BY DEF mio_event
<1>3. CASE emitted' \subseteq {Event!Failure}
  BY <1>2, <1>3, QuietStep DEF Event!Next
<1>4. CASE t \in Prims(active_connections) /\ ReadPackets(t)
  <2> DEFINE port == active_connections.prim_to_val[t]
  <2>1. port \in Secs(active_connections)
    BY <1>4, TypeParts, ConnectionsTyped DEF IInv
  <2>2. emitted' \in {{Event!Arrived(port)}, {Event!Arrived(port), Event!Failure}}
    BY <1>4 DEF ReadPackets
  <2>3. Event!Arrived(port) # Event!Failure
    BY DEF Event!Arrived, Event!Failure
  <2>4. emitted' \ {Event!Failure} = {Event!Arrived(port)}
    BY <2>2, <2>3
  <2> QED BY <1>2, <2>1, <2>4 DEF Event!Next, Event!Receive
<1> QED BY <1>1, <1>3, <1>4

LEMMA FilterEvents == ASSUME set_id_filter PROVE Event!SetFilter
  BY DEF set_id_filter, Event!SetFilter, connVars

LEMMA NextEvents == IInv /\ [Next]_vars => [Event!Next]_(Event!vars)
<1> SUFFICES ASSUME IInv, [Next]_vars PROVE [Event!Next]_(Event!vars)
  OBVIOUS
<1>1. CASE Poll
  BY <1>1, PollEvents DEF Event!Next
<1>2. CASE mio_event
  BY <1>2, ReadEvents
<1>3. CASE set_id_filter
  BY <1>3, FilterEvents DEF Event!Next
<1>4. CASE send_packet \/ Tick \/ \E p \in Ports : Switch(p) \/ Answer(p) \/ SendData(p) \/ HangUp(p)
  <2>1. UNCHANGED <<active_connections, id_filter>> /\ emitted' \subseteq {Event!Failure}
    BY <1>4 DEF send_packet, Tick, Switch, Answer, SendData, HangUp, connVars
  <2> QED BY <2>1, QuietStep DEF Event!Next
<1>5. CASE UNCHANGED vars
  BY <1>5 DEF vars, connVars, Event!vars
<1> QED BY <1>1, <1>2, <1>3, <1>4, <1>5 DEF Next, MioStep

\* To the driver the transceiver is the contract of transceivers/mod.rs: a port connects once,
\* under an id the filter lets pass, and every connection given up is announced, also one that
\* times out in the call that accepts another (serial.rs:85-163, 232-293).
THEOREM SerialKeepsContract == Spec => KeepsContract
<1>1. Init => Event!Init
  BY DEF Init, Event!Init, EmptyMap, Secs
<1> QED BY <1>1, NextEvents, IInvHolds, PTL DEF Spec, KeepsContract, Event!Spec

=============================================================================
