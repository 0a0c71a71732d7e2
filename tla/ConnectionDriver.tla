-------------------------- MODULE ConnectionDriver --------------------------
(***************************************************************************)
(* ConnectionDriver (connection/src/driver.rs): the mio thread that polls   *)
(* the transceivers, the threads that call the driver's methods, and what   *)
(* they share: active_connections behind a RwLock, the bounded control      *)
(* channel with its waker, and the bounded event channel whose reader keeps *)
(* a ConnectionStateCache (connection/src/utils/cache.rs).                  *)
(*                                                                         *)
(* The transceivers are modelled by their contract (transceivers/mod.rs):   *)
(* which addresses they consider connected and which events they emit.      *)
(* Payloads are abstracted away, and a protocol state to what the driver    *)
(* sees of it: whether a call emits a metrics sample, and what              *)
(* packet_received returns.                                                 *)
(***************************************************************************)
EXTENDS Naturals, Sequences, DualMap

CONSTANTS
    Ids, Addrs,      \* robot ids the id filter can accept; transceiver addresses
    Senders,         \* threads that call send_packet and the locking accessors
    Receivers,       \* the thread that calls recv
    Mio, Nobody,     \* holders of the lock other than the threads
    None,            \* no robot id
    EnableMetrics,   \* start's enable_metrics
    OutCap, CtlCap,  \* capacities of the channels (100 in the code)
    MaxBatch,        \* bound: transceiver events collected in one poll iteration
    AllowDrop        \* is the driver ever dropped?

Threads == Senders \cup Receivers

ASSUME ThreadAssumption ==
    /\ Mio \notin Threads /\ Nobody \notin Threads /\ Mio # Nobody
    /\ \A t, u \in Receivers : t = u
    /\ None \notin Ids
ASSUME CapAssumption ==
    /\ OutCap \in Nat \ {0} /\ CtlCap \in Nat \ {0} /\ MaxBatch \in Nat \ {0}
    /\ EnableMetrics \in BOOLEAN /\ AllowDrop \in BOOLEAN

\* ConnectionDriverEvent, TransceiverEvent, ConnectionDriverControlMessage.
Connected(id, addr) == [kind |-> "connected", id |-> id, addr |-> addr]
About(kind, id) == [kind |-> kind, id |-> id]
Failure == [kind |-> "error"]
Event == [kind : {"connected"}, id : Ids, addr : Addrs]
         \cup [kind : {"disconnected", "packet", "datagram", "sample"}, id : Ids]
         \cup {Failure}
Lost(addr) == [kind |-> "lost", addr |-> addr]
Arrived(addr) == [kind |-> "arrived", addr |-> addr]
TransceiverEvent == [kind : {"connected"}, id : Ids, addr : Addrs]
                    \cup [kind : {"lost", "arrived"}, addr : Addrs]
                    \cup {Failure}
Send(addr) == [kind |-> "send", addr |-> addr]
Stop == [kind |-> "stop"]
Control == [kind : {"send"}, addr : Addrs] \cup {Stop}

VARIABLES
    conns,     \* active_connections: primary key id, secondary key address
    lock,      \* who holds it for writing across steps
    out, ctl,  \* the event channel and the control channel
    waker,     \* has the waker been triggered since the last poll?
    mio,       \* where the mio thread is
    woken,     \* did the last poll report the waker, and is ctl still being drained?
    tev,       \* transceiver_events of this iteration
    pend,      \* events the mio thread is about to send
    stale,     \* update_transceiver_blacklists
    tconns,    \* addresses the transceivers consider connected
    filter,    \* ids on the transceivers' blacklist
    call,      \* per thread: where in a driver method it is, and for what
    cache,     \* the receiver's ConnectionStateCache
    drop       \* progress of Drop::drop

mioVars == <<mio, woken, tev, pend, stale, tconns, filter>>
vars == <<conns, lock, out, ctl, waker, mioVars, call, cache, drop>>

Idle == [at |-> "idle", arg |-> None]
At(place, arg) == [at |-> place, arg |-> arg]
AddrMap == UNION {[S -> Addrs] : S \in SUBSET Ids}

TypeOK ==
    /\ conns \in Maps(Ids, Addrs)
    /\ lock \in Threads \cup {Mio, Nobody}
    /\ out \in Seq(Event) /\ Len(out) <= OutCap
    /\ ctl \in Seq(Control) /\ Len(ctl) <= CtlCap
    /\ waker \in BOOLEAN /\ woken \in BOOLEAN /\ stale \in BOOLEAN
    /\ mio \in {"poll", "collect", "process", "send", "stopped"}
    /\ tev \in Seq(TransceiverEvent) /\ Len(tev) <= MaxBatch
    /\ pend \in Seq(Event)
    /\ tconns \subseteq Addrs /\ filter \subseteq Ids
    /\ call \in [Threads -> [at : {"idle", "lock", "query", "sample", "ctl", "wake"},
                             arg : Ids \cup Addrs \cup {None}]]
    /\ cache \in AddrMap
    /\ drop \in {"alive", "stopping", "waking", "joining", "dropped"}

Init ==
    /\ conns = EmptyMap /\ lock = Nobody
    /\ out = <<>> /\ ctl = <<>>
    /\ waker = FALSE /\ woken = FALSE
    /\ mio = "poll" /\ tev = <<>> /\ pend = <<>>
    /\ stale = FALSE /\ tconns = {} /\ filter = {}
    /\ call = [t \in Threads |-> Idle]
    /\ cache = [k \in {} |-> k]
    /\ drop = "alive"
-----------------------------------------------------------------------------
(* The threads that use the driver                                         *)

Goto(t, place, arg) == call' = [call EXCEPT ![t] = At(place, arg)]
Return(t) == call' = [call EXCEPT ![t] = Idle]

CallSendPacket(t, id) ==
    /\ drop = "alive" /\ t \in Senders /\ call[t] = Idle
    /\ Goto(t, "lock", id)
    /\ UNCHANGED <<conns, lock, out, ctl, waker, mioVars, cache, drop>>

\* queue_datagram, has_robot, connected_robots and transceiver_addr: they take the lock
\* and leave the modelled state as it is.
CallAccessor(t) ==
    /\ drop = "alive" /\ t \in Senders /\ call[t] = Idle
    /\ Goto(t, "query", None)
    /\ UNCHANGED <<conns, lock, out, ctl, waker, mioVars, cache, drop>>

Access(t) ==
    /\ call[t].at = "query"
    /\ lock = Nobody
    /\ Return(t)
    /\ UNCHANGED <<conns, lock, out, ctl, waker, mioVars, cache, drop>>

\* send_packet under the lock: nothing for an unknown robot; otherwise next_packet, whose
\* metrics tracker may report the oldest pending packet as lost, and that report is sent
\* with the lock still held.
PreparePacket(t) ==
    /\ call[t].at = "lock"
    /\ lock = Nobody
    /\ \/ /\ call[t].arg \notin Prims(conns)
          /\ Return(t)
          /\ UNCHANGED lock
       \/ /\ call[t].arg \in Prims(conns)
          /\ Goto(t, "ctl", conns.prim_to_val[call[t].arg])
          /\ UNCHANGED lock
       \/ /\ call[t].arg \in Prims(conns)
          /\ EnableMetrics
          /\ Goto(t, "sample", call[t].arg)
          /\ lock' = t
    /\ UNCHANGED <<conns, out, ctl, waker, mioVars, cache, drop>>

EmitSample(t) ==
    /\ call[t].at = "sample"
    /\ Len(out) < OutCap
    /\ out' = Append(out, About("sample", call[t].arg))
    /\ lock' = Nobody
    /\ Goto(t, "ctl", conns.prim_to_val[call[t].arg])
    /\ UNCHANGED <<conns, ctl, waker, mioVars, cache, drop>>

\* Mutant: an unbounded channel; the code's is flume::bounded(100).
ControlRoomAlways == TRUE
ControlRoom == Len(ctl) < CtlCap

\* WakingSender::send: first the message, then the waker (mutant: no waker).
SentWithoutWaker(t) == Return(t)
Sent(t) == Goto(t, "wake", None)

PushControl(t) ==
    /\ call[t].at = "ctl"
    /\ ControlRoom
    /\ ctl' = Append(ctl, Send(call[t].arg))
    /\ Sent(t)
    /\ UNCHANGED <<conns, lock, out, waker, mioVars, cache, drop>>

Wake(t) ==
    /\ call[t].at = "wake"
    /\ waker' = TRUE
    /\ Return(t)
    /\ UNCHANGED <<conns, lock, out, ctl, mioVars, cache, drop>>

\* ConnectionStateCache::update.
CacheUpdate(event) ==
    cache' = CASE event.kind = "connected" -> With(cache, event.id, event.addr)
               [] event.kind = "disconnected" -> Without(cache, event.id)
               [] OTHER -> cache

\* recv, whose caller feeds the cache.
Recv(t) ==
    /\ drop = "alive" /\ t \in Receivers /\ call[t] = Idle
    /\ out # <<>>
    /\ out' = Tail(out)
    /\ CacheUpdate(Head(out))
    /\ UNCHANGED <<conns, lock, ctl, waker, mioVars, call, drop>>

\* Drop::drop has the driver for itself: send Stop, wake, join the mio thread.
BeginDrop ==
    /\ AllowDrop /\ drop = "alive"
    /\ \A t \in Threads : call[t] = Idle
    /\ drop' = "stopping"
    /\ UNCHANGED <<conns, lock, out, ctl, waker, mioVars, call, cache>>

\* Mutant: the waker is not triggered for Stop.
StopWithoutWaker == drop' = "joining"
StopSent == drop' = "waking"

DropSendStop ==
    /\ drop = "stopping"
    /\ ControlRoom
    /\ ctl' = Append(ctl, Stop)
    /\ StopSent
    /\ UNCHANGED <<conns, lock, out, waker, mioVars, call, cache>>

DropWake ==
    /\ drop = "waking"
    /\ waker' = TRUE
    /\ drop' = "joining"
    /\ UNCHANGED <<conns, lock, out, ctl, mioVars, call, cache>>

DropJoin ==
    /\ drop = "joining" /\ mio = "stopped"
    /\ drop' = "dropped"
    /\ UNCHANGED <<conns, lock, out, ctl, waker, mioVars, call, cache>>
-----------------------------------------------------------------------------
(* The mio thread: polling and the transceivers                            *)

\* Timeouts make the poll return at the latest; the waker's event is consumed by it.
Poll ==
    /\ mio = "poll"
    /\ mio' = "collect"
    /\ woken' = waker
    /\ waker' = FALSE
    /\ UNCHANGED <<conns, lock, out, ctl, tev, pend, stale, tconns, filter, call, cache, drop>>

Collect(event) ==
    /\ mio = "collect"
    /\ Len(tev) < MaxBatch
    /\ tev' = Append(tev, event)
    /\ UNCHANGED <<conns, lock, out, ctl, waker, mio, woken, pend, stale, filter,
                   call, cache, drop>>

\* A robot announces itself at a new address, and its id passes the filter.
TransceiverConnects(addr, id) ==
    /\ addr \notin tconns /\ id \notin filter
    /\ tconns' = tconns \cup {addr}
    /\ Collect(Connected(id, addr))

\* A connection times out or its port fails.
TransceiverLoses(addr) ==
    /\ addr \in tconns
    /\ tconns' = tconns \ {addr}
    /\ Collect(Lost(addr))

TransceiverReceives(addr) ==
    /\ addr \in tconns
    /\ Collect(Arrived(addr))
    /\ UNCHANGED tconns

TransceiverFails ==
    /\ Collect(Failure)
    /\ UNCHANGED tconns

\* Mutant: one message per wakeup instead of all of them.
HandleOne == woken' = FALSE
HandleAll == UNCHANGED woken

\* The waker's event: ctl is drained message by message while senders go on sending.
\* A transceiver ignores an address it does not know; sending to one it knows may fail.
HandleSend ==
    /\ mio = "collect" /\ woken
    /\ ctl # <<>> /\ Head(ctl) # Stop
    /\ ctl' = Tail(ctl)
    /\ \/ UNCHANGED tev
       \/ /\ Head(ctl).addr \in tconns
          /\ Len(tev) < MaxBatch
          /\ tev' = Append(tev, Failure)
    /\ HandleAll
    /\ UNCHANGED <<conns, lock, out, waker, mio, pend, stale, tconns, filter,
                   call, cache, drop>>

\* Stop returns at once; what was collected is dropped.
HandleStop ==
    /\ mio = "collect" /\ woken
    /\ ctl # <<>> /\ Head(ctl) = Stop
    /\ ctl' = Tail(ctl)
    /\ mio' = "stopped"
    /\ tev' = <<>> /\ woken' = FALSE
    /\ UNCHANGED <<conns, lock, out, waker, pend, stale, tconns, filter, call, cache, drop>>

DrainDone ==
    /\ mio = "collect" /\ woken
    /\ ctl = <<>>
    /\ woken' = FALSE
    /\ UNCHANGED <<conns, lock, out, ctl, waker, mio, tev, pend, stale, tconns, filter,
                   call, cache, drop>>

EndCollect ==
    /\ mio = "collect" /\ ~woken
    /\ mio' = "process"
    /\ UNCHANGED <<conns, lock, out, ctl, waker, woken, tev, pend, stale, tconns, filter,
                   call, cache, drop>>
-----------------------------------------------------------------------------
(* The mio thread: processing what was collected                           *)

Processing(kind) ==
    /\ mio = "process"
    /\ tev # <<>> /\ Head(tev).kind = kind
    /\ tev' = Tail(tev)
    /\ UNCHANGED <<out, ctl, waker, woken, tconns, filter, call, cache, drop>>

\* Send events, which keeps the lock when this arm of the match took it.
BeginSend(events, holder) ==
    /\ mio' = "send"
    /\ pend' = events
    /\ lock' = holder

NothingToSend == UNCHANGED <<mio, pend, lock>>

\* Mutant: the write guard is dropped before Connected is sent.
ConnectedUnlocked == Nobody
ConnectedHolder == Mio

\* A second address for a connected id is ignored.
ProcessConnected ==
    /\ Processing("connected")
    /\ lock = Nobody
    /\ stale' = TRUE
    /\ LET id == Head(tev).id
           addr == Head(tev).addr
       IN  \/ /\ id \notin Prims(conns)
              /\ conns' = Insert(conns, id, addr)
              /\ BeginSend(<<Connected(id, addr)>>, ConnectedHolder)
           \/ /\ id \in Prims(conns)
              /\ NothingToSend
              /\ UNCHANGED conns

\* Mutant: only a connect refreshes the blacklists.
NoRefresh == UNCHANGED stale
Refresh == stale' = TRUE

\* remove_sec, if the lock is ready.
Disconnect(ready) ==
    /\ Processing("lost")
    /\ Refresh
    /\ LET addr == Head(tev).addr
       IN  \/ /\ ready /\ addr \in Secs(conns)
              /\ conns' = RemoveSec(conns, addr)
              /\ BeginSend(<<About("disconnected", conns.sec_to_prim[addr])>>, Mio)
           \/ /\ ~(ready /\ addr \in Secs(conns))
              /\ NothingToSend
              /\ UNCHANGED conns

\* Mutant: try_write instead of write skips the removal when a sender has the lock.
TryDisconnected == Disconnect(lock = Nobody)

ProcessDisconnected == lock = Nobody /\ Disconnect(TRUE)

\* packet_received may emit a metrics sample and returns a regular packet, a datagram or
\* nothing yet.
Results(id) ==
    {<<>>, <<About("packet", id)>>, <<About("datagram", id)>>}
Samples(id) == IF EnableMetrics THEN {<<>>, <<About("sample", id)>>} ELSE {<<>>}

ProcessPacket ==
    /\ Processing("arrived")
    /\ lock = Nobody
    /\ LET addr == Head(tev).addr
       IN  \/ /\ addr \in Secs(conns)
              /\ \E sample \in Samples(conns.sec_to_prim[addr]),
                    result \in Results(conns.sec_to_prim[addr]) :
                   IF sample \o result = <<>> THEN NothingToSend
                                              ELSE BeginSend(sample \o result, Mio)
           \/ addr \notin Secs(conns) /\ NothingToSend
    /\ UNCHANGED <<conns, stale>>

ProcessError ==
    /\ Processing("error")
    /\ BeginSend(<<Failure>>, lock)
    /\ UNCHANGED <<conns, stale>>

\* Every event blocks on a full channel, except a regular packet, which is dropped.
\* (Mutant: none blocks, all are dropped.)
NoneBlocks(event) == FALSE
Blocks(event) == event.kind # "packet"

EmitEvent ==
    /\ mio = "send"
    /\ \/ Len(out) < OutCap /\ out' = Append(out, Head(pend))
       \/ Len(out) >= OutCap /\ ~Blocks(Head(pend)) /\ UNCHANGED out
    /\ pend' = Tail(pend)
    /\ IF Len(pend) = 1
       THEN /\ mio' = "process"
            /\ lock' = IF lock = Mio THEN Nobody ELSE lock
       ELSE UNCHANGED <<mio, lock>>
    /\ UNCHANGED <<conns, ctl, waker, woken, tev, stale, tconns, filter, call, cache, drop>>

\* Everything is processed: pass the connected ids on as the transceivers' blacklist.
EndIteration ==
    /\ mio = "process" /\ tev = <<>>
    /\ \/ ~stale /\ UNCHANGED filter
       \/ stale /\ lock = Nobody /\ filter' = Prims(conns)
    /\ stale' = FALSE
    /\ mio' = "poll"
    /\ UNCHANGED <<conns, lock, out, ctl, waker, woken, tev, pend, tconns, call, cache, drop>>
-----------------------------------------------------------------------------
DropStep == BeginDrop \/ DropSendStop \/ DropWake \/ DropJoin

\* Steps of a thread inside a driver method.
MethodStep(t) ==
    \/ Access(t) \/ PreparePacket(t) \/ EmitSample(t) \/ PushControl(t) \/ Wake(t)

ThreadStep(t) ==
    \/ \E id \in Ids : CallSendPacket(t, id)
    \/ CallAccessor(t) \/ MethodStep(t) \/ Recv(t)

\* What happens at the transceivers while they are polled.
Environment ==
    \/ \E addr \in Addrs, id \in Ids : TransceiverConnects(addr, id)
    \/ \E addr \in Addrs : TransceiverLoses(addr) \/ TransceiverReceives(addr)
    \/ TransceiverFails

\* Steps the mio thread takes by itself.
MioStep ==
    \/ Poll \/ HandleSend \/ HandleStop \/ DrainDone \/ EndCollect
    \/ ProcessConnected \/ ProcessDisconnected \/ ProcessPacket \/ ProcessError
    \/ EmitEvent \/ EndIteration

Next == DropStep \/ Environment \/ MioStep \/ \E t \in Threads : ThreadStep(t)

Spec == Init /\ [][Next]_vars

\* Every thread is scheduled, a waiting thread gets a lock or a place in a channel that
\* comes free again and again, and the receiver goes on receiving.
Fairness ==
    /\ SF_vars(MioStep)
    /\ \A t \in Threads : SF_vars(MethodStep(t)) /\ WF_vars(Recv(t))
    /\ WF_vars(DropSendStop \/ DropWake \/ DropJoin)

FairSpec == Spec /\ Fairness
-----------------------------------------------------------------------------
(* Properties                                                              *)

\* active_connections never has an entry that only one of the two keys finds.
ConnsConsistent == MutuallyInverse(conns)

\* Connection events on their way to the receiver, oldest first.
Stream == out \o pend
Concerns(event, id) ==
    event.kind \in {"connected", "disconnected"} /\ event.id = id
LastAbout(i, id) ==
    /\ Concerns(Stream[i], id)
    /\ \A j \in DOMAIN Stream : j > i => ~Concerns(Stream[j], id)

\* The receiver's cache is active_connections, only later: for every id, the last
\* connection event still in the stream says what active_connections says, and without
\* one the cache itself does.  (Connected and Disconnected are sent under the lock and
\* never dropped, driver.rs:334 and 346.)
CacheCoherent ==
    \A id \in Ids :
        \/ \E i \in DOMAIN Stream :
             /\ LastAbout(i, id)
             /\ id \in Prims(conns) <=> Stream[i].kind = "connected"
             /\ id \in Prims(conns) => conns.prim_to_val[id] = Stream[i].addr
        \/ /\ \A i \in DOMAIN Stream : ~Concerns(Stream[i], id)
           /\ id \in Prims(conns) <=> id \in DOMAIN cache
           /\ id \in Prims(conns) => conns.prim_to_val[id] = cache[id]

\* The receiver never sees a robot connect twice, nor a disconnect, packet, datagram or
\* metrics sample of a robot that is not connected in the events before it
\* (MetricsAnalyzer::update warns of such a sample).
EventsFitCache ==
    out # <<>> =>
        CASE Head(out).kind = "connected" -> Head(out).id \notin DOMAIN cache
          [] Head(out).kind = "error" -> TRUE
          [] OTHER -> Head(out).id \in DOMAIN cache

\* A connection the transceiver has given up does not stay in active_connections: the
\* event that removes it is still to be processed.
NoZombie ==
    mio # "stopped" =>
        \A addr \in Secs(conns) :
            addr \in tconns \/ \E i \in DOMAIN tev : tev[i] = Lost(addr)

\* While robots are being discovered, the blacklist is exactly the connected ids: a
\* disconnected robot can come back, a connected one is not accepted twice.
FilterCurrent == mio \in {"poll", "collect"} => filter = Prims(conns)

\* A message in the control channel is never left without a wakeup: the mio thread is
\* draining, or will be woken, or the sender is about to wake it.
NoLostWakeup ==
    ctl # <<>> /\ mio # "stopped" =>
        \/ woken \/ waker \/ drop = "waking"
        \/ \E t \in Threads : call[t].at = "wake"

\* driver.rs:190: a thread that waits for room in the control channel has released
\* active_connections, and so has every thread outside its critical section.
LockDiscipline ==
    /\ \A t \in Threads : lock = t => call[t].at = "sample"
    /\ lock = Mio => mio = "send"

\* Every call of a driver method returns as long as the receiver goes on receiving.
CallsReturn == \A t \in Threads : call[t] # Idle ~> call[t] = Idle
=============================================================================
