--------------------------- MODULE PeriodicDriver ---------------------------
(***************************************************************************)
(* PeriodicConnectionDriver (connection/src/periodic.rs): a ConnectionDriver *)
(* of which one thread belongs to the library.  In every cycle that thread   *)
(* asks for the connected robots, sends each of them its packet, handles     *)
(* control messages and sleeps.  The steps are the ones of ConnectionDriver, *)
(* and Drop goes through the thread before it reaches the driver.            *)
(***************************************************************************)
EXTENDS ConnectionDriver

CONSTANTS
    Periodic,  \* the thread
    PCtlCap    \* capacity of thread_control_channel (100 in the code)

ASSUME PeriodicAssumption == Periodic \in Senders /\ PCtlCap \in Nat \ {0}

VARIABLES
    loop,   \* where the thread is in its loop
    todo,   \* robots of connected_robots() it has not sent to yet
    pctl,   \* thread_control_channel
    pdrop   \* progress of PeriodicConnectionDriver's drop

periodicVars == <<loop, todo, pctl, pdrop>>
allVars == <<vars, periodicVars>>

PeriodicTypeOK ==
    /\ TypeOK
    /\ loop \in {"top", "query", "send", "done"}
    /\ todo \subseteq Ids
    /\ pctl \in Seq({"period", "stop"}) /\ Len(pctl) <= PCtlCap
    /\ pdrop \in {"alive", "stopping", "joining", "joined"}

PeriodicInit ==
    /\ Init
    /\ loop = "top" /\ todo = {} /\ pctl = <<>> /\ pdrop = "alive"
-----------------------------------------------------------------------------
(* The periodic thread                                                     *)

StartCycle ==
    /\ loop = "top" /\ loop' = "query"
    /\ CallAccessor(Periodic)
    /\ UNCHANGED <<todo, pctl, pdrop>>

\* connected_robots
TakeSnapshot ==
    /\ Access(Periodic)
    /\ loop' = "send" /\ todo' = Prims(conns)
    /\ UNCHANGED <<pctl, pdrop>>

\* A robot of the snapshot may have disconnected since: send_packet looks it up again.
SendNext ==
    /\ loop = "send"
    /\ \E id \in todo : CallSendPacket(Periodic, id) /\ todo' = todo \ {id}
    /\ UNCHANGED <<loop, pctl, pdrop>>

InSendPacket ==
    /\ \/ PreparePacket(Periodic) \/ EmitSample(Periodic)
       \/ PushControl(Periodic) \/ Wake(Periodic)
    /\ UNCHANGED periodicVars

AllSent == loop = "send" /\ todo = {} /\ call[Periodic] = Idle

HandleSetPeriod ==
    /\ AllSent
    /\ pctl # <<>> /\ Head(pctl) = "period"
    /\ pctl' = Tail(pctl)
    /\ UNCHANGED <<vars, loop, todo, pdrop>>

HandlePeriodicStop ==
    /\ AllSent
    /\ pctl # <<>> /\ Head(pctl) = "stop"
    /\ pctl' = Tail(pctl)
    /\ loop' = "done"
    /\ UNCHANGED <<vars, todo, pdrop>>

\* The channel is empty; the sleep ends.
Sleep ==
    /\ AllSent
    /\ pctl = <<>>
    /\ loop' = "top"
    /\ UNCHANGED <<vars, todo, pctl, pdrop>>

PeriodicStep ==
    \/ StartCycle \/ TakeSnapshot \/ SendNext \/ InSendPacket
    \/ HandleSetPeriod \/ HandlePeriodicStop \/ Sleep
-----------------------------------------------------------------------------
(* The user's threads                                                      *)

SetSendPeriod ==
    /\ pdrop = "alive"
    /\ Len(pctl) < PCtlCap
    /\ pctl' = Append(pctl, "period")
    /\ UNCHANGED <<vars, loop, todo, pdrop>>

\* queue_datagram and the accessors, and recv.
UserCall(t) == t # Periodic /\ pdrop = "alive" /\ CallAccessor(t) /\ UNCHANGED periodicVars
UserStep(t) == t # Periodic /\ MethodStep(t) /\ UNCHANGED periodicVars
UserRecv(t) == pdrop = "alive" /\ Recv(t) /\ UNCHANGED periodicVars

\* drop has the driver for itself, but for the periodic thread.
BeginPeriodicDrop ==
    /\ AllowDrop /\ pdrop = "alive"
    /\ \A t \in Threads \ {Periodic} : call[t] = Idle
    /\ pdrop' = "stopping"
    /\ UNCHANGED <<vars, loop, todo, pctl>>

SendPeriodicStop ==
    /\ pdrop = "stopping"
    /\ Len(pctl) < PCtlCap
    /\ pctl' = Append(pctl, "stop")
    /\ pdrop' = "joining"
    /\ UNCHANGED <<vars, loop, todo>>

JoinPeriodic ==
    /\ pdrop = "joining" /\ loop = "done"
    /\ pdrop' = "joined"
    /\ UNCHANGED <<vars, loop, todo, pctl>>

\* The last reference to the driver is gone: its own drop runs.
InnerDrop == pdrop = "joined" /\ DropStep /\ UNCHANGED periodicVars

PeriodicDropStep == SendPeriodicStop \/ JoinPeriodic \/ InnerDrop

PeriodicMio == MioStep /\ UNCHANGED periodicVars
PeriodicEnvironment == Environment /\ UNCHANGED periodicVars

PeriodicNext ==
    \/ PeriodicStep \/ SetSendPeriod \/ BeginPeriodicDrop \/ PeriodicDropStep
    \/ PeriodicMio \/ PeriodicEnvironment
    \/ \E t \in Threads : UserCall(t) \/ UserStep(t) \/ UserRecv(t)

PeriodicSpec == PeriodicInit /\ [][PeriodicNext]_allVars

\* As in ConnectionDriver; the thread of the library is scheduled as well.
PeriodicFairness ==
    /\ SF_allVars(PeriodicMio)
    /\ SF_allVars(PeriodicStep)
    /\ \A t \in Threads : SF_allVars(UserStep(t)) /\ WF_allVars(UserRecv(t))
    /\ WF_allVars(PeriodicDropStep)

FairPeriodicSpec == PeriodicSpec /\ PeriodicFairness
-----------------------------------------------------------------------------
(* Properties                                                              *)

\* A robot that stays connected at an address is sent packets there for ever, though the
\* thread's snapshot is from before it moved to it, unless calls of set_send_period never cease: the thread
\* handles all of them before its next cycle (periodic.rs:53-71).
RobotsServed ==
    <>[][~SetSendPeriod]_allVars =>
      \A id \in Ids, addr \in Addrs :
        <>[](id \in Prims(conns) /\ conns.prim_to_val[id] = addr /\ pdrop = "alive") =>
            []<>(mio = "collect" /\ woken /\ ctl # <<>> /\ Head(ctl) = Send(addr))

\* The periodic thread can wait with the lock for room in the event channel as well.
EventChannelBlocks ==
    Len(out) = OutCap /\ (mio = "send" \/ call[Periodic].at = "sample")

AbandonedAndFull == pdrop # "alive" /\ EventChannelBlocks

\* Every call returns, the periodic thread's included, as long as the receiver goes on
\* receiving: only a driver that is being dropped may wait for ever.
PeriodicCallsReturn ==
    \A t \in Threads : call[t] # Idle ~> (call[t] = Idle \/ AbandonedAndFull)

\* Drop returns, unless the event channel that nobody reads any more is full: then the mio
\* thread waits, or the periodic thread does, with the lock (periodic.rs:140-145).
PeriodicDropReturns == pdrop = "stopping" ~> (drop = "dropped" \/ EventChannelBlocks)
=============================================================================
