----------------------- MODULE ConnectionDriverProofs -----------------------
(***************************************************************************)
(* What holds in every reachable state of ConnectionDriver, for any sets of *)
(* robots, addresses and threads and any channel capacities.                *)
(***************************************************************************)
EXTENDS ConnectionDriver, DualMapProofs, SequenceTheorems

-----------------------------------------------------------------------------
(* The inductive invariant behind type correctness                         *)

\* A thread's place in a method fixes what it carries; a thread that emits a sample has
\* the lock, and its robot stays connected meanwhile.
CallOK ==
    \A t \in Threads :
        /\ call[t].at = "lock" => call[t].arg \in Ids
        /\ call[t].at = "ctl" => call[t].arg \in Addrs
        /\ call[t].at = "sample" => call[t].arg \in Prims(conns) /\ lock = t

\* The mio thread has something to send exactly while it sends.
PendOK == mio = "send" <=> pend # <<>>

Inv == TypeOK /\ ConnsConsistent /\ CallOK /\ LockDiscipline /\ PendOK

\* The receiver's cache stays a map from ids to addresses.
LEMMA CacheTyped ==
    ASSUME NEW c \in AddrMap
    PROVE  /\ \A id \in Ids, a \in Addrs : With(c, id, a) \in AddrMap
           /\ \A id : Without(c, id) \in AddrMap
<1>1. PICK S \in SUBSET Ids : c \in [S -> Addrs]
  BY DEF AddrMap
<1>2. ASSUME NEW id \in Ids, NEW a \in Addrs
      PROVE  With(c, id, a) \in AddrMap
  <2>1. With(c, id, a) \in [S \cup {id} -> Addrs]
    BY <1>1 DEF With
  <2>2. S \cup {id} \in SUBSET Ids
    OBVIOUS
  <2> QED BY <2>1, <2>2 DEF AddrMap
<1>3. ASSUME NEW id
      PROVE  Without(c, id) \in AddrMap
  <2>1. Without(c, id) \in [S \ {id} -> Addrs]
    BY <1>1 DEF Without, Restrict
  <2>2. S \ {id} \in SUBSET Ids
    OBVIOUS
  <2> QED BY <2>1, <2>2 DEF AddrMap
<1> QED BY <1>2, <1>3

\* Taking the first element of a queue, and adding one at its end.
LEMMA Pop ==
    ASSUME NEW S, NEW s \in Seq(S), s # <<>>
    PROVE  /\ Head(s) \in S /\ Tail(s) \in Seq(S)
           /\ Len(s) \in Nat /\ Len(s) >= 1 /\ Len(Tail(s)) = Len(s) - 1
           /\ Len(s) = 1 <=> Tail(s) = <<>>
<1>1. Head(s) \in S /\ Tail(s) \in Seq(S) /\ Len(Tail(s)) = Len(s) - 1
  OBVIOUS
<1>2. Len(s) \in Nat /\ Len(s) >= 1
  BY EmptySeq
<1>3. Tail(s) = <<>> <=> Len(Tail(s)) = 0
  BY <1>1, EmptySeq
<1> QED BY <1>1, <1>2, <1>3

LEMMA Push ==
    ASSUME NEW S, NEW s \in Seq(S), NEW e \in S
    PROVE  Append(s, e) \in Seq(S) /\ Len(Append(s, e)) = Len(s) + 1 /\ Len(s) \in Nat
  OBVIOUS

\* The fields of a transceiver event.
LEMMA EventFields ==
    ASSUME NEW e \in TransceiverEvent
    PROVE  /\ e.kind = "connected" => e.id \in Ids /\ e.addr \in Addrs
           /\ e.kind \in {"lost", "arrived"} => e.addr \in Addrs
  BY DEF TransceiverEvent, Failure

\* What Inv says of conns, in the terms of the lemmas on DualMap.
LEMMA ConnsGood ==
    ASSUME Inv
    PROVE  /\ Good(conns, Ids, Addrs)
           /\ Prims(conns) \subseteq Ids /\ conns.prim_to_val \in [Prims(conns) -> Addrs]
           /\ Secs(conns) \subseteq Addrs /\ conns.sec_to_prim \in [Secs(conns) -> Ids]
  BY MapsFields DEF Inv, TypeOK, ConnsConsistent, Good

LEMMA InitInv == Init => Inv
<1> SUFFICES ASSUME Init PROVE Inv
  OBVIOUS
<1>1. conns \in Maps(Ids, Addrs) /\ ConnsConsistent
  BY EmptyGood DEF Init, Good, ConnsConsistent
<1>2. cache \in AddrMap
  <2>1. cache \in [{} -> Addrs]
    BY DEF Init
  <2> QED BY <2>1 DEF AddrMap
<1>3. TypeOK
  <2>1. out \in Seq(Event) /\ ctl \in Seq(Control) /\ tev \in Seq(TransceiverEvent)
        /\ pend \in Seq(Event)
    BY DEF Init
  <2>2. Len(out) <= OutCap /\ Len(ctl) <= CtlCap /\ Len(tev) <= MaxBatch
    BY CapAssumption DEF Init
  <2>3. call \in [Threads -> [at : {"idle", "lock", "query", "sample", "ctl", "wake"},
                              arg : Ids \cup Addrs \cup {None}]]
    BY DEF Init, Idle
  <2> QED BY <1>1, <1>2, <2>1, <2>2, <2>3 DEF Init, TypeOK
<1>4. CallOK /\ LockDiscipline /\ PendOK
  BY ThreadAssumption DEF Init, CallOK, LockDiscipline, PendOK, Idle
<1> QED BY <1>1, <1>3, <1>4 DEF Inv

\* A step of a thread inside a driver method.
LEMMA ThreadInv ==
    ASSUME Inv, NEW t \in Threads, ThreadStep(t)
    PROVE  Inv'
<1> USE DEF Inv, mioVars
<1>1. ASSUME NEW id \in Ids, CallSendPacket(t, id) PROVE Inv'
  BY <1>1 DEF CallSendPacket, Goto, At, TypeOK, ConnsConsistent, CallOK, LockDiscipline, PendOK, Idle
<1>2. CASE CallAccessor(t)
  BY <1>2 DEF CallAccessor, Goto, At, TypeOK, ConnsConsistent, CallOK, LockDiscipline, PendOK, Idle
<1>3. CASE Access(t)
  BY <1>3 DEF Access, Return, TypeOK, ConnsConsistent, CallOK, LockDiscipline, PendOK, Idle
<1>4. CASE PreparePacket(t)
  <2>1. CASE Return(t) /\ UNCHANGED lock
    BY <1>4, <2>1 DEF PreparePacket, Return, TypeOK, ConnsConsistent, CallOK, LockDiscipline,
                      PendOK, Idle
  <2>2. CASE /\ call[t].arg \in Prims(conns) /\ UNCHANGED lock
             /\ Goto(t, "ctl", conns.prim_to_val[call[t].arg])
    <3>1. conns.prim_to_val[call[t].arg] \in Addrs
      BY <2>2, ConnsGood
    <3> QED BY <1>4, <2>2, <3>1 DEF PreparePacket, Goto, At, TypeOK, ConnsConsistent, CallOK,
                                    LockDiscipline, PendOK
  <2>3. CASE /\ call[t].arg \in Prims(conns) /\ lock' = t
             /\ Goto(t, "sample", call[t].arg)
    BY <1>4, <2>3, ConnsGood, ThreadAssumption
       DEF PreparePacket, Goto, At, TypeOK, ConnsConsistent, CallOK, LockDiscipline, PendOK
  <2> QED BY <1>4, <2>1, <2>2, <2>3 DEF PreparePacket
<1>5. CASE EmitSample(t)
  <2>1. call[t].arg \in Ids /\ call[t].arg \in Prims(conns)
        /\ conns.prim_to_val[call[t].arg] \in Addrs /\ lock = t
    BY <1>5, ConnsGood DEF EmitSample, CallOK
  <2>2. About("sample", call[t].arg) \in Event
    BY <2>1 DEF About, Event
  <2>3. out' \in Seq(Event) /\ Len(out') <= OutCap
    BY <1>5, <2>2, CapAssumption DEF EmitSample, TypeOK
  <2>4. TypeOK'
    BY <1>5, <2>1, <2>3 DEF EmitSample, Goto, At, TypeOK
  <2>5. /\ ConnsConsistent' /\ CallOK' /\ LockDiscipline' /\ PendOK'
    BY <1>5, <2>1, ThreadAssumption DEF EmitSample, Goto, At, TypeOK, ConnsConsistent,
                                       CallOK, LockDiscipline, PendOK
  <2> QED BY <2>4, <2>5
<1>6. CASE PushControl(t)
  BY <1>6, CapAssumption DEF PushControl, ControlRoom, Sent, Send, Control, Goto, At, TypeOK, ConnsConsistent, CallOK, LockDiscipline, PendOK, Idle
<1>7. CASE Wake(t)
  BY <1>7 DEF Wake, Return, TypeOK, ConnsConsistent, CallOK, LockDiscipline, PendOK, Idle
<1>8. CASE Recv(t)
  <2>1. Head(out) \in Event /\ out' \in Seq(Event) /\ Len(out') <= OutCap
    BY <1>8, CapAssumption DEF Recv, TypeOK
  <2>2. cache' \in AddrMap
    <3>1. CASE Head(out).kind = "connected"
      BY <1>8, <2>1, <3>1, CacheTyped DEF Recv, CacheUpdate, Event, Failure, TypeOK
    <3>2. CASE Head(out).kind = "disconnected"
      BY <1>8, <3>2, CacheTyped DEF Recv, CacheUpdate, TypeOK
    <3>3. CASE Head(out).kind \notin {"connected", "disconnected"}
      BY <1>8, <3>3 DEF Recv, CacheUpdate, TypeOK
    <3> QED BY <3>1, <3>2, <3>3
  <2> QED BY <1>8, <2>1, <2>2 DEF Recv, TypeOK, ConnsConsistent, CallOK, LockDiscipline, PendOK
<1> QED BY <1>1, <1>2, <1>3, <1>4, <1>5, <1>6, <1>7, <1>8 DEF ThreadStep, MethodStep

LEMMA DropInv ==
    ASSUME Inv, DropStep
    PROVE  Inv'
<1> USE DEF Inv, mioVars, TypeOK, ConnsConsistent, CallOK, LockDiscipline, PendOK
<1>1. CASE BeginDrop
  BY <1>1 DEF BeginDrop
<1>2. CASE DropSendStop
  BY <1>2, CapAssumption DEF DropSendStop, ControlRoom, StopSent, Stop, Control
<1>3. CASE DropWake
  BY <1>3 DEF DropWake
<1>4. CASE DropJoin
  BY <1>4 DEF DropJoin
<1> QED BY <1>1, <1>2, <1>3, <1>4 DEF DropStep

LEMMA EnvironmentInv ==
    ASSUME Inv, Environment
    PROVE  Inv'
<1> USE DEF Inv, TypeOK, ConnsConsistent, CallOK, LockDiscipline, PendOK
<1>1. ASSUME NEW event \in TransceiverEvent, Collect(event)
      PROVE  tev' \in Seq(TransceiverEvent) /\ Len(tev') <= MaxBatch
  BY <1>1, CapAssumption DEF Collect
<1>2. ASSUME NEW addr \in Addrs, NEW id \in Ids, TransceiverConnects(addr, id)
      PROVE  Inv'
  <2>1. Connected(id, addr) \in TransceiverEvent
    BY DEF Connected, TransceiverEvent
  <2> QED BY <1>1, <1>2, <2>1 DEF TransceiverConnects, Collect
<1>3. ASSUME NEW addr \in Addrs, TransceiverLoses(addr) \/ TransceiverReceives(addr)
      PROVE  Inv'
  <2>1. Lost(addr) \in TransceiverEvent /\ Arrived(addr) \in TransceiverEvent
    BY DEF Lost, Arrived, TransceiverEvent
  <2> QED BY <1>1, <1>3, <2>1 DEF TransceiverLoses, TransceiverReceives, Collect
<1>4. CASE TransceiverFails
  <2>1. Failure \in TransceiverEvent
    BY DEF TransceiverEvent
  <2> QED BY <1>1, <1>4, <2>1 DEF TransceiverFails, Collect
<1> QED BY <1>2, <1>3, <1>4 DEF Environment

\* The oldest collected event, taken from the queue.
LEMMA TakeEvent ==
    ASSUME Inv, NEW kind, Processing(kind)
    PROVE  /\ Head(tev) \in TransceiverEvent /\ Head(tev).kind = kind
           /\ tev' \in Seq(TransceiverEvent) /\ Len(tev') <= MaxBatch
           /\ mio = "process" /\ pend = <<>>
  BY CapAssumption DEF Processing, Inv, TypeOK, PendOK

LEMMA MioInv ==
    ASSUME Inv, MioStep
    PROVE  Inv'
<1> USE DEF Inv, TypeOK, CallOK, LockDiscipline, PendOK
<1>1. CASE Poll
  BY <1>1 DEF Poll, ConnsConsistent
<1>2. CASE HandleSend
  <2>1. ctl' \in Seq(Control) /\ Len(ctl') <= CtlCap
    BY <1>2, CapAssumption DEF HandleSend
  <2>2. tev' \in Seq(TransceiverEvent) /\ Len(tev') <= MaxBatch
    <3>1. Failure \in TransceiverEvent
      BY DEF TransceiverEvent
    <3>2. CASE UNCHANGED tev
      BY <3>2
    <3>3. CASE Len(tev) < MaxBatch /\ tev' = Append(tev, Failure)
      BY <3>1, <3>3, Push, CapAssumption
    <3> QED BY <1>2, <3>2, <3>3 DEF HandleSend
  <2> QED BY <1>2, <2>1, <2>2 DEF HandleSend, HandleAll, ConnsConsistent
<1>3. CASE HandleStop
  <2>1. ctl' \in Seq(Control) /\ Len(ctl') <= CtlCap
    BY <1>3, CapAssumption DEF HandleStop
  <2>2. tev' \in Seq(TransceiverEvent) /\ Len(tev') <= MaxBatch
    BY <1>3, CapAssumption DEF HandleStop
  <2> QED BY <1>3, <2>1, <2>2 DEF HandleStop, ConnsConsistent
<1>4. CASE DrainDone
  BY <1>4 DEF DrainDone, ConnsConsistent
<1>5. CASE EndCollect
  BY <1>5 DEF EndCollect, ConnsConsistent
<1>6. CASE ProcessConnected
  <2> DEFINE id == Head(tev).id
             addr == Head(tev).addr
  <2>1. /\ tev' \in Seq(TransceiverEvent) /\ Len(tev') <= MaxBatch
        /\ mio = "process" /\ pend = <<>> /\ lock = Nobody
    BY <1>6, TakeEvent DEF ProcessConnected
  <2>2. id \in Ids /\ addr \in Addrs
    BY <1>6, TakeEvent, EventFields DEF ProcessConnected
  <2>3. CASE NothingToSend /\ UNCHANGED conns
    BY <1>6, <2>1, <2>3 DEF ProcessConnected, Processing, NothingToSend, ConnsConsistent
  <2>4. CASE /\ conns' = Insert(conns, id, addr)
             /\ BeginSend(<<Connected(id, addr)>>, ConnectedHolder)
    <3>1. conns' \in Maps(Ids, Addrs) /\ ConnsConsistent'
      BY <2>2, <2>4, ConnsGood, InsertGood DEF Good, ConnsConsistent
    <3>2. pend' \in Seq(Event) /\ pend' # <<>>
      BY <2>2, <2>4 DEF BeginSend, Connected, Event
    <3> QED BY <1>6, <2>1, <2>4, <3>1, <3>2, ThreadAssumption
            DEF ProcessConnected, Processing, BeginSend, ConnectedHolder
  <2> QED BY <1>6, <2>3, <2>4 DEF ProcessConnected
<1>7. CASE ProcessDisconnected
  <2> DEFINE addr == Head(tev).addr
  <2>1. /\ addr \in Addrs
        /\ tev' \in Seq(TransceiverEvent) /\ Len(tev') <= MaxBatch
        /\ mio = "process" /\ pend = <<>> /\ lock = Nobody
    BY <1>7, TakeEvent DEF ProcessDisconnected, Disconnect, TransceiverEvent, Failure
  <2>2. CASE NothingToSend /\ UNCHANGED conns
    BY <1>7, <2>1, <2>2 DEF ProcessDisconnected, Disconnect, Refresh, Processing, NothingToSend, ConnsConsistent
  <2>3. CASE /\ addr \in Secs(conns)
             /\ conns' = RemoveSec(conns, addr)
             /\ BeginSend(<<About("disconnected", conns.sec_to_prim[addr])>>, Mio)
    <3>1. conns' \in Maps(Ids, Addrs) /\ ConnsConsistent'
      BY <2>1, <2>3, ConnsGood, RemoveSecGood DEF Good, ConnsConsistent
    <3>2. pend' \in Seq(Event) /\ pend' # <<>>
      BY <2>1, <2>3, ConnsGood DEF BeginSend, About, Event
    <3> QED BY <1>7, <2>1, <2>3, <3>1, <3>2, ThreadAssumption
            DEF ProcessDisconnected, Disconnect, Refresh, Processing, BeginSend
  <2> QED BY <1>7, <2>2, <2>3 DEF ProcessDisconnected, Disconnect
<1>8. CASE ProcessPacket
  <2> DEFINE addr == Head(tev).addr
             id == conns.sec_to_prim[addr]
  <2>1. /\ tev' \in Seq(TransceiverEvent) /\ Len(tev') <= MaxBatch
        /\ mio = "process" /\ pend = <<>> /\ lock = Nobody
    BY <1>8, TakeEvent DEF ProcessPacket
  <2>2. CASE NothingToSend
    BY <1>8, <2>1, <2>2 DEF ProcessPacket, Processing, NothingToSend, ConnsConsistent
  <2>3. ASSUME addr \in Secs(conns),
               NEW sample \in Samples(id), NEW result \in Results(id),
               sample \o result # <<>>, BeginSend(sample \o result, Mio)
        PROVE  Inv'
    <3>1. id \in Ids
      BY <2>3, ConnsGood
    <3>2. sample \in Seq(Event) /\ result \in Seq(Event)
      <4>1. \A kind \in {"packet", "datagram", "sample"} : About(kind, id) \in Event
        BY <3>1 DEF About, Event
      <4>2. <<>> \in Seq(Event) /\ \A event \in Event : <<event>> \in Seq(Event)
        OBVIOUS
      <4>3. sample = <<>> \/ sample = <<About("sample", id)>>
        BY <2>3 DEF Samples
      <4>4. result = <<>> \/ result = <<About("packet", id)>>
                         \/ result = <<About("datagram", id)>>
        BY <2>3 DEF Results
      <4> QED BY <4>1, <4>2, <4>3, <4>4
    <3>3. pend' \in Seq(Event) /\ pend' # <<>>
      BY <3>2, <2>3 DEF BeginSend
    <3> QED BY <1>8, <2>1, <2>3, <3>3, ThreadAssumption
            DEF ProcessPacket, Processing, BeginSend, ConnsConsistent
  <2> QED BY <1>8, <2>2, <2>3 DEF ProcessPacket
<1>9. CASE ProcessError
  <2>1. /\ tev' \in Seq(TransceiverEvent) /\ Len(tev') <= MaxBatch
        /\ mio = "process" /\ pend = <<>>
    BY <1>9, TakeEvent DEF ProcessError
  <2>2. pend' \in Seq(Event) /\ pend' # <<>>
    BY <1>9 DEF ProcessError, BeginSend, Event
  <2> QED BY <1>9, <2>1, <2>2 DEF ProcessError, Processing, BeginSend, ConnsConsistent
<1>10. CASE EmitEvent
  <2>1. Head(pend) \in Event /\ pend' \in Seq(Event) /\ (Len(pend) = 1 <=> pend' = <<>>)
    BY <1>10, Pop DEF EmitEvent
  <2>2. out' \in Seq(Event) /\ Len(out') <= OutCap
    <3>1. CASE UNCHANGED out
      BY <3>1
    <3>2. CASE Len(out) < OutCap /\ out' = Append(out, Head(pend))
      BY <2>1, <3>2, Push, CapAssumption
    <3> QED BY <1>10, <3>1, <3>2 DEF EmitEvent
  <2> QED BY <1>10, <2>1, <2>2, ThreadAssumption DEF EmitEvent, ConnsConsistent
<1>11. CASE EndIteration
  BY <1>11, ConnsGood DEF EndIteration, ConnsConsistent
<1> QED BY <1>1, <1>2, <1>3, <1>4, <1>5, <1>6, <1>7, <1>8, <1>9, <1>10, <1>11 DEF MioStep

LEMMA StutterInv ==
    ASSUME Inv, UNCHANGED vars
    PROVE  Inv'
  BY DEF vars, mioVars, Inv, TypeOK, ConnsConsistent, CallOK, LockDiscipline, PendOK

LEMMA InvStep ==
    ASSUME Inv, [Next]_vars
    PROVE  Inv'
  BY ThreadInv, DropInv, EnvironmentInv, MioInv, StutterInv DEF Next

THEOREM InvHolds == Spec => []Inv
<1>1. Inv /\ [Next]_vars => Inv'
  BY InvStep
<1> QED BY <1>1, InitInv, PTL DEF Spec

\* Every variable keeps its type and the channels their capacity.
THEOREM TypeCorrect == Spec => []TypeOK
<1>1. Inv => TypeOK
  BY DEF Inv
<1> QED BY <1>1, InvHolds, PTL

\* active_connections never has an orphaned entry.
THEOREM ConnsAlwaysConsistent == Spec => []ConnsConsistent
<1>1. Inv => ConnsConsistent
  BY DEF Inv
<1> QED BY <1>1, InvHolds, PTL

-----------------------------------------------------------------------------
(* The wakeup of the mio thread                                            *)

\* Between two polls nothing is left of the waker's event once ctl has been drained.
WakeInv == NoLostWakeup /\ (woken => mio = "collect")

LEMMA WakeStep ==
    ASSUME Inv, WakeInv, [Next]_vars
    PROVE  WakeInv'
<1> USE DEF WakeInv, NoLostWakeup
<1>1. ASSUME NEW t \in Threads, ThreadStep(t) PROVE WakeInv'
  <2> SUFFICES /\ ctl' # <<>> /\ mio' # "stopped" =>
                    woken' \/ waker' \/ drop' = "waking" \/ \E u \in Threads : call'[u].at = "wake"
               /\ woken' => mio' = "collect"
    OBVIOUS
  <2>1. call \in [Threads -> [at : {"idle", "lock", "query", "sample", "ctl", "wake"},
                              arg : Ids \cup Addrs \cup {None}]]
    BY DEF Inv, TypeOK
  <2>2. CASE PushControl(t)
    BY <2>1, <2>2 DEF PushControl, Sent, Goto, At, mioVars
  <2>3. CASE Wake(t)
    BY <2>3 DEF Wake, mioVars
  <2>4. CASE \/ \E id \in Ids : CallSendPacket(t, id)
             \/ CallAccessor(t) \/ Access(t) \/ PreparePacket(t) \/ EmitSample(t) \/ Recv(t)
    <3>1. \A u \in Threads : call[u].at = "wake" => call'[u].at = "wake"
      BY <2>1, <2>4 DEF CallSendPacket, CallAccessor, Access, PreparePacket, EmitSample, Recv,
                        Goto, At, Return, Idle
    <3>2. UNCHANGED <<ctl, waker, mio, woken, drop>>
      BY <2>4 DEF CallSendPacket, CallAccessor, Access, PreparePacket, EmitSample, Recv, mioVars
    <3> QED BY <3>1, <3>2
  <2> QED BY <1>1, <2>2, <2>3, <2>4 DEF ThreadStep, MethodStep
<1>2. CASE DropStep
  BY <1>2 DEF DropStep, BeginDrop, DropSendStop, StopSent, DropWake, DropJoin, mioVars
<1>3. CASE Environment
  BY <1>3 DEF Environment, TransceiverConnects, TransceiverLoses, TransceiverReceives,
              TransceiverFails, Collect
<1>4. CASE MioStep
  <2>1. CASE Poll \/ HandleSend \/ HandleStop \/ DrainDone \/ EndCollect
    BY <2>1 DEF Poll, HandleSend, HandleAll, HandleStop, DrainDone, EndCollect
  <2>2. CASE ProcessConnected \/ ProcessDisconnected \/ ProcessPacket \/ ProcessError
    <3>1. UNCHANGED <<ctl, waker, woken, call, drop>> /\ mio = "process"
          /\ mio' \in {"process", "send"}
      BY <2>2 DEF ProcessConnected, ProcessDisconnected, Disconnect, ProcessPacket,
                  ProcessError, Processing, BeginSend, NothingToSend
    <3> QED BY <3>1
  <2>3. CASE EmitEvent \/ EndIteration
    BY <2>3 DEF EmitEvent, EndIteration
  <2> QED BY <1>4, <2>1, <2>2, <2>3 DEF MioStep
<1>5. CASE UNCHANGED vars
  BY <1>5 DEF vars, mioVars
<1> QED BY <1>1, <1>2, <1>3, <1>4, <1>5 DEF Next

\* No control message is ever left in the channel with nobody to wake the mio thread for
\* it, with any number of senders and any capacity.
THEOREM WakeupNeverLost == Spec => []NoLostWakeup
<1>1. Init => WakeInv
  BY DEF Init, WakeInv, NoLostWakeup
<1>2. Inv /\ WakeInv /\ [Next]_vars => WakeInv'
  BY WakeStep
<1>3. WakeInv => NoLostWakeup
  BY DEF WakeInv
<1> QED BY <1>1, <1>2, <1>3, InvHolds, PTL DEF Spec

-----------------------------------------------------------------------------
(* The transceivers' blacklist                                             *)

\* A blacklist that differs from the connected ids is going to be refreshed before the
\* next poll.
FilterInv ==
    mio # "stopped" =>
        filter = Prims(conns) \/ (stale /\ mio \in {"process", "send"})

LEMMA FilterStep ==
    ASSUME FilterInv, [Next]_vars
    PROVE  FilterInv'
<1> USE DEF FilterInv
<1>1. ASSUME NEW t \in Threads, ThreadStep(t) PROVE FilterInv'
  BY <1>1 DEF ThreadStep, MethodStep, CallSendPacket, CallAccessor, Access, PreparePacket,
              EmitSample, PushControl, Wake, Recv, mioVars
<1>2. CASE DropStep
  BY <1>2 DEF DropStep, BeginDrop, DropSendStop, DropWake, DropJoin, mioVars
<1>3. CASE Environment
  BY <1>3 DEF Environment, TransceiverConnects, TransceiverLoses, TransceiverReceives,
              TransceiverFails, Collect
<1>4. CASE MioStep
  <2>1. CASE Poll \/ HandleSend \/ HandleStop \/ DrainDone \/ EndCollect
    BY <2>1 DEF Poll, HandleSend, HandleStop, DrainDone, EndCollect
  <2>2. CASE ProcessConnected \/ ProcessDisconnected
    <3>1. stale' /\ mio' \in {"process", "send"}
      BY <2>2 DEF ProcessConnected, ProcessDisconnected, Disconnect, Refresh, Processing,
                  BeginSend, NothingToSend
    <3> QED BY <3>1
  <2>3. CASE ProcessPacket \/ ProcessError
    <3>1. UNCHANGED <<conns, stale, filter>> /\ mio = "process" /\ mio' \in {"process", "send"}
      BY <2>3 DEF ProcessPacket, ProcessError, Processing, BeginSend, NothingToSend
    <3> QED BY <3>1
  <2>4. CASE EmitEvent \/ EndIteration
    BY <2>4 DEF EmitEvent, EndIteration
  <2> QED BY <1>4, <2>1, <2>2, <2>3, <2>4 DEF MioStep
<1>5. CASE UNCHANGED vars
  BY <1>5 DEF vars, mioVars
<1> QED BY <1>1, <1>2, <1>3, <1>4, <1>5 DEF Next

\* While robots are discovered the blacklist is exactly the set of connected robots.
THEOREM FilterAlwaysCurrent == Spec => []FilterCurrent
<1>1. Init => FilterInv
  BY DEF Init, FilterInv, EmptyMap, Prims
<1>2. FilterInv /\ [Next]_vars => FilterInv'
  BY FilterStep
<1>3. FilterInv => FilterCurrent
  BY DEF FilterInv, FilterCurrent
<1> QED BY <1>1, <1>2, <1>3, PTL DEF Spec

-----------------------------------------------------------------------------
(***************************************************************************)
(* How the four views of who is connected stay related: the transceivers'   *)
(* (tconns), what is collected but not processed (tev), active_connections  *)
(* (conns), and what the receiver knows (out, cache).                       *)
(***************************************************************************)
-----------------------------------------------------------------------------
(* Transceivers, collected events and active_connections                   *)

\* Where in the collected events an address is connected, and where it is lost.
ConnectsAt(addr) == {i \in DOMAIN tev : tev[i].kind = "connected" /\ tev[i].addr = addr}
LostAt(addr) == {i \in DOMAIN tev : tev[i] = Lost(addr)}

\* What the positions of an address's connects and losses say of it, given whether it is
\* in active_connections (active) and still connected at its transceiver (alive).  The
\* first conjunct is NoZombie; the others: what was connected is alive or lost later on,
\* and whatever was there before a connect is lost before it.
Ordered(active, alive, connects, losses) ==
    /\ active => alive \/ losses # {}
    /\ \A i \in connects :
         /\ alive \/ \E j \in losses : j > i
         /\ active => \E j \in losses : j < i
         /\ \A k \in connects : k > i => \E j \in losses : i < j /\ j < k

EventsInv ==
    mio # "stopped" =>
        \A addr \in Addrs :
            Ordered(addr \in Secs(conns), addr \in tconns, ConnectsAt(addr), LostAt(addr))

\* A loss or a connect is collected, when the address was alive or was not.
LEMMA OrderedAppend ==
    ASSUME NEW n \in Nat, NEW C \in SUBSET (1..n), NEW L \in SUBSET (1..n),
           NEW active \in BOOLEAN, NEW alive \in BOOLEAN, Ordered(active, alive, C, L)
    PROVE  /\ Ordered(active, FALSE, C, L \cup {n + 1})
           /\ ~alive => Ordered(active, TRUE, C \cup {n + 1}, L)
<1>1. Ordered(active, FALSE, C, L \cup {n + 1})
  BY DEF Ordered
<1>2. ASSUME ~alive
      PROVE  Ordered(active, TRUE, C \cup {n + 1}, L)
  <2>1. ASSUME NEW i \in C \cup {n + 1}, active
        PROVE  \E j \in L : j < i
    <3>1. CASE i \in C
      BY <2>1, <3>1 DEF Ordered
    <3>2. CASE i = n + 1
      <4>1. L # {} /\ \A j \in L : j < n + 1
        BY <1>2, <2>1 DEF Ordered
      <4> QED BY <3>2, <4>1
    <3> QED BY <2>1, <3>1, <3>2
  <2>2. ASSUME NEW i \in C \cup {n + 1}, NEW k \in C \cup {n + 1}, k > i
        PROVE  \E j \in L : i < j /\ j < k
    <3>1. i \in C
      BY <2>2
    <3>2. CASE k = n + 1
      BY <1>2, <3>1, <3>2 DEF Ordered
    <3>3. CASE k \in C
      BY <2>2, <3>1, <3>3 DEF Ordered
    <3> QED BY <3>2, <3>3
  <2> QED BY <2>1, <2>2 DEF Ordered
<1> QED BY <1>1, <1>2

\* Positions in a queue of n events once the oldest one is gone.
MovedUp(positions, n) == {i \in 1..(n - 1) : i + 1 \in positions}

\* The oldest event is processed.
LEMMA OrderedTail ==
    ASSUME NEW n \in Nat, n >= 1, NEW C \in SUBSET (1..n), NEW L \in SUBSET (1..n),
           NEW active \in BOOLEAN, NEW alive \in BOOLEAN, Ordered(active, alive, C, L),
           NEW active1 \in BOOLEAN,
           active1 => (active /\ 1 \notin L) \/ 1 \in C
    PROVE  Ordered(active1, alive, MovedUp(C, n), MovedUp(L, n))
<1> DEFINE C1 == {i \in 1..(n - 1) : i + 1 \in C}
           L1 == {i \in 1..(n - 1) : i + 1 \in L}
<1>1. \A j \in L : j > 1 => j - 1 \in L1
  BY SMT
<1>2. active1 => alive \/ L1 # {}
  <2>1. CASE active /\ 1 \notin L
    <3>1. \A j \in L : j > 1
      BY <2>1
    <3> QED BY <1>1, <2>1, <3>1 DEF Ordered
  <2>2. CASE 1 \in C
    BY <1>1, <2>2 DEF Ordered
  <2> QED BY <2>1, <2>2
<1>3. ASSUME NEW i \in C1
      PROVE  alive \/ \E j \in L1 : j > i
  <2>1. alive \/ \E j \in L : j > i + 1
    BY <1>3 DEF Ordered
  <2>2. ASSUME NEW j \in L, j > i + 1 PROVE j - 1 \in L1 /\ j - 1 > i
    BY <1>1, <1>3, <2>2
  <2> QED BY <2>1, <2>2
<1>4. ASSUME NEW i \in C1, active1
      PROVE  \E j \in L1 : j < i
  <2>1. \E j \in L : 1 < j /\ j < i + 1
    <3>1. CASE active /\ 1 \notin L
      BY <1>4, <3>1 DEF Ordered
    <3>2. CASE 1 \in C
      BY <1>4, <3>2 DEF Ordered
    <3> QED BY <1>4, <3>1, <3>2
  <2>2. PICK j \in L : 1 < j /\ j < i + 1
    BY <2>1
  <2>3. j - 1 \in L1 /\ j - 1 < i
    BY <1>1, <1>4, <2>2
  <2> QED BY <2>3
<1>5. ASSUME NEW i \in C1, NEW k \in C1, k > i
      PROVE  \E j \in L1 : i < j /\ j < k
  <2>1. PICK j \in L : i + 1 < j /\ j < k + 1
    BY <1>5 DEF Ordered
  <2>2. j - 1 \in L1 /\ i < j - 1 /\ j - 1 < k
    BY <1>1, <1>5, <2>1
  <2> QED BY <2>2
<1>6. Ordered(active1, alive, C1, L1)
  BY <1>2, <1>3, <1>4, <1>5 DEF Ordered
<1> QED BY <1>6 DEF MovedUp

\* Positions in a queue that got a new element or lost its first one.
LEMMA AppendAt ==
    ASSUME NEW S, NEW s \in Seq(S), NEW e \in S
    PROVE  /\ Len(s) \in Nat /\ DOMAIN s = 1..Len(s)
           /\ DOMAIN Append(s, e) = 1..(Len(s) + 1)
           /\ \A i \in 1..Len(s) : Append(s, e)[i] = s[i]
           /\ Append(s, e)[Len(s) + 1] = e
  OBVIOUS

LEMMA TailAt ==
    ASSUME NEW S, NEW s \in Seq(S), s # <<>>
    PROVE  /\ Len(s) \in Nat /\ Len(s) >= 1 /\ DOMAIN s = 1..Len(s)
           /\ DOMAIN Tail(s) = 1..(Len(s) - 1)
           /\ \A i \in 1..(Len(s) - 1) : Tail(s)[i] = s[i + 1]
           /\ Head(s) = s[1]
<1>1. Len(s) \in Nat /\ Len(s) >= 1 /\ DOMAIN s = 1..Len(s)
  BY EmptySeq
<1> QED BY <1>1, HeadTailProperties

\* The addresses an insert leaves.
LEMMA InsertSecs ==
    ASSUME NEW m, NEW k1, NEW k2
    PROVE  Secs(Insert(m, k1, k2)) \subseteq Secs(m) \cup {k2}
  BY DEF Insert, RemoveSec, RemovePrim, Secs, With, Without, Restrict

\* Collecting an event that fits what the transceivers consider connected.
LEMMA CollectEvent ==
    ASSUME Inv, EventsInv, mio # "stopped", NEW event \in TransceiverEvent,
           tev' = Append(tev, event), conns' = conns,
           event.kind \notin {"connected", "lost"} => tconns' = tconns,
           event.kind = "connected" =>
               event.addr \notin tconns /\ tconns' = tconns \cup {event.addr},
           event.kind = "lost" => tconns' = tconns \ {event.addr}
    PROVE  EventsInv'
<1> DEFINE n == Len(tev)
<1>1. /\ n \in Nat /\ DOMAIN tev = 1..n /\ DOMAIN tev' = 1..(n + 1)
      /\ \A i \in 1..n : tev'[i] = tev[i]
      /\ tev'[n + 1] = event
  BY AppendAt DEF Inv, TypeOK
<1> HIDE DEF n
<1> SUFFICES ASSUME NEW addr \in Addrs
             PROVE  Ordered(addr \in Secs(conns), addr \in tconns', ConnectsAt(addr)', LostAt(addr)')
  BY DEF EventsInv
<1>2. ConnectsAt(addr) \in SUBSET (1..n) /\ LostAt(addr) \in SUBSET (1..n)
  BY <1>1 DEF ConnectsAt, LostAt
<1>3. Ordered(addr \in Secs(conns), addr \in tconns, ConnectsAt(addr), LostAt(addr))
  BY DEF EventsInv
<1>4. ConnectsAt(addr)' = IF event.kind = "connected" /\ event.addr = addr
                          THEN ConnectsAt(addr) \cup {n + 1} ELSE ConnectsAt(addr)
  BY <1>1 DEF ConnectsAt
<1>5. LostAt(addr)' = IF event = Lost(addr) THEN LostAt(addr) \cup {n + 1} ELSE LostAt(addr)
  BY <1>1 DEF LostAt
<1>6. CASE event = Lost(addr)
  <2>1. (addr \in tconns') = FALSE /\ event.kind # "connected"
    BY <1>6 DEF Lost
  <2>2. Ordered(addr \in Secs(conns), FALSE, ConnectsAt(addr), LostAt(addr) \cup {n + 1})
    <3> DEFINE active == addr \in Secs(conns)
               alive == addr \in tconns
    <3>1. active \in BOOLEAN /\ alive \in BOOLEAN /\ Ordered(active, alive, ConnectsAt(addr), LostAt(addr))
      BY <1>3
    <3> HIDE DEF active, alive
    <3>2. Ordered(active, FALSE, ConnectsAt(addr), LostAt(addr) \cup {n + 1})
      BY <1>1, <1>2, <3>1, OrderedAppend
    <3> QED BY <3>2 DEF active
  <2> QED BY <1>4, <1>5, <1>6, <2>1, <2>2
<1>7. CASE event.kind = "connected" /\ event.addr = addr
  <2>1. addr \notin tconns /\ (addr \in tconns') = TRUE /\ event # Lost(addr)
    BY <1>7 DEF Lost
  <2>2. Ordered(addr \in Secs(conns), TRUE, ConnectsAt(addr) \cup {n + 1}, LostAt(addr))
    <3> DEFINE active == addr \in Secs(conns)
               alive == addr \in tconns
    <3>1. active \in BOOLEAN /\ alive \in BOOLEAN /\ ~alive
          /\ Ordered(active, alive, ConnectsAt(addr), LostAt(addr))
      BY <1>3, <2>1
    <3> HIDE DEF active, alive
    <3>2. Ordered(active, TRUE, ConnectsAt(addr) \cup {n + 1}, LostAt(addr))
      BY <1>1, <1>2, <3>1, OrderedAppend
    <3> QED BY <3>2 DEF active
  <2> QED BY <1>4, <1>5, <1>7, <2>1, <2>2
<1>8. CASE event # Lost(addr) /\ ~(event.kind = "connected" /\ event.addr = addr)
  <2>1. addr \in tconns' <=> addr \in tconns
    <3>1. event.kind = "lost" => event = Lost(event.addr)
      BY DEF TransceiverEvent, Lost, Failure
    <3> QED BY <1>8, <3>1
  <2> QED BY <1>3, <1>4, <1>5, <1>8, <2>1
<1> QED BY <1>6, <1>7, <1>8

\* Processing the oldest event: an address gets into active_connections only by its
\* Connected, and its Lost takes it out.
LEMMA ProcessEvent ==
    ASSUME Inv, EventsInv, mio # "stopped", tev # <<>>,
           tev' = Tail(tev), tconns' = tconns,
           \A addr \in Addrs : addr \in Secs(conns') =>
               \/ addr \in Secs(conns) /\ tev[1] # Lost(addr)
               \/ tev[1].kind = "connected" /\ tev[1].addr = addr
    PROVE  EventsInv'
<1> DEFINE n == Len(tev)
<1>1. /\ n \in Nat /\ n >= 1 /\ DOMAIN tev = 1..n /\ DOMAIN tev' = 1..(n - 1)
      /\ \A i \in 1..(n - 1) : tev'[i] = tev[i + 1]
  BY TailAt DEF Inv, TypeOK
<1> HIDE DEF n
<1> SUFFICES ASSUME NEW addr \in Addrs
             PROVE  Ordered(addr \in Secs(conns'), addr \in tconns, ConnectsAt(addr)', LostAt(addr)')
  BY DEF EventsInv
<1>2. ConnectsAt(addr) \in SUBSET (1..n) /\ LostAt(addr) \in SUBSET (1..n)
  BY <1>1 DEF ConnectsAt, LostAt
<1>3. Ordered(addr \in Secs(conns), addr \in tconns, ConnectsAt(addr), LostAt(addr))
  BY DEF EventsInv
<1>4. ConnectsAt(addr)' = MovedUp(ConnectsAt(addr), n)
  BY <1>1 DEF ConnectsAt, MovedUp
<1>5. LostAt(addr)' = MovedUp(LostAt(addr), n)
  BY <1>1 DEF LostAt, MovedUp
<1>6. addr \in Secs(conns') =>
          (addr \in Secs(conns) /\ 1 \notin LostAt(addr)) \/ 1 \in ConnectsAt(addr)
  BY <1>1 DEF ConnectsAt, LostAt
<1> DEFINE C == ConnectsAt(addr)
           L == LostAt(addr)
<1>7. Ordered(addr \in Secs(conns'), addr \in tconns, MovedUp(C, n), MovedUp(L, n))
  <2> DEFINE active == addr \in Secs(conns)
             active1 == addr \in Secs(conns')
             alive == addr \in tconns
  <2>1. /\ active \in BOOLEAN /\ active1 \in BOOLEAN /\ alive \in BOOLEAN
        /\ Ordered(active, alive, C, L)
        /\ active1 => (active /\ 1 \notin L) \/ 1 \in C
        /\ C \in SUBSET (1..n) /\ L \in SUBSET (1..n)
    BY <1>2, <1>3, <1>6
  <2>2. n \in Nat /\ n >= 1
    BY <1>1
  <2> HIDE DEF active, active1, alive, C, L
  <2>3. Ordered(active1, alive, MovedUp(C, n), MovedUp(L, n))
    BY <2>1, <2>2, OrderedTail
  <2> QED BY <2>3 DEF active1, alive
<1> QED BY <1>4, <1>5, <1>7

LEMMA EventsStep ==
    ASSUME Inv, EventsInv, [Next]_vars
    PROVE  EventsInv'
<1>1. CASE UNCHANGED <<conns, tev, tconns>> /\ (mio' # "stopped" => mio # "stopped")
  BY <1>1 DEF EventsInv, ConnectsAt, LostAt
<1>2. ASSUME NEW t \in Threads, ThreadStep(t) PROVE EventsInv'
  BY <1>1, <1>2 DEF ThreadStep, MethodStep, CallSendPacket, CallAccessor, Access, PreparePacket,
                    EmitSample, PushControl, Wake, Recv, mioVars
<1>3. CASE DropStep
  BY <1>1, <1>3 DEF DropStep, BeginDrop, DropSendStop, DropWake, DropJoin, mioVars
<1>4. CASE Environment
  <2>1. ASSUME NEW addr \in Addrs, NEW id \in Ids, TransceiverConnects(addr, id)
        PROVE  EventsInv'
    BY <2>1, CollectEvent DEF TransceiverConnects, Collect, Connected, TransceiverEvent
  <2>2. ASSUME NEW addr \in Addrs, TransceiverLoses(addr)
        PROVE  EventsInv'
    BY <2>2, CollectEvent DEF TransceiverLoses, Collect, Lost, TransceiverEvent
  <2>3. ASSUME NEW addr \in Addrs, TransceiverReceives(addr)
        PROVE  EventsInv'
    BY <2>3, CollectEvent DEF TransceiverReceives, Collect, Arrived, TransceiverEvent
  <2>4. CASE TransceiverFails
    BY <2>4, CollectEvent DEF TransceiverFails, Collect, Failure, TransceiverEvent
  <2> QED BY <1>4, <2>1, <2>2, <2>3, <2>4 DEF Environment
<1>5. CASE MioStep
  <2>1. CASE Poll \/ HandleStop \/ DrainDone \/ EndCollect \/ EmitEvent \/ EndIteration
    <3>1. CASE HandleStop
      BY <3>1 DEF HandleStop, EventsInv
    <3> QED BY <1>1, <2>1, <3>1 DEF Poll, DrainDone, EndCollect, EmitEvent, EndIteration
  <2>2. CASE HandleSend
    <3>1. CASE UNCHANGED tev
      BY <1>1, <2>2, <3>1 DEF HandleSend
    <3>2. CASE tev' = Append(tev, Failure)
      BY <2>2, <3>2, CollectEvent DEF HandleSend, Failure, TransceiverEvent
    <3> QED BY <2>2, <3>1, <3>2 DEF HandleSend
  <2>3. ASSUME Processing(Head(tev).kind)
        PROVE  /\ mio # "stopped" /\ tev # <<>> /\ tev' = Tail(tev) /\ tconns' = tconns
               /\ Head(tev) = tev[1] /\ Head(tev) \in TransceiverEvent
    BY <2>3, TailAt, TakeEvent DEF Processing, Inv, TypeOK
  <2>4. CASE ProcessConnected
    <3>1. Processing(Head(tev).kind) /\ Head(tev).kind = "connected"
      BY <2>4 DEF ProcessConnected, Processing
    <3>2. \/ UNCHANGED conns
          \/ conns' = Insert(conns, Head(tev).id, Head(tev).addr)
      BY <2>4 DEF ProcessConnected
    <3>3. \A addr \in Secs(conns') : addr \in Secs(conns) \/ addr = Head(tev).addr
      BY <3>2, InsertSecs
    <3> QED BY <2>3, <3>1, <3>3, ProcessEvent DEF Lost
  <2>5. CASE ProcessDisconnected
    <3>1. Processing(Head(tev).kind) /\ Head(tev).kind = "lost"
      BY <2>5 DEF ProcessDisconnected, Disconnect, Processing
    <3>2. Secs(conns') = Secs(conns) \ {Head(tev).addr}
      BY <2>5 DEF ProcessDisconnected, Disconnect, RemoveSec, Secs, Without, Restrict
    <3> QED BY <2>3, <3>1, <3>2, ProcessEvent DEF Lost
  <2>6. CASE ProcessPacket \/ ProcessError
    <3>1. /\ Processing(Head(tev).kind) /\ Head(tev).kind \in {"arrived", "error"}
          /\ conns' = conns
      BY <2>6 DEF ProcessPacket, ProcessError, Processing
    <3> QED BY <2>3, <3>1, ProcessEvent DEF Lost
  <2> QED BY <1>5, <2>1, <2>2, <2>4, <2>5, <2>6 DEF MioStep
<1>6. CASE UNCHANGED vars
  BY <1>1, <1>6 DEF vars, mioVars
<1> QED BY <1>2, <1>3, <1>4, <1>5, <1>6 DEF Next

\* A connection its transceiver has given up never stays in active_connections, whatever
\* the order in which connects, losses and the robot's return were collected.
THEOREM NoZombieEver == Spec => []NoZombie
<1>1. Init => EventsInv
  BY DEF Init, EventsInv, Ordered, EmptyMap, Secs, ConnectsAt
<1>2. Inv /\ EventsInv /\ [Next]_vars => EventsInv'
  BY EventsStep
<1>3. Inv /\ EventsInv => NoZombie
  BY ConnsGood DEF EventsInv, NoZombie, Ordered, LostAt
<1> QED BY <1>1, <1>2, <1>3, InvHolds, PTL DEF Spec

-----------------------------------------------------------------------------
(***************************************************************************)
(* What the receiver learns is what active_connections is: the invariant of *)
(* which CacheCoherent and EventsFitCache are the visible part.              *)
(***************************************************************************)
-----------------------------------------------------------------------------
(* What a queue of events says of a robot                                  *)

\* Where a robot is: the set of its address, or the empty set.
Cached(c, id) == IF id \in DOMAIN c THEN {c[id]} ELSE {}
Said(event) == IF event.kind = "connected" THEN {event.addr} ELSE {}
Place(id) == IF id \in Prims(conns) THEN {conns.prim_to_val[id]} ELSE {}

\* After the first i events of s, a receiver that started with cache c believes id is at r.
Believed(s, c, i, id, r) ==
    \/ \E j \in 1..i : /\ Concerns(s[j], id)
                       /\ \A k \in 1..i : k > j => ~Concerns(s[k], id)
                       /\ r = Said(s[j])
    \/ /\ \A k \in 1..i : ~Concerns(s[k], id)
       /\ r = Cached(c, id)

\* An event makes sense to a receiver that has seen the first i events.
Fits(s, c, i, event) ==
    /\ event.kind = "connected" => Believed(s, c, i, event.id, {})
    /\ event.kind \in {"disconnected", "packet", "datagram", "sample"} =>
         \E addr \in Addrs : Believed(s, c, i, event.id, {addr})

\* An event that changes nothing about connections and is about a connected robot.
Harmless(event) ==
    /\ event.kind \notin {"connected", "disconnected"}
    /\ event.kind # "error" => event.id \in Prims(conns) /\ lock = Mio

\* The pending events change nothing; or exactly one robot's connect or disconnect is
\* pending, under the lock, already in active_connections and not yet in the channel.
Settled ==
    /\ \A k \in DOMAIN pend : Harmless(pend[k])
    /\ \A id \in Ids : Believed(out, cache, Len(out), id, Place(id))
Announcing(id) ==
    /\ lock = Mio
    /\ \/ /\ \E addr \in Addrs : pend = <<Connected(id, addr)>> /\ Place(id) = {addr}
          /\ Believed(out, cache, Len(out), id, {})
       \/ /\ pend = <<About("disconnected", id)>> /\ Place(id) = {}
          /\ \E addr \in Addrs : Believed(out, cache, Len(out), id, {addr})
    /\ \A other \in Ids \ {id} : Believed(out, cache, Len(out), other, Place(other))

CacheInv ==
    /\ \A i \in DOMAIN out : Fits(out, cache, i - 1, out[i])
    /\ Settled \/ \E id \in Ids : Announcing(id)

\* A new event leaves what was believed before it, and says what it says.
LEMMA BelievedAppend ==
    ASSUME NEW s \in Seq(Event), NEW e \in Event, NEW c, NEW id, NEW r
    PROVE  /\ \A i \in 0..Len(s) : Believed(s, c, i, id, r) => Believed(Append(s, e), c, i, id, r)
           /\ ~Concerns(e, id) /\ Believed(s, c, Len(s), id, r) =>
                Believed(Append(s, e), c, Len(Append(s, e)), id, r)
           /\ Concerns(e, id) => Believed(Append(s, e), c, Len(Append(s, e)), id, Said(e))
<1> DEFINE n == Len(s)
           t == Append(s, e)
<1>1. n \in Nat /\ Len(t) = n + 1 /\ (\A i \in 1..n : t[i] = s[i]) /\ t[n + 1] = e
  BY AppendAt, Push
<1> HIDE DEF n, t
<1>2. ASSUME NEW i \in 0..n, Believed(s, c, i, id, r)
      PROVE  Believed(t, c, i, id, r)
  <2>1. \A k \in 1..i : t[k] = s[k]
    BY <1>1
  <2> QED BY <1>2, <2>1 DEF Believed
<1>3. ASSUME ~Concerns(e, id), Believed(s, c, n, id, r)
      PROVE  Believed(t, c, n + 1, id, r)
  <2>1. \A k \in 1..(n + 1) : k \in 1..n \/ (k = n + 1 /\ ~Concerns(t[k], id))
    BY <1>1, <1>3
  <2>2. CASE \E j \in 1..n : /\ Concerns(s[j], id)
                             /\ \A k \in 1..n : k > j => ~Concerns(s[k], id)
                             /\ r = Said(s[j])
    <3>1. PICK j \in 1..n : /\ Concerns(s[j], id)
                            /\ \A k \in 1..n : k > j => ~Concerns(s[k], id)
                            /\ r = Said(s[j])
      BY <2>2
    <3>2. j \in 1..(n + 1) /\ Concerns(t[j], id) /\ r = Said(t[j])
      <4>1. t[j] = s[j] /\ j \in 1..(n + 1)
        BY <1>1
      <4> QED BY <3>1, <4>1 DEF Concerns, Said
    <3>3. \A k \in 1..(n + 1) : k > j => ~Concerns(t[k], id)
      BY <1>1, <2>1, <3>1
    <3> QED BY <3>2, <3>3 DEF Believed
  <2>3. CASE (\A k \in 1..n : ~Concerns(s[k], id)) /\ r = Cached(c, id)
    <3>1. \A k \in 1..(n + 1) : ~Concerns(t[k], id)
      BY <1>1, <2>1, <2>3
    <3> QED BY <2>3, <3>1 DEF Believed
  <2> QED BY <1>3, <2>2, <2>3 DEF Believed
<1>4. ASSUME Concerns(e, id)
      PROVE  Believed(t, c, n + 1, id, Said(e))
  <2>1. n + 1 \in 1..(n + 1) /\ \A k \in 1..(n + 1) : ~(k > n + 1)
    BY <1>1
  <2> QED BY <1>1, <1>4, <2>1 DEF Believed
<1> QED BY <1>1, <1>2, <1>3, <1>4 DEF n, t

\* The receiver takes the first event and updates its cache by it: what it believes after
\* the following ones stays the same.
LEMMA BelievedTail ==
    ASSUME NEW s \in Seq(Event), s # <<>>, NEW c, NEW c1, NEW id, NEW r,
           c1 = CASE s[1].kind = "connected" -> With(c, s[1].id, s[1].addr)
                  [] s[1].kind = "disconnected" -> Without(c, s[1].id)
                  [] OTHER -> c,
           NEW i \in 1..Len(s), Believed(s, c, i, id, r)
    PROVE  Believed(Tail(s), c1, i - 1, id, r)
<1> DEFINE t == Tail(s)
<1>1. Len(s) \in Nat /\ \A k \in 1..(Len(s) - 1) : t[k] = s[k + 1]
  BY TailAt
<1>2. Cached(c1, id) = IF Concerns(s[1], id) THEN Said(s[1]) ELSE Cached(c, id)
  <2>1. CASE s[1].kind = "connected"
    BY <2>1 DEF Cached, Concerns, Said, With
  <2>2. CASE s[1].kind = "disconnected"
    BY <2>2 DEF Cached, Concerns, Said, Without, Restrict
  <2>3. CASE s[1].kind \notin {"connected", "disconnected"}
    BY <2>3 DEF Concerns
  <2> QED BY <2>1, <2>2, <2>3
<1> HIDE DEF t
<1>3. \A k \in 1..(i - 1) : k + 1 \in 1..i /\ t[k] = s[k + 1]
  BY <1>1
<1>4. CASE \E j \in 1..i : /\ Concerns(s[j], id)
                           /\ \A k \in 1..i : k > j => ~Concerns(s[k], id)
                           /\ r = Said(s[j])
  <2>1. PICK j \in 1..i : /\ Concerns(s[j], id)
                          /\ \A k \in 1..i : k > j => ~Concerns(s[k], id)
                          /\ r = Said(s[j])
    BY <1>4
  <2>2. CASE j = 1
    <3>1. \A k \in 1..(i - 1) : ~Concerns(t[k], id)
      BY <1>3, <2>1, <2>2
    <3> QED BY <1>2, <2>1, <2>2, <3>1 DEF Believed, t
  <2>3. CASE j # 1
    <3>1. j - 1 \in 1..(i - 1) /\ (j - 1) + 1 = j
      BY <2>3
    <3>2. Concerns(t[j - 1], id) /\ r = Said(t[j - 1])
      <4>1. t[j - 1] = s[j]
        BY <1>3, <3>1
      <4> QED BY <2>1, <4>1 DEF Concerns, Said
    <3>3. \A k \in 1..(i - 1) : k > j - 1 => ~Concerns(t[k], id)
      BY <1>3, <2>1
    <3> QED BY <3>1, <3>2, <3>3 DEF Believed, t
  <2> QED BY <2>2, <2>3
<1>5. CASE (\A k \in 1..i : ~Concerns(s[k], id)) /\ r = Cached(c, id)
  <2>1. \A k \in 1..(i - 1) : ~Concerns(t[k], id)
    BY <1>3, <1>5
  <2>2. ~Concerns(s[1], id)
    BY <1>5
  <2> QED BY <1>2, <1>5, <2>1, <2>2 DEF Believed, t
<1> QED BY <1>4, <1>5 DEF Believed

-----------------------------------------------------------------------------
(* The steps                                                               *)

\* Sending an event that fits keeps the channel fitting.
LEMMA Publish ==
    ASSUME Inv, CacheInv, NEW e \in Event, Fits(out, cache, Len(out), e),
           out' = Append(out, e), cache' = cache
    PROVE  \A i \in DOMAIN out' : Fits(out', cache', i - 1, out'[i])
<1> DEFINE n == Len(out)
<1>1. /\ n \in Nat /\ DOMAIN out = 1..n /\ DOMAIN out' = 1..(n + 1)
      /\ (\A i \in 1..n : out'[i] = out[i]) /\ out'[n + 1] = e
      /\ out \in Seq(Event)
  BY AppendAt DEF Inv, TypeOK
<1>2. \A i \in 0..n : \A event : Fits(out, cache, i, event) => Fits(out', cache', i, event)
  BY <1>1, BelievedAppend DEF Fits
<1> HIDE DEF n
<1>3. ASSUME NEW i \in 1..(n + 1)
      PROVE  Fits(out', cache', i - 1, out'[i])
  <2>1. CASE i \in 1..n
    <3>1. Fits(out, cache, i - 1, out[i]) /\ i - 1 \in 0..n
      BY <1>1, <2>1 DEF CacheInv
    <3> QED BY <1>1, <1>2, <2>1, <3>1
  <2>2. CASE i = n + 1
    <3>1. i - 1 = n /\ n \in 0..n
      BY <1>1, <2>2
    <3> QED BY <1>1, <1>2, <2>2, <3>1 DEF n
  <2> QED BY <1>1, <2>1, <2>2
<1> QED BY <1>1, <1>3

\* While nothing concerns the connections but what is in the channel.
LEMMA QuietWhenIdle ==
    ASSUME Inv, CacheInv, pend = <<>> \/ lock # Mio
    PROVE  Settled
  BY DEF CacheInv, Announcing

LEMMA ThreadCache ==
    ASSUME Inv, CacheInv, NEW t \in Threads, ThreadStep(t)
    PROVE  CacheInv'
<1>1. CASE /\ UNCHANGED <<out, cache, conns, pend>>
           /\ lock = Mio => lock' = Mio
  BY <1>1 DEF CacheInv, Settled, Announcing, Harmless, Place
<1>2. CASE PreparePacket(t)
  BY <1>1, <1>2, ThreadAssumption DEF PreparePacket, mioVars
<1>3. CASE EmitSample(t)
  <2> DEFINE id == call[t].arg
             e == About("sample", id)
  <2>1. id \in Ids /\ id \in Prims(conns) /\ lock = t /\ t # Mio
        /\ Place(id) = {conns.prim_to_val[id]} /\ conns.prim_to_val[id] \in Addrs
    BY <1>3, ConnsGood, ThreadAssumption DEF EmitSample, Inv, CallOK, Place
  <2>2. e \in Event /\ e.kind = "sample" /\ e.id = id
    BY <2>1 DEF About, Event
  <2>3. Settled
    BY <2>1, QuietWhenIdle
  <2>4. Fits(out, cache, Len(out), e)
    BY <2>1, <2>2, <2>3 DEF Fits, Settled
  <2>5. out' = Append(out, e) /\ UNCHANGED <<cache, conns, pend>> /\ out \in Seq(Event)
    BY <1>3 DEF EmitSample, mioVars, Inv, TypeOK
  <2>6. \A i \in DOMAIN out' : Fits(out', cache', i - 1, out'[i])
    BY <2>2, <2>4, <2>5, Publish
  <2>7. \A other \in Ids : Believed(out', cache', Len(out'), other, Place(other)')
    <3> SUFFICES ASSUME NEW other \in Ids
                 PROVE  Believed(Append(out, e), cache, Len(Append(out, e)), other, Place(other))
      BY <2>5 DEF Place
    <3>1. ~Concerns(e, other)
      BY <2>2 DEF Concerns
    <3>2. Believed(out, cache, Len(out), other, Place(other))
      BY <2>3 DEF Settled
    <3> QED BY <2>2, <2>5, <3>1, <3>2, BelievedAppend
  <2>8. \A k \in DOMAIN pend' : Harmless(pend[k])'
    BY <2>1, <2>3, <2>5 DEF Settled, Harmless
  <2> QED BY <2>6, <2>7, <2>8 DEF CacheInv, Settled
<1>4. CASE Recv(t)
  <2>1. out \in Seq(Event) /\ out # <<>> /\ out' = Tail(out) /\ UNCHANGED <<conns, pend, lock>>
        /\ Head(out) = out[1]
    BY <1>4, TailAt DEF Recv, mioVars, Inv, TypeOK
  <2>2. cache' = CASE out[1].kind = "connected" -> With(cache, out[1].id, out[1].addr)
                   [] out[1].kind = "disconnected" -> Without(cache, out[1].id)
                   [] OTHER -> cache
    BY <1>4, <2>1 DEF Recv, CacheUpdate
  <2>3. \A i \in 1..Len(out) : \A id, r :
            Believed(out, cache, i, id, r) => Believed(out', cache', i - 1, id, r)
    BY <2>1, <2>2, BelievedTail
  <2>4. /\ Len(out) \in Nat /\ Len(out) >= 1 /\ Len(out') = Len(out) - 1
        /\ DOMAIN out = 1..Len(out) /\ DOMAIN out' = 1..(Len(out) - 1)
        /\ \A i \in 1..(Len(out) - 1) : out'[i] = out[i + 1]
    BY <2>1, TailAt, Pop
  <2>5. \A i \in DOMAIN out' : Fits(out', cache', i - 1, out'[i])
    <3> SUFFICES ASSUME NEW i \in 1..(Len(out) - 1)
                 PROVE  Fits(out', cache', i - 1, out[i + 1])
      BY <2>4
    <3>1. i + 1 \in DOMAIN out /\ i \in 1..Len(out) /\ (i + 1) - 1 = i
      BY <2>4
    <3>2. Fits(out, cache, i, out[i + 1])
      BY <3>1 DEF CacheInv
    <3> QED BY <2>3, <3>1, <3>2 DEF Fits
  <2>6. \A id, r : Believed(out, cache, Len(out), id, r) => Believed(out', cache', Len(out'), id, r)
    <3>1. Len(out) \in 1..Len(out)
      BY <2>4
    <3> QED BY <2>3, <2>4, <3>1
  <2>7. CASE Settled
    BY <2>1, <2>5, <2>6, <2>7 DEF CacheInv, Settled, Harmless, Place
  <2>8. ASSUME NEW id \in Ids, Announcing(id) PROVE Announcing(id)'
    BY <2>1, <2>6, <2>8 DEF Announcing, Place
  <2> QED BY <2>5, <2>7, <2>8 DEF CacheInv
<1> QED BY <1>1, <1>2, <1>3, <1>4
        DEF ThreadStep, MethodStep, CallSendPacket, CallAccessor, Access, PushControl, Wake, mioVars

\* Processing starts with nothing pending.
LEMMA ProcessCache ==
    ASSUME Inv, EventsInv, CacheInv,
           ProcessConnected \/ ProcessDisconnected \/ ProcessPacket \/ ProcessError
    PROVE  CacheInv'
<1>1. /\ mio = "process" /\ pend = <<>> /\ UNCHANGED <<out, cache>> /\ tev # <<>>
      /\ Head(tev) = tev[1] /\ Head(tev) \in TransceiverEvent /\ 1 \in DOMAIN tev
  BY TailAt DEF ProcessConnected, ProcessDisconnected, Disconnect, ProcessPacket, ProcessError,
                Processing, Inv, PendOK, TypeOK
<1>2. Settled
  BY <1>1, QuietWhenIdle
<1>3. CASE NothingToSend /\ UNCHANGED conns
  BY <1>1, <1>2, <1>3 DEF NothingToSend, CacheInv, Settled, Place
<1>4. CASE ProcessConnected /\ ~(NothingToSend /\ UNCHANGED conns)
  <2>1. PICK id \in Ids, addr \in Addrs :
          /\ Head(tev).kind = "connected" /\ Head(tev).addr = addr /\ id \notin Prims(conns)
          /\ conns' = Insert(conns, id, addr) /\ pend' = <<Connected(id, addr)>> /\ lock' = Mio
    BY <1>1, <1>4, EventFields DEF ProcessConnected, Processing, BeginSend, ConnectedHolder
  <2>2. addr \notin Secs(conns)
    <3>1. 1 \in ConnectsAt(addr)
      BY <1>1, <2>1 DEF ConnectsAt
    <3>2. Ordered(addr \in Secs(conns), addr \in tconns, ConnectsAt(addr), LostAt(addr))
      BY <1>1, <2>1 DEF EventsInv
    <3>3. \A j \in LostAt(addr) : ~(j < 1)
      <4>1. DOMAIN tev = 1..Len(tev) /\ Len(tev) \in Nat
        BY DEF Inv, TypeOK
      <4> QED BY <4>1 DEF LostAt
    <3> QED BY <3>1, <3>2, <3>3 DEF Ordered
  <2>3. /\ Prims(conns') = Prims(conns) \cup {id} /\ conns'.prim_to_val[id] = addr
        /\ \A k \in Prims(conns) : conns'.prim_to_val[k] = conns.prim_to_val[k]
    BY <2>1, <2>2, ConnsGood, InsertFresh
  <2>4. Place(id) = {} /\ Place(id)' = {addr} /\ \A other \in Ids \ {id} : Place(other)' = Place(other)
    BY <2>1, <2>3 DEF Place
  <2>5. Announcing(id)'
    BY <1>1, <1>2, <2>1, <2>4 DEF Announcing, Settled
  <2> QED BY <1>1, <2>1, <2>5 DEF CacheInv
<1>5. CASE ProcessDisconnected /\ ~(NothingToSend /\ UNCHANGED conns)
  <2>1. PICK id \in Ids, addr \in Addrs :
          /\ addr \in Secs(conns) /\ id = conns.sec_to_prim[addr]
          /\ conns' = RemoveSec(conns, addr)
          /\ pend' = <<About("disconnected", id)>> /\ lock' = Mio
    BY <1>5, ConnsGood DEF ProcessDisconnected, Disconnect, BeginSend
  <2>2. id \in Prims(conns) /\ conns.prim_to_val[id] = addr
    BY <2>1, ConnsGood DEF Good, MutuallyInverse
  <2>3. Prims(conns') = Prims(conns) \ {id}
        /\ \A k \in Prims(conns') : conns'.prim_to_val[k] = conns.prim_to_val[k]
    BY <2>1 DEF RemoveSec, Prims, Without, Restrict
  <2>4. Place(id) = {addr} /\ Place(id)' = {} /\ \A other \in Ids \ {id} : Place(other)' = Place(other)
    BY <2>2, <2>3 DEF Place
  <2>5. Announcing(id)'
    BY <1>1, <1>2, <2>1, <2>2, <2>4 DEF Announcing, Settled
  <2> QED BY <1>1, <2>2, <2>5 DEF CacheInv
<1>6. CASE ProcessPacket /\ ~(NothingToSend /\ UNCHANGED conns)
  <2> DEFINE addr == Head(tev).addr
             id == conns.sec_to_prim[addr]
  <2>1. /\ UNCHANGED conns /\ addr \in Secs(conns)
        /\ \E sample \in Samples(id), result \in Results(id) :
              BeginSend(sample \o result, Mio)
    BY <1>6 DEF ProcessPacket
  <2>2. id \in Prims(conns)
    BY <2>1, ConnsGood DEF Good, MutuallyInverse
  <2>3. lock' = Mio /\ \A k \in DOMAIN pend' :
            pend'[k].kind \in {"sample", "packet", "datagram"} /\ pend'[k].id = id
    BY <2>1 DEF Samples, Results, BeginSend, About
  <2>4. \A k \in DOMAIN pend' : Harmless(pend[k])'
    BY <2>1, <2>2, <2>3 DEF Harmless
  <2>5. \A other \in Ids : Believed(out', cache', Len(out'), other, Place(other)')
    BY <1>1, <1>2, <2>1 DEF Settled, Place
  <2> QED BY <1>1, <2>4, <2>5 DEF CacheInv, Settled
<1>7. CASE ProcessError
  <2>1. UNCHANGED conns /\ pend' = <<Failure>>
    BY <1>7 DEF ProcessError, BeginSend
  <2>2. \A k \in DOMAIN pend' : Harmless(pend[k])'
    BY <2>1 DEF Harmless, Failure
  <2>3. \A other \in Ids : Believed(out', cache', Len(out'), other, Place(other)')
    BY <1>1, <1>2, <2>1 DEF Settled, Place
  <2> QED BY <1>1, <2>2, <2>3 DEF CacheInv, Settled
<1> QED BY <1>3, <1>4, <1>5, <1>6, <1>7

\* Sending the next pending event, or dropping it.
LEMMA EmitCache ==
    ASSUME Inv, CacheInv, EmitEvent
    PROVE  CacheInv'
<1> DEFINE e == Head(pend)
<1>1. /\ pend \in Seq(Event) /\ pend # <<>> /\ e \in Event /\ e = pend[1] /\ pend' = Tail(pend)
      /\ UNCHANGED <<conns, cache>> /\ out \in Seq(Event)
      /\ DOMAIN pend = 1..Len(pend) /\ DOMAIN pend' = 1..(Len(pend) - 1)
      /\ (\A k \in 1..(Len(pend) - 1) : pend'[k] = pend[k + 1]) /\ 1 \in DOMAIN pend
  BY TailAt, Pop DEF EmitEvent, Inv, TypeOK, PendOK
<1> HIDE DEF e
<1>2. \/ UNCHANGED out /\ e.kind = "packet"
      \/ out' = Append(out, e)
  BY DEF EmitEvent, Blocks, e
<1>3. ASSUME out' = Append(out, e), Fits(out, cache, Len(out), e)
      PROVE  \A i \in DOMAIN out' : Fits(out', cache', i - 1, out'[i])
  BY <1>1, <1>3, Publish
<1>4. ASSUME UNCHANGED out
      PROVE  \A i \in DOMAIN out' : Fits(out', cache', i - 1, out'[i])
  BY <1>1, <1>4 DEF CacheInv
<1>5. CASE Settled
  <2>1. /\ e.kind \notin {"connected", "disconnected"}
        /\ e.kind # "error" => e.id \in Prims(conns)
    BY <1>1, <1>5 DEF Settled, Harmless
  <2>2. Fits(out, cache, Len(out), e)
    <3> SUFFICES ASSUME e.kind \in {"packet", "datagram", "sample"}
                 PROVE  \E addr \in Addrs : Believed(out, cache, Len(out), e.id, {addr})
      BY <2>1 DEF Fits
    <3>1. e.id \in Ids /\ Place(e.id) = {conns.prim_to_val[e.id]} /\ conns.prim_to_val[e.id] \in Addrs
      BY <2>1, ConnsGood DEF Place
    <3> QED BY <1>5, <3>1 DEF Settled
  <2>3. \A k \in DOMAIN pend' : Harmless(pend[k])'
    <3>1. ASSUME NEW k \in DOMAIN pend'
          PROVE  k + 1 \in DOMAIN pend /\ pend'[k] = pend[k + 1] /\ lock' = lock
      <4>1. Len(pend) \in Nat
        BY <1>1
      <4> QED BY <1>1, <3>1, <4>1 DEF EmitEvent
    <3> QED BY <1>1, <1>5, <3>1 DEF Settled, Harmless
  <2>4. ASSUME NEW id \in Ids
        PROVE  Believed(out', cache', Len(out'), id, Place(id)')
    <3>1. Believed(out, cache, Len(out), id, Place(id)) /\ Place(id)' = Place(id)
      BY <1>1, <1>5 DEF Settled, Place
    <3>2. CASE out' = Append(out, e)
      <4>1. ~Concerns(e, id)
        BY <2>1 DEF Concerns
      <4> QED BY <1>1, <3>1, <3>2, <4>1, BelievedAppend
    <3> QED BY <1>1, <1>2, <3>1, <3>2
  <2>5. \A i \in DOMAIN out' : Fits(out', cache', i - 1, out'[i])
    BY <1>2, <1>3, <1>4, <2>2 DEF CacheInv
  <2> QED BY <2>3, <2>4, <2>5 DEF CacheInv, Settled
<1>6. ASSUME NEW id \in Ids, Announcing(id) PROVE CacheInv'
  <2>1. /\ Len(pend) = 1 /\ e.kind \in {"connected", "disconnected"} /\ e.id = id
        /\ Said(e) = Place(id) /\ Fits(out, cache, Len(out), e)
    <3>1. CASE /\ \E addr \in Addrs : pend = <<Connected(id, addr)>> /\ Place(id) = {addr}
               /\ Believed(out, cache, Len(out), id, {})
      BY <1>1, <3>1 DEF Connected, Said, Fits
    <3>2. CASE /\ pend = <<About("disconnected", id)>> /\ Place(id) = {}
               /\ \E addr \in Addrs : Believed(out, cache, Len(out), id, {addr})
      BY <1>1, <3>2 DEF About, Said, Fits
    <3> QED BY <1>6, <3>1, <3>2 DEF Announcing
  <2>2. out' = Append(out, e)
    BY <1>2, <2>1
  <2>3. \A k \in DOMAIN pend' : Harmless(pend[k])'
    BY <1>1, <2>1
  <2>4. ASSUME NEW other \in Ids
        PROVE  Believed(out', cache', Len(out'), other, Place(other)')
    <3>1. Place(other)' = Place(other)
      BY <1>1 DEF Place
    <3>2. /\ out \in Seq(Event) /\ e \in Event
          /\ out' = Append(out, e) /\ cache' = cache
      BY <1>1, <2>2
    <3>3. CASE other = id
      <4>1. Concerns(e, other) /\ Said(e) = Place(other)
        BY <2>1, <3>3 DEF Concerns
      <4> QED BY <3>1, <3>2, <4>1, BelievedAppend
    <3>4. CASE other # id
      <4>1. ~Concerns(e, other) /\ Believed(out, cache, Len(out), other, Place(other))
        BY <1>6, <2>1, <3>4 DEF Concerns, Announcing
      <4> QED BY <3>1, <3>2, <4>1, BelievedAppend
    <3> QED BY <3>3, <3>4
  <2>5. \A i \in DOMAIN out' : Fits(out', cache', i - 1, out'[i])
    BY <1>3, <2>1, <2>2
  <2> QED BY <2>3, <2>4, <2>5 DEF CacheInv, Settled
<1> QED BY <1>5, <1>6 DEF CacheInv

LEMMA CacheStep ==
    ASSUME Inv, EventsInv, CacheInv, [Next]_vars
    PROVE  CacheInv'
<1>1. CASE UNCHANGED <<out, cache, conns, pend, lock>>
  BY <1>1 DEF CacheInv, Settled, Announcing, Harmless, Place
<1>2. ASSUME NEW t \in Threads, ThreadStep(t) PROVE CacheInv'
  BY <1>2, ThreadCache
<1>3. CASE DropStep
  BY <1>1, <1>3 DEF DropStep, BeginDrop, DropSendStop, DropWake, DropJoin, mioVars
<1>4. CASE Environment
  BY <1>1, <1>4 DEF Environment, TransceiverConnects, TransceiverLoses, TransceiverReceives,
                    TransceiverFails, Collect
<1>5. CASE MioStep
  <2>1. CASE Poll \/ HandleSend \/ HandleStop \/ DrainDone \/ EndCollect \/ EndIteration
    BY <1>1, <2>1 DEF Poll, HandleSend, HandleStop, DrainDone, EndCollect, EndIteration
  <2> QED BY <1>5, <2>1, ProcessCache, EmitCache DEF MioStep
<1>6. CASE UNCHANGED vars
  BY <1>1, <1>6 DEF vars, mioVars
<1> QED BY <1>2, <1>3, <1>4, <1>5, <1>6 DEF Next

\* All three invariants together.
THEOREM CacheHolds == Spec => [](Inv /\ EventsInv /\ CacheInv)
<1>1. Init => EventsInv
  BY DEF Init, EventsInv, Ordered, EmptyMap, Secs, ConnectsAt
<1>2. Init => CacheInv
  <2> SUFFICES ASSUME Init PROVE Settled /\ out = <<>>
    BY DEF CacheInv
  <2>1. \A id \in Ids : Believed(out, cache, Len(out), id, Place(id))
    BY DEF Init, Believed, Cached, Place, EmptyMap, Prims
  <2> QED BY <2>1 DEF Init, Settled
<1>3. Inv /\ EventsInv /\ CacheInv /\ [Next]_vars => (EventsInv /\ CacheInv)'
  BY EventsStep, CacheStep
<1> QED BY <1>1, <1>2, <1>3, InvHolds, PTL DEF Spec

\* The receiver's cache never gets an event that contradicts it: no second connect, no
\* disconnect, packet, datagram or sample of a robot it does not know.
THEOREM EventsAlwaysFit == Spec => []EventsFitCache
<1>1. Inv /\ CacheInv => EventsFitCache
  <2> SUFFICES ASSUME Inv, CacheInv, out # <<>> PROVE EventsFitCache
    BY DEF EventsFitCache
  <2>1. 1 \in DOMAIN out /\ Head(out) = out[1] /\ Head(out) \in Event
    BY TailAt, Pop DEF Inv, TypeOK
  <2>2. Fits(out, cache, 1 - 1, Head(out))
    BY <2>1 DEF CacheInv
  <2>3. \A id, r : Believed(out, cache, 1 - 1, id, r) => r = Cached(cache, id)
    BY DEF Believed
  <2>4. Head(out).kind \in {"connected", "disconnected", "packet", "datagram", "sample", "error"}
    BY <2>1 DEF Event, Failure
  <2>5. CASE Head(out).kind = "connected"
    BY <2>2, <2>3, <2>5 DEF EventsFitCache, Fits, Cached
  <2>6. CASE Head(out).kind \in {"disconnected", "packet", "datagram", "sample"}
    BY <2>2, <2>3, <2>6 DEF EventsFitCache, Fits, Cached
  <2>7. CASE Head(out).kind = "error"
    BY <2>7 DEF EventsFitCache
  <2> QED BY <2>4, <2>5, <2>6, <2>7
<1> QED BY <1>1, CacheHolds, PTL

\* What CacheCoherent says of one robot.
Told(id) ==
    \/ \E i \in DOMAIN Stream : LastAbout(i, id) /\ Place(id) = Said(Stream[i])
    \/ /\ \A i \in DOMAIN Stream : ~Concerns(Stream[i], id)
       /\ Place(id) = Cached(cache, id)

LEMMA ToldIsCoherent == (\A id \in Ids : Told(id)) => CacheCoherent
<1> SUFFICES ASSUME NEW id \in Ids, Told(id)
             PROVE  \/ \E i \in DOMAIN Stream :
                         /\ LastAbout(i, id)
                         /\ id \in Prims(conns) <=> Stream[i].kind = "connected"
                         /\ id \in Prims(conns) => conns.prim_to_val[id] = Stream[i].addr
                    \/ /\ \A i \in DOMAIN Stream : ~Concerns(Stream[i], id)
                       /\ id \in Prims(conns) <=> id \in DOMAIN cache
                       /\ id \in Prims(conns) => conns.prim_to_val[id] = cache[id]
  BY DEF CacheCoherent
<1>1. \A event : Place(id) = Said(event) =>
         /\ id \in Prims(conns) <=> event.kind = "connected"
         /\ id \in Prims(conns) => conns.prim_to_val[id] = event.addr
  BY DEF Place, Said
<1>2. Place(id) = Cached(cache, id) =>
         /\ id \in Prims(conns) <=> id \in DOMAIN cache
         /\ id \in Prims(conns) => conns.prim_to_val[id] = cache[id]
  BY DEF Place, Cached
<1> QED BY <1>1, <1>2 DEF Told

LEMMA CacheTells ==
    ASSUME Inv, CacheInv, NEW id \in Ids
    PROVE  Told(id)
<1> DEFINE n == Len(out)
           m == Len(pend)
<1>1. /\ n \in Nat /\ m \in Nat /\ DOMAIN Stream = 1..(n + m)
      /\ \A i \in 1..n : Stream[i] = out[i]
      /\ \A i \in 1..m : Stream[n + i] = pend[i]
      /\ DOMAIN pend = 1..m
  BY ConcatProperties DEF Stream, Inv, TypeOK
<1> HIDE DEF n, m
<1>2. ASSUME \A i \in 1..m : ~Concerns(pend[i], id), Believed(out, cache, n, id, Place(id))
      PROVE  Told(id)
  <2>1. \A k \in 1..(n + m) : k \in 1..n \/ ~Concerns(Stream[k], id)
    <3> SUFFICES ASSUME NEW k \in 1..(n + m), k \notin 1..n
                 PROVE  ~Concerns(Stream[k], id)
      OBVIOUS
    <3>1. k - n \in 1..m /\ n + (k - n) = k
      BY <1>1
    <3>2. Stream[k] = pend[k - n]
      BY <1>1, <3>1
    <3> QED BY <1>2, <3>1, <3>2
  <2>2. ASSUME NEW j \in 1..n, Concerns(out[j], id), Place(id) = Said(out[j]),
               \A k \in 1..n : k > j => ~Concerns(out[k], id)
        PROVE  j \in DOMAIN Stream /\ LastAbout(j, id) /\ Place(id) = Said(Stream[j])
    <3>1. j \in DOMAIN Stream /\ Stream[j] = out[j]
      BY <1>1
    <3>2. \A k \in DOMAIN Stream : k > j => ~Concerns(Stream[k], id)
      BY <1>1, <2>1, <2>2
    <3> QED BY <2>2, <3>1, <3>2 DEF LastAbout
  <2>3. ASSUME \A k \in 1..n : ~Concerns(out[k], id)
        PROVE  \A k \in DOMAIN Stream : ~Concerns(Stream[k], id)
    BY <1>1, <2>1, <2>3
  <2> QED BY <1>2, <2>2, <2>3 DEF Believed, Told
<1>3. CASE Settled
  <2>1. \A i \in 1..m : ~Concerns(pend[i], id)
    BY <1>1, <1>3 DEF Settled, Harmless, Concerns
  <2> QED BY <1>2, <1>3, <2>1 DEF Settled, n
<1>4. ASSUME NEW one \in Ids, Announcing(one)
      PROVE  Told(id)
  <2>1. /\ m = 1 /\ pend[1].kind \in {"connected", "disconnected"} /\ pend[1].id = one
        /\ Said(pend[1]) = Place(one)
    BY <1>4 DEF Announcing, Connected, About, Said, m
  <2>2. CASE id = one
    <3>1. n + 1 \in DOMAIN Stream /\ Stream[n + 1] = pend[1]
      BY <1>1, <2>1
    <3>2. \A j \in DOMAIN Stream : ~(j > n + 1)
      BY <1>1, <2>1
    <3>3. LastAbout(n + 1, id) /\ Place(id) = Said(Stream[n + 1])
      BY <2>1, <2>2, <3>1, <3>2 DEF LastAbout, Concerns
    <3> QED BY <3>1, <3>3 DEF Told
  <2>3. CASE id # one
    <3>1. \A i \in 1..m : ~Concerns(pend[i], id)
      BY <2>1, <2>3 DEF Concerns
    <3>2. Believed(out, cache, n, id, Place(id))
      BY <1>4, <2>3 DEF Announcing, n
    <3> QED BY <1>2, <3>1, <3>2
  <2> QED BY <2>2, <2>3
<1> QED BY <1>3, <1>4 DEF CacheInv

\* The receiver's cache is active_connections, only later, at every moment and for any
\* number of robots, however the mio thread and the callers interleave.
THEOREM CacheAlwaysCoherent == Spec => []CacheCoherent
<1>1. Inv /\ CacheInv => CacheCoherent
  BY CacheTells, ToldIsCoherent
<1> QED BY <1>1, CacheHolds, PTL
=============================================================================
