------------------------ MODULE PeriodicDriverProofs ------------------------
(***************************************************************************)
(* What is proved of every ConnectionDriver holds for the one inside a       *)
(* PeriodicConnectionDriver as well.                                        *)
(***************************************************************************)
EXTENDS PeriodicDriver, ConnectionDriverProofs

\* A step of the periodic thread is a step of a thread of the driver, or none.
LEMMA PeriodicThreadStep ==
    ASSUME todo \subseteq Ids, PeriodicStep
    PROVE  (\E t \in Threads : ThreadStep(t)) \/ UNCHANGED vars
<1>1. Periodic \in Threads
  BY PeriodicAssumption DEF Threads
<1>2. CASE StartCycle
  BY <1>1, <1>2 DEF StartCycle, ThreadStep
<1>3. CASE TakeSnapshot
  BY <1>1, <1>3 DEF TakeSnapshot, ThreadStep, MethodStep
<1>4. CASE SendNext
  BY <1>1, <1>4 DEF SendNext, ThreadStep
<1>5. CASE InSendPacket
  BY <1>1, <1>5 DEF InSendPacket, ThreadStep, MethodStep
<1>6. CASE HandleSetPeriod \/ HandlePeriodicStop \/ Sleep
  BY <1>6 DEF HandleSetPeriod, HandlePeriodicStop, Sleep
<1> QED BY <1>2, <1>3, <1>4, <1>5, <1>6 DEF PeriodicStep

\* Every step is one of the driver, or leaves it as it is.
LEMMA PeriodicImplementsStep ==
    ASSUME todo \subseteq Ids, [PeriodicNext]_allVars
    PROVE  [Next]_vars
<1>1. CASE PeriodicStep
  BY <1>1, PeriodicThreadStep DEF Next
<1>2. CASE SetSendPeriod \/ BeginPeriodicDrop \/ SendPeriodicStop \/ JoinPeriodic
  BY <1>2 DEF SetSendPeriod, BeginPeriodicDrop, SendPeriodicStop, JoinPeriodic
<1>3. CASE InnerDrop
  BY <1>3 DEF InnerDrop, Next
<1>4. CASE PeriodicMio \/ PeriodicEnvironment
  BY <1>4 DEF PeriodicMio, PeriodicEnvironment, Next
<1>5. ASSUME NEW t \in Threads, UserCall(t) \/ UserStep(t) \/ UserRecv(t)
      PROVE  Next
  BY <1>5 DEF UserCall, UserStep, UserRecv, ThreadStep, Next
<1>6. CASE UNCHANGED allVars
  BY <1>6 DEF allVars
<1> QED BY <1>1, <1>2, <1>3, <1>4, <1>5, <1>6 DEF PeriodicNext, PeriodicDropStep

\* A control message is appended where there is room, or taken from the front.
LEMMA PctlStep ==
    ASSUME PeriodicTypeOK
    PROVE  /\ \A m \in {"period", "stop"} :
                Len(pctl) < PCtlCap =>
                  /\ Append(pctl, m) \in Seq({"period", "stop"})
                  /\ Len(Append(pctl, m)) <= PCtlCap
           /\ pctl # <<>> => Tail(pctl) \in Seq({"period", "stop"}) /\ Len(Tail(pctl)) <= PCtlCap
<1>1. pctl \in Seq({"period", "stop"}) /\ Len(pctl) <= PCtlCap /\ PCtlCap \in Nat
  BY PeriodicAssumption DEF PeriodicTypeOK
<1> QED BY <1>1

\* The thread keeps its types: its snapshot is of robot ids, because active_connections is.
LEMMA PeriodicTypeStep ==
    ASSUME Inv, Inv', PeriodicTypeOK, [PeriodicNext]_allVars
    PROVE  PeriodicTypeOK'
<1>1. Prims(conns) \subseteq Ids
  BY MapsFields DEF Inv, TypeOK
<1>2. TypeOK'
  BY DEF Inv
<1> USE DEF PeriodicTypeOK
<1>3. CASE StartCycle \/ TakeSnapshot \/ SendNext \/ InSendPacket \/ Sleep
  BY <1>1, <1>2, <1>3 DEF StartCycle, TakeSnapshot, SendNext, InSendPacket, Sleep, periodicVars
<1>4. CASE HandleSetPeriod \/ HandlePeriodicStop
  BY <1>2, <1>4, PctlStep DEF HandleSetPeriod, HandlePeriodicStop
<1>5. CASE SetSendPeriod \/ SendPeriodicStop
  BY <1>2, <1>5, PctlStep DEF SetSendPeriod, SendPeriodicStop
<1>6. CASE BeginPeriodicDrop \/ JoinPeriodic \/ InnerDrop
  BY <1>2, <1>6 DEF BeginPeriodicDrop, JoinPeriodic, InnerDrop, periodicVars
<1>7. CASE PeriodicMio \/ PeriodicEnvironment \/ UNCHANGED allVars
  BY <1>2, <1>7 DEF PeriodicMio, PeriodicEnvironment, periodicVars, allVars
<1>8. ASSUME NEW t \in Threads, UserCall(t) \/ UserStep(t) \/ UserRecv(t)
      PROVE  PeriodicTypeOK'
  BY <1>2, <1>8 DEF UserCall, UserStep, UserRecv, periodicVars
<1> QED BY <1>3, <1>4, <1>5, <1>6, <1>7, <1>8 DEF PeriodicNext, PeriodicStep, PeriodicDropStep

\* The driver's invariant holds inside PeriodicConnectionDriver, whose own variables keep
\* their types.
THEOREM PeriodicInvariant == PeriodicSpec => [](Inv /\ PeriodicTypeOK)
<1>1. PeriodicInit => Inv /\ PeriodicTypeOK
  BY InitInv, PeriodicAssumption DEF PeriodicInit, PeriodicTypeOK, Inv
<1>2. Inv /\ PeriodicTypeOK /\ [PeriodicNext]_allVars => (Inv /\ PeriodicTypeOK)'
  <2> SUFFICES ASSUME Inv, PeriodicTypeOK, [PeriodicNext]_allVars
               PROVE  (Inv /\ PeriodicTypeOK)'
    OBVIOUS
  <2>1. [Next]_vars
    BY PeriodicImplementsStep DEF PeriodicTypeOK
  <2>2. Inv'
    BY <2>1, InvStep
  <2> QED BY <2>2, PeriodicTypeStep
<1> QED BY <1>1, <1>2, PTL DEF PeriodicSpec

\* The thread's snapshot holds robot ids and its channel never more than it has room for.
THEOREM PeriodicTypeCorrect == PeriodicSpec => []PeriodicTypeOK
BY PeriodicInvariant, PTL

\* The wrapped driver's behaviours are among a ConnectionDriver's: periodic.rs only adds to
\* when its methods are called.
LEMMA PeriodicIsDriver == PeriodicSpec => Spec
<1>1. PeriodicInit => Init
  BY DEF PeriodicInit
<1>2. PeriodicTypeOK /\ [PeriodicNext]_allVars => [Next]_vars
  BY PeriodicImplementsStep DEF PeriodicTypeOK
<1> QED BY <1>1, <1>2, PeriodicInvariant, PTL DEF PeriodicSpec, Spec

\* What users of a PeriodicConnectionDriver rely on: the events they receive fit together,
\* the cache they feed is the driver's view, only later, and the packets the thread sends
\* never wait without a wakeup.
THEOREM PeriodicKeepsPromises ==
    PeriodicSpec => [](EventsFitCache /\ CacheCoherent /\ NoLostWakeup /\ NoZombie)
<1>1. Spec => [](EventsFitCache /\ CacheCoherent /\ NoLostWakeup /\ NoZombie)
  BY EventsAlwaysFit, CacheAlwaysCoherent, WakeupNeverLost, NoZombieEver, PTL
<1> QED BY <1>1, PeriodicIsDriver, PTL
=============================================================================
