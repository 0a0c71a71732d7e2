---------------------------- MODULE BridgeProofs ----------------------------
(***************************************************************************)
(* What holds in every reachable state of the bridge, for any hosts, delays *)
(* and bounds that satisfy its assumptions.                                 *)
(***************************************************************************)
EXTENDS Bridge, SequenceTheorems, TLAPS

Entry == [for : Hosts \cup {None}, age : 0..MaxDelay]

-----------------------------------------------------------------------------
(* The inductive invariant                                                 *)

\* The command an answer belongs to was accepted no later than last_received_time, and
\* its host is still the owner, unless the process was started anew since.
HostAnswers ==
    \A i \in DOMAIN line :
        line[i].for # None => age <= line[i].age /\ owner \in {None, line[i].for}

\* A robot id that is on its way is of this attempt, or has been since the start of the
\* process, or will be gone before the next attempt.
IdAnswers ==
    \A i \in DOMAIN line :
        line[i].for = None =>
            \/ age <= line[i].age
            \/ phase = "asking" /\ Len(line) = 1
            \/ phase = "closed" /\ RetryDelay <= line[i].age + retry

\* Attempts are RetryDelay apart, from the start of the process on.
Attempts ==
    phase = "closed" =>
        (retry = 0 /\ age = 0) \/ RetryDelay <= age + retry \/ age > Timeout

\* With an owner there is no robot id on its way any more.
Owned ==
    owner # None => phase = "running" /\ \A i \in DOMAIN line : line[i].for # None

IInv ==
    TypeOK /\ HostAnswers /\ IdAnswers /\ Attempts /\ Owned /\ AnswersGoHome

LEMMA Constants ==
    /\ Timeout \in Nat /\ RetryDelay \in Nat /\ Period \in Nat /\ RxCap \in Nat /\ LineCap \in Nat
    /\ MaxDelay \in Nat /\ MaxStall \in Nat /\ MaxGap \in Nat /\ MaxRestarts \in Nat
    /\ Timeout > 0 /\ RetryDelay > 0 /\ Period > 0 /\ RxCap > 0 /\ LineCap > 0
    /\ MaxDelay <= Timeout /\ MaxDelay < RetryDelay
  BY TimingAssumption, DelayAssumption

\* The type invariant in parts.
Flags ==
    /\ udp_to_serial \in BOOLEAN /\ serial_to_udp \in BOOLEAN
    /\ discovery_connected \in BOOLEAN
Numbers ==
    /\ retry \in 0..RetryDelay /\ age \in 0..Timeout + 1
    /\ next_if_update \in 0..Period /\ gap \in 0..MaxGap + 1
    /\ stall \in 0..MaxStall /\ restarts \in 0..MaxRestarts
Parties ==
    /\ phase \in {"closed", "asking", "running"}
    /\ owner \in Hosts \cup {None} /\ forwarded \in Hosts \cup {None}
    /\ sent \in [to : Hosts, for : Hosts \cup {None}] \cup {None}
    /\ shown \in [Ifaces -> Families \cup {"none"}] /\ members \subseteq Ifaces \X Families
Queues ==
    /\ rx \in Seq(Hosts) /\ Len(rx) <= RxCap
    /\ line \in Seq(Entry) /\ Len(line) <= LineCap

LEMMA TypeParts ==
    /\ TypeOK <=> Flags /\ Numbers /\ Parties /\ Queues
    /\ TypeOK' <=> Flags' /\ Numbers' /\ Parties' /\ Queues'
  BY Zenon DEF TypeOK, Flags, Numbers, Parties, Queues, Entry

LEMMA AppendLine ==
    ASSUME NEW S, NEW s \in Seq(S), NEW e \in S
    PROVE  /\ Append(s, e) \in Seq(S) /\ Len(Append(s, e)) = Len(s) + 1
           /\ \A i \in DOMAIN Append(s, e) :
                \/ i \in DOMAIN s /\ Append(s, e)[i] = s[i]
                \/ Append(s, e)[i] = e
           /\ s = <<>> => Len(Append(s, e)) = 1
  OBVIOUS

LEMMA TailLine ==
    ASSUME NEW S, NEW s \in Seq(S), s # <<>>
    PROVE  /\ Tail(s) \in Seq(S) /\ Len(Tail(s)) = Len(s) - 1
           /\ Head(s) = s[1] /\ 1 \in DOMAIN s /\ s[1] \in S
           /\ \A i \in DOMAIN Tail(s) : i + 1 \in DOMAIN s /\ Tail(s)[i] = s[i + 1]
           /\ Len(s) = 1 => DOMAIN Tail(s) = {}
<1>1. Len(s) \in Nat /\ Len(s) >= 1 /\ DOMAIN s = 1..Len(s)
  BY EmptySeq
<1>2. /\ Tail(s) \in Seq(S) /\ Len(Tail(s)) = Len(s) - 1
      /\ \A i \in 1..(Len(s) - 1) : Tail(s)[i] = s[i + 1]
      /\ Head(s) = s[1] /\ Head(s) \in S
  BY <1>1, HeadTailProperties
<1>3. DOMAIN Tail(s) = 1..(Len(s) - 1)
  BY <1>2
<1> QED BY <1>1, <1>2, <1>3

LEMMA EntryFields ==
    ASSUME NEW e \in Entry
    PROVE  e.for \in Hosts \cup {None} /\ e.age \in 0..MaxDelay /\ e.age \in Nat
  BY Constants DEF Entry

LEMMA LineTyped ==
    ASSUME TypeOK
    PROVE  /\ line \in Seq(Entry) /\ Len(line) <= LineCap
           /\ \A i \in DOMAIN line : line[i] \in Entry
           /\ age \in Nat /\ retry \in Nat
<1>1. line \in Seq(Entry) /\ Len(line) <= LineCap /\ age \in Nat /\ retry \in Nat
  BY Constants DEF TypeOK, Entry
<1> QED BY <1>1

LEMMA InitIInv == Init => IInv
<1> SUFFICES ASSUME Init PROVE IInv
  OBVIOUS
<1>1. line \in Seq(Entry) /\ Len(line) = 0 /\ rx \in Seq(Hosts) /\ Len(rx) = 0 /\ DOMAIN line = {}
  BY EmptySeq DEF Init
<1>2. Flags
  BY Zenon DEF Init, Flags
<1>3. Numbers /\ Parties
  BY Constants DEF Init, Numbers, Parties
<1>4. TypeOK
  BY <1>1, <1>2, <1>3, Constants, TypeParts DEF Queues
<1> QED BY <1>1, <1>4 DEF Init, IInv, HostAnswers, IdAnswers, Attempts, Owned, AnswersGoHome

\* When the host has been silent for too long, its answers are gone.
LEMMA LineEmpty ==
    ASSUME IInv, phase = "running", age > Timeout
    PROVE  line = <<>>
<1> SUFFICES ASSUME line # <<>> PROVE FALSE
  OBVIOUS
<1>1. 1 \in DOMAIN line /\ line[1] \in Entry
  BY TailLine, LineTyped DEF IInv
<1>2. age <= line[1].age
  BY <1>1, EntryFields DEF IInv, HostAnswers, IdAnswers
<1> QED BY <1>1, <1>2, EntryFields, LineTyped, Constants DEF IInv

LEMMA LineEmptyBeforeAttempt ==
    ASSUME IInv, phase = "closed", retry = 0, age > 0
    PROVE  line = <<>>
<1> SUFFICES ASSUME line # <<>> PROVE FALSE
  OBVIOUS
<1>1. 1 \in DOMAIN line /\ line[1] \in Entry
  BY TailLine, LineTyped DEF IInv
<1>2. age <= line[1].age \/ RetryDelay <= line[1].age
  BY <1>1, EntryFields DEF IInv, HostAnswers, IdAnswers
<1>3. RetryDelay <= age \/ age > Timeout
  BY LineTyped DEF IInv, Attempts
<1> QED BY <1>1, <1>2, <1>3, EntryFields, LineTyped, Constants DEF IInv

-----------------------------------------------------------------------------
(* Its steps                                                               *)

\* What every step but that of time does to the line: it leaves it alone, or takes its
\* first answer.
LEMMA ShorterLine ==
    ASSUME IInv, line' = line \/ (line # <<>> /\ line' = Tail(line))
    PROVE  /\ line' \in Seq(Entry) /\ Len(line') <= LineCap
           /\ \A i \in DOMAIN line' : \E j \in DOMAIN line :
                line'[i] = line[j] /\ line[j] \in Entry /\ (line' = line \/ Len(line) > 1)
<1>1. TypeOK
  BY DEF IInv
<1>2. CASE line' = line
  BY <1>1, <1>2, LineTyped
<1>3. CASE line # <<>> /\ line' = Tail(line)
  <2>1. /\ line' \in Seq(Entry) /\ Len(line') = Len(line) - 1 /\ Len(line) \in Nat
        /\ \A i \in DOMAIN line' : i + 1 \in DOMAIN line /\ line'[i] = line[i + 1]
        /\ Len(line) = 1 => DOMAIN line' = {}
        /\ Len(line) >= 1
    BY <1>1, <1>3, LineTyped, TailLine, EmptySeq
  <2> QED BY <1>1, <2>1, LineTyped, Constants
<1> QED BY <1>2, <1>3

\* Shortening the line disturbs nothing while the clocks stand still.
LEMMA ShorterKeeps ==
    ASSUME IInv, line' = line \/ (line # <<>> /\ line' = Tail(line)), age' = age,
           owner' = owner
    PROVE  /\ HostAnswers'
           /\ phase' = phase /\ retry' = retry => IdAnswers'
           /\ phase' = "running" \/ owner = None => Owned'
<1>1. HostAnswers'
  BY ShorterLine DEF IInv, HostAnswers
<1>2. ASSUME phase' = phase /\ retry' = retry PROVE IdAnswers'
  <2> SUFFICES ASSUME NEW i \in DOMAIN line', line'[i].for = None
               PROVE  \/ age <= line'[i].age
                      \/ phase = "asking" /\ Len(line') = 1
                      \/ phase = "closed" /\ RetryDelay <= line'[i].age + retry
    BY <1>2 DEF IdAnswers
  <2>1. PICK j \in DOMAIN line : line'[i] = line[j] /\ (line' = line \/ Len(line) > 1)
    BY ShorterLine
  <2>2. \/ age <= line[j].age
        \/ phase = "asking" /\ Len(line) = 1
        \/ phase = "closed" /\ RetryDelay <= line[j].age + retry
    BY <2>1 DEF IInv, IdAnswers
  <2> QED BY <2>1, <2>2
<1>3. ASSUME phase' = "running" \/ owner = None PROVE Owned'
  BY <1>3, ShorterLine DEF IInv, Owned
<1> QED BY <1>1, <1>2, <1>3

LEMMA SilentSent == Silent => AnswersGoHome'
  BY DEF Silent, AnswersGoHome

LEMMA AnswerLostStep == IInv /\ AnswerLost => IInv'
<1> SUFFICES ASSUME IInv, AnswerLost PROVE IInv'
  OBVIOUS
<1>1. TypeOK'
  <2>1. Flags' /\ Numbers' /\ Parties'
    BY TypeParts DEF AnswerLost, Silent, IInv, Flags, Numbers, Parties, groups, clocks
  <2>2. Queues'
    BY ShorterLine, TypeParts DEF AnswerLost, IInv, Queues
  <2> QED BY <2>1, <2>2, TypeParts
<1>2. HostAnswers' /\ IdAnswers' /\ Owned'
  BY ShorterKeeps DEF AnswerLost, IInv, Owned
<1>3. Attempts'
  BY DEF AnswerLost, IInv, Attempts
<1> QED BY <1>1, <1>2, <1>3, SilentSent DEF IInv, AnswerLost

LEMMA SerialToUdpStep == IInv /\ SerialToUdp => IInv'
<1> SUFFICES ASSUME IInv, SerialToUdp PROVE IInv'
  OBVIOUS
<1>1. /\ line # <<>> /\ line' = Tail(line) /\ phase = "running"
      /\ UNCHANGED <<phase, retry, groups, clocks, owner, age, rx, udp_to_serial, shown, restarts>>
      /\ forwarded' = None /\ serial_to_udp' \in BOOLEAN
      /\ sent' = None \/ (owner # None /\ sent' = [to |-> owner, for |-> Head(line).for])
  BY Zenon DEF SerialToUdp
<1>2. Head(line) = line[1] /\ 1 \in DOMAIN line /\ line[1] \in Entry
  BY <1>1, LineTyped, TailLine DEF IInv
<1>3. owner # None => line[1].for = owner
  BY <1>2, EntryFields DEF IInv, HostAnswers, Owned
<1>4. AnswersGoHome'
  BY <1>1, <1>2, <1>3 DEF AnswersGoHome
<1>5. Parties'
  <2>1. sent' \in [to : Hosts, for : Hosts \cup {None}] \cup {None}
    BY <1>1, <1>2, <1>3, TypeParts, EntryFields DEF IInv, Parties
  <2> QED BY <1>1, <2>1, TypeParts DEF IInv, Parties, groups
<1>6. TypeOK'
  <2>1. Flags' /\ Numbers'
    BY <1>1, TypeParts DEF IInv, Flags, Numbers, groups, clocks
  <2>2. Queues'
    BY <1>1, ShorterLine, TypeParts DEF IInv, Queues
  <2> QED BY <1>5, <2>1, <2>2, TypeParts
<1>7. HostAnswers' /\ IdAnswers' /\ Owned'
  BY <1>1, ShorterKeeps
<1>8. Attempts'
  BY <1>1 DEF IInv, Attempts
<1> QED BY <1>4, <1>6, <1>7, <1>8 DEF IInv

\* A step that leaves the line, its clocks and the phase alone and sends nothing.
LEMMA LineKept ==
    ASSUME IInv, Silent, UNCHANGED <<link, owner, age>>
    PROVE  /\ line' \in Seq(Entry) /\ Len(line') <= LineCap
           /\ HostAnswers' /\ IdAnswers' /\ Attempts' /\ Owned' /\ AnswersGoHome'
           /\ retry' \in 0..RetryDelay /\ age' \in 0..Timeout + 1
<1>1. line' = line /\ phase' = phase /\ retry' = retry /\ owner' = owner /\ age' = age
  BY DEF link
<1>2. HostAnswers' /\ IdAnswers' /\ Owned'
  BY <1>1, ShorterKeeps DEF IInv, Owned
<1>3. Attempts'
  BY <1>1 DEF IInv, Attempts
<1> QED BY <1>1, <1>2, <1>3, SilentSent, TypeParts DEF IInv, Queues, Numbers

LEMMA UpdateGroupsStep == IInv /\ UpdateGroups => IInv'
<1> SUFFICES ASSUME IInv, UpdateGroups PROVE IInv'
  OBVIOUS
<1>1. /\ Silent /\ UNCHANGED <<link, clocks, owner, age, rx, udp_to_serial, shown, restarts>>
      /\ next_if_update' = Period
      /\ members' \subseteq members \cup Shown
      /\ discovery_connected' \in {TRUE, FALSE, discovery_connected}
  BY DEF UpdateGroups, Join, Joined
<1>2. Flags'
  BY <1>1, TypeParts DEF IInv, Flags, link, clocks
<1>3. Numbers' /\ Queues'
  BY <1>1, LineKept, TypeParts, Constants DEF IInv, Numbers, Queues, link, clocks
<1>4. Parties'
  <2>1. shown \in [Ifaces -> Families \cup {"none"}] /\ members \subseteq Ifaces \X Families
    BY TypeParts DEF IInv, Parties
  <2>2. members' \subseteq Ifaces \X Families
    BY <1>1, <2>1 DEF Shown
  <2> QED BY <1>1, <2>1, <2>2, TypeParts DEF IInv, Parties, link, Silent
<1> QED BY <1>1, <1>2, <1>3, <1>4, LineKept, TypeParts DEF IInv

LEMMA SendStep == ASSUME IInv, NEW host \in Hosts, Send(host) PROVE IInv'
<1>1. rx' \in Seq(Hosts) /\ Len(rx') <= RxCap
  BY AppendLine, TypeParts, Constants DEF IInv, Queues, Send
<1>2. Silent /\ UNCHANGED <<link, owner, age>>
  BY DEF Send
<1>3. gap' \in 0..MaxGap + 1
  <2>1. gap' \in {0, gap} /\ gap \in 0..MaxGap + 1
    BY TypeParts DEF IInv, Numbers, Send
  <2> QED BY <2>1, Constants
<1>4. Flags' /\ Numbers' /\ Queues'
  BY <1>1, <1>2, <1>3, LineKept, TypeParts
     DEF IInv, Flags, Numbers, Queues, Send, link, groups
<1>5. Parties'
  BY TypeParts DEF IInv, Parties, Send, link, groups, Silent
<1> QED BY <1>2, <1>4, <1>5, LineKept, TypeParts DEF IInv

LEMMA PlugStep == ASSUME IInv, NEW iface \in Ifaces, Plug(iface) PROVE IInv'
<1>1. Silent /\ UNCHANGED <<link, owner, age>>
  BY DEF Plug
<1>2. Flags' /\ Numbers' /\ Queues'
  BY <1>1, LineKept, TypeParts DEF IInv, Flags, Numbers, Queues, Plug, link, clocks
<1>3. Parties'
  <2>1. shown \in [Ifaces -> Families \cup {"none"}] /\ members \subseteq Ifaces \X Families
    BY TypeParts DEF IInv, Parties
  <2>2. shown' \in [Ifaces -> Families \cup {"none"}] /\ members' \subseteq members
    BY <2>1 DEF Plug
  <2> QED BY <1>1, <2>1, <2>2, TypeParts DEF IInv, Parties, Plug, link, Silent
<1> QED BY <1>1, <1>2, <1>3, LineKept, TypeParts DEF IInv

LEMMA RestartStep == IInv /\ Restart => IInv'
<1> SUFFICES ASSUME IInv, Restart PROVE IInv'
  OBVIOUS
<1>1. /\ line' = line /\ line \in Seq(Entry) /\ Len(line) <= LineCap
      /\ \A i \in DOMAIN line : line[i] \in Entry
  BY LineTyped DEF IInv, Restart
<1>2. rx' \in Seq(Hosts) /\ Len(rx') <= RxCap
  BY Constants DEF Restart
<1>3. Flags' /\ Numbers' /\ Parties' /\ Queues'
  <2>1. Flags'
    BY DEF Flags, Restart
  <2>2. Numbers'
    BY TypeParts, Constants DEF IInv, Numbers, Restart
  <2>3. Parties'
    BY TypeParts DEF IInv, Parties, Restart, Silent
  <2> QED BY <1>1, <1>2, <2>1, <2>2, <2>3 DEF Queues
<1>4. HostAnswers' /\ IdAnswers'
  BY <1>1, EntryFields DEF Restart, HostAnswers, IdAnswers
<1>5. Attempts' /\ Owned'
  BY DEF Restart, Attempts, Owned
<1> QED BY <1>3, <1>4, <1>5, SilentSent, TypeParts DEF IInv, Restart

LEMMA ReadRobotIdStep == IInv /\ ReadRobotId => IInv'
<1> SUFFICES ASSUME IInv, ReadRobotId PROVE IInv'
  OBVIOUS
<1>1. /\ phase = "asking" /\ Silent
      /\ line' = line \/ (line # <<>> /\ line' = Tail(line))
      /\ \/ phase' = "running" /\ retry' = retry /\ line # <<>> /\ line' = Tail(line)
         \/ phase' = "closed" /\ retry' = RetryDelay
      /\ UNCHANGED <<serial_to_udp, groups, clocks, owner, age, rx, udp_to_serial, shown, restarts>>
  BY DEF ReadRobotId, GiveUp
<1>2. owner = None
  BY <1>1 DEF IInv, Owned
<1>3. HostAnswers' /\ Owned'
  BY <1>1, <1>2, ShorterKeeps
<1>4. IdAnswers'
  <2>1. CASE phase' = "closed"
    <3> SUFFICES ASSUME NEW i \in DOMAIN line'
                 PROVE  RetryDelay <= line'[i].age + retry'
      BY <2>1 DEF IdAnswers
    <3> QED BY <1>1, <2>1, ShorterLine, EntryFields, Constants
  <2>2. CASE phase' = "running"
    <3> SUFFICES ASSUME NEW i \in DOMAIN line', line'[i].for = None
                 PROVE  age' <= line'[i].age
      BY DEF IdAnswers
    <3>1. /\ Len(line) \in Nat /\ Len(line) >= 1 /\ Len(line') = Len(line) - 1
          /\ i + 1 \in DOMAIN line /\ line'[i] = line[i + 1]
          /\ Len(line) # 1
      BY <1>1, <2>2, LineTyped, TailLine, EmptySeq DEF IInv
    <3> QED BY <1>1, <3>1 DEF IInv, IdAnswers
  <2> QED BY <1>1, <2>1, <2>2
<1>5. Attempts'
  BY <1>1, LineTyped, Constants DEF IInv, Attempts
<1>6. Flags' /\ Numbers' /\ Parties'
  BY <1>1, TypeParts, Constants DEF IInv, Flags, Numbers, Parties, Silent, groups, clocks
<1>7. Queues'
  BY <1>1, ShorterLine, TypeParts DEF IInv, Queues
<1> QED BY <1>1, <1>3, <1>4, <1>5, <1>6, <1>7, SilentSent, TypeParts DEF IInv

LEMMA OpenPortStep == IInv /\ OpenPort => IInv'
<1> SUFFICES ASSUME IInv, OpenPort PROVE IInv'
  OBVIOUS
<1>1. /\ phase = "closed" /\ retry = 0 /\ Silent
      /\ UNCHANGED <<serial_to_udp, groups, clocks, owner, age, rx, udp_to_serial, shown, restarts>>
      /\ \/ phase' = "closed" /\ retry' = RetryDelay /\ line' = line
         \/ phase' = "asking" /\ retry' = 0 /\ line' = line
         \/ /\ phase' = "asking" /\ retry' = 0 /\ Len(line) < LineCap
            /\ line' = Append(line, [for |-> None, age |-> 0])
  BY DEF OpenPort, GiveUp, Answer, write_serial_packet
<1>2. /\ owner = None /\ [for |-> None, age |-> 0] \in Entry
      /\ line \in Seq(Entry) /\ Len(line) <= LineCap
      /\ \A i \in DOMAIN line : line[i] \in Entry
  BY <1>1, Constants, LineTyped DEF IInv, Owned, Entry
<1>3. /\ line' \in Seq(Entry) /\ Len(line') <= LineCap
      /\ \A i \in DOMAIN line' :
           \/ i \in DOMAIN line /\ line'[i] = line[i]
           \/ line'[i] = [for |-> None, age |-> 0] /\ (line = <<>> => Len(line') = 1)
                /\ phase' = "asking"
  <2>1. CASE line' = line
    BY <1>2, <2>1
  <2>2. CASE /\ phase' = "asking" /\ Len(line) < LineCap
             /\ line' = Append(line, [for |-> None, age |-> 0])
    <3>1. Len(line) \in Nat
      BY <1>2, LenProperties
    <3> HIDE DEF Entry
    <3> QED BY <1>2, <2>2, <3>1, AppendLine, Constants
  <2> QED BY <1>1, <2>1, <2>2
<1>4. HostAnswers'
  BY <1>1, <1>2, <1>3 DEF IInv, HostAnswers
<1>5. IdAnswers'
  <2> SUFFICES ASSUME NEW i \in DOMAIN line', line'[i].for = None
               PROVE  \/ age <= line'[i].age
                      \/ phase' = "asking" /\ Len(line') = 1
                      \/ phase' = "closed" /\ RetryDelay <= line'[i].age + retry'
    BY <1>1 DEF IdAnswers
  <2>1. CASE i \in DOMAIN line /\ line'[i] = line[i]
    <3>1. age <= line[i].age \/ RetryDelay <= line[i].age
      BY <1>1, <1>2, <2>1, EntryFields DEF IInv, IdAnswers
    <3> QED BY <1>2, <2>1, <3>1, EntryFields, Constants
  <2>2. CASE line'[i] = [for |-> None, age |-> 0] /\ (line = <<>> => Len(line') = 1)
               /\ phase' = "asking"
    <3>1. CASE age = 0
      BY <2>2, <3>1
    <3>2. CASE age > 0
      BY <1>1, <2>2, <3>2, LineEmptyBeforeAttempt
    <3> QED BY <3>1, <3>2, LineTyped DEF IInv
  <2> QED BY <1>3, <2>1, <2>2
<1>6. Attempts' /\ Owned'
  BY <1>1, <1>2, LineTyped, Constants DEF IInv, Attempts, Owned
<1>7. Flags' /\ Numbers' /\ Parties'
  BY <1>1, TypeParts, Constants DEF IInv, Flags, Numbers, Parties, Silent, groups, clocks
<1>8. Queues'
  BY <1>1, <1>3, TypeParts DEF IInv, Queues
<1> QED BY <1>1, <1>4, <1>5, <1>6, <1>7, <1>8, SilentSent, TypeParts DEF IInv

LEMMA UdpToSerialStep == IInv /\ UdpToSerial => IInv'
<1> SUFFICES ASSUME IInv, UdpToSerial PROVE IInv'
  OBVIOUS
<1> DEFINE host == Head(rx)
<1>1. /\ phase = "running" /\ rx # <<>> /\ rx' = Tail(rx)
      /\ UNCHANGED <<phase, retry, serial_to_udp, groups, shown, restarts>>
      /\ stall' \in {0, stall} /\ sent' = None
      /\ gap' \in {0, gap} /\ forwarded' \in {None, host}
      /\ udp_to_serial' \in {TRUE, FALSE, udp_to_serial}
      /\ \/ owner' = owner /\ age' = age /\ line' = line
         \/ /\ age > Timeout \/ owner = host
            /\ owner' = host /\ age' = 0
            /\ \/ line' = line
               \/ Len(line) < LineCap /\ line' = Append(line, [for |-> host, age |-> 0])
  BY Zenon DEF UdpToSerial, Expired, Refresh, Answer, write_serial_packet
<1>2. host \in Hosts /\ host # None /\ rx' \in Seq(Hosts) /\ Len(rx') <= RxCap
  BY <1>1, TailLine, TypeParts, TimingAssumption, Constants, EmptySeq DEF IInv, Queues
<1>3. /\ line \in Seq(Entry) /\ Len(line) <= LineCap /\ age \in Nat
      /\ \A i \in DOMAIN line : line[i] \in Entry
      /\ [for |-> host, age |-> 0] \in Entry
  BY <1>2, LineTyped, Constants DEF IInv, Entry
<1>4. HostAnswers' /\ IdAnswers' /\ Owned' /\ Len(line') <= LineCap /\ line' \in Seq(Entry)
  <2>1. CASE owner' = owner /\ age' = age /\ line' = line
    BY <1>1, <1>3, <2>1, ShorterKeeps
  <2>2. CASE /\ age > Timeout \/ owner = host
             /\ owner' = host /\ age' = 0
             /\ \/ line' = line
                \/ Len(line) < LineCap /\ line' = Append(line, [for |-> host, age |-> 0])
    <3>1. \A i \in DOMAIN line : line[i].for = host
      <4>1. CASE age > Timeout
        BY <1>1, <4>1, LineEmpty
      <4>2. CASE owner = host
        BY <1>2, <1>3, <4>2, EntryFields DEF IInv, HostAnswers, Owned
      <4> QED BY <2>2, <4>1, <4>2
    <3>2. /\ line' \in Seq(Entry) /\ Len(line') <= LineCap
          /\ \A i \in DOMAIN line' : line'[i] \in Entry /\ line'[i].for = host
      <4>1. CASE line' = line
        BY <1>3, <3>1, <4>1
      <4>2. CASE Len(line) < LineCap /\ line' = Append(line, [for |-> host, age |-> 0])
        <5> DEFINE e == [for |-> host, age |-> 0]
        <5>1. Len(line) \in Nat /\ e \in Entry /\ e.for = host
          BY <1>3, LenProperties
        <5> HIDE DEF e
        <5>2. line' = Append(line, e) /\ Len(line) < LineCap
          BY <4>2 DEF e
        <5>3. /\ line' \in Seq(Entry) /\ Len(line') = Len(line) + 1
              /\ \A i \in DOMAIN line' : (i \in DOMAIN line /\ line'[i] = line[i]) \/ line'[i] = e
          BY <1>3, <5>1, <5>2, AppendLine
        <5> QED BY <1>3, <3>1, <5>1, <5>2, <5>3, Constants
      <4> QED BY <2>2, <4>1, <4>2
    <3> QED BY <1>1, <1>2, <2>2, <3>2, EntryFields DEF HostAnswers, IdAnswers, Owned
  <2> QED BY <1>1, <2>1, <2>2
<1>5. Attempts'
  BY <1>1 DEF Attempts
<1>6. Flags'
  BY <1>1, TypeParts DEF IInv, Flags, groups
<1>7. Numbers'
  <2>1. age \in 0..Timeout + 1 /\ gap \in 0..MaxGap + 1 /\ stall \in 0..MaxStall
    BY TypeParts DEF IInv, Numbers
  <2>2. /\ age' \in 0..Timeout + 1 /\ gap' \in 0..MaxGap + 1
        /\ stall' \in 0..MaxStall
    BY <1>1, <2>1, Constants
  <2> QED BY <1>1, <2>2, TypeParts DEF IInv, Numbers, groups
<1>8. Parties'
  BY <1>1, <1>2, TypeParts DEF IInv, Parties, groups
<1>9. AnswersGoHome'
  BY <1>1 DEF AnswersGoHome
<1> QED BY <1>2, <1>4, <1>5, <1>6, <1>7, <1>8, <1>9, TypeParts DEF IInv, Queues

LEMMA TickStep == IInv /\ Tick => IInv'
<1> SUFFICES ASSUME IInv, Tick PROVE IInv'
  OBVIOUS
<1>1. /\ UNCHANGED <<phase, serial_to_udp, members, discovery_connected, owner, rx,
                     udp_to_serial, shown, restarts>>
      /\ phase # "asking" /\ Silent
      /\ phase = "closed" => retry > 0
      /\ phase = "running" => next_if_update > 0
      /\ \A i \in DOMAIN line : line[i].age < MaxDelay
      /\ rx # <<>> /\ udp_to_serial => stall < MaxStall
  BY DEF Tick
<1>2. /\ retry' = IF retry > 0 THEN retry - 1 ELSE 0
      /\ age' = IF age > Timeout THEN age ELSE age + 1
      /\ line' = [i \in DOMAIN line |-> [line[i] EXCEPT !.age = @ + 1]]
      /\ next_if_update' = IF phase = "running" THEN next_if_update - 1 ELSE next_if_update
      /\ gap' = IF owner = None \/ Late THEN gap ELSE gap + 1
      /\ stall' = IF rx # <<>> /\ udp_to_serial THEN stall + 1 ELSE 0
  BY Zenon DEF Tick
<1>3. /\ line \in Seq(Entry) /\ Len(line) <= LineCap /\ age \in Nat /\ retry \in Nat
      /\ \A i \in DOMAIN line : line[i] \in Entry
      /\ Len(line) \in Nat /\ DOMAIN line = 1..Len(line)
  BY LineTyped, LenProperties DEF IInv
<1>4. ASSUME NEW i \in DOMAIN line
      PROVE  /\ line'[i].for = line[i].for /\ line'[i].age = line[i].age + 1
             /\ line[i].age \in Nat /\ line[i].age < MaxDelay /\ line'[i] \in Entry
  <2>1. /\ line[i] \in Entry /\ line[i].age < MaxDelay /\ line[i].age \in Nat
        /\ line[i].for \in Hosts \cup {None}
        /\ line'[i] = [line[i] EXCEPT !.age = line[i].age + 1]
    BY <1>1, <1>2, <1>3, EntryFields
  <2>2. line'[i] = [for |-> line[i].for, age |-> line[i].age + 1]
    BY <2>1 DEF Entry
  <2>3. line[i].age + 1 \in 0..MaxDelay
    BY <2>1, Constants
  <2> QED BY <2>1, <2>2, <2>3 DEF Entry
<1>5. line' \in Seq(Entry) /\ Len(line') = Len(line) /\ DOMAIN line' = DOMAIN line
  <2>1. DOMAIN line' = 1..Len(line) /\ line' \in [1..Len(line) -> Entry]
    <3> HIDE DEF Entry
    <3> QED BY <1>2, <1>3, <1>4
  <2> QED BY <1>3, <2>1, LenProperties
<1>6. HostAnswers'
  <2> SUFFICES ASSUME NEW i \in DOMAIN line', line'[i].for # None
               PROVE  age' <= line'[i].age /\ owner' \in {None, line'[i].for}
    BY DEF HostAnswers
  <2>1. /\ i \in DOMAIN line /\ line'[i].for = line[i].for
        /\ line'[i].age = line[i].age + 1 /\ line[i].age \in Nat
    BY <1>4, <1>5
  <2>2. age <= line[i].age /\ owner \in {None, line[i].for}
    BY <2>1 DEF IInv, HostAnswers
  <2> QED BY <1>1, <1>2, <1>3, <2>1, <2>2
<1>7. IdAnswers'
  <2> SUFFICES ASSUME NEW i \in DOMAIN line', line'[i].for = None
               PROVE  \/ age' <= line'[i].age
                      \/ phase' = "closed" /\ RetryDelay <= line'[i].age + retry'
    BY DEF IdAnswers
  <2>1. /\ i \in DOMAIN line /\ line[i].for = None
        /\ line'[i].age = line[i].age + 1 /\ line[i].age \in Nat
    BY <1>4, <1>5
  <2>2. age <= line[i].age \/ (phase = "closed" /\ RetryDelay <= line[i].age + retry)
    BY <1>1, <2>1 DEF IInv, IdAnswers
  <2>3. CASE age <= line[i].age
    BY <1>2, <1>3, <2>1, <2>3
  <2>4. CASE phase = "closed" /\ RetryDelay <= line[i].age + retry
    <3>1. retry > 0 /\ retry' = retry - 1 /\ phase' = "closed"
      BY <1>1, <1>2, <2>4
    <3> QED BY <1>3, <2>1, <2>4, <3>1, Constants
  <2> QED BY <2>2, <2>3, <2>4
<1>8. Attempts'
  <2> SUFFICES ASSUME phase = "closed" PROVE RetryDelay <= age' + retry' \/ age' > Timeout
    BY <1>1 DEF Attempts
  <2>1. retry > 0 /\ retry' = retry - 1
    BY <1>1, <1>2
  <2>2. RetryDelay <= age + retry \/ age > Timeout
    BY <2>1, <1>3 DEF IInv, Attempts
  <2>3. age' = age + 1 \/ (age' = age /\ age > Timeout)
    BY <1>2
  <2> QED BY <1>3, <2>1, <2>2, <2>3, Constants
<1>9. Owned'
  BY <1>1, <1>4, <1>5 DEF IInv, Owned
<1>10. Flags'
  BY <1>1, <1>2, TypeParts DEF IInv, Flags
<1>11. Numbers'
  <2> DEFINE waiting == rx # <<>> /\ udp_to_serial
  <2>a. /\ retry' = IF retry > 0 THEN retry - 1 ELSE 0
        /\ age' = IF age > Timeout THEN age ELSE age + 1
        /\ next_if_update' = IF phase = "running" THEN next_if_update - 1 ELSE next_if_update
        /\ gap' = IF owner = None \/ Late THEN gap ELSE gap + 1
    BY <1>2
  <2>b. stall' = (IF waiting THEN stall + 1 ELSE 0) /\ (waiting => stall < MaxStall)
    BY <1>1, <1>2
  <2> HIDE DEF waiting
  <2>1. /\ retry \in 0..RetryDelay /\ age \in 0..Timeout + 1
        /\ next_if_update \in 0..Period /\ gap \in 0..MaxGap + 1
        /\ stall \in 0..MaxStall /\ restarts' \in 0..MaxRestarts
    BY <1>1, TypeParts DEF IInv, Numbers
  <2>2. retry' \in 0..RetryDelay
    BY <2>a, <2>1, Constants
  <2>3. age' \in 0..Timeout + 1
    BY <2>a, <2>1, Constants
  <2>4. next_if_update' \in 0..Period
    <3>1. CASE phase = "running"
      BY <1>1, <2>a, <2>1, <3>1, Constants
    <3>2. CASE phase # "running"
      BY <2>a, <2>1, <3>2
    <3> QED BY <3>1, <3>2
  <2>5. gap' \in 0..MaxGap + 1
    BY <2>a, <2>1, Constants DEF Late
  <2>6. stall' \in 0..MaxStall
    BY <2>b, <2>1, Constants
  <2> QED BY <2>1, <2>2, <2>3, <2>4, <2>5, <2>6 DEF Numbers
<1>12. Parties'
  BY <1>1, TypeParts DEF IInv, Parties, Silent
<1> QED BY <1>1, <1>3, <1>5, <1>6, <1>7, <1>8, <1>9, <1>10, <1>11, <1>12, SilentSent, TypeParts
        DEF IInv, Queues

LEMMA StutterStep == IInv /\ UNCHANGED vars => IInv'
  BY DEF IInv, TypeOK, HostAnswers, IdAnswers, Attempts, Owned, AnswersGoHome, vars, link,
         groups, clocks

-----------------------------------------------------------------------------
(* Theorems                                                                *)

\* The invariant holds in every state of every behaviour of the bridge as modelled.
THEOREM IInvHolds == Spec => []IInv
<1>1. ASSUME IInv, [Next]_vars PROVE IInv'
  BY <1>1, OpenPortStep, ReadRobotIdStep, UdpToSerialStep, SerialToUdpStep, AnswerLostStep,
     UpdateGroupsStep, TickStep, RestartStep, SendStep, PlugStep, StutterStep DEF Next
<1> QED BY InitIInv, <1>1, PTL DEF Spec

\* The variables keep their types: no queue, clock or counter passes its bound.
THEOREM BridgeTypeCorrect == Spec => []TypeOK
  BY IInvHolds, PTL DEF IInv

\* Every answer goes to the host whose command it answers, as long as the robot answers
\* sooner than the bridge gives a host up and asks for the id again (DelayAssumption).
THEOREM AnswersReachTheirHost == Spec => []AnswersGoHome
  BY IInvHolds, PTL DEF IInv
-----------------------------------------------------------------------------
(* The active host is kept                                                 *)

\* A datagram of the owner waits to be read.
Waiting == \E i \in DOMAIN rx : rx[i] = owner

\* last_received_time is when its
\* datagram was read, no earlier than it came in, and at most MaxStall later.
Kept ==
    owner # None /\ ~Late =>
        /\ ~Waiting => age <= gap
        /\ Waiting /\ udp_to_serial => age <= MaxGap + stall

LEMMA Clocks ==
    ASSUME TypeOK
    PROVE  /\ age \in Nat /\ age <= Timeout + 1 /\ gap \in Nat /\ stall \in Nat
           /\ stall <= MaxStall /\ rx \in Seq(Hosts) /\ owner \in Hosts \cup {None}
<1>1. Numbers /\ Queues /\ Parties
  BY TypeParts
<1> QED BY <1>1, Constants DEF Numbers, Queues, Parties

LEMMA Sum == \A n \in Nat : 0 <= MaxGap + n
  BY Constants

\* Reading a datagram of another host does not change whether the owner's waits.
LEMMA StillWaiting ==
    ASSUME rx \in Seq(Hosts), rx # <<>>, rx' = Tail(rx), owner' = owner, Head(rx) # owner
    PROVE  Waiting' <=> Waiting
<1>1. /\ DOMAIN rx = 1..Len(rx) /\ Len(rx) \in Nat /\ Len(rx) >= 1 /\ Head(rx) = rx[1]
      /\ DOMAIN Tail(rx) = 1..(Len(rx) - 1)
      /\ \A i \in 1..(Len(rx) - 1) : Tail(rx)[i] = rx[i + 1]
  BY EmptySeq, HeadTailProperties
<1>2. ASSUME Waiting PROVE Waiting'
  <2>1. PICK i \in DOMAIN rx : rx[i] = owner
    BY <1>2 DEF Waiting
  <2>2. i - 1 \in 1..(Len(rx) - 1) /\ i = (i - 1) + 1
    BY <1>1, <2>1
  <2>3. Tail(rx)[i - 1] = owner
    BY <1>1, <2>1, <2>2
  <2> QED BY <1>1, <2>2, <2>3 DEF Waiting
<1>3. ASSUME Waiting' PROVE Waiting
  BY <1>1, <1>3 DEF Waiting
<1> QED BY <1>2, <1>3

LEMMA ReadKeeps ==
    ASSUME IInv, Kept, UdpToSerial
    PROVE  /\ Kept'
           /\ MaxGap + MaxStall <= Timeout =>
                (owner # None /\ owner' \notin {owner, None} => Late)
<1> DEFINE host == Head(rx)
<1>1. /\ rx # <<>> /\ rx' = Tail(rx) /\ udp_to_serial
      /\ stall' = (IF rx' = <<>> THEN 0 ELSE stall)
      /\ owner' = (IF age > Timeout THEN host ELSE owner)
      /\ age' = (IF age > Timeout \/ owner = host THEN 0 ELSE age)
      /\ gap' = (IF owner' = owner THEN gap ELSE 0)
  BY DEF UdpToSerial, Expired, Refresh
<1>2. /\ age \in Nat /\ gap \in Nat /\ stall \in Nat /\ stall <= MaxStall
      /\ rx \in Seq(Hosts) /\ host \in Hosts /\ host # None
  BY <1>1, Clocks, TailLine, TimingAssumption DEF IInv
<1>3. stall' \in Nat /\ gap' \in Nat
  BY <1>1, <1>2
<1> HIDE DEF host
<1>4. Kept'
  <2> SUFFICES ASSUME owner' # None, ~Late' PROVE Kept'
    BY DEF Kept
  <2>1. CASE owner' = owner /\ (age > Timeout \/ owner = host)
    <3>1. age' = 0
      BY <1>1, <2>1
    <3>2. age' <= gap'
      BY <1>3, <3>1
    <3>3. age' <= MaxGap + stall'
      BY <1>3, <3>1, Sum
    <3> QED BY <3>2, <3>3 DEF Kept
  <2>2. CASE owner' # owner
    <3>1. age' = 0 /\ gap' = 0
      BY <1>1, <2>2
    <3>2. age' <= gap'
      BY <1>3, <3>1
    <3>3. age' <= MaxGap + stall'
      BY <1>3, <3>1, Sum
    <3> QED BY <3>2, <3>3 DEF Kept
  <2>3. CASE owner' = owner /\ age <= Timeout /\ owner # host
    <3>1. age' = age /\ gap' = gap
      BY <1>1, <1>2, <2>3, Constants
    <3>2. Waiting' <=> Waiting
      BY <1>1, <1>2, <2>3, StillWaiting DEF host
    <3>3. ASSUME Waiting' PROVE stall' = stall
      <4>1. rx' # <<>>
        BY <3>3 DEF Waiting
      <4> QED BY <1>1, <4>1
    <3> QED BY <1>1, <2>3, <3>1, <3>2, <3>3 DEF Kept, Late
  <2> QED BY <1>2, <2>1, <2>2, <2>3, Constants
<1>5. ASSUME MaxGap + MaxStall <= Timeout, owner # None, owner' # owner, ~Late PROVE FALSE
  <2>1. age > Timeout
    BY <1>1, <1>5
  <2>2. age <= gap \/ age <= MaxGap + stall
    BY <1>1, <1>5 DEF Kept
  <2>3. gap <= MaxGap
    BY <1>2, <1>5, Constants DEF Late
  <2> QED BY <1>2, <1>5, <2>1, <2>2, <2>3, Constants
<1> QED BY <1>4, <1>5

LEMMA TickKeeps == ASSUME IInv, Kept, Tick PROVE Kept'
<1>1. /\ age' = (IF age > Timeout THEN age ELSE age + 1)
      /\ gap' = (IF owner = None \/ gap > MaxGap THEN gap ELSE gap + 1)
      /\ stall' = (IF rx # <<>> /\ udp_to_serial THEN stall + 1 ELSE 0)
      /\ UNCHANGED <<owner, rx, udp_to_serial>>
  BY DEF Tick, Late
<1>2. age \in Nat /\ gap \in Nat /\ stall \in Nat
  BY Clocks DEF IInv
<1>3. Waiting' <=> Waiting
  BY <1>1 DEF Waiting
<1>4. Waiting => rx # <<>>
  BY DEF Waiting
<1> SUFFICES ASSUME owner # None, ~Late' PROVE Kept'
  BY <1>1 DEF Kept
<1>5. ~Late /\ gap' = gap + 1 /\ gap' <= MaxGap
  BY <1>1, <1>2, Constants DEF Late
<1> QED BY <1>1, <1>2, <1>3, <1>4, <1>5, Constants DEF Kept

LEMMA SendKeeps == ASSUME IInv, Kept, NEW host \in Hosts, Send(host) PROVE Kept'
<1>1. /\ rx' = Append(rx, host) /\ gap' = (IF host = owner /\ ~Late THEN 0 ELSE gap)
      /\ UNCHANGED <<owner, age, stall, udp_to_serial>>
  BY DEF Send, groups
<1>2. age \in Nat /\ gap \in Nat /\ stall \in Nat /\ rx \in Seq(Hosts)
  BY Clocks DEF IInv
<1>3. /\ Len(rx) \in Nat /\ DOMAIN rx = 1..Len(rx) /\ DOMAIN rx' = 1..(Len(rx) + 1)
      /\ \A i \in 1..Len(rx) : rx'[i] = rx[i]
      /\ rx'[Len(rx) + 1] = host
  BY <1>1, <1>2
<1>4. Waiting' <=> Waiting \/ host = owner
  <2>1. ASSUME NEW i \in DOMAIN rx' PROVE i \in DOMAIN rx \/ i = Len(rx) + 1
    BY <1>3
  <2>2. DOMAIN rx \subseteq DOMAIN rx' /\ Len(rx) + 1 \in DOMAIN rx'
    BY <1>3
  <2> QED BY <1>1, <1>3, <2>1, <2>2 DEF Waiting
<1> QED BY <1>1, <1>2, <1>4, Constants DEF Kept, Late

\* A host that is never quiet for longer than MaxGap is never displaced, however often
\* others send, if MaxGap and the time it takes to empty the socket are within
\* CONNECTION_TIMEOUT (udp2serial/src/serial.rs:50-62).
THEOREM ActiveHostKept == Spec => ActiveKept
<1>1. Init => Kept
  BY DEF Init, Kept
<1>2. ASSUME IInv, Kept, [Next]_vars
      PROVE  /\ Kept'
             /\ [MaxGap + MaxStall <= Timeout =>
                   (owner # None /\ owner' \notin {owner, None} => Late)]_vars
  <2>1. CASE UdpToSerial
    BY <1>2, <2>1, ReadKeeps
  <2>2. CASE Tick
    BY <1>2, <2>2, TickKeeps DEF Tick
  <2>3. ASSUME NEW host \in Hosts, Send(host) PROVE Kept' /\ owner' = owner
    BY <1>2, <2>3, SendKeeps DEF Send
  <2>4. CASE Restart
    BY <2>4 DEF Restart, Kept
  <2>5. CASE UNCHANGED <<owner, age, rx, gap, stall, udp_to_serial>>
    BY <1>2, <2>5 DEF Kept, Waiting, Late
  <2> QED
    BY <1>2, <2>1, <2>2, <2>3, <2>4, <2>5
       DEF Next, OpenPort, ReadRobotId, SerialToUdp, AnswerLost, UpdateGroups, Plug, clocks, vars
<1> QED BY <1>1, <1>2, IInvHolds, PTL DEF Spec, ActiveKept
=============================================================================
