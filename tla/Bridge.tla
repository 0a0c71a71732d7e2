------------------------------- MODULE Bridge -------------------------------
(***************************************************************************)
(* udp2serial (main.rs and serial.rs): the process on a robot that passes   *)
(* the commands of one host at a time on to the robot's serial port, sends  *)
(* the answers back, and listens for beacons while it has no host.  Its     *)
(* threads share last_received_time and last_command_addr.                  *)
(*                                                                         *)
(* Time passes in ticks.  A command or an answer is known by the host it is *)
(* for; a serial packet by what read_serial_packet makes of it: a packet,   *)
(* nothing when bytes are missing, or an error.  There is a beacon group of *)
(* IPv4 and one of IPv6, and a socket for each.                             *)
(***************************************************************************)
EXTENDS Naturals, Sequences

CONSTANTS
    Hosts, Ifaces,  \* senders of commands; network interfaces
    Watched,        \* the hosts HostServed is stated for
    None,           \* no host
    Timeout,        \* CONNECTION_TIMEOUT
    RetryDelay,     \* sleep between two attempts to reach the robot
    Period,         \* ticks between two decisions about the beacon groups
    RxCap,          \* bound: unread datagrams of the data socket
    LineCap,        \* bound: answers on their way from the robot
    MaxDelay,       \* the robot's answer is read, or lost, this long after the command
    MaxStall,       \* the socket is emptied within this time
    MaxGap,         \* a host that sends less often than that is late
    MaxRestarts     \* bound: times the process is started anew

ASSUME TimingAssumption ==
    /\ {Timeout, RetryDelay, Period, RxCap, LineCap} \subseteq Nat \ {0}
    /\ {MaxDelay, MaxStall, MaxGap, MaxRestarts} \subseteq Nat
    /\ None \notin Hosts /\ Watched \subseteq Hosts
\* The robot answers before the bridge gives a host up or asks for the id again.
ASSUME DelayAssumption == MaxDelay <= Timeout /\ MaxDelay < RetryDelay

VARIABLES
    phase,           \* of start_udp_serial_bridge; "running": main is in its loop
    retry,           \* ticks until the port is opened again
    owner,           \* last_command_addr
    age,             \* ticks since last_received_time, up to Timeout + 1
    rx,              \* unread datagrams of the data socket, by sender
    udp_to_serial,   \* are the two forwarding threads alive?
    serial_to_udp,
    line,            \* answers on their way: whom for (None: the robot id), how old
    forwarded,       \* host whose command was written to the port by the last step
    sent,            \* answer that was sent by the last step: to whom, and whom it is for
    shown,           \* per interface, the family of its address, if any: v4 if it has both
    members,         \* beacon groups that are joined: on which interface, of which family
    discovery_connected, next_if_update,
    gap,             \* ticks since the owner's last datagram came in, until it was late once
    stall,           \* ticks since the data socket was empty
    restarts

link == <<phase, retry, line, serial_to_udp>>
groups == <<members, discovery_connected, next_if_update>>
clocks == <<gap, stall>>
vars == <<link, groups, clocks, owner, age, rx, udp_to_serial, forwarded, sent, shown, restarts>>

Late == gap > MaxGap

Families == {"v4", "v6"}

TypeOK ==
    /\ phase \in {"closed", "asking", "running"} /\ retry \in 0..RetryDelay
    /\ owner \in Hosts \cup {None} /\ age \in 0..Timeout + 1
    /\ rx \in Seq(Hosts) /\ Len(rx) <= RxCap
    /\ udp_to_serial \in BOOLEAN /\ serial_to_udp \in BOOLEAN
    /\ line \in Seq([for : Hosts \cup {None}, age : 0..MaxDelay]) /\ Len(line) <= LineCap
    /\ forwarded \in Hosts \cup {None}
    /\ sent \in [to : Hosts, for : Hosts \cup {None}] \cup {None}
    /\ shown \in [Ifaces -> Families \cup {"none"}] /\ members \subseteq Ifaces \X Families
    /\ discovery_connected \in BOOLEAN /\ next_if_update \in 0..Period
    /\ gap \in 0..MaxGap + 1 /\ stall \in 0..MaxStall
    /\ restarts \in 0..MaxRestarts

Init ==
    /\ phase = "closed" /\ retry = 0
    /\ owner = None /\ age = 0 /\ rx = <<>>
    /\ udp_to_serial = TRUE /\ serial_to_udp = TRUE
    /\ forwarded = None /\ sent = None
    /\ members = {} /\ discovery_connected = TRUE /\ next_if_update = 0
    /\ gap = 0 /\ stall = 0
    /\ line = <<>> /\ shown \in [Ifaces -> Families \cup {"none"}] /\ restarts = 0

Silent == forwarded' = None /\ sent' = None
-----------------------------------------------------------------------------
(* The serial line, and establish_robot_connection                         *)

\* What becomes of a packet: COBS framing and a checksum tell the reader whether it has
\* the bytes that were written.  Bytes that go missing make the reader wait for more.
write_serial_packet == {"written", "error"}
read_serial_packet == {"packet", "error", "incomplete"}

\* The robot answers a request of whom; or it does not.
Answer(whom) ==
    \/ UNCHANGED line
    \/ Len(line) < LineCap /\ line' = Append(line, [for |-> whom, age |-> 0])

GiveUp == phase' = "closed" /\ retry' = RetryDelay

\* The port is opened, which may fail, and the request for the id written.
OpenPort ==
    /\ phase = "closed" /\ retry = 0
    /\ \/ GiveUp /\ UNCHANGED line
       \/ \E result \in write_serial_packet :
            \/ result = "error" /\ GiveUp /\ UNCHANGED line
            \/ result = "written" /\ phase' = "asking" /\ UNCHANGED retry /\ Answer(None)
    /\ Silent
    /\ UNCHANGED <<serial_to_udp, groups, clocks, owner, age, rx, udp_to_serial, shown, restarts>>

\* What comes first decides: the id, or another try.  So does a timeout.
ReadRobotId ==
    /\ phase = "asking"
    /\ \/ /\ line # <<>> /\ line' = Tail(line)
          /\ \E result \in read_serial_packet :
               IF result = "packet" /\ Head(line).for = None
               THEN phase' = "running" /\ UNCHANGED retry
               ELSE GiveUp
       \/ GiveUp /\ UNCHANGED line
    /\ Silent
    /\ UNCHANGED <<serial_to_udp, groups, clocks, owner, age, rx, udp_to_serial, shown, restarts>>
-----------------------------------------------------------------------------
(* The thread from UDP to serial                                           *)

\* Mutants: the timeout counts from its last tick on; every datagram keeps the owner.
ExpiredEarly == age >= Timeout
Expired == age > Timeout

RefreshAlways(accepted) == age' = 0
Refresh(accepted) == age' = IF accepted THEN 0 ELSE age

\* One datagram: it is forwarded if its sender is the owner, or becomes it after a silence.
\* write_serial_packet may fail, which ends the thread.
UdpToSerial ==
    /\ phase = "running" /\ udp_to_serial
    /\ rx # <<>> /\ rx' = Tail(rx)
    /\ stall' = IF rx' = <<>> THEN 0 ELSE stall
    /\ LET host == Head(rx)
           accepted == Expired \/ owner = host
       IN  /\ owner' = IF Expired THEN host ELSE owner
           /\ Refresh(accepted)
           /\ gap' = IF owner' = owner THEN gap ELSE 0
           /\ \/ ~accepted /\ forwarded' = None /\ UNCHANGED <<line, udp_to_serial>>
              \/ /\ accepted
                 /\ \E result \in write_serial_packet :
                      /\ udp_to_serial' = (result = "written")
                      /\ IF result = "written" THEN forwarded' = host /\ Answer(host)
                                               ELSE forwarded' = None /\ UNCHANGED line
    /\ sent' = None
    /\ UNCHANGED <<phase, retry, serial_to_udp, groups, shown, restarts>>
-----------------------------------------------------------------------------
(* The thread from serial to UDP                                           *)

\* A packet goes to whoever is the owner when it is read.  An error is unwrapped, which
\* ends this thread, and so does one of send_to.
SerialToUdp ==
    /\ phase = "running" /\ serial_to_udp
    /\ line # <<>> /\ line' = Tail(line)
    /\ \E result \in read_serial_packet, sends \in BOOLEAN :
         LET addressed == result = "packet" /\ owner # None
         IN  /\ sent' = IF addressed /\ sends THEN [to |-> owner, for |-> Head(line).for] ELSE None
             /\ serial_to_udp' = (result # "error" /\ (addressed => sends))
    /\ forwarded' = None
    /\ UNCHANGED <<phase, retry, groups, clocks, owner, age, rx, udp_to_serial, shown, restarts>>

\* Nobody reads the port.
AnswerLost ==
    /\ phase = "closed" \/ (phase = "running" /\ ~serial_to_udp)
    /\ line # <<>> /\ line' = Tail(line)
    /\ Silent
    /\ UNCHANGED <<phase, retry, serial_to_udp, groups, clocks, owner, age, rx,
                   udp_to_serial, shown, restarts>>
-----------------------------------------------------------------------------
(* main's discovery loop                                                   *)

\* The group each listed interface is joined to or taken out of, by the address it has now.
\* Mutant: an interface without an address is not passed over.
ShownAll == {<<iface, shown[iface]>> : iface \in Ifaces}
Shown == {<<iface, shown[iface]>> : iface \in {i \in Ifaces : shown[i] # "none"}}

\* Joining may fail, for a reason of its own on each interface; nobody looks at that.
\* Mutants: the groups are joined only once after they were left; they are left only once.
JoinOnce(failed) == IF discovery_connected THEN members ELSE members \cup (Shown \ failed)
Join(failed) == members \cup (Shown \ failed)
StayLeft == UNCHANGED discovery_connected
Joined == discovery_connected' = TRUE

\* Without a host the groups are joined, on new interfaces too; once there is one they are
\* left.  Leaving only fails where there is nothing to leave.
UpdateGroups ==
    /\ phase = "running" /\ next_if_update = 0
    /\ next_if_update' = Period
    /\ \/ /\ age > Timeout /\ Joined
          /\ \E failed \in SUBSET Shown : members' = Join(failed)
       \/ /\ age <= Timeout /\ discovery_connected
          /\ members' = members \ Shown
          /\ discovery_connected' = FALSE
       \/ /\ age <= Timeout /\ ~discovery_connected
          /\ UNCHANGED <<members, discovery_connected>>
    /\ Silent
    /\ UNCHANGED <<link, clocks, owner, age, rx, udp_to_serial, shown, restarts>>
-----------------------------------------------------------------------------
(* Time, hosts, interfaces and the process (external)                      *)

Tick ==
    /\ phase # "asking"
    /\ phase = "closed" => retry > 0
    /\ phase = "running" => next_if_update > 0
    /\ \A i \in DOMAIN line : line[i].age < MaxDelay
    /\ rx # <<>> /\ udp_to_serial => stall < MaxStall
    /\ retry' = IF retry > 0 THEN retry - 1 ELSE 0
    /\ age' = IF age > Timeout THEN age ELSE age + 1
    /\ line' = [i \in DOMAIN line |-> [line[i] EXCEPT !.age = @ + 1]]
    /\ next_if_update' = IF phase = "running" THEN next_if_update - 1 ELSE next_if_update
    /\ gap' = IF owner = None \/ Late THEN gap ELSE gap + 1
    /\ stall' = IF rx # <<>> /\ udp_to_serial THEN stall + 1 ELSE 0
    /\ Silent
    /\ UNCHANGED <<phase, serial_to_udp, members, discovery_connected, owner, rx,
                   udp_to_serial, shown, restarts>>

\* A datagram arrives, or is lost where the socket is not bound or read, or is full.
Send(host) ==
    /\ phase = "running" /\ udp_to_serial /\ Len(rx) < RxCap
    /\ rx' = Append(rx, host)
    /\ gap' = IF host = owner /\ ~Late THEN 0 ELSE gap
    /\ Silent
    /\ UNCHANGED <<link, groups, stall, owner, age, udp_to_serial, shown, restarts>>

\* The memberships of an interface.
Members(iface) == members \cap ({iface} \X Families)

\* An interface appears, gets or loses an address, or disappears with its memberships.
Plug(iface) ==
    /\ \E family \in Families \cup {"none"} : shown' = [shown EXCEPT ![iface] = family]
    /\ \/ UNCHANGED members
       \/ shown'[iface] = "none" /\ members' = members \ Members(iface)
    /\ Silent
    /\ UNCHANGED <<link, discovery_connected, next_if_update, clocks, owner, age, rx,
                   udp_to_serial, restarts>>

Restart ==
    /\ restarts < MaxRestarts
    /\ restarts' = restarts + 1
    /\ phase' = "closed" /\ retry' = 0
    /\ owner' = None /\ age' = 0 /\ rx' = <<>>
    /\ udp_to_serial' = TRUE /\ serial_to_udp' = TRUE
    /\ members' = {} /\ discovery_connected' = TRUE /\ next_if_update' = 0
    /\ gap' = 0 /\ stall' = 0
    /\ Silent
    /\ UNCHANGED <<line, shown>>

Next ==
    \/ OpenPort \/ ReadRobotId \/ UdpToSerial \/ SerialToUdp \/ AnswerLost \/ UpdateGroups
    \/ Tick \/ Restart
    \/ \E host \in Hosts : Send(host)
    \/ \E iface \in Ifaces : Plug(iface)

Spec == Init /\ [][Next]_vars

\* The process is scheduled, time passes, the data socket is read faster than it fills, the
\* robot answers a request for its id in the end, and a group that is joined again and again
\* is joined without an error some time.  Hosts are free to send nothing.
Fairness ==
    /\ []<>(rx = <<>> \/ ~udp_to_serial)
    /\ WF_vars(OpenPort) /\ WF_vars(ReadRobotId)
    /\ SF_vars(ReadRobotId /\ phase' = "running")
    /\ SF_vars(OpenPort /\ phase' = "asking" /\ line' # line)
    /\ WF_vars(UdpToSerial) /\ WF_vars(SerialToUdp) /\ WF_vars(AnswerLost)
    /\ WF_vars(UpdateGroups) /\ WF_vars(Tick)
    /\ \A iface \in Ifaces : SF_vars(UpdateGroups /\ <<iface, shown[iface]>> \in members')

FairSpec == Spec /\ Fairness
-----------------------------------------------------------------------------
(* Properties                                                              *)

\* Every answer goes to the host whose command it answers, never to one that took over
\* meanwhile, and the robot id is never taken for an answer (serial.rs:90 reads the owner
\* only when the answer has come, and no longer looks at its type).
AnswersGoHome == sent # None => sent.to = sent.for

\* A host that is never quiet for long is not displaced, however often others send
\* (serial.rs:50-62).
ActiveKept ==
    [][MaxGap + MaxStall <= Timeout =>
         (owner # None /\ owner' \notin {owner, None} => Late)]_vars

Alone(host) == <>[][~\E other \in Hosts \ {host} : Send(other)]_vars
KeepsSending(host) == []<><<Send(host)>>_vars

\* A host that goes on sending after the others have stopped gets its commands to the
\* robot again and again while their thread lives, whatever happens to the thread that
\* returns the answers (serial.rs:50-62).
HostServed ==
    \A host \in Watched :
        Alone(host) /\ KeepsSending(host) /\ <>[]udp_to_serial => []<>(forwarded = host)

\* A robot without a host listens for beacons on every interface, those included that
\* appeared or got another address since, although joining may fail (main.rs:79-91).
Discoverable ==
    \A iface \in Ifaces :
        <>[](age > Timeout) /\ <>[][shown'[iface] = shown[iface]]_vars =>
            <>[](shown[iface] = "none" \/ <<iface, shown[iface]>> \in members)

\* With a host it ends up listening on no interface, those included that come and go.
\* Not on one whose address changes its family, or is lost, while it has a membership: only
\* the group of its present address is left, and only once (main.rs:93-103).
GroupsLeft ==
    \A iface \in Ifaces :
        [](Members(iface) \subseteq Shown) /\ <>[](age <= Timeout) => <>[](Members(iface) = {})
=============================================================================
