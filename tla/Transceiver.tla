---------------------------- MODULE Transceiver ----------------------------
(***************************************************************************)
(* What the driver relies on in every transceiver (trait Transceiver and    *)
(* TransceiverEvent, connection/src/transceivers/mod.rs): the addresses it  *)
(* is connected to, and the events it pushes for them.  The Environment of  *)
(* ConnectionDriver is this contract, one event at a time.                  *)
(***************************************************************************)
EXTENDS FiniteSets

CONSTANTS Addrs, Ids

VARIABLES connected,   \* addresses with a connection
          filter,      \* ids that are not accepted
          emitted      \* events pushed by the last step, in whatever order

vars == <<connected, filter, emitted>>

Connected(addr, id) == [kind |-> "connected", addr |-> addr, id |-> id]
Lost(addr) == [kind |-> "lost", addr |-> addr]
Arrived(addr) == [kind |-> "arrived", addr |-> addr]
Failure == [kind |-> "error"]

Init == connected = {} /\ filter = {} /\ emitted = {}

\* Connections come and go, each announced: only robots that pass the filter come, each
\* under one address it did not have, and what goes had come.
Change ==
    /\ \E id \in [connected' \ connected -> Ids \ filter] :
         emitted' \ {Failure} = {Lost(addr) : addr \in connected \ connected'}
                          \cup {Connected(addr, id[addr]) : addr \in connected' \ connected}
    /\ UNCHANGED filter

\* Only packets of connected robots are passed on.
Receive == \E addr \in connected :
    /\ emitted' \ {Failure} = {Arrived(addr)}
    /\ UNCHANGED <<connected, filter>>

\* The driver has taken the events and sets the filter.
SetFilter ==
    /\ filter' \subseteq Ids
    /\ emitted' = {}
    /\ UNCHANGED connected

Next == Change \/ Receive \/ SetFilter

Spec == Init /\ [][Next]_vars
=============================================================================
