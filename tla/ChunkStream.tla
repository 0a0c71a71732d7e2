---------------------------- MODULE ChunkStream ----------------------------
(***************************************************************************)
(* What the datagram layer of RadioProtocol2025 promises to the caller of  *)
(* queue_datagram, with no packets, acks or sequence numbers in sight: a    *)
(* datagram is cut into chunks, and the chunks reach the robot in the order *)
(* in which they were queued, none lost and none twice.  Only a reconnect   *)
(* costs chunks: those that are queued, and the first one after it.         *)
(***************************************************************************)
EXTENDS Sequences, Functions

VARIABLES pending,      \* queued datagrams, of each the chunks not yet at the robot
          delivered,    \* chunks the robot has taken, in order
          fresh         \* has nothing been sent since a reconnect?

vars == <<pending, delivered, fresh>>

Init == pending = <<>> /\ delivered = <<>> /\ fresh = FALSE

\* A datagram is queued behind the others.
Submit == /\ \E datagram \in Range(pending') :
               datagram # <<>> /\ pending' = Append(pending, datagram)
          /\ UNCHANGED <<delivered, fresh>>

\* What is pending without the oldest chunk; a datagram with no chunk left is gone.
Left(datagram) == IF datagram = <<>> THEN <<>> ELSE <<datagram>>
Rest == Left(Tail(Head(pending))) \o Tail(pending)

\* The robot takes the oldest chunk.
Deliver == /\ pending # <<>>
           /\ delivered' = Append(delivered, Head(Head(pending)))
           /\ pending' = Rest
           /\ UNCHANGED fresh

Reset == /\ pending' = <<>>
         /\ fresh' = TRUE
         /\ UNCHANGED delivered

\* The first chunk is sent, and may be lost.
Resume == /\ fresh /\ pending # <<>>
          /\ fresh' = FALSE
          /\ pending' \in {pending, Rest}
          /\ UNCHANGED delivered

Next == Submit \/ Deliver \/ Reset \/ Resume

Spec == Init /\ [][Next]_vars
=============================================================================
