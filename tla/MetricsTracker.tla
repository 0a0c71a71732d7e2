--------------------------- MODULE MetricsTracker ---------------------------
(***************************************************************************)
(* MetricsTracker (connection/src/utils/metrics_tracker.rs), driven by the  *)
(* packet counter of RadioProtocol2025 (next_packet and packet_received):   *)
(* the round trip time, or the loss, of every command packet.               *)
(*                                                                         *)
(* A packet is known by its number in the order of sending, which is also   *)
(* the order of the timestamps; the tracker itself only sees its counter.   *)
(***************************************************************************)
EXTENDS Naturals, Sequences, FiniteSets

CONSTANTS
    MaxPending,   \* max_pending (5 in the code)
    CounterMod,   \* the counter wraps here (64 in the code)
    MaxSent,      \* bound: packets sent
    MaxDelay      \* a response is at most this many packets old when it comes in

ASSUME CounterAssumption ==
    /\ CounterMod \in Nat \ {0} /\ MaxSent \in Nat /\ MaxDelay \in Nat
    /\ MaxPending \in 1..CounterMod

VARIABLES
    nsent,      \* packets sent so far
    counter,    \* counter of the next packet
    pending,    \* pending_sent_times: for a counter, the packet last sent with it
    samples,    \* what sample_callback was given, with the number of packets sent until then
    responses   \* packets whose response is on its way, with the counter it carries

vars == <<nsent, counter, pending, samples, responses>>

Lost(p, time) == [sent |-> p, lost |-> TRUE, answer |-> 0, time |-> time]
Measured(p, answer, time) == [sent |-> p, lost |-> FALSE, answer |-> answer, time |-> time]
Sample == [sent : 1..MaxSent, lost : BOOLEAN, answer : 0..MaxSent, time : 0..MaxSent]

TypeOK ==
    /\ nsent \in 0..MaxSent /\ counter \in 0..(CounterMod - 1)
    /\ pending \in UNION {[S -> 1..MaxSent] : S \in SUBSET (0..(CounterMod - 1))}
    /\ samples \in Seq(Sample)
    /\ responses \subseteq [packet : 1..MaxSent, counter : 0..(CounterMod - 1)]

Init ==
    /\ nsent = 0 /\ counter = 0
    /\ pending = [c \in {} |-> 0]
    /\ samples = <<>>
    /\ responses = {}

Remove(c) == [k \in DOMAIN pending \ {c} |-> pending[k]]

\* Mutants: the next packet's counter wraps one too early, or not at all.
WrapEarly == (counter + 1) % (CounterMod - 1)
WrapNever == counter + 1
NextCounter == (counter + 1) % CounterMod

\* Mutant: an eviction only happens beyond max_pending packets.
FullLate == Cardinality(DOMAIN pending) > MaxPending
Full == Cardinality(DOMAIN pending) >= MaxPending

\* Mutant: the newest packet is taken for the lost one.
Newest == CHOOSE c \in DOMAIN pending : \A k \in DOMAIN pending : pending[k] <= pending[c]
Oldest == CHOOSE c \in DOMAIN pending : \A k \in DOMAIN pending : pending[c] <= pending[k]

Remaining == IF Full THEN Remove(Oldest) ELSE pending

\* sent, as next_packet calls it: while too many packets are pending, the oldest is lost;
\* then the new one is pending.  One eviction is enough, since pending grows by at most
\* one packet a call.
sent ==
    /\ nsent < MaxSent
    /\ nsent' = nsent + 1
    /\ counter' = NextCounter
    /\ samples' = IF Full THEN Append(samples, Lost(pending[Oldest], nsent')) ELSE samples
    /\ pending' = [k \in DOMAIN Remaining \cup {counter} |->
                     IF k = counter THEN nsent' ELSE Remaining[k]]
    /\ responses' = responses \cup {[packet |-> nsent', counter |-> counter]}

\* Mutant: get instead of remove.
GetOnly(c) == pending
Taken(c) == Remove(c)

\* received, as packet_received calls it: the counter of the response, which is that of
\* the packet it answers, is looked up.  The link may deliver it again later.
received(r) ==
    /\ \/ responses' = responses \ {r}
       \/ UNCHANGED responses
    /\ \/ /\ r.counter \in DOMAIN pending
          /\ samples' = Append(samples, Measured(pending[r.counter], r.packet, nsent))
          /\ pending' = Taken(r.counter)
       \/ r.counter \notin DOMAIN pending /\ UNCHANGED <<samples, pending>>
    /\ UNCHANGED <<nsent, counter>>

\* The link loses a packet or its response.
Lose(r) ==
    /\ responses' = responses \ {r}
    /\ UNCHANGED <<nsent, counter, pending, samples>>

\* No packet is sent while a response on its way would get too old by it.
Punctual == \A r \in responses : nsent - r.packet < MaxDelay

Next ==
    \/ Punctual /\ sent
    \/ \E r \in responses : received(r) \/ Lose(r)

Spec == Init /\ [][Next]_vars
-----------------------------------------------------------------------------
(* Properties                                                              *)

\* No packet is counted twice, however its response is duplicated or comes in after the
\* packet was given up (sent and received both take what they report out of pending).
SampledOnce ==
    \A i, j \in DOMAIN samples : samples[i].sent = samples[j].sent => i = j

\* A packet is never called lost while fewer than max_pending packets were sent after it
\* (min_by_key in sent): a response that late is given up, no earlier one is.
LossIsLate ==
    \A i \in DOMAIN samples :
        samples[i].lost => samples[i].time - samples[i].sent >= MaxPending

\* A round trip time is that of the packet the response answers, as long as no response
\* is so late that its counter is in use again.
RttExact ==
    MaxDelay < CounterMod =>
        \A i \in DOMAIN samples : ~samples[i].lost => samples[i].answer = samples[i].sent

Unreported(p) == \A i \in DOMAIN samples : samples[i].sent # p

\* An outage is seen: of the packets whose counter is not in use again, at most
\* max_pending have no sample yet.
OutageSeen ==
    Cardinality({p \in 1..nsent : nsent - p < CounterMod /\ Unreported(p)}) <= MaxPending

\* metrics_tracker.rs:9 and 13-16: every packet gets a sample, None if it was lost; it is
\* pending until then.
NoSilentLoss ==
    \A p \in 1..nsent : Unreported(p) => \E c \in DOMAIN pending : pending[c] = p
=============================================================================
