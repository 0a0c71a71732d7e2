------------------------ MODULE MetricsTrackerProofs ------------------------
(***************************************************************************)
(* What holds of every run of MetricsTracker, for any max_pending, any       *)
(* modulus of the counter and any delay of the responses.                   *)
(***************************************************************************)
EXTENDS MetricsTracker, FiniteSetTheorems, TLAPS

-----------------------------------------------------------------------------
(* The inductive invariant                                                  *)

\* The counter packet p was sent with.
CounterOf(p) == (p - 1) % CounterMod

\* The packets that are pending.
Waiting == {pending[c] : c \in DOMAIN pending}

CounterInv == counter = nsent % CounterMod

\* What is pending under a counter is the packet last sent with it; sent evicts in time.
PendingInv ==
    /\ \A c \in DOMAIN pending :
         /\ pending[c] <= nsent /\ nsent - pending[c] < CounterMod
         /\ CounterOf(pending[c]) = c
    /\ Cardinality(DOMAIN pending) <= MaxPending

\* A response carries the counter of the packet it answers, and is not older than MaxDelay.
ResponsesInv ==
    \A r \in responses : /\ r.packet <= nsent /\ nsent - r.packet <= MaxDelay
                         /\ r.counter = CounterOf(r.packet)

\* What has a sample was sent and is not pending any more.
SamplesInv == \A i \in DOMAIN samples : samples[i].sent <= nsent /\ samples[i].sent \notin Waiting

\* What has no sample is pending, as long as its counter is not in use again.
UnreportedInv ==
    \A p \in 1..nsent : nsent - p < CounterMod /\ Unreported(p) => p \in Waiting

IInv ==
    /\ TypeOK /\ CounterInv /\ PendingInv /\ ResponsesInv /\ SamplesInv /\ UnreportedInv
    /\ SampledOnce /\ LossIsLate /\ RttExact

-----------------------------------------------------------------------------
(* Counters                                                                 *)

LEMMA Division ==
    ASSUME NEW n \in Nat
    PROVE  \E q \in Nat, a \in 0..(CounterMod - 1) :
             n = CounterMod * q + a /\ a = n % CounterMod
<1>1. /\ n \div CounterMod \in Nat /\ n % CounterMod \in 0..(CounterMod - 1)
      /\ n = CounterMod * (n \div CounterMod) + (n % CounterMod)
  BY CounterAssumption
<1> QED BY <1>1

LEMMA Multiples ==
    ASSUME NEW q \in Int, NEW r \in Int, q < r
    PROVE  /\ CounterMod * q \in Int /\ CounterMod * r \in Int
           /\ CounterMod * q + CounterMod <= CounterMod * r
<1>1. PICK d \in Nat : r = q + 1 + d
  <2>1. r - q - 1 \in Nat /\ r = q + 1 + (r - q - 1)
    OBVIOUS
  <2> QED BY <2>1
<1>2. CounterMod * r = CounterMod * q + CounterMod + CounterMod * d
  BY <1>1, CounterAssumption
<1>3. CounterMod * d >= 0
  BY CounterAssumption
<1> QED BY <1>2, <1>3, CounterAssumption

\* Numbers with the same remainder that are less than the modulus apart are the same.
LEMMA SameRemainder ==
    ASSUME NEW p \in Nat, NEW q \in Nat, p % CounterMod = q % CounterMod,
           p - q < CounterMod, q - p < CounterMod
    PROVE  p = q
<1>1. PICK a \in Nat, b \in Nat, r \in 0..(CounterMod - 1) :
        p = CounterMod * a + r /\ q = CounterMod * b + r
  BY Division
<1>2. CounterMod \in Nat /\ CounterMod * a \in Int /\ CounterMod * b \in Int
  BY CounterAssumption
<1>3. ~(a < b) /\ ~(b < a)
  BY <1>1, <1>2, Multiples
<1>4. a = b
  BY <1>3
<1> QED BY <1>1, <1>4

LEMMA Remainder ==
    ASSUME NEW q \in Int, NEW a \in 0..(CounterMod - 1), NEW n \in Nat,
           n = CounterMod * q + a
    PROVE  n % CounterMod = a
<1>1. PICK r \in Nat, b \in 0..(CounterMod - 1) : n = CounterMod * r + b /\ b = n % CounterMod
  BY Division
<1>2. CounterMod \in Nat /\ CounterMod * q \in Int /\ CounterMod * r \in Int
  BY CounterAssumption
<1>3. ~(q < r) /\ ~(r < q)
  BY <1>1, <1>2, Multiples
<1>4. q = r
  BY <1>3
<1>5. b = a
  BY <1>1, <1>2, <1>4
<1> QED BY <1>1, <1>5

\* The counter that wraps goes on as the number of packets does.
LEMMA NextRemainder ==
    ASSUME NEW n \in Nat
    PROVE  ((n % CounterMod) + 1) % CounterMod = (n + 1) % CounterMod
<1>1. PICK q \in Nat, a \in 0..(CounterMod - 1) : n = CounterMod * q + a /\ a = n % CounterMod
  BY Division
<1>2. CounterMod \in Nat \ {0} /\ CounterMod * q \in Int
  BY CounterAssumption
<1>3. CASE a + 1 < CounterMod
  <2>1. n + 1 = CounterMod * q + (a + 1) /\ a + 1 \in 0..(CounterMod - 1)
    BY <1>1, <1>2, <1>3
  <2>2. a + 1 = CounterMod * 0 + (a + 1)
    BY <1>2
  <2>3. (n + 1) % CounterMod = a + 1 /\ (a + 1) % CounterMod = a + 1
    BY <2>1, <2>2, Remainder
  <2> QED BY <1>1, <2>3
<1>4. CASE a + 1 = CounterMod
  <2>1. /\ n + 1 = CounterMod * (q + 1) + 0 /\ a + 1 = CounterMod * 1 + 0
        /\ 0 \in 0..(CounterMod - 1)
    BY <1>1, <1>2, <1>4
  <2>2. (n + 1) % CounterMod = 0 /\ (a + 1) % CounterMod = 0
    BY <2>1, Remainder
  <2> QED BY <1>1, <2>2
<1> QED BY <1>2, <1>3, <1>4

LEMMA FullTurn ==
    ASSUME NEW n \in Nat
    PROVE  (n + CounterMod) % CounterMod = n % CounterMod
<1>1. PICK q \in Nat, a \in 0..(CounterMod - 1) : n = CounterMod * q + a /\ a = n % CounterMod
  BY Division
<1>2. n + CounterMod = CounterMod * (q + 1) + a /\ n + CounterMod \in Nat
  BY <1>1, CounterAssumption
<1> QED BY <1>1, <1>2, Remainder

\* Of the last CounterMod packets no two have the same counter.
LEMMA SamePacket ==
    ASSUME NEW n \in Nat, NEW p \in 1..n, NEW q \in 1..n, CounterOf(p) = CounterOf(q),
           n - p < CounterMod, n - q < CounterMod
    PROVE  p = q
<1>1. p - 1 \in Nat /\ q - 1 \in Nat /\ CounterMod \in Nat
  BY CounterAssumption
<1>2. (p - 1) - (q - 1) < CounterMod /\ (q - 1) - (p - 1) < CounterMod
  BY <1>1
<1>3. p - 1 = q - 1
  BY <1>1, <1>2, SameRemainder DEF CounterOf
<1> QED BY <1>3

-----------------------------------------------------------------------------
(* The pending packets                                                      *)

\* What the type says of pending, and what makes it.
LEMMA PendingTyped ==
    ASSUME TypeOK
    PROVE  /\ nsent \in Nat /\ nsent <= MaxSent
           /\ DOMAIN pending \subseteq 0..(CounterMod - 1)
           /\ IsFiniteSet(DOMAIN pending) /\ Cardinality(DOMAIN pending) \in Nat
           /\ \A c \in DOMAIN pending : pending[c] \in 1..MaxSent
           /\ pending = [c \in DOMAIN pending |-> pending[c]]
<1>1. PICK S \in SUBSET (0..(CounterMod - 1)) : pending \in [S -> 1..MaxSent]
  BY DEF TypeOK
<1>2. IsFiniteSet(0..(CounterMod - 1))
  BY FS_Interval, CounterAssumption
<1>3. IsFiniteSet(S) /\ Cardinality(S) \in Nat
  BY <1>2, FS_Subset, FS_CardinalityType
<1> QED BY <1>1, <1>3, CounterAssumption DEF TypeOK

\* No packet is pending under two counters.
LEMMA PendingOnce ==
    ASSUME TypeOK, PendingInv, NEW c \in DOMAIN pending, NEW k \in DOMAIN pending,
           pending[c] = pending[k]
    PROVE  c = k
  BY DEF PendingInv

LEMMA OldestIs ==
    ASSUME TypeOK, Full
    PROVE  /\ Oldest \in DOMAIN pending
           /\ \A k \in DOMAIN pending : pending[Oldest] <= pending[k]
<1> DEFINE R == OpToRel(<, Nat)
<1>1. Waiting \subseteq Nat
  BY PendingTyped DEF Waiting
<1>2. DOMAIN pending # {}
  BY PendingTyped, FS_EmptySet, CounterAssumption DEF Full
<1>3. Waiting # {}
  BY <1>2 DEF Waiting
<1>4. IsWellFoundedOn(R, Nat)
  BY NatLessThanWellFounded
<1>5. \A x, y \in Nat : <<y, x>> \in R <=> y < x
  BY DEF OpToRel
<1> HIDE DEF R
<1>6. PICK p \in Waiting : \A q \in Waiting : ~(<<q, p>> \in R)
  BY <1>1, <1>3, <1>4, WFMin
<1>7. PICK c \in DOMAIN pending : p = pending[c]
  BY <1>6 DEF Waiting
<1>8. \A k \in DOMAIN pending : pending[c] <= pending[k]
  <2> SUFFICES ASSUME NEW k \in DOMAIN pending PROVE pending[c] <= pending[k]
    OBVIOUS
  <2>1. pending[k] \in Waiting /\ pending[k] \in Nat /\ pending[c] \in Nat
    BY <1>1, <1>7 DEF Waiting
  <2>2. ~(<<pending[k], pending[c]>> \in R)
    BY <1>6, <1>7, <2>1
  <2>3. ~(pending[k] < pending[c])
    BY <1>5, <2>1, <2>2
  <2> QED BY <2>1, <2>3
<1> QED BY <1>8 DEF Oldest

\* A packet is evicted when max_pending packets, itself one of them, are still pending:
\* those and none else can have been sent from it on.
LEMMA EvictedIsLate ==
    ASSUME TypeOK, PendingInv, Full
    PROVE  nsent + 1 - pending[Oldest] >= MaxPending
<1> DEFINE p == pending[Oldest]
           T == p..nsent
<1>1. nsent \in Nat /\ p \in Nat /\ p <= nsent
  BY PendingTyped, OldestIs DEF PendingInv
<1>2. pending \in [DOMAIN pending -> T]
  <2>1. \A c \in DOMAIN pending : pending[c] \in T
    BY <1>1, PendingTyped, OldestIs DEF PendingInv
  <2> QED BY <2>1, PendingTyped
<1>3. pending \in Injection(DOMAIN pending, T)
  BY <1>2, PendingOnce DEF Injection, IsInjective
<1>4. IsFiniteSet(T) /\ Cardinality(T) = nsent - p + 1
  <2>1. p \in Int /\ nsent \in Int /\ ~(p > nsent)
    BY <1>1
  <2> HIDE DEF p
  <2> QED BY <2>1, FS_Interval
<1>5. Cardinality(DOMAIN pending) <= nsent - p + 1
  <2> HIDE DEF T
  <2> QED BY <1>3, <1>4, FS_Injection
<1> QED BY <1>1, <1>5, PendingTyped, CounterAssumption DEF Full

-----------------------------------------------------------------------------
(* The samples                                                              *)

LEMMA SamplesTyped ==
    ASSUME TypeOK
    PROVE  /\ samples \in Seq(Sample) /\ Len(samples) \in Nat
           /\ DOMAIN samples = 1..Len(samples)
           /\ \A i \in DOMAIN samples : samples[i].sent \in Nat
<1>1. samples \in Seq(Sample) /\ Len(samples) \in Nat /\ DOMAIN samples = 1..Len(samples)
  BY DEF TypeOK
<1>2. \A i \in DOMAIN samples : samples[i] \in Sample
  BY <1>1
<1>3. \A x \in Sample : x.sent \in Nat
  BY CounterAssumption DEF Sample
<1> QED BY <1>1, <1>2, <1>3

\* A packet that is taken out of pending is reported: once, and no other packet is.
LEMMA SampleAdded ==
    ASSUME IInv, NEW c \in DOMAIN pending, NEW x \in Sample, x.sent = pending[c],
           samples' = Append(samples, x),
           nsent' \in {nsent, nsent + 1},
           Waiting' \subseteq (Waiting \ {pending[c]}) \cup {nsent + 1}
    PROVE  /\ samples' \in Seq(Sample)
           /\ SamplesInv' /\ SampledOnce'
           /\ \A i \in DOMAIN samples' :
                samples'[i] = x \/ \E j \in DOMAIN samples : samples'[i] = samples[j]
           /\ \A p : Unreported(p)' => Unreported(p) /\ p # pending[c]
<1> DEFINE n == Len(samples) + 1
<1>1. /\ samples \in Seq(Sample) /\ Len(samples) \in Nat /\ DOMAIN samples = 1..Len(samples)
      /\ \A i \in DOMAIN samples : samples[i].sent \in Nat
  BY SamplesTyped DEF IInv
<1>2. /\ samples' \in Seq(Sample)
      /\ DOMAIN samples' = DOMAIN samples \cup {n} /\ n \notin DOMAIN samples
      /\ \A i \in DOMAIN samples : samples'[i] = samples[i]
      /\ samples'[n] = x
  BY <1>1
<1> HIDE DEF n
<1>3. /\ nsent \in Nat /\ pending[c] \in Waiting /\ pending[c] <= nsent /\ pending[c] \in Nat
  BY PendingTyped DEF IInv, PendingInv, Waiting
<1>4. \A i \in DOMAIN samples : /\ samples[i].sent \in Nat /\ samples[i].sent <= nsent
                                /\ samples[i].sent \notin Waiting
  BY <1>1 DEF IInv, SamplesInv
<1>5. SamplesInv'
  <2>1. \A p \in Nat : p <= nsent /\ (p \notin Waiting \/ p = pending[c]) =>
                         p <= nsent' /\ p \notin Waiting'
    BY <1>3
  <2>2. \A i \in DOMAIN samples' : /\ samples'[i].sent \in Nat /\ samples'[i].sent <= nsent
                                   /\ \/ samples'[i].sent \notin Waiting
                                      \/ samples'[i].sent = pending[c]
    BY <1>2, <1>3, <1>4
  <2> QED BY <2>1, <2>2 DEF SamplesInv
<1>6. SampledOnce'
  <2>1. \A i \in DOMAIN samples : samples[i].sent # pending[c]
    BY <1>3, <1>4
  <2> QED BY <1>2, <2>1 DEF IInv, SampledOnce
<1>7. \A p : Unreported(p)' => Unreported(p) /\ p # pending[c]
  BY <1>2 DEF Unreported
<1>8. \A i \in DOMAIN samples' :
        samples'[i] = x \/ \E j \in DOMAIN samples : samples'[i] = samples[j]
  BY <1>2
<1> QED BY <1>2, <1>5, <1>6, <1>7, <1>8

-----------------------------------------------------------------------------
(* Every step keeps the invariant                                           *)

LEMMA InitIInv == Init => IInv
<1> SUFFICES ASSUME Init PROVE IInv
  OBVIOUS
<1>1. nsent = 0 /\ counter = 0 /\ samples = <<>> /\ responses = {} /\ DOMAIN pending = {}
      /\ pending = [c \in {} |-> 0]
  BY DEF Init
<1>2. TypeOK
  <2>1. pending \in [{} -> 1..MaxSent] /\ {} \in SUBSET (0..(CounterMod - 1))
    BY <1>1
  <2>2. pending \in UNION {[S -> 1..MaxSent] : S \in SUBSET (0..(CounterMod - 1))}
    BY <2>1
  <2>3. samples \in Seq(Sample)
    BY <1>1
  <2>4. nsent \in 0..MaxSent /\ counter \in 0..(CounterMod - 1)
    BY <1>1, CounterAssumption
  <2>5. responses \subseteq [packet : 1..MaxSent, counter : 0..(CounterMod - 1)]
    BY <1>1
  <2> QED BY <2>2, <2>3, <2>4, <2>5 DEF TypeOK
<1>3. CounterInv
  BY <1>1, CounterAssumption DEF CounterInv
<1>4. PendingInv
  BY <1>1, FS_EmptySet, CounterAssumption DEF PendingInv
<1>5. DOMAIN samples = {} /\ 1..nsent = {}
  BY <1>1
<1> QED
  BY <1>1, <1>2, <1>3, <1>4, <1>5
     DEF IInv, ResponsesInv, SamplesInv, UnreportedInv, SampledOnce, LossIsLate, RttExact

\* What sent does to pending: the oldest goes if there is no room, the new packet comes in.
LEMMA PendingAfterSent ==
    ASSUME IInv, sent
    PROVE  /\ pending'[counter] = nsent + 1 /\ counter \in DOMAIN pending'
           /\ \A k \in DOMAIN pending' : k # counter =>
                k \in DOMAIN pending /\ pending'[k] = pending[k] /\ (Full => k # Oldest)
           /\ \A k \in DOMAIN pending : (Full => k # Oldest) => k \in DOMAIN pending'
           /\ pending' \in UNION {[S -> 1..MaxSent] : S \in SUBSET (0..(CounterMod - 1))}
           /\ Cardinality(DOMAIN pending') <= MaxPending
<1> DEFINE D == IF Full THEN DOMAIN pending \ {Oldest} ELSE DOMAIN pending
<1>1. /\ DOMAIN Remaining = D /\ \A k \in D : Remaining[k] = pending[k]
  BY DEF Remaining, Remove
<1>2. D \subseteq DOMAIN pending
  OBVIOUS
<1>3. /\ DOMAIN pending' = D \cup {counter}
      /\ \A k \in D \cup {counter} :
           pending'[k] = IF k = counter THEN nsent + 1 ELSE pending[k]
      /\ pending' = [k \in D \cup {counter} |-> pending'[k]]
      /\ nsent < MaxSent
  BY <1>1 DEF sent
<1>4. TypeOK /\ counter \in 0..(CounterMod - 1) /\ nsent \in Nat
  BY PendingTyped DEF IInv, TypeOK
<1>5. pending' \in UNION {[S -> 1..MaxSent] : S \in SUBSET (0..(CounterMod - 1))}
  <2>1. nsent + 1 \in 1..MaxSent
    BY <1>3, <1>4, CounterAssumption
  <2>2. \A k \in D \cup {counter} : pending'[k] \in 1..MaxSent
    BY <1>2, <1>3, <1>4, <2>1, PendingTyped
  <2>3. D \cup {counter} \in SUBSET (0..(CounterMod - 1))
    BY <1>2, <1>4, PendingTyped
  <2>4. pending' \in [D \cup {counter} -> 1..MaxSent]
    BY <1>3, <2>2
  <2> QED BY <2>3, <2>4
<1>6. Cardinality(DOMAIN pending') <= MaxPending
  <2>1. /\ IsFiniteSet(DOMAIN pending) /\ Cardinality(DOMAIN pending) \in Nat
        /\ Cardinality(DOMAIN pending) <= MaxPending
    BY <1>4, PendingTyped DEF IInv, PendingInv
  <2>2. IsFiniteSet(D) /\ Cardinality(D) \in Nat /\ Cardinality(D) <= MaxPending - 1
    <3>1. CASE Full
      <4>1. Cardinality(DOMAIN pending) >= MaxPending /\ Oldest \in DOMAIN pending
        BY <1>4, <3>1, OldestIs DEF Full
      <4>2. /\ IsFiniteSet(DOMAIN pending \ {Oldest})
            /\ Cardinality(DOMAIN pending \ {Oldest}) = Cardinality(DOMAIN pending) - 1
        BY <2>1, <4>1, FS_RemoveElement
      <4> QED BY <2>1, <3>1, <4>1, <4>2, FS_CardinalityType, CounterAssumption
    <3>2. CASE ~Full
      BY <2>1, <3>2, CounterAssumption DEF Full
    <3> QED BY <3>1, <3>2
  <2> HIDE DEF D
  <2>3. Cardinality(D \cup {counter}) <= Cardinality(D) + 1
    BY <2>2, FS_AddElement
  <2>4. Cardinality(D \cup {counter}) \in Nat
    BY <2>2, FS_AddElement, FS_CardinalityType
  <2> QED BY <1>3, <2>2, <2>3, <2>4, CounterAssumption
<1> QED BY <1>3, <1>5, <1>6

LEMMA SentStep == ASSUME IInv, Punctual, sent PROVE IInv'
<1>1. /\ nsent < MaxSent /\ nsent' = nsent + 1
      /\ counter' = (counter + 1) % CounterMod
      /\ samples' = IF Full THEN Append(samples, Lost(pending[Oldest], nsent + 1)) ELSE samples
      /\ responses' = responses \cup {[packet |-> nsent + 1, counter |-> counter]}
  BY DEF sent, NextCounter
<1>2. /\ TypeOK /\ CounterInv /\ PendingInv /\ ResponsesInv /\ SamplesInv /\ UnreportedInv
      /\ SampledOnce /\ LossIsLate /\ RttExact
  BY DEF IInv
<1>3. /\ nsent \in Nat /\ nsent + 1 \in 1..MaxSent /\ MaxSent \in Nat /\ CounterMod \in Nat \ {0}
      /\ nsent' \in 0..MaxSent
  BY <1>1, <1>2, PendingTyped, CounterAssumption
<1>4. counter = CounterOf(nsent + 1)
  BY <1>2, <1>3 DEF CounterInv, CounterOf
<1>5. CounterInv' /\ counter' \in 0..(CounterMod - 1)
  <2>1. counter' = (nsent + 1) % CounterMod
    BY <1>1, <1>2, <1>3, NextRemainder DEF CounterInv
  <2> QED BY <1>1, <1>3, <2>1, Division DEF CounterInv
<1>6. \A c \in DOMAIN pending :
        /\ pending[c] \in 1..nsent /\ pending[c] \in Nat /\ nsent - pending[c] < CounterMod
        /\ CounterOf(pending[c]) = c
  BY <1>2, PendingTyped DEF PendingInv
<1>7. PendingInv'
  <2> SUFFICES ASSUME NEW k \in DOMAIN pending'
               PROVE  /\ pending'[k] <= nsent' /\ nsent' - pending'[k] < CounterMod
                      /\ CounterOf(pending'[k]) = k
    BY PendingAfterSent DEF PendingInv
  <2>1. CASE k = counter
    BY <1>1, <1>3, <1>4, <2>1, PendingAfterSent
  <2>2. CASE k # counter
    <3>1. k \in DOMAIN pending /\ pending'[k] = pending[k]
      BY <2>2, PendingAfterSent
    <3>2. nsent + 1 - pending[k] # CounterMod
      <4> SUFFICES ASSUME nsent + 1 - pending[k] = CounterMod PROVE FALSE
        OBVIOUS
      <4>1. pending[k] - 1 \in Nat /\ nsent = (pending[k] - 1) + CounterMod
        BY <1>3, <1>6, <3>1
      <4>2. nsent % CounterMod = CounterOf(pending[k])
        BY <4>1, FullTurn DEF CounterOf
      <4> QED BY <1>2, <1>6, <2>2, <3>1, <4>2 DEF CounterInv
    <3> QED BY <1>1, <1>3, <1>6, <3>1, <3>2
  <2> QED BY <2>1, <2>2
<1>8. responses' \subseteq [packet : 1..MaxSent, counter : 0..(CounterMod - 1)]
  <2>1. [packet |-> nsent + 1, counter |-> counter]
          \in [packet : 1..MaxSent, counter : 0..(CounterMod - 1)]
    BY <1>2, <1>3 DEF TypeOK
  <2> QED BY <1>1, <1>2, <2>1 DEF TypeOK
<1>9. ResponsesInv'
  <2> SUFFICES ASSUME NEW r \in responses'
               PROVE  /\ r.packet <= nsent' /\ nsent' - r.packet <= MaxDelay
                      /\ r.counter = CounterOf(r.packet)
    BY DEF ResponsesInv
  <2>1. CASE r \in responses
    <3>1. r.packet \in Nat
      BY <1>2, <2>1, CounterAssumption DEF TypeOK
    <3> QED BY <1>1, <1>2, <1>3, <2>1, <3>1, CounterAssumption DEF ResponsesInv, Punctual
  <2>2. CASE r = [packet |-> nsent + 1, counter |-> counter]
    BY <1>1, <1>3, <1>4, <2>2, CounterAssumption
  <2> QED BY <1>1, <2>1, <2>2
<1>10. Waiting' \subseteq Waiting \cup {nsent + 1}
  BY PendingAfterSent DEF Waiting
<1>11. \A p \in 1..(nsent + 1) :
         nsent + 1 - p < CounterMod /\ (p <= nsent => p \in Waiting)
         /\ (Full => p # pending[Oldest]) => p \in Waiting'
  <2> SUFFICES ASSUME NEW p \in 1..(nsent + 1), nsent + 1 - p < CounterMod,
                      p <= nsent => p \in Waiting, Full => p # pending[Oldest]
               PROVE  \E k \in DOMAIN pending' : pending'[k] = p
    BY DEF Waiting
  <2>1. CASE p = nsent + 1
    BY <2>1, PendingAfterSent
  <2>2. CASE p # nsent + 1
    <3>1. PICK k \in DOMAIN pending : pending[k] = p
      BY <1>3, <2>2 DEF Waiting
    <3>2. k # counter
      <4> SUFFICES ASSUME k = counter PROVE FALSE
        OBVIOUS
      <4> DEFINE n == nsent + 1
      <4>1. CounterOf(p) = CounterOf(n)
        BY <1>4, <1>6, <3>1
      <4>2. /\ n \in Nat /\ p \in 1..n /\ n \in 1..n
            /\ n - p < CounterMod /\ n - n < CounterMod /\ p # n
        BY <1>3, <2>2
      <4> HIDE DEF n
      <4> QED BY <4>1, <4>2, SamePacket
    <3>3. k \in DOMAIN pending' /\ pending'[k] = pending[k]
      BY <3>1, <3>2, PendingAfterSent
    <3> QED BY <3>1, <3>3
  <2> QED BY <2>1, <2>2
<1>12. /\ samples' \in Seq(Sample) /\ SamplesInv' /\ SampledOnce' /\ LossIsLate' /\ RttExact'
       /\ UnreportedInv'
  <2>1. CASE ~Full
    <3>1. samples' = samples
      BY <1>1, <2>1
    <3>2. SamplesInv'
      <4>1. \A i \in DOMAIN samples : samples[i].sent \in Nat
        BY <1>2, SamplesTyped
      <4> QED BY <1>1, <1>2, <1>3, <1>10, <3>1, <4>1 DEF SamplesInv
    <3>3. UnreportedInv'
      BY <1>1, <1>2, <1>3, <1>11, <2>1, <3>1 DEF UnreportedInv, Unreported
    <3> QED BY <1>2, <3>1, <3>2, <3>3 DEF TypeOK, SampledOnce, LossIsLate, RttExact
  <2>2. CASE Full
    <3> DEFINE x == Lost(pending[Oldest], nsent + 1)
    <3>1. Oldest \in DOMAIN pending
      BY <1>2, <2>2, OldestIs
    <3>2. x \in Sample /\ x.sent = pending[Oldest] /\ x.lost /\ x.time = nsent + 1
      BY <1>2, <1>3, <3>1, PendingTyped DEF Lost, Sample
    <3>3. Waiting' \subseteq (Waiting \ {pending[Oldest]}) \cup {nsent + 1}
      <4> SUFFICES ASSUME NEW k \in DOMAIN pending', k # counter
                   PROVE  pending'[k] \in Waiting /\ pending'[k] # pending[Oldest]
        BY PendingAfterSent DEF Waiting
      <4> QED BY <1>2, <2>2, <3>1, PendingAfterSent, PendingOnce DEF Waiting
    <3>4. samples' = Append(samples, x)
      BY <1>1, <2>2
    <3>5. x.time - x.sent >= MaxPending
      <4>1. nsent + 1 - pending[Oldest] >= MaxPending
        BY <1>2, <2>2, EvictedIsLate
      <4>2. nsent \in Int /\ pending[Oldest] \in Int
        BY <1>2, <1>3, <3>1, PendingTyped
      <4> QED BY <4>1, <4>2, CounterAssumption DEF Lost
    <3> HIDE DEF x
    <3>6. /\ samples' \in Seq(Sample) /\ SamplesInv' /\ SampledOnce'
          /\ \A i \in DOMAIN samples' :
               samples'[i] = x \/ \E j \in DOMAIN samples : samples'[i] = samples[j]
          /\ \A p : Unreported(p)' => Unreported(p) /\ p # pending[Oldest]
      BY <1>1, <3>1, <3>2, <3>3, <3>4, SampleAdded
    <3>7. LossIsLate'
      BY <1>2, <3>5, <3>6 DEF LossIsLate
    <3>8. RttExact'
      BY <1>2, <3>2, <3>6 DEF RttExact
    <3>9. UnreportedInv'
      BY <1>1, <1>2, <1>3, <1>11, <3>6 DEF UnreportedInv
    <3> QED BY <3>6, <3>7, <3>8, <3>9
  <2> QED BY <2>1, <2>2
<1>13. TypeOK'
  BY <1>3, <1>5, <1>8, <1>12, PendingAfterSent DEF TypeOK
<1> QED BY <1>5, <1>7, <1>9, <1>12, <1>13 DEF IInv

LEMMA ReceivedStep ==
    ASSUME IInv, NEW r \in responses, received(r)
    PROVE  IInv'
<1>1. responses' \subseteq responses /\ nsent' = nsent /\ counter' = counter
  BY DEF received
<1>2. /\ TypeOK /\ CounterInv /\ PendingInv /\ ResponsesInv /\ SamplesInv /\ UnreportedInv
      /\ SampledOnce /\ LossIsLate /\ RttExact
  BY DEF IInv
<1>3. /\ CounterInv' /\ ResponsesInv'
      /\ responses' \subseteq [packet : 1..MaxSent, counter : 0..(CounterMod - 1)]
  BY <1>1, <1>2 DEF TypeOK, CounterInv, ResponsesInv
<1>4. CASE UNCHANGED <<samples, pending>>
  BY <1>1, <1>2, <1>3, <1>4
     DEF IInv, TypeOK, PendingInv, SamplesInv, UnreportedInv, Unreported, Waiting, SampledOnce,
         LossIsLate, RttExact
<1>5. CASE /\ r.counter \in DOMAIN pending
           /\ samples' = Append(samples, Measured(pending[r.counter], r.packet, nsent))
           /\ pending' = Taken(r.counter)
  <2> DEFINE c == r.counter
             x == Measured(pending[c], r.packet, nsent)
  <2>1. c \in DOMAIN pending
    BY <1>5
  <2>2. /\ DOMAIN pending' = DOMAIN pending \ {c}
        /\ \A k \in DOMAIN pending' : pending'[k] = pending[k]
        /\ pending' = [k \in DOMAIN pending' |-> pending'[k]]
    BY <1>5 DEF Taken, Remove
  <2>3. /\ r.packet \in 1..MaxSent /\ r.packet <= nsent /\ nsent - r.packet <= MaxDelay
        /\ c = CounterOf(r.packet)
    BY <1>2 DEF TypeOK, ResponsesInv
  <2>4. x \in Sample /\ x.sent = pending[c] /\ ~x.lost /\ x.answer = r.packet
    BY <1>2, <2>1, <2>3, PendingTyped, CounterAssumption DEF Measured, Sample, TypeOK
  <2>5. Waiting' = Waiting \ {pending[c]}
    BY <1>2, <2>1, <2>2, PendingOnce DEF Waiting
  <2>6. samples' = Append(samples, x)
    BY <1>5
  <2> HIDE DEF x, c
  <2>7. /\ samples' \in Seq(Sample) /\ SamplesInv' /\ SampledOnce'
        /\ \A i \in DOMAIN samples' :
             samples'[i] = x \/ \E j \in DOMAIN samples : samples'[i] = samples[j]
        /\ \A p : Unreported(p)' => Unreported(p) /\ p # pending[c]
    BY <1>1, <2>1, <2>4, <2>5, <2>6, SampleAdded
  <2>8. pending' \in UNION {[S -> 1..MaxSent] : S \in SUBSET (0..(CounterMod - 1))}
    <3>1. DOMAIN pending' \in SUBSET (0..(CounterMod - 1))
      BY <1>2, <2>2, PendingTyped
    <3>2. pending' \in [DOMAIN pending' -> 1..MaxSent]
      BY <1>2, <2>2, PendingTyped
    <3> QED BY <3>1, <3>2
  <2>9. PendingInv'
    <3>1. Cardinality(DOMAIN pending') <= Cardinality(DOMAIN pending)
          /\ Cardinality(DOMAIN pending') \in Nat
      BY <1>2, <2>2, PendingTyped, FS_Subset, FS_CardinalityType
    <3>2. Cardinality(DOMAIN pending') <= MaxPending
      BY <1>2, <3>1, PendingTyped, CounterAssumption DEF PendingInv
    <3> QED BY <1>1, <1>2, <2>2, <3>2 DEF PendingInv
  <2>10. LossIsLate'
    BY <1>2, <2>4, <2>7 DEF LossIsLate
  <2>11. RttExact'
    <3>1. ASSUME MaxDelay < CounterMod PROVE x.answer = x.sent
      <4>1. /\ nsent \in Nat /\ pending[c] \in 1..nsent /\ nsent - pending[c] < CounterMod
            /\ CounterOf(pending[c]) = c
        BY <1>2, <2>1, PendingTyped DEF PendingInv
      <4>2. r.packet \in 1..nsent /\ nsent - r.packet < CounterMod
        BY <2>3, <3>1, <4>1, CounterAssumption
      <4> QED BY <2>3, <2>4, <4>1, <4>2, SamePacket
    <3> QED BY <1>2, <2>4, <2>7, <3>1 DEF RttExact
  <2>12. UnreportedInv'
    BY <1>1, <1>2, <2>5, <2>7 DEF UnreportedInv
  <2>13. TypeOK'
    BY <1>1, <1>2, <1>3, <2>7, <2>8 DEF TypeOK
  <2> QED BY <1>3, <2>7, <2>9, <2>10, <2>11, <2>12, <2>13 DEF IInv
<1> QED BY <1>4, <1>5 DEF received

LEMMA QuietStep ==
    ASSUME IInv, responses' \subseteq responses, UNCHANGED <<nsent, counter, pending, samples>>
    PROVE  IInv'
  BY DEF IInv, TypeOK, CounterInv, PendingInv, ResponsesInv, SamplesInv, UnreportedInv,
         Unreported, Waiting, SampledOnce, LossIsLate, RttExact

LEMMA NextKeeps == IInv /\ [Next]_vars => IInv'
<1> SUFFICES ASSUME IInv, [Next]_vars PROVE IInv'
  OBVIOUS
<1>1. CASE Punctual /\ sent
  BY <1>1, SentStep
<1>2. ASSUME NEW r \in responses, received(r) PROVE IInv'
  BY <1>2, ReceivedStep
<1>3. ASSUME NEW r \in responses, Lose(r) PROVE IInv'
  BY <1>3, QuietStep DEF Lose
<1>4. CASE UNCHANGED vars
  BY <1>4, QuietStep DEF vars
<1> QED BY <1>1, <1>2, <1>3, <1>4 DEF Next

\* The invariant holds in every state of every behaviour of metrics_tracker.rs as modelled.
THEOREM IInvHolds == Spec => []IInv
  BY InitIInv, NextKeeps, PTL DEF Spec

-----------------------------------------------------------------------------
(* What a reader of the samples may rely on                                 *)

\* Whatever wraps, pending packets are kept under counters below the modulus, and samples and
\* responses are about packets that were sent (metrics_tracker.rs:41-97).
THEOREM TrackerTypeCorrect == Spec => []TypeOK
<1>1. IInv => TypeOK
  BY DEF IInv
<1> QED BY <1>1, IInvHolds, PTL

\* Every packet is reported at most once, however responses are duplicated or delayed, also
\* beyond the wrap of the counter.
THEOREM AlwaysSampledOnce == Spec => []SampledOnce
<1>1. IInv => SampledOnce
  BY DEF IInv
<1> QED BY <1>1, IInvHolds, PTL

\* A packet is only called lost after max_pending packets were sent, it included: the
\* eviction in sent never hits a newer one.
THEOREM LossAlwaysLate == Spec => []LossIsLate
<1>1. IInv => LossIsLate
  BY DEF IInv
<1> QED BY <1>1, IInvHolds, PTL

\* A round trip time belongs to the packet that was answered, if responses are less than a
\* turn of the counter late.
THEOREM RttAlwaysExact == Spec => []RttExact
<1>1. IInv => RttExact
  BY DEF IInv
<1> QED BY <1>1, IInvHolds, PTL

\* Of the packets of the last turn of the counter at most max_pending have no sample: all of
\* them are pending, each under a counter of its own.
THEOREM OutageAlwaysSeen == Spec => []OutageSeen
<1>1. ASSUME IInv PROVE OutageSeen
  <2> DEFINE U == {p \in 1..nsent : nsent - p < CounterMod /\ Unreported(p)}
             f == [p \in U |-> CounterOf(p)]
  <2>1. TypeOK /\ PendingInv /\ UnreportedInv /\ nsent \in Nat
    BY <1>1, PendingTyped DEF IInv
  <2>2. \A p \in U : CounterOf(p) \in DOMAIN pending
    BY <2>1 DEF UnreportedInv, PendingInv, Waiting
  <2>3. \A p, q \in U : CounterOf(p) = CounterOf(q) => p = q
    BY <2>1, SamePacket
  <2> HIDE DEF U
  <2>4. f \in Injection(U, DOMAIN pending)
    BY <2>2, <2>3 DEF Injection, IsInjective
  <2>5. Cardinality(U) <= Cardinality(DOMAIN pending) /\ Cardinality(U) \in Nat
    <3> HIDE DEF f
    <3> QED BY <2>1, <2>4, PendingTyped, FS_Injection, FS_CardinalityType
  <2>6. Cardinality(U) <= MaxPending
    BY <2>1, <2>5, PendingTyped, CounterAssumption DEF PendingInv
  <2> QED BY <2>6 DEF OutageSeen, U
<1> QED BY <1>1, IInvHolds, PTL
=============================================================================
