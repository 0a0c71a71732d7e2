--------------------------- MODULE DualMapProofs ---------------------------
(***************************************************************************)
(* Every operation of DualHashMap keeps its two hash maps typed and inverse *)
(* to each other, for key sets of any size.                                 *)
(***************************************************************************)
EXTENDS DualMap, TLAPS

\* A map that is typed over K1 and K2 and has no orphaned entry.
Good(m, K1, K2) == m \in Maps(K1, K2) /\ MutuallyInverse(m)

\* What membership in Maps means for the two functions.
LEMMA MapsFields ==
    ASSUME NEW K1, NEW K2, NEW m \in Maps(K1, K2)
    PROVE  /\ m = [prim_to_val |-> m.prim_to_val, sec_to_prim |-> m.sec_to_prim]
           /\ Prims(m) \subseteq K1 /\ m.prim_to_val \in [Prims(m) -> K2]
           /\ Secs(m) \subseteq K2 /\ m.sec_to_prim \in [Secs(m) -> K1]
  BY DEF Maps, Prims, Secs

\* The converse: a record of two such functions is in Maps.
LEMMA MapsIntro ==
    ASSUME NEW K1, NEW K2, NEW S \in SUBSET K1, NEW T \in SUBSET K2,
           NEW f \in [S -> K2], NEW g \in [T -> K1]
    PROVE  [prim_to_val |-> f, sec_to_prim |-> g] \in Maps(K1, K2)
  BY DEF Maps

\* DualHashMap::new.
LEMMA EmptyGood ==
    ASSUME NEW K1, NEW K2
    PROVE  Good(EmptyMap, K1, K2)
<1>1. EmptyMap \in Maps(K1, K2)
  <2>1. [k \in {} |-> k] \in [{} -> K1] /\ [k \in {} |-> k] \in [{} -> K2]
    OBVIOUS
  <2> QED BY <2>1, MapsIntro DEF EmptyMap
<1>2. MutuallyInverse(EmptyMap)
  BY DEF EmptyMap, MutuallyInverse, Prims, Secs
<1> QED BY <1>1, <1>2 DEF Good

\* Removing an entry by both of its keys, in whichever way it was found.
LEMMA RemoveBothGood ==
    ASSUME NEW K1, NEW K2, NEW m, Good(m, K1, K2),
           NEW k1 \in Prims(m), NEW k2 \in Secs(m),
           m.prim_to_val[k1] = k2, m.sec_to_prim[k2] = k1,
           NEW r, r = [prim_to_val |-> Without(m.prim_to_val, k1),
                       sec_to_prim |-> Without(m.sec_to_prim, k2)]
    PROVE  /\ Good(r, K1, K2)
           /\ Prims(r) = Prims(m) \ {k1}
           /\ Secs(r) = Secs(m) \ {k2}
           /\ \A k \in Prims(r) : r.prim_to_val[k] = m.prim_to_val[k]
           /\ \A k \in Secs(r) : r.sec_to_prim[k] = m.sec_to_prim[k]
<1> DEFINE f == [x \in Prims(m) \ {k1} |-> m.prim_to_val[x]]
           g == [x \in Secs(m) \ {k2} |-> m.sec_to_prim[x]]
<1>1. m \in Maps(K1, K2) /\ MutuallyInverse(m)
  BY DEF Good
<1>2. r.prim_to_val = f /\ r.sec_to_prim = g
  BY <1>1, MapsFields DEF Without, Restrict, Prims, Secs
<1>3. Prims(r) = Prims(m) \ {k1} /\ Secs(r) = Secs(m) \ {k2}
  BY <1>2 DEF Prims, Secs
<1>4. r \in Maps(K1, K2)
  <2>1. /\ Prims(m) \ {k1} \in SUBSET K1 /\ f \in [Prims(m) \ {k1} -> K2]
        /\ Secs(m) \ {k2} \in SUBSET K2 /\ g \in [Secs(m) \ {k2} -> K1]
    BY <1>1, MapsFields
  <2>2. r = [prim_to_val |-> f, sec_to_prim |-> g]
    BY <1>2
  <2> HIDE DEF f, g
  <2>3. f \in UNION {[S -> K2] : S \in SUBSET K1}
    BY <2>1
  <2>4. g \in UNION {[S -> K1] : S \in SUBSET K2}
    BY <2>1
  <2> QED BY <2>2, <2>3, <2>4 DEF Maps
<1>5. \A k \in Prims(r) : r.prim_to_val[k] = m.prim_to_val[k]
  BY <1>2, <1>3
<1>6. \A k \in Secs(r) : r.sec_to_prim[k] = m.sec_to_prim[k]
  BY <1>2, <1>3
<1>7. MutuallyInverse(r)
  <2>1. ASSUME NEW k \in Prims(r)
        PROVE  r.prim_to_val[k] \in Secs(r) /\ r.sec_to_prim[r.prim_to_val[k]] = k
    BY <2>1, <1>1, <1>3, <1>5, <1>6 DEF MutuallyInverse
  <2>2. ASSUME NEW k \in Secs(r)
        PROVE  r.sec_to_prim[k] \in Prims(r) /\ r.prim_to_val[r.sec_to_prim[k]] = k
    BY <2>2, <1>1, <1>3, <1>5, <1>6 DEF MutuallyInverse
  <2> QED BY <2>1, <2>2 DEF MutuallyInverse
<1> QED BY <1>3, <1>4, <1>5, <1>6, <1>7 DEF Good

\* remove_prim: the entry of k1 goes from both maps, and nothing else changes.
LEMMA RemovePrimGood ==
    ASSUME NEW K1, NEW K2, NEW m, Good(m, K1, K2), NEW k1
    PROVE  /\ Good(RemovePrim(m, k1), K1, K2)
           /\ Prims(RemovePrim(m, k1)) = Prims(m) \ {k1}
           /\ Secs(RemovePrim(m, k1)) =
                Secs(m) \ {k2 \in Secs(m) : m.sec_to_prim[k2] = k1}
<1>1. CASE k1 \in Prims(m)
  <2>1. /\ m.prim_to_val[k1] \in Secs(m)
        /\ m.sec_to_prim[m.prim_to_val[k1]] = k1
        /\ {k2 \in Secs(m) : m.sec_to_prim[k2] = k1} = {m.prim_to_val[k1]}
    BY <1>1 DEF Good, MutuallyInverse
  <2>2. RemovePrim(m, k1) = [prim_to_val |-> Without(m.prim_to_val, k1),
                             sec_to_prim |-> Without(m.sec_to_prim, m.prim_to_val[k1])]
    BY <1>1 DEF RemovePrim
  <2> QED BY <1>1, <2>1, <2>2, RemoveBothGood
<1>2. CASE k1 \notin Prims(m)
  BY <1>2 DEF RemovePrim, Good, MutuallyInverse
<1> QED BY <1>1, <1>2

\* remove_sec, likewise.
LEMMA RemoveSecGood ==
    ASSUME NEW K1, NEW K2, NEW m, Good(m, K1, K2), NEW k2
    PROVE  /\ Good(RemoveSec(m, k2), K1, K2)
           /\ Secs(RemoveSec(m, k2)) = Secs(m) \ {k2}
           /\ Prims(RemoveSec(m, k2)) =
                Prims(m) \ {k1 \in Prims(m) : m.prim_to_val[k1] = k2}
           /\ \A k \in Prims(RemoveSec(m, k2)) :
                RemoveSec(m, k2).prim_to_val[k] = m.prim_to_val[k]
<1>1. CASE k2 \in Secs(m)
  <2>1. /\ m.sec_to_prim[k2] \in Prims(m)
        /\ m.prim_to_val[m.sec_to_prim[k2]] = k2
        /\ {k1 \in Prims(m) : m.prim_to_val[k1] = k2} = {m.sec_to_prim[k2]}
    BY <1>1 DEF Good, MutuallyInverse
  <2>2. RemoveSec(m, k2) = [prim_to_val |-> Without(m.prim_to_val, m.sec_to_prim[k2]),
                            sec_to_prim |-> Without(m.sec_to_prim, k2)]
    BY <1>1 DEF RemoveSec
  <2> QED BY <1>1, <2>1, <2>2, RemoveBothGood
<1>2. CASE k2 \notin Secs(m)
  BY <1>2 DEF RemoveSec, Good, MutuallyInverse
<1> QED BY <1>1, <1>2

\* insert: both old entries are gone, the new one is there, and the maps stay inverse.
THEOREM InsertGood ==
    ASSUME NEW K1, NEW K2, NEW m, Good(m, K1, K2), NEW k1 \in K1, NEW k2 \in K2
    PROVE  /\ Good(Insert(m, k1, k2), K1, K2)
           /\ k1 \in Prims(Insert(m, k1, k2)) /\ k2 \in Secs(Insert(m, k1, k2))
           /\ Insert(m, k1, k2).prim_to_val[k1] = k2
           /\ Insert(m, k1, k2).sec_to_prim[k2] = k1
           /\ Secs(Insert(m, k1, k2)) \subseteq Secs(m) \cup {k2}
<1> DEFINE n == RemovePrim(m, k1)
           rest == RemoveSec(n, k2)
           f == With(rest.prim_to_val, k1, k2)
           g == With(rest.sec_to_prim, k2, k1)
           new == Insert(m, k1, k2)
<1>1. /\ Good(n, K1, K2) /\ Prims(n) = Prims(m) \ {k1} /\ Secs(n) \subseteq Secs(m)
  BY RemovePrimGood
<1>2. /\ Good(rest, K1, K2)
      /\ k2 \notin Secs(rest) /\ Secs(rest) \subseteq Secs(m)
      /\ k1 \notin Prims(rest)
  BY <1>1, RemoveSecGood
<1> HIDE DEF n, rest
<1>3. new = [prim_to_val |-> f, sec_to_prim |-> g]
  BY DEF Insert, n, rest
<1>4. /\ rest \in Maps(K1, K2) /\ MutuallyInverse(rest)
      /\ Prims(rest) \subseteq K1 /\ rest.prim_to_val \in [Prims(rest) -> K2]
      /\ Secs(rest) \subseteq K2 /\ rest.sec_to_prim \in [Secs(rest) -> K1]
  BY <1>2, MapsFields DEF Good
<1>5. /\ f = [x \in Prims(rest) \cup {k1} |-> IF x = k1 THEN k2 ELSE rest.prim_to_val[x]]
      /\ g = [x \in Secs(rest) \cup {k2} |-> IF x = k2 THEN k1 ELSE rest.sec_to_prim[x]]
  BY DEF With, Prims, Secs
<1> HIDE DEF f, g
<1>6. /\ f \in [Prims(rest) \cup {k1} -> K2] /\ g \in [Secs(rest) \cup {k2} -> K1]
      /\ Prims(new) = Prims(rest) \cup {k1} /\ Secs(new) = Secs(rest) \cup {k2}
      /\ new.prim_to_val = f /\ new.sec_to_prim = g
  BY <1>3, <1>4, <1>5 DEF Prims, Secs
<1>7. new \in Maps(K1, K2)
  <2>1. Prims(rest) \cup {k1} \in SUBSET K1 /\ Secs(rest) \cup {k2} \in SUBSET K2
    BY <1>4
  <2> QED BY <1>3, <1>6, <2>1, MapsIntro
<1> HIDE DEF new
<1>8. MutuallyInverse(new)
  <2>1. ASSUME NEW k \in Prims(new)
        PROVE  new.prim_to_val[k] \in Secs(new) /\ new.sec_to_prim[new.prim_to_val[k]] = k
    BY <2>1, <1>2, <1>4, <1>5, <1>6 DEF MutuallyInverse
  <2>2. ASSUME NEW k \in Secs(new)
        PROVE  new.sec_to_prim[k] \in Prims(new) /\ new.prim_to_val[new.sec_to_prim[k]] = k
    BY <2>2, <1>2, <1>4, <1>5, <1>6 DEF MutuallyInverse
  <2> QED BY <2>1, <2>2 DEF MutuallyInverse
<1>9. Secs(new) \subseteq Secs(m) \cup {k2}
  BY <1>2, <1>6
<1> QED BY <1>5, <1>6, <1>7, <1>8, <1>9 DEF Good, new

\* insert of two new keys displaces nothing.
LEMMA InsertFresh ==
    ASSUME NEW K1, NEW K2, NEW m, Good(m, K1, K2), NEW k1 \in K1, NEW k2 \in K2,
           k1 \notin Prims(m), k2 \notin Secs(m)
    PROVE  /\ Prims(Insert(m, k1, k2)) = Prims(m) \cup {k1}
           /\ Secs(Insert(m, k1, k2)) = Secs(m) \cup {k2}
           /\ Insert(m, k1, k2).prim_to_val[k1] = k2
           /\ \A k \in Prims(m) : Insert(m, k1, k2).prim_to_val[k] = m.prim_to_val[k]
<1>1. RemoveSec(RemovePrim(m, k1), k2) = m
  BY DEF RemovePrim, RemoveSec
<1>2. Insert(m, k1, k2) = [prim_to_val |-> With(m.prim_to_val, k1, k2),
                           sec_to_prim |-> With(m.sec_to_prim, k2, k1)]
  BY <1>1 DEF Insert
<1> QED BY <1>2 DEF With, Prims, Secs

\* retain: what the predicate rejects goes from both maps.
THEOREM RetainGood ==
    ASSUME NEW K1, NEW K2, NEW m, Good(m, K1, K2), NEW kept
    PROVE  /\ Good(Retain(m, kept), K1, K2)
           /\ Prims(Retain(m, kept)) = Prims(m) \cap kept
<1> DEFINE gone == {m.prim_to_val[k] : k \in Prims(m) \ kept}
           f == [x \in Prims(m) \cap kept |-> m.prim_to_val[x]]
           g == [x \in Secs(m) \ gone |-> m.sec_to_prim[x]]
           r == [prim_to_val |-> f, sec_to_prim |-> g]
<1>1. /\ m \in Maps(K1, K2) /\ MutuallyInverse(m)
      /\ Prims(m) \subseteq K1 /\ m.prim_to_val \in [Prims(m) -> K2]
      /\ Secs(m) \subseteq K2 /\ m.sec_to_prim \in [Secs(m) -> K1]
  BY MapsFields DEF Good
<1>2. Retain(m, kept) = r
  BY <1>1 DEF Retain, Restrict, Prims, Secs
<1>3. Prims(r) = Prims(m) \cap kept /\ Secs(r) = Secs(m) \ gone
  BY DEF Prims, Secs
<1>4. r \in Maps(K1, K2)
  <2>1. /\ Prims(m) \cap kept \in SUBSET K1 /\ f \in [Prims(m) \cap kept -> K2]
        /\ Secs(m) \ gone \in SUBSET K2 /\ g \in [Secs(m) \ gone -> K1]
    BY <1>1
  <2> HIDE DEF f, g
  <2> QED BY <2>1, MapsIntro
<1>5. ASSUME NEW k \in Prims(r)
      PROVE  r.prim_to_val[k] \in Secs(r) /\ r.sec_to_prim[r.prim_to_val[k]] = k
  <2>1. k \in Prims(m) /\ k \in kept /\ r.prim_to_val[k] = m.prim_to_val[k]
    BY <1>3, <1>5
  <2>2. m.prim_to_val[k] \in Secs(m) /\ m.sec_to_prim[m.prim_to_val[k]] = k
    BY <1>1, <2>1 DEF MutuallyInverse
  <2>3. m.prim_to_val[k] \notin gone
    BY <1>1, <2>1, <2>2 DEF MutuallyInverse
  <2> QED BY <1>3, <2>1, <2>2, <2>3
<1>6. ASSUME NEW k \in Secs(r)
      PROVE  r.sec_to_prim[k] \in Prims(r) /\ r.prim_to_val[r.sec_to_prim[k]] = k
  <2>1. k \in Secs(m) /\ k \notin gone /\ r.sec_to_prim[k] = m.sec_to_prim[k]
    BY <1>3, <1>6
  <2>2. m.sec_to_prim[k] \in Prims(m) /\ m.prim_to_val[m.sec_to_prim[k]] = k
    BY <1>1, <2>1 DEF MutuallyInverse
  <2>3. m.sec_to_prim[k] \in kept
    BY <2>1, <2>2
  <2> QED BY <1>3, <2>1, <2>2, <2>3
<1> QED BY <1>2, <1>3, <1>4, <1>5, <1>6 DEF Good, MutuallyInverse
=============================================================================
