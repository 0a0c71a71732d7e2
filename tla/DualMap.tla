------------------------------ MODULE DualMap ------------------------------
(***************************************************************************)
(* DualHashMap (connection/src/utils/dual_map.rs): a map whose values are   *)
(* reached by a primary and by a secondary key, kept as two hash maps that  *)
(* must stay inverse to each other.  The stored value itself is opaque to   *)
(* the map and left out: prim_to_val maps a primary key to its secondary.   *)
(***************************************************************************)
EXTENDS Functions

EmptyMap == [prim_to_val |-> [k \in {} |-> k], sec_to_prim |-> [k \in {} |-> k]]

Prims(m) == DOMAIN m.prim_to_val
Secs(m) == DOMAIN m.sec_to_prim

\* HashMap::remove and HashMap::insert on one of the two maps.
Without(f, k) == Restrict(f, DOMAIN f \ {k})
With(f, k, v) == [x \in DOMAIN f \cup {k} |-> IF x = k THEN v ELSE f[x]]

RemovePrim(m, k1) ==
    IF k1 \in Prims(m)
    THEN [prim_to_val |-> Without(m.prim_to_val, k1),
          sec_to_prim |-> Without(m.sec_to_prim, m.prim_to_val[k1])]
    ELSE m

\* A forgotten second removal: the primary entry outlives its secondary key.
HalfRemoveSec(m, k2) == [m EXCEPT !.sec_to_prim = Without(@, k2)]

RemoveSec(m, k2) ==
    IF k2 \in Secs(m)
    THEN [prim_to_val |-> Without(m.prim_to_val, m.sec_to_prim[k2]),
          sec_to_prim |-> Without(m.sec_to_prim, k2)]
    ELSE m

\* insert first removes whatever either key belonged to.
Insert(m, k1, k2) ==
    LET rest == RemoveSec(RemovePrim(m, k1), k2)
    IN  [prim_to_val |-> With(rest.prim_to_val, k1, k2),
         sec_to_prim |-> With(rest.sec_to_prim, k2, k1)]

\* retain keeps the entries whose primary keys are in kept.
Retain(m, kept) ==
    [prim_to_val |-> Restrict(m.prim_to_val, Prims(m) \cap kept),
     sec_to_prim |-> Restrict(m.sec_to_prim,
                       Secs(m) \ {m.prim_to_val[k] : k \in Prims(m) \ kept})]

Maps(K1, K2) == [prim_to_val : UNION {[S -> K2] : S \in SUBSET K1},
                 sec_to_prim : UNION {[S -> K1] : S \in SUBSET K2}]

\* No orphaned entry in either map: the two are inverse to each other.
MutuallyInverse(m) ==
    /\ \A k1 \in Prims(m) : /\ m.prim_to_val[k1] \in Secs(m)
                            /\ m.sec_to_prim[m.prim_to_val[k1]] = k1
    /\ \A k2 \in Secs(m) : /\ m.sec_to_prim[k2] \in Prims(m)
                           /\ m.prim_to_val[m.sec_to_prim[k2]] = k2
=============================================================================
