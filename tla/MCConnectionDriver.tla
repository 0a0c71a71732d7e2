------------------------ MODULE MCConnectionDriver ------------------------
(* Small instances of ConnectionDriver for TLC.                             *)
EXTENDS ConnectionDriver, TLC

\* Robots only occur as keys: runs without liveness may exchange them.
Symmetry == Permutations(Ids) \cup Permutations(Addrs)
=============================================================================
