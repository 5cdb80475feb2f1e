----------------------------- MODULE MCHashMap -----------------------------
(* Instances of HashMap for TLC. With a first capacity of 4, hashes 3 and 7   *)
(* collide before the table grows and not after; 3 wraps around the end of    *)
(* the small table, into the slot of 0, and 7 around the end of the large     *)
(* one. Keys with equal hashes always collide.                                *)
EXTENDS HashMap, TLC

CONSTANTS k1, k2, k3, k4, v1, v2

MCKeys == {k1, k2, k3, k4}
MCHashes == {0, 3, 7}
MCValues == {v1, v2}
MCSymmetry == Permutations(MCKeys) \cup Permutations(MCValues)
=============================================================================
