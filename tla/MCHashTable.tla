----------------------------- MODULE MCHashTable -----------------------------
(* Three ids in two buckets, two values, a cache of two items and counters      *)
(* that wrap after four.                                                        *)
EXTENDS HashTable, TLC

CONSTANTS x, y, z

MCHash == x :> 0 @@ y :> 0 @@ z :> 1
MCSymmetry == Permutations(Threads) \cup Permutations(Pris) \cup Permutations({x, y})
===============================================================================
