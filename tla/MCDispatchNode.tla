---------------------------- MODULE MCDispatchNode ----------------------------
(* Three requests of costs 1, 2 and 2 on one node that starts with two tokens,  *)
(* by one thread or by two.                                                     *)
EXTENDS DispatchNode, TLC

CONSTANTS r1, r2, r3

MCCost == r1 :> 1 @@ r2 :> 2 @@ r3 :> 2
ThreadSymmetry == Permutations(Threads)
===============================================================================
