------------------------- MODULE MCTokenReqGrpManager -------------------------
(* Two groups want a token of each of two nodes, which start with one token     *)
(* each.                                                                        *)
EXTENDS TokenReqGrpManager, TLC

CONSTANTS a, b, g1, g2

MCWant == g1 :> {a, b} @@ g2 :> {a, b}
MCCost == g1 :> 1 @@ g2 :> 1

\* Threads, groups and nodes are each interchangeable.
MCSymmetry == {p \in Permutations(Threads \cup Groups \cup Nodes) :
                 \A S \in {Threads, Groups, Nodes} : {p[x] : x \in S} = S}
===============================================================================
