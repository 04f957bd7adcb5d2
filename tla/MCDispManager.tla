---------------------------- MODULE MCDispManager ----------------------------
(* Two threads at a dispatcher for one application or for two, with a minimum   *)
(* of no tokens or of one, and every division of small quotas.                  *)
EXTENDS DispManager, TLC

CONSTANT MCMax           \* bound: parts of the quotas divided

Nodes3 == [id : {0}, base : 0..1, tmp : 0..MCMax, weight : 1..2]

Untouched == calls = 0 /\ hashed /\ tokens = NewAccount(1, 1)

\* Two and three nodes are divided as QuotaSplit says, for every small division.  It
\* does not depend on the state, and is evaluated in one.
SplitGivesShares ==
  Untouched => \A n \in 2..3 : \A nodes \in [1..n -> Nodes3] : Divisible(nodes) => GivesShares(nodes)
===============================================================================
