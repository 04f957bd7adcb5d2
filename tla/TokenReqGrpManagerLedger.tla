----------------------- MODULE TokenReqGrpManagerLedger -----------------------
(***************************************************************************)
(* Proofs about TokenReqGrpManager, second part: the tokens in use of each *)
(* node are those of the groups that hold some of this incarnation, while  *)
(* one thread works on the nodes, for any nodes, groups, wants, costs,     *)
(* messages and word size.                                                 *)
(***************************************************************************)
EXTENDS TokenReqGrpManagerProofs

\* The groups that hold tokens of the incarnation of n that is in the table.
Owners(n) == {g \in Groups : Holds(g, n) /\ Nodeid[g][n] = table[n].fence}

\* The tokens in use add up, in the arithmetic of the word.
LedgerOf(n) == Online(n) =>
  IsFiniteSet(Owners(n)) /\ table[n].base.inuse = SumOf(Cost, Owners(n)) % Word

\* A fence is one of those used up.
FenceInv == \A n \in Nodes : /\ Online(n) => table[n].fence < version
                             /\ \A g \in Groups : Nodeid[g][n] < version

\* A put gives back what was got.
GiveInv == \A t \in Threads : pc[t] = "put" => \A n \in todo[t] : stat[grp[t]][n] = "got"

LedgerInv == FenceInv /\ GiveInv /\ \A n \in Nodes : LedgerOf(n)

-------------------------------------------------------------------------------
(* The tokens in use while a queue is charged.                                 *)

\* A cost is a natural number, and the word is positive.
LEMMA CostNat == Word \in Nat /\ Word > 0 /\ \A g \in Groups : Cost[g] \in Nat /\ Cost[g] < Word
BY WantAssumption, WordAssumption

\* Charging a cost more than a sum, and returning it.
LEMMA PlusSum ==
  ASSUME NEW s \in Int, NEW c \in Int
  PROVE  Plus(s % Word, c) = (s + c) % Word
BY CostNat, RemainderSum DEF Plus

\* And less a cost.
LEMMA MinusSum ==
  ASSUME NEW s \in Int, NEW c \in Int
  PROVE  Minus(s % Word, c) = (s - c) % Word
<1>1. Word - c \in Int /\ s - c \in Int /\ s + (Word - c) = (s - c) + Word
  BY CostNat
<1>2. ((s % Word) + (Word - c)) % Word = (s + (Word - c)) % Word
  BY <1>1, CostNat, RemainderSum
<1>3. ((s - c) + Word) % Word = (s - c) % Word
  BY <1>1, CostNat, RemainderShift
<1> QED
  BY <1>1, <1>2, <1>3 DEF Minus

\* A group more that holds tokens.
LEMMA CostMore ==
  ASSUME NEW O \in SUBSET Groups, IsFiniteSet(O), NEW g \in Groups, g \notin O
  PROVE  /\ IsFiniteSet(O \cup {g})
         /\ SumOf(Cost, O) \in Int
         /\ SumOf(Cost, O \cup {g}) = SumOf(Cost, O) + Cost[g]
<1>1. IsFiniteSet(O \cup {g})
  BY FS_AddElement
<1>2. \A x \in O \cup {g} : Cost[x] \in Nat
  BY CostNat
<1>3. SumOf(Cost, O \cup {g}) = SumOf(Cost, O) + Cost[g]
  BY <1>2, SumAdd
<1>4. SumOf(Cost, O) \in Nat
  BY <1>2, SumAdd
<1> QED
  BY <1>1, <1>3, <1>4

\* A group less.
LEMMA CostLess ==
  ASSUME NEW O \in SUBSET Groups, IsFiniteSet(O), NEW g \in O
  PROVE  /\ IsFiniteSet(O \ {g})
         /\ SumOf(Cost, O) \in Int
         /\ SumOf(Cost, O \ {g}) = SumOf(Cost, O) - Cost[g]
<1>1. PICK P : P = O \ {g}
  OBVIOUS
<1>2. P \in SUBSET Groups /\ IsFiniteSet(P) /\ g \notin P /\ g \in Groups /\ O = P \cup {g}
  BY <1>1, FS_Subset
<1>3. SumOf(Cost, P \cup {g}) = SumOf(Cost, P) + Cost[g] /\ SumOf(Cost, P) \in Int
  BY <1>2, CostMore
<1>4. PICK s \in Int, c \in Int : s = SumOf(Cost, P) /\ c = Cost[g]
  BY <1>2, <1>3, CostNat
<1>5. SumOf(Cost, O) = s + c
  BY <1>2, <1>3, <1>4
<1>6. s + c \in Int /\ s = (s + c) - c
  OBVIOUS
<1>7. SumOf(Cost, O) \in Int /\ SumOf(Cost, P) = SumOf(Cost, O) - Cost[g]
  BY <1>4, <1>5, <1>6
<1> QED
  BY <1>1, <1>2, <1>7

\* The accounts that the loop over a queue goes through.
LEMMA ChargedFirstIs ==
  ASSUME NEW item \in Items, NEW k \in 0..Len(item.queue)
  PROVE  ChargedFirst(item)[k] = IF k = 0 THEN item.base
                                 ELSE Charged(ChargedFirst(item)[k - 1], Cost[item.queue[k]])
<1>1. Charging(item, ChargedFirst(item), Len(item.queue))
  BY ChargingExists DEF ChargedFirst, Charging
<1> QED
  BY <1>1 DEF Charging

\* Their tokens in use: those there were and the costs of the requests so far.
LEMMA ChargedSum ==
  ASSUME NEW item \in Items,
         \A i, j \in 1..Len(item.queue) : item.queue[i] = item.queue[j] => i = j,
         NEW O \in SUBSET Groups, IsFiniteSet(O),
         \A i \in 1..Len(item.queue) : item.queue[i] \notin O,
         item.base.inuse = SumOf(Cost, O) % Word
  PROVE  \A k \in 0..Len(item.queue) :
           /\ IsFiniteSet(O \cup {item.queue[i] : i \in 1..k})
           /\ ChargedFirst(item)[k].inuse = SumOf(Cost, O \cup {item.queue[i] : i \in 1..k}) % Word
<1>1. Len(item.queue) \in Nat /\ \A i \in 1..Len(item.queue) : item.queue[i] \in Groups
  BY DEF Items
<1> DEFINE q == item.queue
           With(k) == O \cup {q[i] : i \in 1..k}
           P == {k \in 0..Len(q) : /\ IsFiniteSet(With(k))
                                   /\ ChargedFirst(item)[k].inuse = SumOf(Cost, With(k)) % Word}
<1>2. 0 \in P
  <2>1. With(0) = O
    OBVIOUS
  <2>2. ChargedFirst(item)[0] = item.base
    BY <1>1, ChargedFirstIs
  <2> HIDE DEF With
  <2> QED
    BY <1>1, <2>1, <2>2
<1>3. ASSUME NEW k \in 0..(Len(q) - 1), k \in P PROVE k + 1 \in P
  <2>1. k + 1 \in 1..Len(q) /\ k + 1 \in 0..Len(q) /\ k \in 0..Len(q) /\ k + 1 # 0
    BY <1>1
  <2>2. PICK g \in Groups : g = q[k + 1]
    BY <1>1, <2>1
  <2>3. g \notin With(k)
    <3>1. g \notin O
      BY <2>1, <2>2
    <3>2. ASSUME NEW i \in 1..k PROVE q[i] # g
      <4>1. i \in 1..Len(q) /\ i # k + 1
        BY <1>1
      <4> QED
        BY <2>1, <2>2, <4>1
    <3> QED
      BY <3>1, <3>2
  <2>4. With(k + 1) = With(k) \cup {g}
    <3>1. 1..(k + 1) = 1..k \cup {k + 1}
      BY <1>1
    <3> QED
      BY <2>2, <3>1
  <2>5. With(k) \in SUBSET Groups
    <3>1. \A i \in 1..k : i \in 1..Len(q)
      BY <1>1
    <3> QED
      BY <1>1, <3>1
  <2> HIDE DEF With
  <2>6. IsFiniteSet(With(k)) /\ ChargedFirst(item)[k].inuse = SumOf(Cost, With(k)) % Word
    BY <1>3
  <2> HIDE DEF P
  <2>7. /\ IsFiniteSet(With(k + 1)) /\ SumOf(Cost, With(k)) \in Int
        /\ SumOf(Cost, With(k + 1)) = SumOf(Cost, With(k)) + Cost[g]
    BY <2>3, <2>4, <2>5, <2>6, CostMore
  <2>8. PICK a \in Account : a = ChargedFirst(item)[k]
    BY <2>1, ChargedFirstType
  <2>9. ChargedFirst(item)[k + 1].inuse = Plus(a.inuse, Cost[g])
    <3>1. ChargedFirst(item)[k + 1] = Charged(ChargedFirst(item)[(k + 1) - 1], Cost[q[k + 1]])
      BY <2>1, ChargedFirstIs
    <3>2. (k + 1) - 1 = k
      BY <2>1
    <3>3. ChargedFirst(item)[k + 1] = Charged(a, Cost[g])
      BY <2>2, <2>8, <3>1, <3>2
    <3> QED
      BY <3>3 DEF Charged, Account
  <2>10. Plus(a.inuse, Cost[g]) = SumOf(Cost, With(k + 1)) % Word
    <3>1. PICK s \in Int : s = SumOf(Cost, With(k))
      BY <2>7
    <3>2. PICK c \in Int : c = Cost[g]
      BY CostNat
    <3>3. Plus(s % Word, c) = (s + c) % Word
      BY PlusSum
    <3> QED
      BY <2>6, <2>7, <2>8, <3>1, <3>2, <3>3
  <2> QED
    BY <2>1, <2>7, <2>9, <2>10 DEF P
<1>4. 0..Len(q) \subseteq P
  <2> HIDE DEF P
  <2> QED
    BY <1>1, <1>2, <1>3, CountingUp
<1> QED
  BY <1>4

\* So are those of a node whose queue was woken.
LEMMA WakenSum ==
  ASSUME NEW item \in Items,
         \A i, j \in 1..Len(item.queue) : item.queue[i] = item.queue[j] => i = j,
         NEW O \in SUBSET Groups, IsFiniteSet(O),
         \A i \in 1..Len(item.queue) : item.queue[i] \notin O,
         item.base.inuse = SumOf(Cost, O) % Word
  PROVE  /\ IsFiniteSet(O \cup Woken(item))
         /\ WakenItem(item).base.inuse = SumOf(Cost, O \cup Woken(item)) % Word
<1>1. PICK w : w = WokenCount(item)
  OBVIOUS
<1>2. w \in 0..Len(item.queue)
  BY <1>1, WokenCountType
<1>3. /\ IsFiniteSet(O \cup {item.queue[i] : i \in 1..w})
      /\ ChargedFirst(item)[w].inuse = SumOf(Cost, O \cup {item.queue[i] : i \in 1..w}) % Word
  BY <1>2, ChargedSum
<1>4. Woken(item) = {item.queue[i] : i \in 1..w}
  BY <1>1 DEF Woken
<1>5. WakenItem(item).base = ChargedFirst(item)[w]
  BY <1>1 DEF WakenItem, Items
<1> QED
  BY <1>3, <1>4, <1>5

-------------------------------------------------------------------------------
(* Who holds what.                                                             *)

\* Thread t has still to give back the tokens of n that g has.
Gives(t, g, n) ==
  /\ grp[t] = g
  /\ \/ pc[t] \in {"out", "outoffline"}
     \/ pc[t] = "ends" /\ back[t] = "out"
     \/ pc[t] = "put" /\ n \in todo[t]

\* What the others do stays.
Moves(t) == \A u \in Threads \ {t} : /\ pc'[u] = pc[u] /\ grp'[u] = grp[u]
                                     /\ todo'[u] = todo[u] /\ back'[u] = back[u]

\* A step is a move of its thread.
LEMMA NextMoves ==
  ASSUME TypeOK, NEW t \in Threads, Step(t) \/ Put(t) \/ Event(t)
  PROVE  Moves(t)
<1>1. CASE Step(t)
  BY <1>1 DEF Step, CheckIn, InOnline, GetReturn, CheckOut, OutOffline, TakeOffline, GetOne, PutOne,
       PutUnlock, EndsDone, FreeGroup, EndOne, RcvdOnline, NodeReset, Return, Goto, group, TypeOK, Moves
<1>2. CASE Put(t)
  BY <1>2 DEF Put, PutBegin, Goto, TypeOK, Moves
<1>3. CASE Event(t)
  <2>1. ASSUME NEW g \in Groups, GetBegin(t, g) \/ GetNoMemory(t, g) PROVE Moves(t)
    BY <2>1 DEF GetBegin, GetNoMemory, Goto, local, TypeOK, Moves
  <2>2. ASSUME NEW n \in Nodes, NodeOnline(t, n) \/ NodeOffline(t, n) PROVE Moves(t)
    BY <2>2 DEF NodeOnline, NodeOffline, TakeOffline, local, TypeOK, Moves
  <2>3. ASSUME NEW n \in Nodes, NEW q \in Quotas, NEW v \in Versions, Rcvd(t, n, q, v) PROVE Moves(t)
    BY <2>3 DEF Rcvd, Goto, TypeOK, Moves
  <2> QED
    BY <1>3, <2>1, <2>2, <2>3 DEF Event
<1> QED
  BY <1>1, <1>2, <1>3

\* Whether a group holds tokens of a node changes with its life, its request and what
\* the thread that moves gives back.
LEMMA HoldsSame ==
  ASSUME NEW t \in Threads, Moves(t), NEW g \in Groups, NEW n \in Nodes,
         life'[g] = life[g], stat'[g][n] = "got" <=> stat[g][n] = "got",
         stat[g][n] = "got" => (Gives(t, g, n)' <=> Gives(t, g, n))
  PROVE  Holds(g, n)' <=> Holds(g, n)
<1>1. \A u \in Threads \ {t} : Gives(u, g, n)' <=> Gives(u, g, n)
  BY DEF Gives, Moves
<1>2. ToGiveBack(g, n) <=> \E u \in Threads : Gives(u, g, n)
  BY DEF ToGiveBack, Gives
<1>3. ToGiveBack(g, n)' <=> \E u \in Threads : Gives(u, g, n)'
  BY DEF ToGiveBack, Gives
<1> QED
  BY <1>1, <1>2, <1>3 DEF Holds

\* Who gives tokens back is a putter, and of a group there is one.
LEMMA OneGives ==
  ASSUME Inv, NEW t \in Threads, Putter(t), NEW n \in Nodes
  PROVE  life[grp[t]] = "putting" /\ (ToGiveBack(grp[t], n) <=> Gives(t, grp[t], n))
<1>1. life[grp[t]] = "putting"
  BY DEF Inv, PlaceInv, PlaceOf
<1>2. \A u \in Threads : Gives(u, grp[t], n) => u = t
  BY DEF Inv, PlaceInv, Apart, Putter, Gives
<1>3. ToGiveBack(grp[t], n) <=> \E u \in Threads : Gives(u, grp[t], n)
  BY DEF ToGiveBack, Gives
<1> QED
  BY <1>1, <1>2, <1>3

\* A ledger stays when the holders, the fence and the tokens in use do, and a node that
\* comes online has a fence that no request was made on, and nothing in use.
LEMMA SameLedger ==
  ASSUME Inv, LedgerInv, NEW n \in Nodes,
         \A g \in Groups : Holds(g, n)' <=> Holds(g, n),
         \A g \in Groups : Holds(g, n) => Nodeid'[g][n] = Nodeid[g][n],
         Online(n)' => \/ /\ Online(n) /\ table'[n].fence = table[n].fence
                          /\ table'[n].base.inuse = table[n].base.inuse
                       \/ table'[n].fence = version /\ table'[n].base.inuse = 0
  PROVE  LedgerOf(n)'
<1> SUFFICES ASSUME Online(n)'
             PROVE  /\ IsFiniteSet(Owners(n)')
                    /\ table'[n].base.inuse = SumOf(Cost, Owners(n)') % Word
  BY DEF LedgerOf
<1>1. CASE /\ Online(n) /\ table'[n].fence = table[n].fence
           /\ table'[n].base.inuse = table[n].base.inuse
  <2>1. Owners(n)' = Owners(n)
    BY <1>1 DEF Owners
  <2> QED
    BY <1>1, <2>1 DEF LedgerInv, LedgerOf
<1>2. CASE table'[n].fence = version /\ table'[n].base.inuse = 0
  <2>1. version \in Nat /\ \A g \in Groups : Nodeid[g][n] \in Int
    BY DEF Inv, TypeOK
  <2>2. \A g \in Groups : Nodeid[g][n] < version
    BY DEF LedgerInv, FenceInv
  <2>3. Owners(n)' = {}
    BY <1>2, <2>1, <2>2 DEF Owners
  <2>4. 0 % Word = 0
    BY CostNat
  <2> QED
    BY <1>2, <2>3, <2>4, SumEmpty, FS_EmptySet
<1> QED
  BY <1>1, <1>2

\* Fences and what is to be given back, where the table may gain a node.
LEMMA SameFences ==
  ASSUME Inv, LedgerInv, version' = version \/ version' = version + 1, Nodeid' = Nodeid,
         \A n \in Nodes : Online(n)' => \/ Online(n) /\ table'[n].fence = table[n].fence
                                        \/ table'[n].fence = version /\ version' = version + 1
  PROVE  FenceInv'
<1>1. /\ version \in Nat /\ \A n \in Nodes : Online(n) => table[n].fence \in Nat
      /\ \A g \in Groups, n \in Nodes : Nodeid[g][n] \in Int
  BY InvTable, ItemIs DEF Inv, TypeOK
<1>2. \A n \in Nodes : /\ Online(n) => table[n].fence < version
                       /\ \A g \in Groups : Nodeid[g][n] < version
  BY DEF LedgerInv, FenceInv
<1> QED
  BY <1>1, <1>2 DEF FenceInv

\* Nodes that stay have the tokens in use they had, and one that comes online has none.
TableKept == \A n \in Nodes : Online(n)' =>
  \/ /\ Online(n) /\ table'[n].fence = table[n].fence
     /\ table'[n].base.inuse = table[n].base.inuse
  \/ table'[n].fence = version /\ version' = version + 1 /\ table'[n].base.inuse = 0

\* A step that changes none of who holds what keeps the ledgers.
LEMMA KeptLedger ==
  ASSUME Inv, LedgerInv, TableKept, FenceInv', GiveInv',
         \A g \in Groups, n \in Nodes : Holds(g, n)' <=> Holds(g, n),
         \A g \in Groups, n \in Nodes : Holds(g, n) => Nodeid'[g][n] = Nodeid[g][n]
  PROVE  LedgerInv'
<1> SUFFICES ASSUME NEW n \in Nodes PROVE LedgerOf(n)'
  BY DEF LedgerInv
<1>1. Online(n)' => \/ /\ Online(n) /\ table'[n].fence = table[n].fence
                       /\ table'[n].base.inuse = table[n].base.inuse
                    \/ table'[n].fence = version /\ table'[n].base.inuse = 0
  BY DEF TableKept
<1> QED
  BY <1>1, SameLedger

\* So does one that settles nothing.
LEMMA QuietLedger ==
  ASSUME Inv, LedgerInv, TableKept, NEW t \in Threads, Moves(t),
         UNCHANGED <<life, stat, Nodeid>>, version' = version \/ version' = version + 1,
         \A g \in Groups, n \in Nodes : stat[g][n] = "got" => (Gives(t, g, n)' <=> Gives(t, g, n)),
         pc'[t] = "put" => \A n \in todo'[t] : stat[grp'[t]][n] = "got"
  PROVE  LedgerInv'
<1>1. FenceInv'
  BY SameFences DEF TableKept
<1>2. GiveInv'
  BY DEF GiveInv, LedgerInv, Moves
<1>3. \A g \in Groups, n \in Nodes : Holds(g, n)' <=> Holds(g, n)
  BY HoldsSame
<1> QED
  BY <1>1, <1>2, <1>3, KeptLedger

\* The table does not change,
LEMMA TableSame ==
  ASSUME table' = table
  PROVE  TableKept
BY DEF TableKept, Online

\* a node comes online,
LEMMA TableOnline ==
  ASSUME Inv, NEW n \in Nodes, TakeOnline(n)
  PROVE  TableKept /\ (version' = version \/ version' = version + 1)
<1>1. CASE table' = table
  BY <1>1, TableSame DEF TakeOnline
<1>2. CASE /\ table' = [table EXCEPT ![n] = [base |-> Fresh, queue |-> <<>>, fence |-> version]]
           /\ version' = version + 1
  <2>1. table'[n].fence = version /\ table'[n].base.inuse = 0
    BY <1>2 DEF Inv, TypeOK, Fresh
  <2>2. \A m \in Nodes \ {n} : table'[m] = table[m]
    BY <1>2 DEF Inv, TypeOK
  <2> QED
    BY <1>2, <2>1, <2>2 DEF TableKept, Online
<1> QED
  BY <1>1, <1>2 DEF TakeOnline

\* or a node's quota changes.
LEMMA TableBase ==
  ASSUME Inv, NEW n \in Nodes, Online(n), NEW b \in Account, b.inuse = table[n].base.inuse,
         table' = [table EXCEPT ![n].base = b]
  PROVE  TableKept
<1>1. table[n] \in Items
  BY InvTable, ItemIs
<1>2. table'[n].fence = table[n].fence /\ table'[n].base = b
  BY <1>1 DEF Inv, TypeOK, Items
<1>3. \A m \in Nodes \ {n} : table'[m] = table[m]
  BY DEF Inv, TypeOK
<1> QED
  BY <1>2, <1>3 DEF TableKept, Online

-------------------------------------------------------------------------------
(* One step at a time.                                                         *)

\* Steps that settle nothing and free nothing.
LEMMA QuietSteps ==
  ASSUME Inv, LedgerInv, NEW t \in Threads, Moves(t),
         \/ CheckIn(t) \/ InOnline(t) \/ CheckOut(t) \/ PutUnlock(t) \/ EndsDone(t)
         \/ RcvdOnline(t) \/ NodeReset(t)
         \/ \E g \in Groups : EndOne(t, g)
         \/ \E n \in Nodes : NodeOnline(t, n)
  PROVE  LedgerInv'
<1>0. TypeOK /\ PlaceOf(t)
  BY DEF Inv, PlaceInv
<1>1. CASE CheckIn(t)
  <2>1. /\ TableKept /\ UNCHANGED <<life, stat, Nodeid, version, grp>>
        /\ pc[t] = "in" /\ pc'[t] \in {"in", "inonline", "get"}
    BY <1>0, <1>1, TableSame DEF CheckIn, Goto, group, TypeOK
  <2> QED
    BY <2>1, QuietLedger DEF Gives
<1>2. CASE InOnline(t)
  <2>1. /\ TableKept /\ UNCHANGED <<life, stat, Nodeid, grp>>
        /\ version' = version \/ version' = version + 1
        /\ pc[t] = "inonline" /\ pc'[t] = "in"
    <3>1. pc[t] = "inonline" /\ id[t] \in Nodes /\ TakeOnline(id[t])
      BY <1>0, <1>2 DEF InOnline, PlaceOf
    <3> QED
      BY <1>0, <1>2, <3>1, TableOnline DEF InOnline, Goto, group, TypeOK
  <2> QED
    BY <2>1, QuietLedger DEF Gives
<1>3. CASE CheckOut(t)
  <2>1. /\ TableKept /\ UNCHANGED <<life, stat, Nodeid, version, grp>> /\ pc[t] = "out"
        /\ \/ pc'[t] \in {"out", "outoffline"}
           \/ pc'[t] = "put" /\ todo'[t] = {n \in Nodes : stat[grp[t]][n] = "got"}
    BY <1>0, <1>3, TableSame DEF CheckOut, Goto, group, TypeOK
  <2>2. \A g \in Groups, n \in Nodes : stat[g][n] = "got" => (Gives(t, g, n)' <=> Gives(t, g, n))
    BY <2>1 DEF Gives
  <2> QED
    BY <2>1, <2>2, QuietLedger
<1>4. CASE PutUnlock(t)
  <2>1. /\ TableKept /\ UNCHANGED <<life, stat, Nodeid, version, grp>>
        /\ pc[t] = "put" /\ todo[t] = {} /\ pc'[t] = "ends" /\ back'[t] = "free"
    BY <1>0, <1>4, TableSame DEF PutUnlock, Goto, group, TypeOK
  <2> QED
    BY <2>1, QuietLedger DEF Gives
<1>5. CASE EndsDone(t)
  <2>1. /\ TableKept /\ UNCHANGED <<life, stat, Nodeid, version>> /\ pc[t] = "ends"
        /\ \/ back[t] = "idle" /\ pc'[t] = "idle"
           \/ back[t] \in {"out", "free"} /\ pc'[t] = back[t] /\ grp' = grp
    BY <1>0, <1>5, TableSame DEF EndsDone, Return, Goto, group, TypeOK
  <2> QED
    BY <2>1, QuietLedger DEF Gives
<1>6. CASE RcvdOnline(t)
  <2>1. /\ TableKept /\ UNCHANGED <<life, stat, Nodeid>>
        /\ version' = version \/ version' = version + 1
        /\ pc[t] = "rcvdonline" /\ pc'[t] = "idle"
    <3>1. pc[t] = "rcvdonline" /\ id[t] \in Nodes /\ TakeOnline(id[t])
      BY <1>0, <1>6 DEF RcvdOnline, PlaceOf
    <3> QED
      BY <1>0, <1>6, <3>1, TableOnline DEF RcvdOnline, Return, Goto, group, TypeOK
  <2> QED
    BY <2>1, QuietLedger DEF Gives
<1>7. CASE NodeReset(t)
  <2>1. /\ UNCHANGED <<life, stat, Nodeid, version>> /\ pc[t] = "reset" /\ pc'[t] = "idle"
        /\ id[t] \in Nodes
    BY <1>0, <1>7 DEF NodeReset, Return, Goto, group, TypeOK, PlaceOf
  <2>2. TableKept
    <3>1. CASE ~Online(id[t])
      BY <1>7, <3>1, TableSame DEF NodeReset
    <3>2. CASE Online(id[t])
      <4>1. PICK b \in Account : b = ResetAccount(table[id[t]].base) /\ b.inuse = table[id[t]].base.inuse
        <5>1. table[id[t]].base \in Account
          BY <2>1, <3>2, InvTable, ItemIs
        <5> QED
          BY <5>1, ResetType DEF ResetAccount, Account
      <4>2. table' = [table EXCEPT ![id[t]].base = b]
        BY <1>7, <3>2, <4>1 DEF NodeReset
      <4> QED
        BY <2>1, <3>2, <4>1, <4>2, TableBase
    <3> QED
      BY <3>1, <3>2
  <2> QED
    BY <2>1, <2>2, QuietLedger DEF Gives
<1>8. ASSUME NEW g \in Groups, EndOne(t, g) PROVE LedgerInv'
  <2>1. /\ TableKept /\ UNCHANGED <<life, stat, Nodeid, version, grp, pc, todo, back>> /\ pc[t] = "ends"
    BY <1>8, TableSame DEF EndOne
  <2> QED
    BY <2>1, QuietLedger DEF Gives
<1>9. ASSUME NEW n \in Nodes, NodeOnline(t, n) PROVE LedgerInv'
  <2>1. /\ TableKept /\ UNCHANGED <<life, stat, Nodeid, grp, pc, todo, back>>
        /\ version' = version \/ version' = version + 1
        /\ pc[t] = "idle"
    BY <1>9, TableOnline DEF NodeOnline, group, local
  <2> QED
    BY <2>1, QuietLedger DEF Gives
<1> QED
  BY <1>1, <1>2, <1>3, <1>4, <1>5, <1>6, <1>7, <1>8, <1>9

\* A group begins or ends, in a step of a thread that is not in its loop of puts then.
LEMMA LifeSteps ==
  ASSUME Inv, LedgerInv, NEW t \in Threads, Moves(t),
         \/ \E g \in Groups : GetBegin(t, g) \/ GetNoMemory(t, g)
         \/ \E g \in Groups, dead \in SUBSET Nodes : PutBegin(t, g, dead)
         \/ GetReturn(t) \/ FreeGroup(t)
  PROVE  LedgerInv'
<1>0. TypeOK /\ PlaceOf(t) /\ StatInv /\ FenceInv /\ GiveInv
  BY DEF Inv, PlaceInv, LedgerInv
<1>1. ASSUME table' = table, version' = version, pc'[t] # "put",
             \A g \in Groups, n \in Nodes : stat[g][n] = "got" => stat'[g][n] = "got",
             \A g \in Groups, n \in Nodes : Nodeid'[g][n] = Nodeid[g][n] \/ Nodeid'[g][n] = -1,
             \A g \in Groups, n \in Nodes : Holds(g, n)' <=> Holds(g, n),
             \A g \in Groups, n \in Nodes : Holds(g, n) => Nodeid'[g][n] = Nodeid[g][n]
      PROVE  LedgerInv'
  <2>1. version \in Nat /\ -1 < version
    BY <1>0 DEF TypeOK
  <2>2. FenceInv'
    BY <1>0, <1>1, <2>1 DEF FenceInv, Online
  <2>3. GiveInv'
    <3> SUFFICES ASSUME NEW u \in Threads, pc'[u] = "put", NEW n \in todo'[u]
                 PROVE  stat'[grp'[u]][n] = "got"
      BY DEF GiveInv
    <3>1. u # t /\ pc[u] = "put" /\ n \in todo[u] /\ grp'[u] = grp[u]
      BY <1>1 DEF Moves
    <3>2. stat[grp[u]][n] = "got"
      BY <1>0, <3>1 DEF GiveInv
    <3>3. grp[u] \in Groups /\ n \in Nodes
      BY <3>1 DEF Inv, PlaceInv, PlaceOf, Putter, TypeOK
    <3> QED
      BY <1>1, <3>1, <3>2, <3>3
  <2> QED
    BY <1>1, <2>2, <2>3, TableSame, KeptLedger
<1>2. ASSUME NEW g \in Groups, GetBegin(t, g) PROVE LedgerInv'
  <2>1. /\ table' = table /\ version' = version /\ Nodeid' = Nodeid /\ pc[t] = "idle" /\ pc'[t] = "in"
        /\ life[g] = "new" /\ \A h \in Groups \ {g} : life'[h] = life[h] /\ stat'[h] = stat[h]
        /\ \A n \in Nodes : stat'[g][n] \in {"init", "none"}
    BY <1>0, <1>2 DEF GetBegin, Goto, TypeOK
  <2>2. \A n \in Nodes : stat[g][n] = "none"
    BY <1>0, <2>1 DEF StatInv
  <2>3. \A n \in Nodes : ~Holds(g, n) /\ ~Holds(g, n)'
    BY <2>1, <2>2 DEF Holds
  <2>4. \A h \in Groups \ {g}, n \in Nodes : Gives(t, h, n)' <=> Gives(t, h, n)
    BY <2>1 DEF Gives
  <2>5. \A h \in Groups \ {g}, n \in Nodes : Holds(h, n)' <=> Holds(h, n)
    BY <2>1, <2>4, HoldsSame
  <2> QED
    BY <1>1, <2>1, <2>2, <2>3, <2>5
<1>3. ASSUME NEW g \in Groups, GetNoMemory(t, g) PROVE LedgerInv'
  <2>1. /\ table' = table /\ version' = version /\ Nodeid' = Nodeid /\ pc[t] = "idle" /\ pc'[t] = "idle"
        /\ stat' = stat
        /\ life[g] = "new" /\ \A h \in Groups \ {g} : life'[h] = life[h]
    BY <1>0, <1>3 DEF GetNoMemory, local, TypeOK
  <2>2. \A n \in Nodes : stat[g][n] = "none"
    BY <1>0, <2>1 DEF StatInv
  <2>3. \A n \in Nodes : ~Holds(g, n) /\ ~Holds(g, n)'
    BY <2>1, <2>2 DEF Holds
  <2>4. \A h \in Groups \ {g}, n \in Nodes : Gives(t, h, n)' <=> Gives(t, h, n)
    BY <2>1 DEF Gives
  <2>5. \A h \in Groups \ {g}, n \in Nodes : Holds(h, n)' <=> Holds(h, n)
    BY <2>1, <2>4, HoldsSame
  <2> QED
    BY <1>1, <2>1, <2>3, <2>5
\* The group of t is to be put from now on, all of it.
<1>4. ASSUME NEW g \in Groups, life[g] = "live", life' = [life EXCEPT ![g] = "putting"],
             grp'[t] = g, pc'[t] = "out", UNCHANGED <<table, version, stat, Nodeid>>,
             \A h \in Groups \ {g}, n \in Nodes : ~Gives(t, h, n)
      PROVE  LedgerInv'
  <2>1. life'[g] = "putting" /\ \A h \in Groups \ {g} : life'[h] = life[h]
    BY <1>0, <1>4 DEF TypeOK
  <2>2. \A n \in Nodes : ToGiveBack(g, n)'
    BY <1>4 DEF ToGiveBack
  <2>3. \A n \in Nodes : Holds(g, n)' <=> Holds(g, n)
    BY <1>4, <2>1, <2>2 DEF Holds
  <2>4. \A h \in Groups \ {g}, n \in Nodes : ~Gives(t, h, n)'
    BY <1>4 DEF Gives
  <2>5. \A h \in Groups \ {g}, n \in Nodes : Holds(h, n)' <=> Holds(h, n)
    BY <1>4, <2>1, <2>4, HoldsSame
  <2> QED
    BY <1>1, <1>4, <2>3, <2>5
<1>5. ASSUME NEW g \in Groups, NEW dead \in SUBSET Nodes, PutBegin(t, g, dead) PROVE LedgerInv'
  <2>1. /\ life[g] = "live" /\ life' = [life EXCEPT ![g] = "putting"] /\ grp'[t] = g
        /\ pc[t] = "idle" /\ pc'[t] = "out" /\ UNCHANGED <<table, version, stat, Nodeid>>
    BY <1>0, <1>5 DEF PutBegin, Goto, TypeOK
  <2> QED
    BY <1>4, <2>1 DEF Gives
<1>6. CASE GetReturn(t)
  <2>1. PICK g \in Groups : g = grp[t]
    BY <1>0, <1>6 DEF GetReturn, PlaceOf, Getter
  <2>2. /\ pc[t] = "get" /\ UNCHANGED <<table, version, stat, Nodeid>>
    BY <1>6 DEF GetReturn
  <2>3. CASE ret[t] = "FAILEDNODE"
    <3>1. /\ life[g] = "live" /\ life' = [life EXCEPT ![g] = "putting"] /\ grp'[t] = g
          /\ pc'[t] = "out"
      BY <1>0, <1>6, <2>1, <2>3 DEF GetReturn, Goto, TypeOK, PlaceOf
    <3> QED
      BY <1>4, <2>2, <3>1 DEF Gives
  <2>4. CASE ret[t] # "FAILEDNODE"
    <3>1. life' = life /\ pc'[t] = "idle"
      BY <1>0, <1>6, <2>4 DEF GetReturn, Return, Goto, TypeOK
    <3>2. \A h \in Groups, n \in Nodes : Gives(t, h, n)' <=> Gives(t, h, n)
      BY <2>2, <3>1 DEF Gives
    <3>3. \A h \in Groups, n \in Nodes : Holds(h, n)' <=> Holds(h, n)
      BY <2>2, <3>1, <3>2, HoldsSame
    <3> QED
      BY <1>1, <2>2, <3>1, <3>3
  <2> QED
    BY <2>3, <2>4
<1>7. CASE FreeGroup(t)
  <2>1. PICK g \in Groups : g = grp[t]
    BY <1>0, <1>7 DEF FreeGroup, PlaceOf, Putter
  <2>2. /\ pc[t] = "free" /\ pc'[t] = "idle" /\ UNCHANGED <<table, version, stat>>
        /\ life'[g] = "freed" /\ \A h \in Groups \ {g} : life'[h] = life[h] /\ Nodeid'[h] = Nodeid[h]
        /\ \A n \in Nodes : Nodeid'[g][n] = -1
    BY <1>0, <1>7, <2>1 DEF FreeGroup, Return, Goto, TypeOK
  <2>3. \A n \in Nodes : life[g] = "putting" /\ ~ToGiveBack(g, n)
    <3>1. Putter(t)
      BY <2>2 DEF Putter
    <3> QED
      BY <2>1, <2>2, <3>1, OneGives DEF Gives
  <2>4. \A n \in Nodes : ~Holds(g, n) /\ ~Holds(g, n)'
    BY <2>2, <2>3 DEF Holds
  <2>5. \A h \in Groups, n \in Nodes : Gives(t, h, n)' <=> Gives(t, h, n)
    BY <2>2 DEF Gives
  <2>6. \A h \in Groups \ {g}, n \in Nodes : Holds(h, n)' <=> Holds(h, n)
    BY <2>2, <2>5, HoldsSame
  <2> QED
    BY <1>1, <2>2, <2>4, <2>6
<1> QED
  BY <1>2, <1>3, <1>5, <1>6, <1>7

-------------------------------------------------------------------------------
(* Steps that settle requests on one node.                                     *)

\* The fences, what is to be given back and the ledgers of the other nodes stay.
LEMMA SettleLedger ==
  ASSUME Inv, LedgerInv, NEW t \in Threads, Moves(t), NEW n \in Nodes,
         NEW H \in SUBSET Groups, \A g \in H : stat[g][n] = "init",
         NEW how \in {"got", "failed"}, Settle(H, n, how),
         UNCHANGED <<life, version>>,
         \A m \in Nodes : Online(m)' => Online(m) /\ table'[m].fence = table[m].fence,
         \A m \in Nodes \ {n} : table'[m] = table[m],
         \A g \in Groups, m \in Nodes :
           Nodeid'[g][m] = IF g \in H /\ m = n /\ Online(n) THEN table[n].fence ELSE Nodeid[g][m],
         pc'[t] = "put" => pc[t] = "put" /\ grp'[t] = grp[t] /\ todo'[t] \subseteq todo[t],
         \A g \in Groups, m \in Nodes \ {n} : Gives(t, g, m)' <=> Gives(t, g, m)
  PROVE  /\ FenceInv' /\ GiveInv' /\ \A m \in Nodes \ {n} : LedgerOf(m)'
         /\ \A g \in Groups, m \in Nodes :
              stat'[g][m] = IF g \in H /\ m = n THEN how ELSE stat[g][m]
<1>0. TypeOK /\ StatInv /\ FenceInv /\ GiveInv /\ (\A m \in Nodes : LedgerOf(m))
      /\ \A u \in Threads : PlaceOf(u)
  BY DEF Inv, PlaceInv, LedgerInv
<1>1. \A g \in Groups, m \in Nodes :
        stat'[g][m] = IF g \in H /\ m = n THEN how ELSE stat[g][m]
  BY <1>0, SettleIs
<1>2. FenceInv'
  BY <1>0 DEF FenceInv
<1>3. GiveInv'
  <2> SUFFICES ASSUME NEW u \in Threads, pc'[u] = "put", NEW m \in todo'[u]
               PROVE  stat'[grp'[u]][m] = "got"
    BY DEF GiveInv
  <2>1. pc[u] = "put" /\ m \in todo[u] /\ grp'[u] = grp[u]
    BY DEF Moves
  <2>2. stat[grp[u]][m] = "got"
    BY <1>0, <2>1 DEF GiveInv
  <2>3. grp[u] \in Groups /\ m \in Nodes
    BY <1>0, <2>1 DEF PlaceOf, Putter, TypeOK
  <2> QED
    BY <1>1, <2>1, <2>2, <2>3
<1>4. ASSUME NEW m \in Nodes \ {n} PROVE LedgerOf(m)'
  <2>1. \A g \in Groups : Holds(g, m)' <=> Holds(g, m)
    BY <1>1, HoldsSame
  <2>2. \A g \in Groups : Nodeid'[g][m] = Nodeid[g][m]
    OBVIOUS
  <2>3. Online(m)' => /\ Online(m) /\ table'[m].fence = table[m].fence
                      /\ table'[m].base.inuse = table[m].base.inuse
    OBVIOUS
  <2> QED
    BY <2>1, <2>2, <2>3, SameLedger
<1> QED
  BY <1>1, <1>2, <1>3, <1>4

\* The groups that got tokens of n hold them.
LEMMA HoldsMore ==
  ASSUME Inv, NEW t \in Threads, Moves(t), NEW n \in Nodes,
         NEW H \in SUBSET Groups, \A g \in H : stat[g][n] = "init", life' = life,
         \A g \in Groups : stat'[g][n] = IF g \in H THEN "got" ELSE stat[g][n],
         NEW g \in Groups, Gives(t, g, n)' <=> Gives(t, g, n)
  PROVE  Holds(g, n)' <=> Holds(g, n) \/ g \in H
<1>1. CASE g \in H
  <2>1. life[g] = "live"
    BY <1>1 DEF Inv, StatInv
  <2> QED
    BY <1>1, <2>1 DEF Holds
<1>2. CASE g \notin H
  BY <1>2, HoldsSame
<1> QED
  BY <1>1, <1>2

\* A getter asks one node.
LEMMA GetOneLedger ==
  ASSUME Inv, LedgerInv, NEW t \in Threads, Moves(t), NEW n \in Nodes, GetOne(t, n)
  PROVE  LedgerInv'
<1>0. TypeOK /\ PlaceOf(t) /\ WaitInv /\ FenceInv /\ GiveInv
  BY DEF Inv, PlaceInv, LedgerInv
<1>1. PICK g \in Groups : g = grp[t]
  BY <1>0 DEF GetOne, PlaceOf, Getter
<1>2. /\ pc[t] = "get" /\ pc'[t] = "get" /\ n \in todo[t] /\ UNCHANGED <<life, version, grp>>
  BY DEF GetOne
<1>3. stat[g][n] = "init"
  BY <1>0, <1>1, <1>2 DEF WaitInv, WaitOf, Asks
<1>4. \A h \in Groups, m \in Nodes : Gives(t, h, m)' <=> Gives(t, h, m)
  BY <1>2 DEF Gives
<1>5. PICK H \in SUBSET Groups : H = {g}
  OBVIOUS
<1>6. CASE ~Online(n) /\ Settle({g}, n, "failed") /\ UNCHANGED <<table, Nodeid>>
  <2>1. FenceInv' /\ GiveInv' /\ \A m \in Nodes \ {n} : LedgerOf(m)'
    <3>1. Settle(H, n, "failed") /\ \A h \in H : stat[h][n] = "init"
      BY <1>3, <1>5, <1>6
    <3>2. \A m \in Nodes : Online(m)' => Online(m) /\ table'[m].fence = table[m].fence
      BY <1>6 DEF Online
    <3>3. \A h \in Groups, m \in Nodes :
            Nodeid'[h][m] = IF h \in H /\ m = n /\ Online(n) THEN table[n].fence ELSE Nodeid[h][m]
      BY <1>6
    <3> QED
      BY <1>2, <1>4, <1>6, <3>1, <3>2, <3>3, SettleLedger
  <2>2. LedgerOf(n)'
    BY <1>6 DEF LedgerOf, Online
  <2> QED
    BY <2>1, <2>2 DEF LedgerInv
<1>7. ASSUME Online(n)
      PROVE  /\ table[n] \in Items /\ table[n].base \in Account /\ table[n].fence \in Nat
             /\ table[n].fence < version
  BY <1>0, <1>7, InvTable, ItemIs DEF FenceInv
<1>8. CASE /\ Online(n) /\ table' = [table EXCEPT ![n].base = Charged(@, Cost[g])]
           /\ Nodeid' = [Nodeid EXCEPT ![g][n] = table[n].fence]
           /\ Settle({g}, n, "got")
  <2>1. PICK a \in Account : a = table[n].base
    BY <1>7, <1>8
  <2>2. /\ table'[n].fence = table[n].fence /\ table'[n].base.inuse = Plus(a.inuse, Cost[g])
        /\ \A m \in Nodes \ {n} : table'[m] = table[m]
    <3>1. table' = [table EXCEPT ![n] = [table[n] EXCEPT !.base = Charged(a, Cost[g])]]
      BY <1>8, <2>1
    <3>2. table'[n] = [table[n] EXCEPT !.base = Charged(a, Cost[g])]
      BY <1>0, <3>1 DEF TypeOK
    <3>3. table'[n].base = Charged(a, Cost[g]) /\ table'[n].fence = table[n].fence
      BY <1>7, <1>8, <3>2 DEF Items
    <3>4. Charged(a, Cost[g]).inuse = Plus(a.inuse, Cost[g])
      BY DEF Charged, Account
    <3>5. \A m \in Nodes \ {n} : table'[m] = table[m]
      BY <1>0, <3>1 DEF TypeOK
    <3> QED
      BY <3>3, <3>4, <3>5
  <2>3. \A h \in Groups, m \in Nodes :
          Nodeid'[h][m] = IF h \in H /\ m = n /\ Online(n) THEN table[n].fence ELSE Nodeid[h][m]
    BY <1>0, <1>5, <1>8 DEF TypeOK
  <2>4. /\ FenceInv' /\ GiveInv' /\ \A m \in Nodes \ {n} : LedgerOf(m)'
        /\ \A h \in Groups, m \in Nodes :
             stat'[h][m] = IF h \in H /\ m = n THEN "got" ELSE stat[h][m]
    <3>1. Settle(H, n, "got") /\ \A h \in H : stat[h][n] = "init"
      BY <1>3, <1>5, <1>8
    <3>2. \A m \in Nodes : Online(m)' => Online(m) /\ table'[m].fence = table[m].fence
      BY <1>8, <2>2 DEF Online
    <3> QED
      BY <1>2, <1>4, <2>2, <2>3, <3>1, <3>2, SettleLedger
  <2>5. \A h \in Groups : Holds(h, n)' <=> Holds(h, n) \/ h = g
    <3>1. \A h \in Groups : Holds(h, n)' <=> Holds(h, n) \/ h \in H
      BY <1>2, <1>3, <1>4, <1>5, <2>4, HoldsMore
    <3> QED
      BY <1>5, <3>1
  <2>6. g \notin Owners(n) /\ Owners(n)' = Owners(n) \cup {g}
    <3>1. g \notin Owners(n)
      BY <1>3 DEF Owners, Holds
    <3>2. ASSUME NEW h \in Groups PROVE h \in Owners(n)' <=> h \in Owners(n) \cup {g}
      BY <1>5, <1>8, <2>2, <2>3, <2>5 DEF Owners
    <3>3. Owners(n)' \subseteq Groups /\ Owners(n) \cup {g} \subseteq Groups
      BY DEF Owners
    <3> QED
      BY <3>1, <3>2, <3>3
  <2>7. Owners(n) \in SUBSET Groups /\ IsFiniteSet(Owners(n))
        /\ table[n].base.inuse = SumOf(Cost, Owners(n)) % Word
    BY <1>8 DEF LedgerInv, LedgerOf, Owners
  <2>8. PICK O \in SUBSET Groups : O = Owners(n)
    BY <2>7
  <2>9. /\ IsFiniteSet(O \cup {g}) /\ SumOf(Cost, O) \in Int
        /\ SumOf(Cost, O \cup {g}) = SumOf(Cost, O) + Cost[g]
    BY <2>6, <2>7, <2>8, CostMore
  <2>10. Plus(a.inuse, Cost[g]) = SumOf(Cost, O \cup {g}) % Word
    <3>1. PICK s \in Int : s = SumOf(Cost, O)
      BY <2>9
    <3>2. PICK c \in Int : c = Cost[g]
      BY CostNat
    <3>3. Plus(s % Word, c) = (s + c) % Word
      BY PlusSum
    <3> QED
      BY <2>1, <2>7, <2>8, <2>9, <3>1, <3>2, <3>3
  <2>11. LedgerOf(n)'
    BY <2>2, <2>6, <2>8, <2>9, <2>10 DEF LedgerOf
  <2> QED
    BY <2>4, <2>11 DEF LedgerInv
<1>9. CASE /\ Online(n) /\ table' = [table EXCEPT ![n].queue = Append(@, g)]
           /\ Nodeid' = [Nodeid EXCEPT ![g][n] = table[n].fence]
           /\ UNCHANGED <<stat, err>>
  <2>1. /\ table'[n].fence = table[n].fence /\ table'[n].base.inuse = table[n].base.inuse
        /\ \A m \in Nodes \ {n} : table'[m] = table[m]
    BY <1>0, <1>7, <1>9 DEF TypeOK, Items
  <2>2. \A h \in Groups, m \in Nodes :
          Nodeid'[h][m] = IF h = g /\ m = n THEN table[n].fence ELSE Nodeid[h][m]
    BY <1>0, <1>9 DEF TypeOK
  <2>3. TableKept
    BY <1>9, <2>1 DEF TableKept, Online
  <2>4. FenceInv'
    BY <1>0, <1>2, <1>7, <1>9, <2>1, <2>2 DEF FenceInv, Online
  <2>5. GiveInv'
    BY <1>0, <1>2, <1>9 DEF GiveInv, Moves
  <2>6. \A h \in Groups, m \in Nodes : Holds(h, m)' <=> Holds(h, m)
    BY <1>2, <1>4, <1>9, HoldsSame
  <2>7. \A h \in Groups, m \in Nodes : Holds(h, m) => Nodeid'[h][m] = Nodeid[h][m]
    BY <1>3, <2>2 DEF Holds
  <2> QED
    BY <2>3, <2>4, <2>5, <2>6, <2>7, KeptLedger
<1> QED
  BY <1>1, <1>6, <1>8, <1>9 DEF GetOne

\* A node is taken offline: its ledger goes with it.
LEMMA OfflineLedger ==
  ASSUME Inv, LedgerInv, NEW t \in Threads, Moves(t), NEW n \in Nodes, NEW next \in {"idle", "out"},
         IF next = "out" THEN pc[t] = "outoffline" ELSE pc[t] = "idle",
         TakeOffline(t, n, next), grp' = grp
  PROVE  LedgerInv'
<1>0. TypeOK /\ WaitInv /\ PlaceOf(t)
  BY DEF Inv, PlaceInv
<1>1. /\ table' = [table EXCEPT ![n] = NoItem] /\ Settle(Popped(n), n, "failed")
      /\ pc'[t] = "ends" /\ back'[t] = next /\ UNCHANGED <<version, life, Nodeid>>
  BY <1>0 DEF TakeOffline, TypeOK
<1>2. PICK H \in SUBSET Groups : H = Popped(n)
  BY InvTable, ItemIs
<1>3. \A g \in H : stat[g][n] = "init" /\ Nodeid[g][n] = table[n].fence
  BY <1>0, <1>2 DEF WaitInv, WaitOf
<1>4. ~Online(n)' /\ \A m \in Nodes \ {n} : table'[m] = table[m]
  BY <1>0, <1>1 DEF TypeOK, Online
<1>5. \A g \in Groups, m \in Nodes : Gives(t, g, m)' <=> Gives(t, g, m)
  BY <1>1 DEF Gives
<1>6. \A m \in Nodes : Online(m)' => Online(m) /\ table'[m].fence = table[m].fence
  BY <1>4 DEF Online
<1>7. FenceInv' /\ GiveInv' /\ \A m \in Nodes \ {n} : LedgerOf(m)'
  BY <1>1, <1>2, <1>3, <1>4, <1>5, <1>6, SettleLedger
<1> QED
  BY <1>4, <1>7 DEF LedgerInv, LedgerOf

\* What waking a queue settles.
LEMMA WokenAre ==
  ASSUME Inv, NEW n \in Nodes, Online(n), NEW b \in Account,
         NEW item, item = [table[n] EXCEPT !.base = b]
  PROVE  /\ item \in Items /\ item.queue = table[n].queue /\ item.fence = table[n].fence
         /\ item.base = b
         /\ Woken(item) \subseteq Groups /\ Woken(item) \subseteq Popped(n)
         /\ \A g \in Woken(item) : stat[g][n] = "init" /\ Nodeid[g][n] = table[n].fence
<1>1. item \in Items /\ item.queue = table[n].queue /\ item.fence = table[n].fence /\ item.base = b
  <2>1. table[n] \in Items
    BY InvTable, ItemIs
  <2> QED
    BY <2>1 DEF Items
<1>2. Woken(item) \subseteq Popped(n)
  <2>1. PICK w \in 0..Len(item.queue) : Woken(item) = {item.queue[i] : i \in 1..w}
    BY <1>1, WakenIs
  <2>2. Len(item.queue) \in Nat /\ DOMAIN item.queue = 1..Len(item.queue)
    BY <1>1 DEF Items
  <2>3. 1..w \subseteq DOMAIN item.queue
    BY <2>1, <2>2
  <2> QED
    BY <1>1, <2>1, <2>3 DEF Popped
<1>3. Popped(n) \subseteq Groups
  BY InvTable, ItemIs
<1>4. \A g \in Popped(n) : stat[g][n] = "init" /\ Nodeid[g][n] = table[n].fence
  BY <1>3 DEF Inv, WaitInv, WaitOf
<1> QED
  BY <1>1, <1>2, <1>3, <1>4

\* A queue is woken when the groups O hold what is in use: those woken hold theirs too.
LEMMA WakeLedger ==
  ASSUME Inv, LedgerInv, NEW t \in Threads, Moves(t), NEW n \in Nodes, Online(n), NEW b \in Account,
         NEW item, item = [table[n] EXCEPT !.base = b], WakeNode(t, n, item),
         UNCHANGED <<life, version, Nodeid, grp>>,
         pc'[t] = "put" => pc[t] = "put" /\ todo'[t] \subseteq todo[t],
         \A g \in Groups, m \in Nodes \ {n} : Gives(t, g, m)' <=> Gives(t, g, m),
         NEW O \in SUBSET Owners(n), IsFiniteSet(O), b.inuse = SumOf(Cost, O) % Word,
         \A g \in O : Gives(t, g, n)' <=> Gives(t, g, n),
         \A g \in Woken(item) : Gives(t, g, n)' <=> Gives(t, g, n),
         \A g \in Groups \ (O \cup Woken(item)) :
           Nodeid[g][n] = table[n].fence => ~Holds(g, n)'
  PROVE  LedgerInv'
<1>0. TypeOK /\ WaitInv /\ OnceQueued
  BY DEF Inv, WaitInv
<1>1. /\ item \in Items /\ item.queue = table[n].queue /\ item.fence = table[n].fence
      /\ item.base = b
      /\ Woken(item) \subseteq Groups /\ Woken(item) \subseteq Popped(n)
      /\ \A g \in Woken(item) : stat[g][n] = "init" /\ Nodeid[g][n] = table[n].fence
  BY WokenAre
<1>2. PICK H \in SUBSET Groups : H = Woken(item)
  BY <1>1
<1>3. table' = [table EXCEPT ![n] = WakenItem(item)] /\ Settle(H, n, "got")
  BY <1>2 DEF WakeNode
<1>4. table'[n] = WakenItem(item) /\ WakenItem(item).fence = table[n].fence
      /\ \A m \in Nodes \ {n} : table'[m] = table[m]
  BY <1>0, <1>1, <1>3, WakenIs DEF TypeOK
<1>5. \A m \in Nodes : Online(m)' => Online(m) /\ table'[m].fence = table[m].fence
  BY <1>4 DEF Online
<1>6. /\ FenceInv' /\ GiveInv' /\ \A m \in Nodes \ {n} : LedgerOf(m)'
      /\ \A g \in Groups, m \in Nodes :
           stat'[g][m] = IF g \in H /\ m = n THEN "got" ELSE stat[g][m]
  <2>1. \A g \in Groups, m \in Nodes :
          Nodeid'[g][m] = IF g \in H /\ m = n /\ Online(n) THEN table[n].fence ELSE Nodeid[g][m]
    BY <1>1, <1>2
  <2> QED
    BY <1>1, <1>2, <1>3, <1>4, <1>5, <2>1, SettleLedger
<1>7. O \in SUBSET Groups /\ \A g \in O : Holds(g, n) /\ Nodeid[g][n] = table[n].fence
  BY DEF Owners
<1>8. \A i \in 1..Len(item.queue) : item.queue[i] \notin O
  <2>1. DOMAIN item.queue = 1..Len(item.queue) /\ \A i \in 1..Len(item.queue) : item.queue[i] \in Groups
    BY <1>1 DEF Items
  <2> QED
    BY <1>0, <1>1, <1>7, <2>1 DEF Popped, WaitInv, WaitOf, Holds
<1>9. \A i, j \in 1..Len(item.queue) : item.queue[i] = item.queue[j] => i = j
  <2>1. DOMAIN item.queue = 1..Len(item.queue)
    BY <1>1 DEF Items
  <2> QED
    BY <1>0, <1>1, <2>1 DEF OnceQueued
<1>10. /\ IsFiniteSet(O \cup H)
       /\ WakenItem(item).base.inuse = SumOf(Cost, O \cup H) % Word
  BY <1>1, <1>2, <1>7, <1>8, <1>9, WakenSum
<1>11. Owners(n)' = O \cup H
  <2>1. ASSUME NEW g \in O \cup H PROVE Holds(g, n)' /\ Nodeid[g][n] = table[n].fence
    <3>1. g \in Groups /\ (Gives(t, g, n)' <=> Gives(t, g, n)) /\ (Holds(g, n) \/ g \in H)
      BY <1>2, <1>7, <2>1
    <3>2. Holds(g, n)'
      BY <1>1, <1>2, <1>6, <3>1, HoldsMore
    <3> QED
      BY <1>1, <1>2, <1>7, <2>1, <3>2
  <2>2. \A g \in Groups \ (O \cup H) : Nodeid[g][n] = table[n].fence => ~Holds(g, n)'
    BY <1>2
  <2> QED
    BY <1>4, <1>7, <2>1, <2>2 DEF Owners
<1>12. LedgerOf(n)'
  BY <1>4, <1>10, <1>11 DEF LedgerOf
<1> QED
  BY <1>6, <1>12 DEF LedgerInv

\* A putter gives the tokens of one node back.
LEMMA PutOneLedger ==
  ASSUME Inv, LedgerInv, NEW t \in Threads, Moves(t), NEW n \in Nodes, PutOne(t, n)
  PROVE  LedgerInv'
<1>0. TypeOK /\ PlaceOf(t) /\ WaitInv /\ FenceInv /\ GiveInv
  BY DEF Inv, PlaceInv, LedgerInv
<1>1. PICK g \in Groups : g = grp[t]
  BY <1>0 DEF PutOne, PlaceOf, Putter
<1>2. /\ pc[t] = "put" /\ pc'[t] = "put" /\ n \in todo[t] /\ todo'[t] = todo[t] \ {n}
      /\ UNCHANGED <<life, version, Nodeid, grp>>
  BY <1>0 DEF PutOne, TypeOK
<1>3. stat[g][n] = "got"
  BY <1>0, <1>1, <1>2 DEF GiveInv
<1>4. \A h \in Groups, m \in Nodes : Gives(t, h, m)' <=> Gives(t, h, m) /\ ~(h = g /\ m = n)
  BY <1>1, <1>2 DEF Gives
<1>5. Gives(t, g, n) /\ ~Gives(t, g, n)'
  BY <1>1, <1>2 DEF Gives
<1>6. life[g] = "putting" /\ Holds(g, n) /\ ~Holds(g, n)'
  <2>1. Putter(t)
    BY <1>2 DEF Putter
  <2>2. life[g] = "putting" /\ ToGiveBack(g, n)
    BY <1>1, <1>5, <2>1, OneGives
  <2>3. \A u \in Threads : Gives(u, g, n) => u = t
    BY <1>1, <2>1 DEF Inv, PlaceInv, Apart, Putter, Gives
  <2>4. \A u \in Threads \ {t} : Gives(u, g, n)' <=> Gives(u, g, n)
    BY DEF Gives, Moves
  <2>5. ~ToGiveBack(g, n)'
    <3>1. ToGiveBack(g, n)' <=> \E u \in Threads : Gives(u, g, n)'
      BY DEF ToGiveBack, Gives
    <3> QED
      BY <1>5, <2>3, <2>4, <3>1
  <2> QED
    BY <1>2, <1>3, <2>2, <2>5 DEF Holds
<1>7. CASE IsOurNode(g, n) /\ WakeNode(t, n, [table[n] EXCEPT !.base = Freed(@, Cost[g])])
  <2>1. Online(n) /\ Nodeid[g][n] = table[n].fence
    BY <1>7 DEF IsOurNode
  <2>2. PICK a \in Account : a = table[n].base
    BY <2>1, InvTable, ItemIs
  <2>3. PICK b \in Account : b = Freed(a, Cost[g]) /\ b.inuse = Minus(a.inuse, Cost[g])
    <3>1. Freed(a, Cost[g]) \in Account
      BY CostType, FreedType
    <3> QED
      BY <3>1 DEF Freed, Account
  <2>4. PICK item : item = [table[n] EXCEPT !.base = b]
    OBVIOUS
  <2>5. WakeNode(t, n, item)
    BY <1>7, <2>2, <2>3, <2>4
  <2>6. Owners(n) \in SUBSET Groups /\ IsFiniteSet(Owners(n)) /\ g \in Owners(n)
        /\ a.inuse = SumOf(Cost, Owners(n)) % Word
    BY <1>6, <2>1, <2>2 DEF LedgerInv, LedgerOf, Owners
  <2>7. PICK O : O = Owners(n) \ {g}
    OBVIOUS
  <2>8. IsFiniteSet(O) /\ SumOf(Cost, Owners(n)) \in Int
        /\ SumOf(Cost, O) = SumOf(Cost, Owners(n)) - Cost[g]
    BY <2>6, <2>7, CostLess
  <2>9. b.inuse = SumOf(Cost, O) % Word
    <3>1. PICK s \in Int : s = SumOf(Cost, Owners(n))
      BY <2>8
    <3>2. PICK c \in Int : c = Cost[g]
      BY CostNat
    <3>3. Minus(s % Word, c) = (s - c) % Word
      BY MinusSum
    <3> QED
      BY <2>3, <2>6, <2>8, <3>1, <3>2, <3>3
  <2>10. \A h \in Woken(item) : stat[h][n] = "init" /\ h \in Groups
    BY <2>1, <2>4, WokenAre
  <2>11. g \notin Woken(item)
    BY <1>3, <2>10
  <2>12. O \in SUBSET Owners(n) /\ \A h \in O : Gives(t, h, n)' <=> Gives(t, h, n)
    BY <1>4, <2>6, <2>7
  <2>13. \A h \in Woken(item) : Gives(t, h, n)' <=> Gives(t, h, n)
    BY <1>4, <2>10, <2>11
  <2>14. \A h \in Groups, m \in Nodes \ {n} : Gives(t, h, m)' <=> Gives(t, h, m)
    BY <1>4
  <2>15. ASSUME NEW h \in Groups \ (O \cup Woken(item)), Nodeid[h][n] = table[n].fence
         PROVE  ~Holds(h, n)'
    <3> SUFFICES ASSUME Holds(h, n)' PROVE FALSE
      OBVIOUS
    <3>1. h # g
      BY <1>6
    <3>2. stat'[h][n] = stat[h][n]
      <4>1. Settle(Woken(item), n, "got") /\ Woken(item) \subseteq Groups
        BY <2>5, <2>10 DEF WakeNode
      <4>2. PICK H \in SUBSET Groups : H = Woken(item)
        BY <4>1
      <4>3. Settle(H, n, "got") /\ \A x \in H : stat[x][n] = "init"
        BY <2>10, <4>1, <4>2
      <4>4. \A x \in Groups, m \in Nodes : stat'[x][m] = IF x \in H /\ m = n THEN "got" ELSE stat[x][m]
        BY <1>0, <4>3, SettleIs DEF Inv
      <4> QED
        BY <2>15, <4>2, <4>4
    <3>3. Holds(h, n)' <=> Holds(h, n)
      BY <1>2, <1>4, <3>1, <3>2, HoldsSame
    <3> QED
      BY <2>7, <2>15, <3>1, <3>3 DEF Owners
  <2> QED
    BY <1>2, <2>1, <2>4, <2>5, <2>8, <2>9, <2>12, <2>13, <2>14, <2>15, WakeLedger
<1>8. CASE ~IsOurNode(g, n) /\ UNCHANGED <<table, stat, err, ends>>
  <2>1. FenceInv'
    BY <1>0, <1>2, <1>8 DEF FenceInv, Online
  <2>2. GiveInv'
    BY <1>0, <1>2, <1>8 DEF GiveInv, Moves
  <2>3. \A h \in Groups, m \in Nodes : ~(h = g /\ m = n) => (Holds(h, m)' <=> Holds(h, m))
    BY <1>2, <1>4, <1>8, HoldsSame
  <2>4. ASSUME NEW m \in Nodes PROVE LedgerOf(m)'
    <3> SUFFICES ASSUME Online(m)' PROVE LedgerOf(m)'
      BY DEF LedgerOf
    <3>1. Online(m) /\ table'[m] = table[m]
      BY <1>8 DEF Online
    <3>2. Owners(m)' = Owners(m)
      <4>1. \A h \in Groups : h \in Owners(m)' <=> h \in Owners(m)
        <5>1. CASE m = n
          BY <1>2, <1>6, <1>8, <2>3, <3>1, <5>1 DEF Owners, IsOurNode
        <5>2. CASE m # n
          BY <1>2, <2>3, <3>1, <5>2 DEF Owners
        <5> QED
          BY <5>1, <5>2
      <4> QED
        BY <4>1 DEF Owners
    <3> QED
      BY <3>1, <3>2 DEF LedgerInv, LedgerOf
  <2> QED
    BY <2>1, <2>2, <2>4 DEF LedgerInv
<1> QED
  BY <1>1, <1>7, <1>8 DEF PutOne

\* A message is received.
LEMMA RcvdLedger ==
  ASSUME Inv, LedgerInv, NEW t \in Threads, Moves(t), NEW n \in Nodes, NEW q \in Quotas,
         NEW v \in Versions, Rcvd(t, n, q, v)
  PROVE  LedgerInv'
<1>0. TypeOK /\ PlaceOf(t)
  BY DEF Inv, PlaceInv
<1>1. pc[t] = "idle" /\ back[t] = "idle" /\ UNCHANGED <<life, version, Nodeid, grp, back>>
  BY <1>0 DEF Rcvd, PlaceOf
<1>2. pc'[t] \in {"idle", "rcvdonline", "reset", "ends"}
  BY <1>0 DEF Rcvd, Goto, TypeOK
<1>3. \A g \in Groups, m \in Nodes : ~Gives(t, g, m) /\ ~Gives(t, g, m)'
  BY <1>1, <1>2 DEF Gives
<1>4. ASSUME Online(n)
      PROVE  \E b \in Account : b = Updated(table[n].base, q, v) /\ b.inuse = table[n].base.inuse
  <2>1. table[n].base \in Account
    BY <1>4, InvTable, ItemIs
  <2>2. Updated(table[n].base, q, v) \in Account
    BY <2>1, UpdatedType
  <2>3. Updated(table[n].base, q, v).inuse = table[n].base.inuse
    BY <2>1 DEF Updated, Account
  <2> QED
    BY <2>2, <2>3
<1>5. CASE Online(n) /\ WakeNode(t, n, [table[n] EXCEPT !.base = Updated(@, q, v)])
  <2>1. PICK b \in Account : b = Updated(table[n].base, q, v) /\ b.inuse = table[n].base.inuse
    BY <1>4, <1>5
  <2>2. PICK item : item = [table[n] EXCEPT !.base = b]
    OBVIOUS
  <2>3. WakeNode(t, n, item)
    BY <1>5, <2>1, <2>2
  <2>4. PICK O : O = Owners(n)
    OBVIOUS
  <2>5. IsFiniteSet(O) /\ b.inuse = SumOf(Cost, O) % Word
    BY <1>5, <2>1, <2>4 DEF LedgerInv, LedgerOf
  <2>6. \A h \in Woken(item) : stat[h][n] = "init" /\ h \in Groups
    BY <1>5, <2>2, WokenAre
  <2>7. ASSUME NEW h \in Groups \ (O \cup Woken(item)), Nodeid[h][n] = table[n].fence
        PROVE  ~Holds(h, n)'
    <3>1. stat'[h][n] = stat[h][n]
      <4>1. PICK H \in SUBSET Groups : H = Woken(item)
        BY <2>6
      <4>2. Settle(H, n, "got") /\ \A x \in H : stat[x][n] = "init"
        BY <2>3, <2>6, <4>1 DEF WakeNode
      <4>3. \A x \in Groups, m \in Nodes : stat'[x][m] = IF x \in H /\ m = n THEN "got" ELSE stat[x][m]
        BY <1>0, <4>2, SettleIs DEF Inv
      <4> QED
        BY <2>7, <4>1, <4>3
    <3>2. Holds(h, n)' <=> Holds(h, n)
      BY <1>1, <1>3, <3>1, HoldsSame
    <3> QED
      BY <2>4, <2>7, <3>2 DEF Owners
  <2>8. O \in SUBSET Owners(n) /\ O \subseteq Groups
    BY <2>4 DEF Owners
  <2>9. \A h \in Groups : Gives(t, h, n)' <=> Gives(t, h, n)
    BY <1>3
  <2>10. \A h \in Groups, m \in Nodes \ {n} : Gives(t, h, m)' <=> Gives(t, h, m)
    BY <1>3
  <2> QED
    BY <1>1, <1>2, <1>5, <2>2, <2>3, <2>5, <2>6, <2>7, <2>8, <2>9, <2>10, WakeLedger
<1>6. CASE TableKept /\ stat' = stat /\ pc'[t] # "put"
  BY <1>1, <1>3, <1>6, QuietLedger
<1>7. CASE Online(n) /\ table' = [table EXCEPT ![n].base = Updated(@, q, v)] /\ stat' = stat
  <2>1. PICK b \in Account : b = Updated(table[n].base, q, v) /\ b.inuse = table[n].base.inuse
    BY <1>4, <1>7
  <2>2. table' = [table EXCEPT ![n].base = b]
    BY <1>7, <2>1
  <2>3. TableKept
    BY <1>7, <2>1, <2>2, TableBase
  <2> QED
    BY <1>2, <1>6, <1>7, <2>3
<1>8. CASE UNCHANGED <<table, stat>>
  BY <1>2, <1>6, <1>8, TableSame
<1> QED
  BY <1>5, <1>7, <1>8 DEF Rcvd

-------------------------------------------------------------------------------
(* The ledgers always balance.                                                 *)

\* They do at first,
LEMMA LedgerInit ==
  ASSUME Init
  PROVE  LedgerInv
<1>1. \A n \in Nodes : ~Online(n)
  BY DEF Init, Online
<1>2. FenceInv
  BY <1>1 DEF Init, FenceInv
<1>3. GiveInv
  BY DEF Init, GiveInv
<1> QED
  BY <1>1, <1>2, <1>3 DEF LedgerInv, LedgerOf

\* after a stutter,
LEMMA LedgerStutter ==
  ASSUME Inv, LedgerInv, UNCHANGED vars
  PROVE  LedgerInv'
BY DEF vars, LedgerInv, FenceInv, GiveInv, LedgerOf, Owners, Holds, ToGiveBack, Online

\* and after every step.
LEMMA LedgerNext ==
  ASSUME Inv, LedgerInv, [Next]_vars
  PROVE  LedgerInv'
<1>1. CASE UNCHANGED vars
  BY <1>1, LedgerStutter
<1>2. CASE Rest
  BY <1>2, LedgerStutter DEF Rest
<1>3. TypeOK
  BY DEF Inv
<1>4. ASSUME NEW t \in Threads, Step(t) PROVE LedgerInv'
  <2>1. Moves(t)
    BY <1>3, <1>4, NextMoves
  <2>2. CASE OutOffline(t)
    <3>1. pc[t] = "outoffline" /\ id[t] \in Nodes
      BY <2>2 DEF OutOffline, Inv, PlaceInv, PlaceOf
    <3> QED
      BY <2>1, <2>2, <3>1, OfflineLedger DEF OutOffline
  <2> QED
    BY <1>4, <2>1, <2>2, QuietSteps, LifeSteps, GetOneLedger, PutOneLedger DEF Step
<1>5. ASSUME NEW t \in Threads, Put(t) PROVE LedgerInv'
  <2>1. Moves(t)
    BY <1>3, <1>5, NextMoves
  <2> QED
    BY <1>5, <2>1, LifeSteps DEF Put
<1>6. ASSUME NEW t \in Threads, Event(t) PROVE LedgerInv'
  <2>1. Moves(t)
    BY <1>3, <1>6, NextMoves
  <2>2. ASSUME NEW n \in Nodes, NodeOffline(t, n) PROVE LedgerInv'
    BY <2>1, <2>2, OfflineLedger DEF NodeOffline
  <2> QED
    BY <1>6, <2>1, <2>2, QuietSteps, LifeSteps, RcvdLedger DEF Event
<1> QED
  BY <1>1, <1>2, <1>4, <1>5, <1>6 DEF Next

\* In the manager's steps, which check and charge an account at once, the tokens in
\* use balance for any threads.
LEMMA StepsBalance == Spec => []FenceLedger
<1>1. Inv /\ LedgerInv /\ [Next]_vars => LedgerInv'
  BY LedgerNext
<1>2. Init => LedgerInv
  BY LedgerInit
<1>3. LedgerInv => FenceLedger
  BY DEF LedgerInv, LedgerOf, FenceLedger, Owners, SumOf
<1> QED
  BY <1>1, <1>2, <1>3, AlwaysInv, PTL DEF Spec

\* While one thread works on the nodes, the tokens in use of one that is online are
\* those of the groups that got them of this incarnation and have not given them
\* back, whatever nodes went and came back between its operations: try_alloc_from_base
\* and free_to_base pair up for each group, free_resource's fence test keeps a put
\* from an account it took nothing from, and resource_increased charges each request
\* it wakes once.  With one thread the code's check and charge have nothing between
\* them and are the one step that GetOne makes of them.
THEOREM AloneFencesBalance == Spec => []AloneFenceLedger
<1>1. FenceLedger => AloneFenceLedger
  BY DEF AloneFenceLedger
<1> QED
  BY <1>1, StepsBalance, PTL
===============================================================================
