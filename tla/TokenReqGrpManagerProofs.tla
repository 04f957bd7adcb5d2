----------------------- MODULE TokenReqGrpManagerProofs -----------------------
(***************************************************************************)
(* Proofs about TokenReqGrpManager, for any nodes, groups, wants, costs,   *)
(* threads and messages: type correctness, and that every request that     *)
(* waits is known to one place, each verdict is told once and nothing goes *)
(* on with a group that was freed.                                         *)
(***************************************************************************)
EXTENDS TokenReqGrpManager, FiniteSums, SequenceTheorems

\* A bounded set of numbers has a greatest, which Max returns.
LEMMA GreatestNat ==
  ASSUME NEW n \in Nat, NEW S, S \subseteq 0..n, S # {}
  PROVE  Max(S) \in S
<1> DEFINE T == {k \in Nat : \E s \in S : k = n - s}
<1>1. T # {}
  <2>1. PICK s \in S : s \in 0..n
    OBVIOUS
  <2>2. n - s \in T
    BY <2>1
  <2> QED
    BY <2>2
<1>2. PICK x \in T : \A y \in T : x <= y
  <2> HIDE DEF T
  <2>1. T \subseteq Nat
    BY DEF T
  <2> QED
    BY <1>1, <2>1, LeastNat
<1>3. PICK g \in S : x = n - g
  BY <1>2
<1>4. \A s \in S : g >= s
  <2> TAKE s \in S
  <2>1. s \in 0..n /\ g \in 0..n
    OBVIOUS
  <2>2. n - s \in T
    BY <2>1
  <2>3. x <= n - s
    BY <1>2, <2>2
  <2> QED
    BY <1>3, <2>1, <2>3
<1> QED
  BY <1>4 DEF Max

-------------------------------------------------------------------------------
(* The account of a node keeps its type.                                       *)

\* Tokens are closed under the arithmetic of the accounts.
LEMMA TokensAre == /\ Word \in Nat /\ MinRs \in Tokens /\ RespondStep \in Tokens
                   /\ \A x, y \in Tokens : Plus(x, y) \in Tokens /\ Minus(x, y) \in Tokens
BY WordAssumption DEF Tokens, Plus, Minus

\* A new account is one.
LEMMA FreshType == Fresh \in Account
<1>1. 0 \in Tokens
  BY WordAssumption DEF Tokens
<1> QED
  BY <1>1, TokensAre DEF Fresh, Account

\* A quota that steps down is a number of tokens.
LEMMA SteppedDownType ==
  ASSUME NEW b \in Account, NEW target \in Tokens
  PROVE  SteppedDown(b, target) \in Tokens
BY TokensAre DEF SteppedDown, Account

\* So it is when a request is charged,
LEMMA ChargedType ==
  ASSUME NEW b \in Account, NEW c \in Tokens
  PROVE  Charged(b, c) \in Account
<1>1. SteppedDown(b, b.quota_new) \in Tokens /\ Plus(b.inuse, c) \in Tokens
  BY TokensAre, SteppedDownType DEF Account
<1> QED
  BY <1>1 DEF Charged, Account

\* when tokens come back,
LEMMA FreedType ==
  ASSUME NEW b \in Account, NEW c \in Tokens
  PROVE  Freed(b, c) \in Account
<1>1. Minus(b.inuse, c) \in Tokens
  BY TokensAre DEF Account
<1> QED
  BY <1>1 DEF Freed, Account

\* when a quota is received
LEMMA UpdatedType ==
  ASSUME NEW b \in Account, NEW q \in Quotas, NEW v \in Versions
  PROVE  Updated(b, q, v) \in Account
<1>1. q \in Tokens /\ v \in Nat /\ SteppedDown(b, q) \in Tokens
  BY MessageAssumption, SteppedDownType
<1>2. PICK d \in Tokens : d = CASE b.quota < q -> q
                                [] b.quota > q -> SteppedDown(b, q)
                                [] OTHER -> b.quota
  <2>1. CASE b.quota < q
    BY <1>1, <2>1 DEF Account, Tokens
  <2>2. CASE b.quota > q
    BY <1>1, <2>2 DEF Account, Tokens
  <2>3. CASE b.quota = q
    BY <1>1, <2>3 DEF Account, Tokens
  <2> QED
    BY <1>1, <2>1, <2>2, <2>3, WordAssumption DEF Account, Tokens
<1>3. PICK m \in Tokens : m = IF b.quota = q THEN b.quota_new ELSE q
  BY <1>1 DEF Account
<1>4. Updated(b, q, v) = IF v <= b.version THEN b
                         ELSE [b EXCEPT !.version = v, !.quota_new = m, !.quota = d]
  BY <1>2, <1>3 DEF Updated
<1> QED
  BY <1>1, <1>4 DEF Account

\* and when the node is reset.
LEMMA ResetType ==
  ASSUME NEW b \in Account
  PROVE  ResetAccount(b) \in Account
BY TokensAre DEF ResetAccount, Account

\* The cost of a group is a number of tokens.
LEMMA CostType == \A g \in Groups : Cost[g] \in Tokens
BY WantAssumption, WordAssumption DEF Tokens
-------------------------------------------------------------------------------
(* The loop of resource_increased over a queue.                                *)

Charging(item, f, m) ==
  f = [k \in 0..m |-> IF k = 0 THEN item.base ELSE Charged(f[k - 1], Cost[item.queue[k]])]

\* The recursive definition of the accounts has a solution: the shortest part of the
\* queue without one would be one longer than a part with one.
LEMMA ChargingExists ==
  ASSUME NEW item \in Items
  PROVE  \E f : Charging(item, f, Len(item.queue))
<1> DEFINE T == {m \in 0..Len(item.queue) : ~ \E f : Charging(item, f, m)}
<1>1. Len(item.queue) \in Nat
  BY DEF Items
<1>2. SUFFICES ASSUME T # {} PROVE FALSE
  BY <1>1
<1>3. PICK m \in T : \A y \in T : m <= y
  <2> HIDE DEF T
  <2>1. T \subseteq Nat
    BY <1>1 DEF T
  <2> QED
    BY <1>2, <2>1, LeastNat
<1>4. m # 0
  <2>1. Charging(item, [k \in 0..0 |-> item.base], 0)
    BY DEF Charging
  <2> QED
    BY <2>1
<1>5. m \in Nat /\ m - 1 \in 0..Len(item.queue) /\ m - 1 \notin T
  BY <1>1, <1>3, <1>4
<1>6. PICK f : Charging(item, f, m - 1)
  BY <1>5
<1> DEFINE h == [k \in 0..m |-> IF k = m THEN Charged(f[m - 1], Cost[item.queue[m]]) ELSE f[k]]
<1>7. \A k \in 0..m : h[k] = IF k = 0 THEN item.base ELSE Charged(h[k - 1], Cost[item.queue[k]])
  <2> TAKE k \in 0..m
  <2>1. CASE k = m
    <3>1. h[k] = Charged(f[m - 1], Cost[item.queue[m]]) /\ h[m - 1] = f[m - 1]
      BY <1>4, <1>5, <2>1
    <3> QED
      BY <1>4, <2>1, <3>1
  <2>2. CASE k # m
    <3>1. k \in 0..(m - 1) /\ h[k] = f[k] /\ (k # 0 => h[k - 1] = f[k - 1])
      BY <1>5, <2>2
    <3>2. f[k] = IF k = 0 THEN item.base ELSE Charged(f[k - 1], Cost[item.queue[k]])
      BY <1>6, <3>1 DEF Charging
    <3> QED
      BY <3>1, <3>2
  <2> QED
    BY <2>1, <2>2
<1>8. Charging(item, h, m)
  BY <1>7 DEF Charging
<1> QED
  BY <1>3, <1>8

\* So what is charged for any part of the queue is an account.
LEMMA ChargedFirstType ==
  ASSUME NEW item \in Items, NEW n \in 0..Len(item.queue)
  PROVE  ChargedFirst(item)[n] \in Account
<1> DEFINE a == ChargedFirst(item)
           T == {m \in 0..Len(item.queue) : a[m] \notin Account}
<1>1. Len(item.queue) \in Nat /\ item.base \in Account /\ item.queue \in Seq(Groups)
  BY DEF Items
<1>2. Charging(item, a, Len(item.queue))
  BY ChargingExists DEF ChargedFirst, Charging
<1> HIDE DEF a
<1>3. SUFFICES ASSUME T # {} PROVE FALSE
  BY DEF a
<1>4. PICK m \in T : \A y \in T : m <= y
  <2> HIDE DEF T
  <2>1. T \subseteq Nat
    BY <1>1 DEF T
  <2> QED
    BY <1>3, <2>1, LeastNat
<1>5. a[m] = IF m = 0 THEN item.base ELSE Charged(a[m - 1], Cost[item.queue[m]])
  BY <1>2 DEF Charging
<1>6. m # 0 /\ m \in Nat /\ m \in 1..Len(item.queue)
  BY <1>1, <1>4, <1>5
<1>7. a[m - 1] \in Account
  BY <1>1, <1>4, <1>6
<1>8. Cost[item.queue[m]] \in Tokens
  BY <1>1, <1>6, CostType
<1> QED
  BY <1>4, <1>5, <1>6, <1>7, <1>8, ChargedType

\* The loop ends within the queue.
LEMMA WokenCountType ==
  ASSUME NEW item \in Items
  PROVE  WokenCount(item) \in 0..Len(item.queue)
<1> DEFINE FitsUpTo(k) == \A i \in 1..k : Fits(ChargedFirst(item)[i - 1], Cost[item.queue[i]])
           S == {k \in 0..Len(item.queue) : FitsUpTo(k)}
<1>1. Len(item.queue) \in Nat
  BY DEF Items
<1>2. 0 \in S
  BY <1>1
<1>3. WokenCount(item) = Max(S)
  BY DEF WokenCount
<1> HIDE DEF S
<1>4. S \subseteq 0..Len(item.queue)
  BY DEF S
<1>5. Max(S) \in S
  BY <1>1, <1>2, <1>4, GreatestNat
<1> QED
  BY <1>3, <1>4, <1>5

\* What is woken is a prefix of the queue, and the rest stays.
LEMMA WakenIs ==
  ASSUME NEW item \in Items
  PROVE  \E w \in 0..Len(item.queue) :
           /\ Woken(item) = {item.queue[i] : i \in 1..w}
           /\ WakenItem(item) \in Items
           /\ WakenItem(item).fence = item.fence
           /\ Len(WakenItem(item).queue) = Len(item.queue) - w
           /\ \A i \in 1..(Len(item.queue) - w) : WakenItem(item).queue[i] = item.queue[i + w]
<1> DEFINE w == WokenCount(item)
           rest == SubSeq(item.queue, w + 1, Len(item.queue))
<1>1. /\ w \in 0..Len(item.queue) /\ item.queue \in Seq(Groups) /\ Len(item.queue) \in Nat
      /\ ChargedFirst(item)[w] \in Account
  BY WokenCountType, ChargedFirstType DEF Items
<1>2. WakenItem(item) = [item EXCEPT !.base = ChargedFirst(item)[w], !.queue = rest]
  BY DEF WakenItem
<1>3. Woken(item) = {item.queue[i] : i \in 1..w}
  BY DEF Woken
<1> HIDE DEF w
<1>4. /\ rest \in Seq(Groups) /\ Len(rest) = Len(item.queue) - w
      /\ \A i \in 1..(Len(item.queue) - w) : rest[i] = item.queue[i + w]
  BY <1>1
<1> HIDE DEF rest
<1>5. WakenItem(item) \in Items /\ WakenItem(item).fence = item.fence /\ WakenItem(item).queue = rest
  BY <1>1, <1>2, <1>4 DEF Items
<1> QED
  BY <1>1, <1>3, <1>4, <1>5

-------------------------------------------------------------------------------
(* The inductive invariant.                                                    *)

Getter(t) == pc[t] \in {"in", "inonline", "get"}
Putter(t) == \/ pc[t] \in {"out", "outoffline", "put", "free"}
             \/ pc[t] = "ends" /\ back[t] # "idle"

\* What a thread has in each place, and how its group lives there.
PlaceOf(t) ==
  /\ grp[t] \in Groups <=> Getter(t) \/ Putter(t)
  /\ pc[t] \in {"inonline", "outoffline", "rcvdonline", "reset"} => id[t] \in Nodes
  /\ pc[t] \notin {"put", "ends"} => ends[t] = {}
  /\ pc[t] # "ends" => back[t] = "idle"
  /\ pc[t] \in {"in", "inonline"} => life[grp[t]] = "live" /\ ret[t] = "PENDING"
  /\ pc[t] = "get" => /\ todo[t] \subseteq Want[grp[t]]
                      /\ life[grp[t]] # "new"
                      /\ todo[t] # {} \/ ret[t] # "PENDING" => life[grp[t]] = "live"
                      /\ ret[t] # "PENDING" => todo[t] = {}
  /\ Putter(t) => life[grp[t]] = "putting" /\ ret[t] \in {"PENDING", "FAILEDNODE"}
  /\ ~Getter(t) /\ ~Putter(t) => ret[t] = "PENDING"

\* A group is got by one thread and put by one thread.
Apart(t, u) ==
  grp[t] = grp[u] /\ ((Getter(t) /\ Getter(u)) \/ (Putter(t) /\ Putter(u))) => t = u

PlaceInv == (\A t \in Threads : PlaceOf(t)) /\ \A t, u \in Threads : Apart(t, u)

\* Requests are made for all the nodes that are wanted, and wait only while the group lives.
StatInv == \A g \in Groups, n \in Nodes :
  /\ stat[g][n] = "init" => life[g] = "live"
  /\ stat[g][n] # "none" => n \in Want[g] /\ \A m \in Want[g] : stat[g][m] # "none"
  /\ life[g] \in {"live", "putting"} /\ n \in Want[g] => stat[g][n] # "none"
  /\ life[g] = "new" => stat[g][n] = "none"

\* t has still to ask node n for the tokens of g.
Asks(t, g, n) ==
  /\ grp[t] = g
  /\ \/ pc[t] \in {"in", "inonline"} /\ n \in Want[g]
     \/ pc[t] = "get" /\ n \in todo[t]

\* Popped(n), what pop_all would take, is the set of groups in the queue.
OnceQueued == \A n \in Nodes : Online(n) =>
  \A i, j \in DOMAIN table[n].queue : table[n].queue[i] = table[n].queue[j] => i = j

WaitOf(g, n) ==
  /\ g \in Popped(n) => stat[g][n] = "init" /\ Nodeid[g][n] = table[n].fence
  /\ \A t \in Threads : Asks(t, g, n) => stat[g][n] = "init" /\ g \notin Popped(n)
  /\ stat[g][n] = "init" => g \in Popped(n) \/ \E t \in Threads : Asks(t, g, n)

WaitInv == OnceQueued /\ \A g \in Groups, n \in Nodes : WaitOf(g, n)

Owes(t, g) == g \in ends[t] \/ (ret[t] # "PENDING" /\ grp[t] = g)

ToldOf(g) ==
  /\ told[g] \in {0, 1}
  /\ \A t \in Threads : Owes(t, g) => told[g] = 0
  /\ \A t, u \in Threads : Owes(t, g) /\ Owes(u, g) => t = u
  /\ Settled(g) <=> told[g] = 1 \/ \E t \in Threads : Owes(t, g)
  /\ \A t \in Threads : g \in ends[t] => life[g] = "live"

ToldInv == \A g \in Groups : ToldOf(g)

Inv == TypeOK /\ PlaceInv /\ StatInv /\ WaitInv /\ ToldInv

\* The invariant holds at first.
LEMMA InitInv == Init => Inv
<1> SUFFICES ASSUME Init PROVE Inv
  OBVIOUS
<1>1. TypeOK
  BY DEF Init, TypeOK, Errs, Places
<1>2. PlaceInv
  BY NullAssumption DEF Init, PlaceInv, PlaceOf, Apart, Getter, Putter
<1>3. StatInv
  BY DEF Init, StatInv
<1>4. WaitInv
  BY DEF Init, WaitInv, WaitOf, OnceQueued, Popped, Asks, Online
<1>5. ToldInv
  BY DEF Init, ToldInv, ToldOf, Owes, Settled, Asked
<1> QED
  BY <1>1, <1>2, <1>3, <1>4, <1>5 DEF Inv

-------------------------------------------------------------------------------
(* What each operation does to the queues.                                     *)

\* Node n has the groups S in its queue now; the other queues are as they were, and
\* a node that stays online keeps its fence.
QueueStep(n, S) ==
  /\ table' \in [Nodes -> Items \cup {NoItem}]
  /\ OnceQueued'
  /\ Popped(n)' = S
  /\ \A m \in Nodes \ {n} : Popped(m)' = Popped(m)
  /\ \A m \in Nodes : Online(m) /\ Online(m)' => table'[m].fence = table[m].fence

\* The table is one of items.
TableInv == table \in [Nodes -> Items \cup {NoItem}] /\ OnceQueued

\* An item is not the lack of one.
LEMMA NoItemIsNone == \A item \in Items : item # NoItem
<1> SUFFICES ASSUME NEW item \in Items PROVE item # NoItem
  OBVIOUS
<1>1. item.fence \in Nat /\ NoItem.fence = -1
  BY DEF Items, NoItem
<1> QED
  BY <1>1

\* What the table holds of a node.
LEMMA ItemIs ==
  ASSUME TableInv, NEW n \in Nodes
  PROVE  /\ Online(n) <=> table[n] \in Items
         /\ Online(n) => /\ table[n].base \in Account /\ table[n].fence \in Nat
                         /\ table[n].queue \in Seq(Groups)
                         /\ DOMAIN table[n].queue = 1..Len(table[n].queue)
                         /\ Len(table[n].queue) \in Nat
                         /\ \A i \in DOMAIN table[n].queue : table[n].queue[i] \in Groups
         /\ Popped(n) \subseteq Groups
<1>1. NoItem \notin Items
  BY NoItemIsNone
<1>2. Online(n) <=> table[n] \in Items
  BY <1>1 DEF Online, TableInv
<1>3. ASSUME Online(n)
      PROVE  /\ table[n].base \in Account /\ table[n].fence \in Nat
             /\ table[n].queue \in Seq(Groups)
             /\ DOMAIN table[n].queue = 1..Len(table[n].queue)
             /\ Len(table[n].queue) \in Nat
             /\ \A i \in DOMAIN table[n].queue : table[n].queue[i] \in Groups
  BY <1>2, <1>3 DEF Items
<1> QED
  BY <1>2, <1>3 DEF Popped

\* Nothing moves.
LEMMA SameQueues ==
  ASSUME TableInv, NEW n \in Nodes, table' = table
  PROVE  QueueStep(n, Popped(n))
BY DEF QueueStep, TableInv, OnceQueued, Popped, Online

\* The account of a node changes.
LEMMA NewBase ==
  ASSUME TableInv, NEW n \in Nodes, Online(n), NEW b \in Account,
         table' = [table EXCEPT ![n].base = b]
  PROVE  QueueStep(n, Popped(n))
<1>1. table[n] \in Items
  BY ItemIs
<1>2. [table[n] EXCEPT !.base = b] \in Items
  BY <1>1 DEF Items
<1> DEFINE item == [table[n] EXCEPT !.base = b]
<1>3. item \in Items /\ item.queue = table[n].queue /\ item.fence = table[n].fence /\ item # NoItem
  <2>1. item.queue = table[n].queue /\ item.fence = table[n].fence
    BY <1>1 DEF Items
  <2>2. item # NoItem
    BY <1>2, NoItemIsNone
  <2> QED
    BY <1>2, <2>1, <2>2
<1>4. table' = [table EXCEPT ![n] = item]
  OBVIOUS
<1> HIDE DEF item
<1>5. table'[n] = item /\ \A m \in Nodes \ {n} : table'[m] = table[m]
  BY <1>4 DEF TableInv
<1>6. table' \in [Nodes -> Items \cup {NoItem}]
  BY <1>3, <1>4 DEF TableInv
<1>7. OnceQueued'
  BY <1>3, <1>5 DEF OnceQueued, Online, TableInv
<1> QED
  BY <1>3, <1>5, <1>6, <1>7 DEF QueueStep, Popped, Online

\* A node comes online, or was so and stays.
LEMMA OnlineQueues ==
  ASSUME TableInv, version \in Nat, NEW n \in Nodes, TakeOnline(n)
  PROVE  QueueStep(n, Popped(n)) /\ version' \in Nat
<1>1. CASE table' = table
  BY <1>1, SameQueues DEF TakeOnline
<1> DEFINE item == [base |-> Fresh, queue |-> <<>>, fence |-> version]
<1>2. CASE ~Online(n) /\ table' = [table EXCEPT ![n] = item] /\ version' = version + 1
  <2>1. item \in Items /\ item.queue = <<>> /\ item # NoItem
    <3>1. item.fence \in Nat /\ NoItem.fence = -1
      BY DEF NoItem
    <3> QED
      BY <3>1, FreshType DEF Items
  <2> HIDE DEF item
  <2>2. table'[n] = item /\ \A m \in Nodes \ {n} : table'[m] = table[m]
    BY <1>2 DEF TableInv
  <2>3. table' \in [Nodes -> Items \cup {NoItem}]
    BY <1>2, <2>1 DEF TableInv
  <2>4. OnceQueued'
    BY <2>1, <2>2 DEF OnceQueued, Online, TableInv
  <2>5. Popped(n) = {} /\ Popped(n)' = {}
    BY <1>2, <2>1, <2>2 DEF Popped, Online
  <2> QED
    BY <1>2, <2>2, <2>3, <2>4, <2>5 DEF QueueStep, Popped, Online
<1> QED
  BY <1>1, <1>2 DEF TakeOnline

\* A node goes.
LEMMA OfflineQueues ==
  ASSUME TableInv, NEW n \in Nodes, table' = [table EXCEPT ![n] = NoItem]
  PROVE  QueueStep(n, {})
<1>1. table'[n] = NoItem /\ \A m \in Nodes \ {n} : table'[m] = table[m]
  BY DEF TableInv
<1>2. table' \in [Nodes -> Items \cup {NoItem}]
  BY DEF TableInv
<1> QED
  BY <1>1, <1>2 DEF QueueStep, Popped, Online, OnceQueued, TableInv

\* A request is queued.
LEMMA PushQueues ==
  ASSUME TableInv, NEW n \in Nodes, Online(n), NEW g \in Groups \ Popped(n),
         table' = [table EXCEPT ![n].queue = Append(@, g)]
  PROVE  QueueStep(n, Popped(n) \cup {g})
<1> DEFINE q == table[n].queue
           item == [table[n] EXCEPT !.queue = Append(q, g)]
<1>1. table[n] \in Items /\ q \in Seq(Groups) /\ Len(q) \in Nat
  BY ItemIs
<1>2. item \in Items /\ item.queue = Append(q, g) /\ item.fence = table[n].fence /\ item # NoItem
  <2>1. PICK r \in Seq(Groups) : r = Append(q, g)
    <3>1. g \in Groups
      OBVIOUS
    <3>2. \A s \in Seq(Groups) : Append(s, g) \in Seq(Groups)
      BY <3>1
    <3> QED
      BY <1>1, <3>2
  <2>2. [table[n] EXCEPT !.queue = r] \in Items
    BY <1>1, <2>1 DEF Items
  <2>3. item \in Items /\ item.queue = Append(q, g) /\ item.fence = table[n].fence
    BY <1>1, <2>1, <2>2 DEF Items
  <2> HIDE DEF item
  <2> QED
    BY <2>3, NoItemIsNone
<1>3. /\ DOMAIN Append(q, g) = 1..(Len(q) + 1) /\ DOMAIN q = 1..Len(q)
      /\ Append(q, g)[Len(q) + 1] = g /\ \A i \in 1..Len(q) : Append(q, g)[i] = q[i]
  BY <1>1
<1>4. table' = [table EXCEPT ![n] = item]
  OBVIOUS
<1> HIDE DEF item
<1>5. table'[n] = item /\ \A m \in Nodes \ {n} : table'[m] = table[m]
  BY <1>4 DEF TableInv
<1>6. table' \in [Nodes -> Items \cup {NoItem}]
  BY <1>2, <1>4 DEF TableInv
<1>7. Popped(n) = {q[i] : i \in DOMAIN q}
  BY DEF Popped
<1>8. Popped(n)' = Popped(n) \cup {g}
  <2>1. Popped(n)' = {Append(q, g)[i] : i \in DOMAIN Append(q, g)}
    BY <1>2, <1>5 DEF Popped, Online
  <2> QED
    BY <1>1, <1>3, <1>7, <2>1
<1>9. OnceQueued'
  <2>1. ASSUME NEW i \in DOMAIN Append(q, g), NEW j \in DOMAIN Append(q, g),
               Append(q, g)[i] = Append(q, g)[j]
        PROVE  i = j
    <3>1. \A k, l \in DOMAIN q : q[k] = q[l] => k = l
      BY DEF TableInv, OnceQueued
    <3>2. \A k \in DOMAIN q : q[k] # g
      BY <1>7
    <3> QED
      BY <1>1, <1>3, <2>1, <3>1, <3>2
  <2> QED
    BY <1>2, <1>5, <2>1 DEF OnceQueued, Online, TableInv
<1>10. \A m \in Nodes \ {n} : Popped(m)' = Popped(m)
  BY <1>5 DEF Popped, Online
<1>11. \A m \in Nodes : Online(m) /\ Online(m)' => table'[m].fence = table[m].fence
  BY <1>2, <1>5
<1> QED
  BY <1>6, <1>8, <1>9, <1>10, <1>11 DEF QueueStep

\* The front of a queue is woken.
LEMMA WakeQueues ==
  ASSUME TableInv, NEW n \in Nodes, Online(n), NEW item \in Items,
         item.queue = table[n].queue, item.fence = table[n].fence,
         table' = [table EXCEPT ![n] = WakenItem(item)]
  PROVE  QueueStep(n, Popped(n) \ Woken(item)) /\ Woken(item) \subseteq Popped(n)
<1> DEFINE q == table[n].queue
<1>0. PICK w \in 0..Len(item.queue) :
           /\ Woken(item) = {item.queue[i] : i \in 1..w}
           /\ WakenItem(item) \in Items
           /\ WakenItem(item).fence = item.fence
           /\ Len(WakenItem(item).queue) = Len(item.queue) - w
           /\ \A i \in 1..(Len(item.queue) - w) : WakenItem(item).queue[i] = item.queue[i + w]
  BY WakenIs
<1>1. /\ w \in 0..Len(q)
      /\ Woken(item) = {q[i] : i \in 1..w}
      /\ WakenItem(item) \in Items
      /\ WakenItem(item).fence = item.fence
      /\ Len(WakenItem(item).queue) = Len(q) - w
      /\ \A i \in 1..(Len(q) - w) : WakenItem(item).queue[i] = q[i + w]
  BY <1>0
<1> DEFINE new == WakenItem(item)
<1>2. Len(q) \in Nat /\ DOMAIN q = 1..Len(q) /\ DOMAIN new.queue = 1..(Len(q) - w)
  <2>1. new.queue \in Seq(Groups)
    BY <1>1 DEF Items
  <2> QED
    BY <1>1, <2>1, ItemIs
<1> DEFINE r == new.queue
<1>3. new \in Items /\ new.fence = table[n].fence /\ new # NoItem
  BY <1>1, NoItemIsNone
<1>r. \A i \in DOMAIN r : r[i] = q[i + w]
  BY <1>1, <1>2
<1>s. Woken(item) = {q[i] : i \in 1..w}
  BY <1>1
<1> HIDE DEF r
<1>w. w \in Nat /\ Len(q) \in Nat /\ w <= Len(q) /\ DOMAIN q = 1..Len(q)
  BY <1>0, <1>2
<1>n. r = new.queue
  BY DEF r
<1> HIDE DEF new
<1>5. table'[n] = new /\ \A m \in Nodes \ {n} : table'[m] = table[m]
  BY DEF TableInv, new
<1>6. table' \in [Nodes -> Items \cup {NoItem}]
  BY <1>3 DEF TableInv, new
<1>7. Popped(n) = {q[i] : i \in DOMAIN q} /\ \A k, l \in DOMAIN q : q[k] = q[l] => k = l
  BY DEF Popped, TableInv, OnceQueued
<1>8. Popped(n)' = {r[i] : i \in DOMAIN r} /\ DOMAIN r = 1..(Len(q) - w)
  BY <1>2, <1>3, <1>5, <1>n DEF Popped, Online
<1> HIDE DEF q
<1>9. Popped(n)' = Popped(n) \ Woken(item)
  <2>1. ASSUME NEW i \in DOMAIN r PROVE r[i] \in Popped(n) \ Woken(item)
    <3>1. i + w \in DOMAIN q /\ i + w \notin 1..w /\ r[i] = q[i + w] /\ 1..w \subseteq DOMAIN q
      BY <1>2, <1>8, <1>r
    <3> QED
      BY <1>7, <1>s, <3>1
  <2>2. ASSUME NEW i \in DOMAIN q, q[i] \notin Woken(item) PROVE q[i] \in Popped(n)'
    <3>1. i \notin 1..w
      BY <1>s, <2>2
    <3>2. i - w \in DOMAIN r /\ i = (i - w) + w
      BY <1>2, <1>8, <3>1
    <3> QED
      BY <1>8, <1>r, <3>2
  <2> QED
    BY <1>7, <1>8, <2>1, <2>2
<1>10. Woken(item) \subseteq Popped(n)
  <2>1. 1..w \subseteq DOMAIN q
    BY <1>w
  <2> QED
    BY <1>7, <1>s, <2>1
<1>11. OnceQueued'
  <2>1. ASSUME NEW i \in DOMAIN r, NEW j \in DOMAIN r, r[i] = r[j] PROVE i = j
    <3>1. i + w \in DOMAIN q /\ j + w \in DOMAIN q /\ q[i + w] = q[j + w]
      BY <1>2, <1>8, <1>r, <2>1
    <3>2. i + w = j + w
      BY <1>7, <3>1
    <3> QED
      BY <1>2, <1>8, <3>2
  <2> QED
    BY <1>n, <1>5, <2>1 DEF OnceQueued, Online, TableInv
<1> QED
  BY <1>3, <1>5, <1>6, <1>9, <1>10, <1>11 DEF QueueStep, Popped, Online

-------------------------------------------------------------------------------
(* What settling requests does, and what leaves each part as it is.            *)

\* The requests of the groups H on n are settled: H loses nobody else's, and the
\* groups it ends are those that are settled now and were not.
LEMMA SettleIs ==
  ASSUME TypeOK, StatInv, NEW n \in Nodes, NEW H, H \subseteq Groups,
         \A g \in H : stat[g][n] = "init",
         NEW how \in {"got", "failed"}, Settle(H, n, how)
  PROVE  /\ stat' \in [Groups -> [Nodes -> {"none", "init", "got", "failed"}]]
         /\ err' \in [Groups -> Errs]
         /\ \A g \in Groups, m \in Nodes :
              stat'[g][m] = IF g \in H /\ m = n THEN how ELSE stat[g][m]
         /\ FinalAfter(H, n, how) \subseteq H
         /\ \A g \in H : ~Settled(g) /\ life[g] = "live"
         /\ \A g \in Groups : Settled(g)' <=> Settled(g) \/ g \in FinalAfter(H, n, how)
         /\ life' = life => StatInv'
<1> DEFINE s == SettledStat(H, n, how)
<1>1. stat \in [Groups -> [Nodes -> {"none", "init", "got", "failed"}]] /\ err \in [Groups -> Errs]
  BY DEF TypeOK
<1>2. s \in [Groups -> [Nodes -> {"none", "init", "got", "failed"}]]
  BY <1>1 DEF SettledStat
<1>3. \A g \in Groups, m \in Nodes : s[g][m] = IF g \in H /\ m = n THEN how ELSE stat[g][m]
  BY <1>1 DEF SettledStat
<1>4. stat' = s /\ FinalAfter(H, n, how) = Final(H, s)
  BY DEF Settle, FinalAfter
<1> HIDE DEF s
<1>5. err' \in [Groups -> Errs]
  <2>1. \A g : VerdictOf(g, s) \in Errs
    BY DEF VerdictOf, Errs
  <2>2. err' = [g \in Groups |-> IF g \in Final(H, s) THEN VerdictOf(g, s) ELSE err[g]]
    BY DEF Settle, s
  <2> QED
    BY <1>1, <2>1, <2>2
<1>6. \A g \in H : ~Settled(g) /\ life[g] = "live"
  BY DEF Settled, StatInv
<1>7. ASSUME NEW g \in Groups
      PROVE  Settled(g)' <=> Settled(g) \/ g \in Final(H, s)
  <2>1. CASE g \notin H
    <3>1. \A m \in Nodes : stat'[g][m] = stat[g][m]
      BY <1>3, <1>4, <2>1
    <3> QED
      BY <2>1, <3>1 DEF Settled, Asked, Final
  <2>2. CASE g \in H
    <3>1. Settled(g)' <=> \A m \in Nodes : s[g][m] # "init"
      BY <1>3, <1>4, <2>2 DEF Settled, Asked
    <3>2. \A m \in Nodes : s[g][m] = "init" => m \in Want[g]
      BY <1>3 DEF StatInv
    <3>3. Want[g] \subseteq Nodes
      BY WantAssumption
    <3> QED
      BY <1>6, <2>2, <3>1, <3>2, <3>3 DEF Final
  <2> QED
    BY <2>1, <2>2
<1>8. ASSUME life' = life PROVE StatInv'
  <2>1. ASSUME NEW g \in Groups, NEW m \in Nodes
        PROVE  /\ stat'[g][m] = "init" => stat[g][m] = "init"
               /\ stat'[g][m] = "none" <=> stat[g][m] = "none"
    BY <1>3, <1>4
  <2>2. \A g \in Groups : Want[g] \subseteq Nodes
    BY WantAssumption
  <2> QED
    BY <1>8, <2>1, <2>2 DEF StatInv
<1> QED
  BY <1>2, <1>3, <1>4, <1>5, <1>6, <1>7, <1>8 DEF Final

\* The groups H leave the queue of n as their requests on n are settled; who has
\* still to ask for what is the same.
LEMMA WaitKept ==
  ASSUME WaitInv, NEW n \in Nodes, NEW H, H \subseteq Popped(n), QueueStep(n, Popped(n) \ H),
         NEW how \in {"got", "failed"},
         \A g \in Groups, m \in Nodes : stat'[g][m] = IF g \in H /\ m = n THEN how ELSE stat[g][m],
         Nodeid' = Nodeid,
         \A t \in Threads, g \in Groups, m \in Nodes : Asks(t, g, m)' <=> Asks(t, g, m)
  PROVE  WaitInv'
<1> SUFFICES ASSUME NEW g \in Groups, NEW m \in Nodes PROVE WaitOf(g, m)'
  BY DEF WaitInv, QueueStep
<1>1. WaitOf(g, m)
  BY DEF WaitInv
<1>2. g \in Popped(m)' <=> g \in Popped(m) /\ ~(g \in H /\ m = n)
  BY DEF QueueStep
<1>3. g \in Popped(m)' => Online(m) /\ Online(m)'
  BY <1>2 DEF Popped
<1>4. g \in Popped(m)' => stat'[g][m] = "init" /\ Nodeid'[g][m] = table'[m].fence
  BY <1>1, <1>2, <1>3 DEF WaitOf, QueueStep
<1>5. \A t \in Threads : Asks(t, g, m)' => stat'[g][m] = "init" /\ g \notin Popped(m)'
  BY <1>1, <1>2 DEF WaitOf
<1>6. stat'[g][m] = "init" => g \in Popped(m)' \/ \E t \in Threads : Asks(t, g, m)'
  BY <1>1, <1>2 DEF WaitOf
<1> QED
  BY <1>4, <1>5, <1>6 DEF WaitOf

\* The same where no request is settled.
LEMMA WaitSame ==
  ASSUME WaitInv, NEW n \in Nodes, QueueStep(n, Popped(n)), stat' = stat, Nodeid' = Nodeid,
         \A t \in Threads, g \in Groups, m \in Nodes : Asks(t, g, m)' <=> Asks(t, g, m)
  PROVE  WaitInv'
<1> SUFFICES ASSUME NEW g \in Groups, NEW m \in Nodes PROVE WaitOf(g, m)'
  BY DEF WaitInv, QueueStep
<1>1. WaitOf(g, m)
  BY DEF WaitInv
<1>2. Popped(m)' = Popped(m)
  BY DEF QueueStep
<1>3. g \in Popped(m)' => Online(m) /\ Online(m)'
  BY <1>2 DEF Popped
<1>4. g \in Popped(m)' => stat'[g][m] = "init" /\ Nodeid'[g][m] = table'[m].fence
  BY <1>1, <1>2, <1>3 DEF WaitOf, QueueStep
<1> QED
  BY <1>1, <1>2, <1>4 DEF WaitOf

\* The same where no queue moves at all.
LEMMA WaitQuiet ==
  ASSUME WaitInv, table' = table, stat' = stat, Nodeid' = Nodeid,
         \A t \in Threads, g \in Groups, m \in Nodes : Asks(t, g, m)' <=> Asks(t, g, m)
  PROVE  WaitInv'
BY DEF WaitInv, WaitOf, OnceQueued, Popped, Online

\* A thread takes upon itself to tell the groups that its step settled.
LEMMA ToldOwed ==
  ASSUME ToldInv, NEW t \in Threads, NEW F, F \subseteq Groups,
         \A g \in F : ~Settled(g) /\ life[g] = "live",
         \A g \in Groups : Settled(g)' <=> Settled(g) \/ g \in F,
         \A u \in Threads, g \in Groups : Owes(u, g)' <=> Owes(u, g) \/ (u = t /\ g \in F),
         \A u \in Threads, g \in Groups : g \in ends'[u] => g \in ends[u] \/ g \in F,
         told' = told, life' = life
  PROVE  ToldInv'
<1> SUFFICES ASSUME NEW g \in Groups PROVE ToldOf(g)'
  BY DEF ToldInv
<1>1. ToldOf(g)
  BY DEF ToldInv
<1>2. g \in F => told[g] # 1 /\ ~ \E u \in Threads : Owes(u, g)
  BY <1>1 DEF ToldOf
<1>3. \A u \in Threads : g \in ends'[u] => life'[g] = "live"
  BY <1>1 DEF ToldOf
<1>4. Settled(g)' <=> told'[g] = 1 \/ \E u \in Threads : Owes(u, g)'
  BY <1>1 DEF ToldOf
<1> QED
  BY <1>1, <1>2, <1>3, <1>4 DEF ToldOf

\* It does so by its list of callbacks.
LEMMA ToldSettle ==
  ASSUME ToldInv, TypeOK, NEW t \in Threads, NEW F, F \subseteq Groups,
         \A g \in F : ~Settled(g) /\ life[g] = "live",
         \A g \in Groups : Settled(g)' <=> Settled(g) \/ g \in F,
         ends' = [ends EXCEPT ![t] = @ \cup F],
         told' = told, life' = life, grp' = grp, ret' = ret
  PROVE  ToldInv'
<1>1. ends \in [Threads -> SUBSET Groups]
  BY DEF TypeOK
<1>2. \A u \in Threads, g \in Groups : Owes(u, g)' <=> Owes(u, g) \/ (u = t /\ g \in F)
  BY <1>1 DEF Owes
<1>3. \A u \in Threads, g \in Groups : g \in ends'[u] => g \in ends[u] \/ g \in F
  BY <1>1
<1> QED
  BY <1>2, <1>3, ToldOwed

\* Nobody's duty to tell changes.
LEMMA ToldQuiet ==
  ASSUME ToldInv, stat' = stat, told' = told, life' = life, ends' = ends,
         \A t \in Threads, g \in Groups : Owes(t, g)' <=> Owes(t, g)
  PROVE  ToldInv'
<1>1. \A g \in Groups : Settled(g)' <=> Settled(g)
  BY DEF Settled, Asked
<1> QED
  BY <1>1 DEF ToldInv, ToldOf

\* A thread moves on within its operation, or leaves it.
LEMMA PlaceMove ==
  ASSUME PlaceInv, NEW t \in Threads, life' = life,
         \A u \in Threads \ {t} : /\ pc'[u] = pc[u] /\ grp'[u] = grp[u] /\ todo'[u] = todo[u]
                                  /\ id'[u] = id[u] /\ ends'[u] = ends[u] /\ back'[u] = back[u]
                                  /\ ret'[u] = ret[u],
         PlaceOf(t)',
         Getter(t)' => Getter(t) /\ grp'[t] = grp[t],
         Putter(t)' => Putter(t) /\ grp'[t] = grp[t]
  PROVE  PlaceInv'
<1>1. ASSUME NEW u \in Threads \ {t} PROVE PlaceOf(u)' /\ (Getter(u)' <=> Getter(u)) /\ (Putter(u)' <=> Putter(u))
  BY <1>1 DEF PlaceInv, PlaceOf, Getter, Putter
<1>2. ASSUME NEW u \in Threads, NEW v \in Threads PROVE Apart(u, v)'
  BY <1>1 DEF PlaceInv, Apart
<1> QED
  BY <1>1, <1>2 DEF PlaceInv

-------------------------------------------------------------------------------
(* Each action keeps the invariant.                                            *)

\* A group is asked for.
LEMMA GetBeginStep ==
  ASSUME Inv, NEW t \in Threads, NEW g \in Groups, GetBegin(t, g)
  PROVE  Inv'
<1> USE DEF Inv
<1>1. /\ Want[g] \subseteq Nodes /\ Want[g] # {}
      /\ stat' = [stat EXCEPT ![g] = [n \in Nodes |-> IF n \in Want[g] THEN "init" ELSE "none"]]
      /\ pc[t] = "idle" /\ life[g] = "new"
  BY WantAssumption DEF GetBegin
<1>2. TypeOK'
  BY <1>1 DEF GetBegin, Goto, TypeOK, Places
<1>3. \A u \in Threads : grp[u] = g => ~Getter(u) /\ ~Putter(u)
  BY <1>1 DEF PlaceInv, PlaceOf, Getter, Putter
<1>4. /\ life' = [life EXCEPT ![g] = "live"] /\ pc' = [pc EXCEPT ![t] = "in"]
      /\ grp' = [grp EXCEPT ![t] = g] /\ todo' = [todo EXCEPT ![t] = Want[g]]
      /\ table' = table /\ Nodeid' = Nodeid /\ told' = told /\ id' = id /\ ends' = ends
      /\ back' = back /\ ret' = ret
  BY DEF GetBegin, Goto
<1>5. PlaceInv'
  <2>1. ASSUME NEW u \in Threads \ {t}
        PROVE  PlaceOf(u)' /\ (Getter(u)' <=> Getter(u)) /\ (Putter(u)' <=> Putter(u)) /\ grp'[u] = grp[u]
    BY <1>3, <1>4, <2>1 DEF PlaceInv, PlaceOf, Getter, Putter, TypeOK
  <2>2. PlaceOf(t)' /\ ~Putter(t)' /\ grp'[t] = g
    BY <1>1, <1>4 DEF PlaceInv, PlaceOf, Getter, Putter, TypeOK
  <2>3. \A u, v \in Threads : Apart(u, v)'
    BY <1>3, <2>1, <2>2 DEF PlaceInv, Apart
  <2> QED
    BY <2>1, <2>2, <2>3 DEF PlaceInv
<1>6. \A h \in Groups, n \in Nodes :
        stat'[h][n] = IF h = g THEN (IF n \in Want[g] THEN "init" ELSE "none") ELSE stat[h][n]
  BY <1>1 DEF TypeOK
<1>7. StatInv'
  BY <1>1, <1>4, <1>6, WantAssumption DEF StatInv, TypeOK
<1>8. WaitInv'
  <2>1. ASSUME NEW h \in Groups, NEW n \in Nodes PROVE WaitOf(h, n)'
    <3>1. WaitOf(h, n) /\ Popped(n)' = Popped(n)
      BY <1>4 DEF WaitInv, Popped, Online
    <3>2. CASE h # g
      <4>1. \A u \in Threads : Asks(u, h, n)' <=> Asks(u, h, n)
        BY <1>1, <1>4, <3>2 DEF Asks, TypeOK, PlaceInv, PlaceOf, Getter, Putter
      <4> QED
        BY <1>4, <1>6, <3>1, <3>2, <4>1 DEF WaitOf
    <3>3. CASE h = g
      <4>1. g \notin Popped(n)
        BY <1>1, <3>1, <3>3 DEF WaitOf, StatInv
      <4>2. \A u \in Threads : Asks(u, g, n)' <=> (u = t /\ n \in Want[g])
        BY <1>1, <1>3, <1>4 DEF Asks, TypeOK, Getter
      <4> QED
        BY <1>6, <3>1, <3>3, <4>1, <4>2 DEF WaitOf
    <3> QED
      BY <3>2, <3>3
  <2> QED
    BY <1>4, <2>1 DEF WaitInv, OnceQueued, Online
<1>9. ToldInv'
  <2>1. ASSUME NEW h \in Groups PROVE Settled(h)' <=> Settled(h)
    <3>1. CASE h = g
      BY <1>1, <1>6, <3>1 DEF Settled, Asked, StatInv
    <3>2. CASE h # g
      BY <1>6, <3>2 DEF Settled, Asked
    <3> QED
      BY <3>1, <3>2
  <2>2. \A u \in Threads, h \in Groups : Owes(u, h)' <=> Owes(u, h)
    BY <1>1, <1>4 DEF Owes, TypeOK, PlaceInv, PlaceOf, Getter, Putter
  <2>3. \A u \in Threads, h \in Groups : h \in ends'[u] => h \in ends[u] /\ (life[h] = "live" => life'[h] = "live")
    BY <1>1, <1>4 DEF TypeOK
  <2> QED
    BY <1>4, <2>1, <2>2, <2>3 DEF ToldInv, ToldOf
<1> QED
  BY <1>2, <1>5, <1>7, <1>8, <1>9

\* A group for which there is no memory is gone at once.
LEMMA GetNoMemoryStep ==
  ASSUME Inv, NEW t \in Threads, NEW g \in Groups, GetNoMemory(t, g)
  PROVE  Inv'
<1> USE DEF Inv
<1>1. /\ life[g] = "new" /\ life' = [life EXCEPT ![g] = "freed"]
      /\ UNCHANGED <<crew, table, version, stat, Nodeid, err, told>> /\ UNCHANGED local
  BY DEF GetNoMemory
<1>2. TypeOK'
  BY <1>1 DEF TypeOK, local
<1>3. PlaceInv'
  <2>1. \A u \in Threads : grp[u] = g => ~Getter(u) /\ ~Putter(u)
    BY <1>1 DEF PlaceInv, PlaceOf, Getter, Putter
  <2>2. ASSUME NEW u \in Threads
        PROVE  PlaceOf(u)' /\ (Getter(u)' <=> Getter(u)) /\ (Putter(u)' <=> Putter(u)) /\ grp'[u] = grp[u]
    BY <1>1, <2>1, <2>2 DEF PlaceInv, PlaceOf, Getter, Putter, TypeOK, local
  <2> QED
    BY <2>2 DEF PlaceInv, Apart
<1>4. StatInv'
  BY <1>1 DEF StatInv, TypeOK
<1>5. WaitInv'
  <2>1. \A u \in Threads, h \in Groups, n \in Nodes : Asks(u, h, n)' <=> Asks(u, h, n)
    BY <1>1 DEF Asks, local
  <2> QED
    BY <1>1, <2>1, WaitQuiet
<1>6. ToldInv'
  <2>1. \A u \in Threads, h \in Groups : Owes(u, h)' <=> Owes(u, h)
    BY <1>1 DEF Owes, local
  <2>2. \A h \in Groups : Settled(h)' <=> Settled(h)
    BY <1>1 DEF Settled, Asked
  <2>3. \A u \in Threads, h \in Groups : h \in ends'[u] => h \in ends[u] /\ life'[h] = "live"
    BY <1>1 DEF ToldInv, ToldOf, TypeOK, local
  <2> QED
    BY <1>1, <2>1, <2>2, <2>3 DEF ToldInv, ToldOf
<1> QED
  BY <1>2, <1>3, <1>4, <1>5, <1>6

\* A group that the application was told of is put.
LEMMA PutBeginStep ==
  ASSUME Inv, NEW t \in Threads, NEW g \in Groups, NEW dead \in SUBSET Nodes, PutBegin(t, g, dead)
  PROVE  Inv'
<1> USE DEF Inv
<1>1. /\ pc[t] = "idle" /\ life[g] = "live" /\ told[g] > 0
      /\ life' = [life EXCEPT ![g] = "putting"] /\ grp' = [grp EXCEPT ![t] = g]
      /\ todo' = [todo EXCEPT ![t] = dead] /\ ret' = [ret EXCEPT ![t] = "PENDING"]
      /\ pc' = [pc EXCEPT ![t] = "out"]
      /\ UNCHANGED <<crew, table, version, stat, Nodeid, err, told, id, ends, back>>
  BY DEF PutBegin, Goto
<1>2. TypeOK'
  BY <1>1 DEF TypeOK, Places, Errs
<1>3. Settled(g) /\ (\A u \in Threads : ~Owes(u, g)) /\ \A n \in Nodes : stat[g][n] # "init"
  <2>1. ToldOf(g)
    BY DEF ToldInv
  <2>2. told[g] = 1
    BY <1>1, <2>1 DEF ToldOf
  <2> QED
    BY <2>1, <2>2 DEF ToldOf, Settled
<1>4. \A u \in Threads : grp[u] = g => ~Putter(u) /\ (Getter(u) => pc[u] = "get" /\ todo[u] = {} /\ ret[u] = "PENDING")
  <2> SUFFICES ASSUME NEW u \in Threads, grp[u] = g
               PROVE  ~Putter(u) /\ (Getter(u) => pc[u] = "get" /\ todo[u] = {} /\ ret[u] = "PENDING")
    OBVIOUS
  <2>1. ~Putter(u)
    BY <1>1 DEF PlaceInv, PlaceOf
  <2>2. \A n \in Nodes : ~Asks(u, g, n)
    BY <1>3 DEF WaitInv, WaitOf
  <2>3. Want[g] \subseteq Nodes /\ Want[g] # {}
    BY WantAssumption
  <2>4. pc[u] \notin {"in", "inonline"}
    <3>1. PICK n \in Nodes : n \in Want[g]
      BY <2>3
    <3>2. ~Asks(u, g, n)
      BY <2>2
    <3> QED
      BY <3>1, <3>2 DEF Asks
  <2>5. pc[u] = "get" => todo[u] = {}
    BY <2>2 DEF Asks, TypeOK
  <2>6. ret[u] = "PENDING"
    BY <1>3 DEF Owes
  <2> QED
    BY <2>1, <2>4, <2>5, <2>6 DEF Getter
<1>5. PlaceInv'
  <2>1. ASSUME NEW u \in Threads \ {t}
        PROVE  PlaceOf(u)' /\ (Getter(u)' <=> Getter(u)) /\ (Putter(u)' <=> Putter(u)) /\ grp'[u] = grp[u]
    BY <1>1, <1>4, <2>1 DEF PlaceInv, PlaceOf, Getter, Putter, TypeOK
  <2>2. PlaceOf(t)' /\ ~Getter(t)' /\ grp'[t] = g
    BY <1>1 DEF PlaceInv, PlaceOf, Getter, Putter, TypeOK
  <2>3. \A u, v \in Threads : Apart(u, v)'
    BY <1>4, <2>1, <2>2 DEF PlaceInv, Apart
  <2> QED
    BY <2>1, <2>2, <2>3 DEF PlaceInv
<1>6. StatInv'
  BY <1>1, <1>3 DEF StatInv, TypeOK
<1>7. WaitInv'
  <2>1. \A u \in Threads, h \in Groups, n \in Nodes : Asks(u, h, n)' <=> Asks(u, h, n)
    BY <1>1 DEF Asks, TypeOK, PlaceInv, PlaceOf, Getter, Putter
  <2> QED
    BY <1>1, <2>1, WaitQuiet
<1>8. ToldInv'
  <2>1. \A u \in Threads, h \in Groups : Owes(u, h)' <=> Owes(u, h)
    <3>1. ret[t] = "PENDING" /\ ends[t] = {}
      BY <1>1 DEF PlaceInv, PlaceOf, Getter, Putter
    <3>2. ret'[t] = "PENDING" /\ \A u \in Threads \ {t} : ret'[u] = ret[u] /\ grp'[u] = grp[u]
      BY <1>1 DEF TypeOK
    <3> QED
      BY <1>1, <3>1, <3>2 DEF Owes
  <2>2. \A u \in Threads : g \notin ends[u]
    BY <1>3 DEF Owes
  <2>3. \A h \in Groups : Settled(h)' <=> Settled(h)
    BY <1>1 DEF Settled, Asked
  <2> QED
    BY <1>1, <2>1, <2>2, <2>3 DEF ToldInv, ToldOf, TypeOK
<1> QED
  BY <1>2, <1>5, <1>6, <1>7, <1>8

\* The group's memory goes back.
LEMMA FreeGroupStep ==
  ASSUME Inv, NEW t \in Threads, FreeGroup(t)
  PROVE  Inv'
<1> USE DEF Inv
<1>g. PICK g \in Groups : g = grp[t]
  BY DEF FreeGroup, PlaceInv, PlaceOf, Putter
<1>1. /\ pc[t] = "free" /\ life' = [life EXCEPT ![g] = "freed"]
      /\ told' = [told EXCEPT ![g] = IF ret[t] = "FAILEDNODE" THEN @ + 1 ELSE @]
      /\ ret' = [ret EXCEPT ![t] = "PENDING"] /\ pc' = [pc EXCEPT ![t] = "idle"]
      /\ Nodeid' = [Nodeid EXCEPT ![g] = [n \in Nodes |-> -1]]
      /\ grp' = [grp EXCEPT ![t] = NoGroup] /\ id' = [id EXCEPT ![t] = NoNode]
      /\ UNCHANGED <<crew, table, version, stat, err, todo, ends, back>>
  BY <1>g DEF FreeGroup, Return, Goto
<1>2. /\ Putter(t) /\ life[g] = "putting" /\ ret[t] \in {"PENDING", "FAILEDNODE"}
      /\ ends[t] = {} /\ back[t] = "idle"
  BY <1>g, <1>1 DEF PlaceInv, PlaceOf, Putter
<1>3. TypeOK'
  <2>1. told' \in [Groups -> Nat]
    BY <1>1, <1>2 DEF TypeOK
  <2>2. Nodeid' \in [Groups -> [Nodes -> Nat \cup {-1}]]
    BY <1>1, <1>2 DEF TypeOK
  <2> QED
    BY <1>1, <1>2, <2>1, <2>2 DEF TypeOK, Places, Errs
<1>4. \A u \in Threads \ {t} : grp[u] = g => ~Putter(u) /\ (Getter(u) => pc[u] = "get" /\ todo[u] = {} /\ ret[u] = "PENDING")
  BY <1>g, <1>2 DEF PlaceInv, PlaceOf, Apart, Getter
<1>5. PlaceInv'
  <2>1. ASSUME NEW u \in Threads \ {t}
        PROVE  PlaceOf(u)' /\ (Getter(u)' <=> Getter(u)) /\ (Putter(u)' <=> Putter(u)) /\ grp'[u] = grp[u]
    <3>1. PlaceOf(u) /\ pc'[u] = pc[u] /\ grp'[u] = grp[u] /\ todo'[u] = todo[u] /\ id'[u] = id[u]
          /\ ends'[u] = ends[u] /\ back'[u] = back[u] /\ ret'[u] = ret[u]
          /\ (grp[u] \in Groups => life'[grp[u]] = IF grp[u] = g THEN "freed" ELSE life[grp[u]])
      BY <1>1, <2>1 DEF PlaceInv, TypeOK
    <3> QED
      BY <1>4, <2>1, <3>1 DEF PlaceOf, Getter, Putter
  <2>2. PlaceOf(t)' /\ ~Getter(t)' /\ ~Putter(t)'
    BY <1>1, <1>2, NullAssumption DEF PlaceOf, Getter, Putter, TypeOK
  <2>3. \A u, v \in Threads : Apart(u, v)'
    BY <2>1, <2>2 DEF PlaceInv, Apart
  <2> QED
    BY <2>1, <2>2, <2>3 DEF PlaceInv
<1>6. StatInv'
  BY <1>1, <1>2 DEF StatInv, TypeOK
<1>7. WaitInv'
  <2>1. \A u \in Threads, h \in Groups, n \in Nodes : Asks(u, h, n)' <=> Asks(u, h, n)
    BY <1>1, <1>2 DEF Asks, TypeOK, Putter
  <2>2. \A n \in Nodes : g \notin Popped(n)
    BY <1>2 DEF WaitInv, WaitOf, StatInv
  <2>3. \A h \in Groups \ {g}, n \in Nodes : Nodeid'[h][n] = Nodeid[h][n]
    BY <1>1 DEF TypeOK
  <2>4. \A n \in Nodes : Popped(n)' = Popped(n)
    BY <1>1 DEF Popped, Online
  <2>5. ASSUME NEW h \in Groups, NEW n \in Nodes PROVE WaitOf(h, n)'
    BY <1>1, <2>1, <2>2, <2>3, <2>4 DEF WaitInv, WaitOf
  <2> QED
    BY <1>1, <2>5 DEF WaitInv, OnceQueued, Online
<1>8. ToldInv'
  <2>1. ASSUME NEW h \in Groups \ {g} PROVE ToldOf(h)'
    <3>1. \A u \in Threads : Owes(u, h)' <=> Owes(u, h)
      BY <1>g, <1>1, NullAssumption DEF Owes, TypeOK
    <3>2. told'[h] = told[h] /\ life'[h] = life[h] /\ (Settled(h)' <=> Settled(h))
      BY <1>1 DEF TypeOK, Settled, Asked
    <3> QED
      BY <1>1, <3>1, <3>2 DEF ToldInv, ToldOf
  <2>2. ToldOf(g)'
        <3>1. ToldOf(g) /\ told[g] \in {0, 1}
      BY <1>2 DEF ToldInv, ToldOf
    <3>0. Settled(g)' <=> Settled(g)
      BY <1>1 DEF Settled, Asked
    <3>2. \A u \in Threads : g \notin ends[u] /\ g \notin ends'[u]
      BY <1>1, <1>2, <3>1 DEF ToldOf
    <3>3. ~Owes(t, g)' /\ \A u \in Threads \ {t} : Owes(u, g)' <=> Owes(u, g)
      <4>1. ret'[t] = "PENDING" /\ \A u \in Threads \ {t} : ret'[u] = ret[u] /\ grp'[u] = grp[u]
        BY <1>1 DEF TypeOK
      <4> QED
        BY <3>2, <4>1 DEF Owes
    <3>4. Owes(t, g) <=> ret[t] = "FAILEDNODE"
      BY <1>g, <1>2, <3>2 DEF Owes
    <3>5. told'[g] = IF ret[t] = "FAILEDNODE" THEN told[g] + 1 ELSE told[g]
      BY <1>1, <1>2 DEF TypeOK
    <3>6. CASE ret[t] = "FAILEDNODE"
      <4>1. told[g] = 0 /\ told'[g] = 1 /\ Settled(g) /\ \A u \in Threads : ~Owes(u, g)'
        BY <3>1, <3>3, <3>4, <3>5, <3>6 DEF ToldOf
      <4> QED
        BY <3>0, <3>2, <4>1 DEF ToldOf
    <3>7. CASE ret[t] # "FAILEDNODE"
      <4>1. told'[g] = told[g] /\ \A u \in Threads : Owes(u, g)' <=> Owes(u, g)
        BY <3>3, <3>4, <3>5, <3>7
      <4> QED
        BY <3>0, <3>1, <3>2, <4>1 DEF ToldOf
    <3> QED
      BY <3>6, <3>7
  <2>3. \A h \in Groups : ToldOf(h)'
    BY <2>1, <2>2
  <2> QED
    BY <2>3 DEF ToldInv
<1> QED
  BY <1>3, <1>5, <1>6, <1>7, <1>8

\* The locals of the other threads stay; nobody's request and nobody's duty changes.
Quietly(t) ==
  /\ crew' = crew
  /\ UNCHANGED group
  /\ \A u \in Threads \ {t} : /\ pc'[u] = pc[u] /\ grp'[u] = grp[u] /\ todo'[u] = todo[u]
                              /\ id'[u] = id[u] /\ ends'[u] = ends[u] /\ back'[u] = back[u]
                              /\ ret'[u] = ret[u]
  /\ \A g \in Groups, n \in Nodes : Asks(t, g, n)' <=> Asks(t, g, n)
  /\ ends' = ends
  /\ \A g \in Groups : Owes(t, g)' <=> Owes(t, g)

\* Such a step, that leaves who is in which queue, keeps the invariant.
LEMMA QuietStep ==
  ASSUME Inv, TypeOK', NEW t \in Threads, Quietly(t),
         table' = table \/ \E n \in Nodes : QueueStep(n, Popped(n)),
         PlaceOf(t)',
         Getter(t)' => Getter(t) /\ grp'[t] = grp[t],
         Putter(t)' => Putter(t) /\ grp'[t] = grp[t]
  PROVE  Inv'
<1>1. PlaceInv'
  BY PlaceMove DEF Inv, Quietly, group
<1>2. StatInv'
  BY DEF StatInv, Inv, Quietly, group
<1>3. WaitInv'
  <2>1. \A u \in Threads, g \in Groups, m \in Nodes : Asks(u, g, m)' <=> Asks(u, g, m)
    <3> SUFFICES ASSUME NEW u \in Threads, NEW g \in Groups, NEW m \in Nodes
                 PROVE  Asks(u, g, m)' <=> Asks(u, g, m)
      OBVIOUS
    <3>1. CASE u = t
      BY <3>1 DEF Quietly
    <3>2. CASE u # t
      BY <3>2 DEF Quietly, Asks
    <3> QED
      BY <3>1, <3>2
  <2> QED
    BY <2>1, WaitSame, WaitQuiet DEF Inv, Quietly, group
<1>4. ToldInv'
  <2>1. \A u \in Threads, g \in Groups : Owes(u, g)' <=> Owes(u, g)
    <3> SUFFICES ASSUME NEW u \in Threads, NEW g \in Groups
                 PROVE  Owes(u, g)' <=> Owes(u, g)
      OBVIOUS
    <3>1. CASE u = t
      BY <3>1 DEF Quietly
    <3>2. CASE u # t
      BY <3>2 DEF Quietly, Owes
    <3> QED
      BY <3>1, <3>2
  <2> QED
    BY <2>1, ToldQuiet DEF Inv, Quietly, group
<1> QED
  BY <1>1, <1>2, <1>3, <1>4 DEF Inv

\* The invariant says so of the table.
LEMMA InvTable == Inv => TableInv
BY DEF Inv, TypeOK, WaitInv, TableInv

\* A getter looks its nodes up.
LEMMA CheckInStep ==
  ASSUME Inv, NEW t \in Threads, CheckIn(t)
  PROVE  Inv'
<1>1. /\ pc[t] = "in" /\ PlaceOf(t) /\ grp[t] \in Groups /\ Want[grp[t]] \subseteq Nodes
      /\ table' = table /\ crew' = crew /\ version' = version /\ UNCHANGED group
      /\ grp' = grp /\ ends' = ends /\ back' = back /\ ret' = ret
  BY WantAssumption DEF CheckIn, Inv, PlaceInv, PlaceOf, Getter
<1>3. CASE \E n \in todo[t] : /\ todo' = [todo EXCEPT ![t] = @ \ {n}]
                              /\ id' = [id EXCEPT ![t] = n]
                              /\ pc' = [pc EXCEPT ![t] = IF Online(n) THEN "in" ELSE "inonline"]
  <2>1. PICK n \in todo[t] : /\ todo' = [todo EXCEPT ![t] = @ \ {n}]
                             /\ id' = [id EXCEPT ![t] = n]
                             /\ pc' = [pc EXCEPT ![t] = IF Online(n) THEN "in" ELSE "inonline"]
    BY <1>3
  <2>2. n \in Nodes
    BY <2>1 DEF Inv, TypeOK
  <2>3. TypeOK'
    BY <1>1, <2>1, <2>2 DEF Inv, TypeOK, Places, group
  <2>4. pc'[t] \in {"in", "inonline"} /\ id'[t] = n
    BY <2>1 DEF Inv, TypeOK
  <2>5. PlaceOf(t)' /\ Getter(t) /\ ~Putter(t)'
    BY <1>1, <2>2, <2>4 DEF PlaceOf, Getter, Putter, group
  <2>6. Quietly(t)
    BY <1>1, <2>1, <2>4 DEF Quietly, Asks, Owes, Inv, TypeOK
  <2> QED
    BY <1>1, <2>3, <2>5, <2>6, QuietStep
<1>4. CASE /\ todo' = [todo EXCEPT ![t] = Want[grp[t]]]
           /\ pc' = [pc EXCEPT ![t] = "get"]
           /\ id' = [id EXCEPT ![t] = NoNode]
  <2>1. TypeOK'
    BY <1>1, <1>4 DEF Inv, TypeOK, Places, group
  <2>2. pc'[t] = "get" /\ todo'[t] = Want[grp[t]]
    BY <1>4 DEF Inv, TypeOK
  <2>3. PlaceOf(t)' /\ Getter(t) /\ ~Putter(t)'
    BY <1>1, <2>2 DEF PlaceOf, Getter, Putter, group
  <2>4. Quietly(t)
    BY <1>1, <1>4, <2>2 DEF Quietly, Asks, Owes, Inv, TypeOK
  <2> QED
    BY <1>1, <2>1, <2>3, <2>4, QuietStep
<1> QED
  BY <1>3, <1>4 DEF CheckIn, Goto

\* It takes one online that it did not find.
LEMMA InOnlineStep ==
  ASSUME Inv, NEW t \in Threads, InOnline(t)
  PROVE  Inv'
<1>1. /\ pc[t] = "inonline" /\ PlaceOf(t) /\ id[t] \in Nodes
      /\ crew' = crew /\ UNCHANGED group /\ pc' = [pc EXCEPT ![t] = "in"]
      /\ grp' = grp /\ todo' = todo /\ id' = id /\ ends' = ends /\ back' = back /\ ret' = ret
  BY DEF InOnline, Goto, Inv, PlaceInv, PlaceOf
<1>2. QueueStep(id[t], Popped(id[t])) /\ version' \in Nat
  BY <1>1, InvTable, OnlineQueues DEF InOnline, Inv, TypeOK
<1>3. TypeOK'
  BY <1>1, <1>2 DEF Inv, TypeOK, Places, group, QueueStep
<1>4. pc'[t] = "in"
  BY <1>1 DEF Inv, TypeOK
<1>5. PlaceOf(t)' /\ Getter(t) /\ ~Putter(t)'
  BY <1>1, <1>4 DEF PlaceOf, Getter, Putter, group
<1>6. Quietly(t)
  BY <1>1, <1>4 DEF Quietly, Asks, Owes, Inv, TypeOK
<1> QED
  BY <1>1, <1>2, <1>3, <1>5, <1>6, QuietStep

\* A putter looks the dead nodes up.
LEMMA CheckOutStep ==
  ASSUME Inv, NEW t \in Threads, CheckOut(t)
  PROVE  Inv'
<1>1. /\ pc[t] = "out" /\ PlaceOf(t) /\ grp[t] \in Groups
      /\ table' = table /\ crew' = crew /\ version' = version /\ UNCHANGED group
      /\ grp' = grp /\ ends' = ends /\ back' = back /\ ret' = ret
  BY DEF CheckOut, Inv, PlaceInv, PlaceOf, Putter
<1>3. PICK S \in SUBSET Nodes, i \in Nodes \cup {NoNode}, p \in {"out", "outoffline", "put"} :
        /\ todo' = [todo EXCEPT ![t] = S] /\ id' = [id EXCEPT ![t] = i]
        /\ pc' = [pc EXCEPT ![t] = p]
        /\ p = "outoffline" => i \in Nodes
  <2>1. CASE \E n \in todo[t] : /\ todo' = [todo EXCEPT ![t] = @ \ {n}]
                                /\ id' = [id EXCEPT ![t] = n]
                                /\ pc' = [pc EXCEPT ![t] = IF Online(n) THEN "outoffline" ELSE "out"]
    <3>1. PICK n \in todo[t] : /\ todo' = [todo EXCEPT ![t] = @ \ {n}]
                               /\ id' = [id EXCEPT ![t] = n]
                               /\ pc' = [pc EXCEPT ![t] = IF Online(n) THEN "outoffline" ELSE "out"]
      BY <2>1
    <3>2. n \in Nodes /\ todo[t] \ {n} \in SUBSET Nodes
      BY <3>1 DEF Inv, TypeOK
    <3> QED
      BY <3>1, <3>2
  <2>2. CASE /\ todo' = [todo EXCEPT ![t] = {n \in Nodes : stat[grp[t]][n] = "got"}]
             /\ pc' = [pc EXCEPT ![t] = "put"]
             /\ id' = [id EXCEPT ![t] = NoNode]
    <3>1. {n \in Nodes : stat[grp[t]][n] = "got"} \in SUBSET Nodes
      OBVIOUS
    <3> QED
      BY <2>2, <3>1
  <2> QED
    BY <2>1, <2>2 DEF CheckOut, Goto
<1>4. TypeOK'
  BY <1>1, <1>3 DEF Inv, TypeOK, Places, group
<1>5. pc'[t] = p /\ id'[t] = i
  BY <1>3 DEF Inv, TypeOK
<1>6. PlaceOf(t)' /\ Putter(t) /\ ~Getter(t)'
  BY <1>1, <1>3, <1>5 DEF PlaceOf, Getter, Putter, group
<1>7. Quietly(t)
  BY <1>1, <1>3, <1>5 DEF Quietly, Asks, Owes, Inv, TypeOK
<1> QED
  BY <1>1, <1>4, <1>6, <1>7, QuietStep

\* The loop over what was granted is over.
LEMMA PutUnlockStep ==
  ASSUME Inv, NEW t \in Threads, PutUnlock(t)
  PROVE  Inv'
<1>1. /\ pc[t] = "put" /\ PlaceOf(t) /\ grp[t] \in Groups
      /\ table' = table /\ crew' = crew /\ version' = version /\ UNCHANGED group
      /\ pc' = [pc EXCEPT ![t] = "ends"] /\ back' = [back EXCEPT ![t] = "free"]
      /\ grp' = grp /\ todo' = todo /\ id' = id /\ ends' = ends /\ ret' = ret
  BY DEF PutUnlock, Goto, Inv, PlaceInv, PlaceOf, Putter
<1>3. TypeOK'
  BY <1>1 DEF Inv, TypeOK, Places, group
<1>4. pc'[t] = "ends" /\ back'[t] = "free"
  BY <1>1 DEF Inv, TypeOK
<1>5. PlaceOf(t)' /\ Putter(t) /\ ~Getter(t)'
  BY <1>1, <1>4 DEF PlaceOf, Getter, Putter, group
<1>6. Quietly(t)
  BY <1>1, <1>4 DEF Quietly, Asks, Owes, Inv, TypeOK
<1> QED
  BY <1>1, <1>3, <1>5, <1>6, QuietStep

\* The callbacks are over.
LEMMA EndsDoneStep ==
  ASSUME Inv, NEW t \in Threads, EndsDone(t)
  PROVE  Inv'
<1>1. /\ pc[t] = "ends" /\ PlaceOf(t) /\ ends[t] = {}
      /\ table' = table /\ crew' = crew /\ version' = version /\ UNCHANGED group
      /\ back' = [back EXCEPT ![t] = "idle"]
      /\ todo' = todo /\ ends' = ends /\ ret' = ret
      /\ back[t] \in {"idle", "out", "free"} /\ grp[t] \in Groups \cup {NoGroup}
  BY DEF EndsDone, Goto, Inv, PlaceInv, TypeOK
<1>3. CASE /\ back[t] = "idle" /\ pc' = [pc EXCEPT ![t] = "idle"]
           /\ grp' = [grp EXCEPT ![t] = NoGroup] /\ id' = [id EXCEPT ![t] = NoNode]
  <2>1. TypeOK'
    BY <1>1, <1>3 DEF Inv, TypeOK, Places, group
  <2>2. pc'[t] = "idle" /\ back'[t] = "idle" /\ grp'[t] = NoGroup /\ grp[t] = NoGroup
    BY <1>1, <1>3 DEF Inv, TypeOK, PlaceOf, Getter, Putter
  <2>3. PlaceOf(t)' /\ ~Getter(t)' /\ ~Putter(t)'
    BY <1>1, <2>2, NullAssumption, <1>3 DEF PlaceOf, Getter, Putter, group
  <2>4. Quietly(t)
    BY <1>1, <1>3, <2>2 DEF Quietly, Asks, Owes, Inv, TypeOK
  <2> QED
    BY <1>1, <2>1, <2>3, <2>4, QuietStep
<1>4. CASE back[t] # "idle" /\ pc' = [pc EXCEPT ![t] = back[t]] /\ grp' = grp /\ id' = id
  <2>1. TypeOK'
    BY <1>1, <1>4 DEF Inv, TypeOK, Places, group
  <2>2. pc'[t] \in {"out", "free"} /\ back'[t] = "idle"
    BY <1>1, <1>4 DEF Inv, TypeOK
  <2>3. PlaceOf(t)' /\ Putter(t) /\ ~Getter(t)'
    BY <1>1, <1>4, <2>2 DEF PlaceOf, Getter, Putter, group
  <2>4. Quietly(t)
    BY <1>1, <1>4, <2>2 DEF Quietly, Asks, Owes, Inv, TypeOK
  <2> QED
    BY <1>1, <1>4, <2>1, <2>3, <2>4, QuietStep
<1> QED
  BY <1>3, <1>4 DEF EndsDone, Return, Goto

\* A node comes online by itself.
LEMMA NodeOnlineStep ==
  ASSUME Inv, NEW t \in Threads, NEW n \in Nodes, NodeOnline(t, n)
  PROVE  Inv'
<1>1. crew' = crew /\ UNCHANGED group /\ UNCHANGED local
  BY DEF NodeOnline
<1>2. QueueStep(n, Popped(n)) /\ version' \in Nat
  BY InvTable, OnlineQueues DEF NodeOnline, Inv, TypeOK
<1>3. TypeOK'
  BY <1>1, <1>2 DEF Inv, TypeOK, group, local, QueueStep
<1>4. PlaceOf(t)' /\ (Getter(t)' => Getter(t)) /\ (Putter(t)' => Putter(t)) /\ grp' = grp
  BY <1>1 DEF Inv, PlaceInv, PlaceOf, Getter, Putter, group, local
<1>5. Quietly(t)
  BY <1>1 DEF Quietly, Asks, Owes, local
<1> QED
  BY <1>2, <1>3, <1>4, <1>5, QuietStep

\* A message took a node online.
LEMMA RcvdOnlineStep ==
  ASSUME Inv, NEW t \in Threads, RcvdOnline(t)
  PROVE  Inv'
<1>1. /\ pc[t] = "rcvdonline" /\ PlaceOf(t) /\ id[t] \in Nodes /\ grp[t] \in Groups \cup {NoGroup}
      /\ crew' = crew /\ UNCHANGED group /\ pc' = [pc EXCEPT ![t] = "idle"]
      /\ grp' = [grp EXCEPT ![t] = NoGroup] /\ id' = [id EXCEPT ![t] = NoNode]
      /\ todo' = todo /\ ends' = ends /\ back' = back /\ ret' = ret
  BY DEF RcvdOnline, Return, Goto, Inv, PlaceInv, PlaceOf, TypeOK
<1>2. QueueStep(id[t], Popped(id[t])) /\ version' \in Nat
  BY <1>1, InvTable, OnlineQueues DEF RcvdOnline, Inv, TypeOK
<1>3. TypeOK'
  BY <1>1, <1>2 DEF Inv, TypeOK, Places, group, QueueStep
<1>4. pc'[t] = "idle" /\ grp'[t] = NoGroup /\ grp[t] = NoGroup
  BY <1>1 DEF Inv, TypeOK, PlaceOf, Getter, Putter
<1>5. PlaceOf(t)' /\ ~Getter(t)' /\ ~Putter(t)'
  BY <1>1, <1>4, NullAssumption DEF PlaceOf, Getter, Putter, group
<1>6. Quietly(t)
  BY <1>1, <1>4 DEF Quietly, Asks, Owes, Inv, TypeOK
<1> QED
  BY <1>1, <1>2, <1>3, <1>5, <1>6, QuietStep

\* A node is reset.
LEMMA NodeResetStep ==
  ASSUME Inv, NEW t \in Threads, NodeReset(t)
  PROVE  Inv'
<1>1. /\ pc[t] = "reset" /\ PlaceOf(t) /\ id[t] \in Nodes /\ grp[t] \in Groups \cup {NoGroup}
      /\ crew' = crew /\ version' = version /\ UNCHANGED group /\ pc' = [pc EXCEPT ![t] = "idle"]
      /\ grp' = [grp EXCEPT ![t] = NoGroup] /\ id' = [id EXCEPT ![t] = NoNode]
      /\ todo' = todo /\ ends' = ends /\ back' = back /\ ret' = ret
  BY DEF NodeReset, Return, Goto, Inv, PlaceInv, PlaceOf, TypeOK
<1>2. QueueStep(id[t], Popped(id[t]))
  <2>1. CASE ~Online(id[t])
    BY <1>1, <2>1, InvTable, SameQueues DEF NodeReset
  <2>2. CASE Online(id[t])
    <3>1. ResetAccount(table[id[t]].base) \in Account
      BY <1>1, <2>2, InvTable, ItemIs, ResetType
    <3>2. table' = [table EXCEPT ![id[t]].base = ResetAccount(table[id[t]].base)]
      BY <2>2 DEF NodeReset
    <3> QED
      BY <1>1, <2>2, <3>1, <3>2, InvTable, NewBase
  <2> QED
    BY <2>1, <2>2
<1>3. TypeOK'
  BY <1>1, <1>2 DEF Inv, TypeOK, Places, group, QueueStep
<1>4. pc'[t] = "idle" /\ grp'[t] = NoGroup /\ grp[t] = NoGroup
  BY <1>1 DEF Inv, TypeOK, PlaceOf, Getter, Putter
<1>5. PlaceOf(t)' /\ ~Getter(t)' /\ ~Putter(t)'
  BY <1>1, <1>4, NullAssumption DEF PlaceOf, Getter, Putter, group
<1>6. Quietly(t)
  BY <1>1, <1>4 DEF Quietly, Asks, Owes, Inv, TypeOK
<1> QED
  BY <1>1, <1>2, <1>3, <1>5, <1>6, QuietStep

\* A getter asks a node for the tokens of its group.
LEMMA GetOneStep ==
  ASSUME Inv, NEW t \in Threads, NEW n \in Nodes, GetOne(t, n)
  PROVE  Inv'
<1> USE DEF Inv
<1>g. PICK g \in Groups : g = grp[t]
  BY DEF GetOne, PlaceInv, PlaceOf, Getter
<1>1. /\ pc[t] = "get" /\ n \in todo[t] /\ todo' = [todo EXCEPT ![t] = @ \ {n}]
      /\ UNCHANGED <<crew, version, life, told, pc, grp, id, ends, back>>
  BY DEF GetOne
<1>2. /\ PlaceOf(t) /\ Getter(t) /\ ~Putter(t) /\ Asks(t, g, n)
      /\ life[g] = "live" /\ ret[t] = "PENDING" /\ ends[t] = {}
  BY <1>g, <1>1 DEF PlaceInv, PlaceOf, Getter, Putter, Asks
<1>3. stat[g][n] = "init" /\ g \notin Popped(n)
  BY <1>2 DEF WaitInv, WaitOf
<1>4. \A u \in Threads, m \in Nodes : Asks(u, g, m) => u = t
  BY <1>g, <1>2 DEF PlaceInv, Apart, Asks, Getter
<1>5. \A u \in Threads, h \in Groups, m \in Nodes :
        Asks(u, h, m)' <=> Asks(u, h, m) /\ ~(u = t /\ h = g /\ m = n)
  <2> SUFFICES ASSUME NEW u \in Threads, NEW h \in Groups, NEW m \in Nodes
               PROVE  Asks(u, h, m)' <=> Asks(u, h, m) /\ ~(u = t /\ h = g /\ m = n)
    OBVIOUS
  <2>1. todo'[u] = IF u = t THEN todo[t] \ {n} ELSE todo[u]
    BY <1>1 DEF TypeOK
  <2>2. CASE u = t
    BY <1>g, <1>1, <2>1, <2>2 DEF Asks
  <2>3. CASE u # t
    BY <1>1, <2>1, <2>3 DEF Asks
  <2> QED
    BY <2>2, <2>3
<1>6. TableInv
  BY InvTable
<1>7. Online(n) => table[n].fence \in Nat /\ table[n].base \in Account
  BY <1>6, ItemIs
\* The three branches are two: the request is settled, or it is queued.
<1>8. CASE \E how \in {"got", "failed"} :
             /\ QueueStep(n, Popped(n))
             /\ Nodeid' \in [Groups -> [Nodes -> Nat \cup {-1}]]
             /\ \A h \in Groups, m \in Nodes : ~(h = g /\ m = n) => Nodeid'[h][m] = Nodeid[h][m]
             /\ Settle({g}, n, how)
             /\ ret' = [ret EXCEPT ![t] = RequestErr(g, n, how)]
  <2>1. PICK how \in {"got", "failed"} :
             /\ QueueStep(n, Popped(n))
             /\ Nodeid' \in [Groups -> [Nodes -> Nat \cup {-1}]]
             /\ \A h \in Groups, m \in Nodes : ~(h = g /\ m = n) => Nodeid'[h][m] = Nodeid[h][m]
             /\ Settle({g}, n, how)
             /\ ret' = [ret EXCEPT ![t] = RequestErr(g, n, how)]
    BY <1>8
  <2> DEFINE F == FinalAfter({g}, n, how)
  <2>2. /\ stat' \in [Groups -> [Nodes -> {"none", "init", "got", "failed"}]]
        /\ err' \in [Groups -> Errs]
        /\ \A h \in Groups, m \in Nodes :
             stat'[h][m] = IF h \in {g} /\ m = n THEN how ELSE stat[h][m]
        /\ F \subseteq {g}
        /\ \A h \in {g} : ~Settled(h) /\ life[h] = "live"
        /\ \A h \in Groups : Settled(h)' <=> Settled(h) \/ h \in F
        /\ StatInv'
    <3> DEFINE H == {g}
    <3>1. H \subseteq Groups /\ (\A h \in H : stat[h][n] = "init") /\ life' = life
      BY <1>1, <1>3
    <3>2. Settle(H, n, how) /\ F = FinalAfter(H, n, how) /\ TypeOK /\ StatInv
      BY <2>1
    <3>3. \A x : x \in H <=> x \in {g}
      OBVIOUS
    <3> HIDE DEF F, H, Inv
    <3>4. /\ stat' \in [Groups -> [Nodes -> {"none", "init", "got", "failed"}]]
          /\ err' \in [Groups -> Errs]
          /\ \A h \in Groups, m \in Nodes :
               stat'[h][m] = IF h \in H /\ m = n THEN how ELSE stat[h][m]
          /\ FinalAfter(H, n, how) \subseteq H
          /\ \A h \in H : ~Settled(h) /\ life[h] = "live"
          /\ \A h \in Groups : Settled(h)' <=> Settled(h) \/ h \in FinalAfter(H, n, how)
          /\ life' = life => StatInv'
      BY <3>1, <3>2, SettleIs
    <3>5. \A h \in Groups, m \in Nodes :
            stat'[h][m] = IF h \in {g} /\ m = n THEN how ELSE stat[h][m]
      BY <3>3, <3>4
    <3>6. F \subseteq {g} /\ \A h \in {g} : ~Settled(h) /\ life[h] = "live"
      BY <3>2, <3>3, <3>4
    <3>7. \A h \in Groups : Settled(h)' <=> Settled(h) \/ h \in F
      BY <3>2, <3>4
    <3> QED
      BY <3>1, <3>4, <3>5, <3>6, <3>7
  <2>3. RequestErr(g, n, how) \in Errs /\ (RequestErr(g, n, how) # "PENDING" <=> g \in F)
    BY DEF RequestErr, VerdictOf, Errs
  <2>4. g \in F => todo'[t] = {}
    <3>1. g \in F => \A m \in Want[g] : stat'[g][m] # "init"
      BY <2>1 DEF FinalAfter, Final, Settle
    <3>2. ASSUME NEW m \in todo'[t] PROVE m \in Want[g] /\ stat'[g][m] = "init"
      <4>1. m \in todo[t] /\ m # n /\ todo[t] \subseteq Want[g] /\ m \in Nodes
        BY <1>g, <1>1, <1>2 DEF PlaceOf, TypeOK
      <4>2. stat[g][m] = "init"
        BY <1>g, <1>1, <4>1 DEF Asks, WaitInv, WaitOf
      <4> QED
        BY <2>2, <4>1, <4>2
    <3> QED
      BY <3>1, <3>2
  <2> HIDE DEF F
  <2>5. ret'[t] = RequestErr(g, n, how) /\ \A u \in Threads \ {t} : ret'[u] = ret[u]
    BY <2>1 DEF TypeOK
  <2>6. TypeOK'
    BY <1>1, <2>1, <2>2, <2>3 DEF TypeOK, QueueStep
  <2>7. PlaceInv'
    <3>1. todo'[t] = todo[t] \ {n}
      BY <1>1 DEF TypeOK
    <3>2. PlaceOf(t)'
      BY <1>g, <1>1, <1>2, <2>3, <2>4, <2>5, <3>1 DEF PlaceOf, Getter, Putter
    <3>3. Getter(t)' => Getter(t) /\ grp'[t] = grp[t]
      BY <1>1, <1>2
    <3>4. Putter(t)' => Putter(t) /\ grp'[t] = grp[t]
      BY <1>1 DEF Putter
    <3>5. \A u \in Threads \ {t} : /\ pc'[u] = pc[u] /\ grp'[u] = grp[u] /\ todo'[u] = todo[u]
                                   /\ id'[u] = id[u] /\ ends'[u] = ends[u] /\ back'[u] = back[u]
                                   /\ ret'[u] = ret[u]
      BY <1>1, <2>5 DEF TypeOK
    <3> QED
      BY <1>1, <3>2, <3>3, <3>4, <3>5, PlaceMove
  <2>8. WaitInv'
    <3> SUFFICES ASSUME NEW h \in Groups, NEW m \in Nodes PROVE WaitOf(h, m)'
      BY <2>1 DEF WaitInv, QueueStep
    <3>1. WaitOf(h, m) /\ Popped(m)' = Popped(m)
      BY <2>1 DEF WaitInv, QueueStep
    <3>2. CASE h = g /\ m = n
      BY <1>3, <1>4, <1>5, <2>2, <3>1, <3>2 DEF WaitOf
    <3>3. CASE ~(h = g /\ m = n)
      <4>1. h \in Popped(m)' => Online(m) /\ Online(m)'
        BY <3>1 DEF Popped
      <4>2. h \in Popped(m)' => stat'[h][m] = "init" /\ Nodeid'[h][m] = table'[m].fence
        BY <2>1, <2>2, <3>1, <3>3, <4>1 DEF WaitOf, QueueStep
      <4>3. stat'[h][m] = stat[h][m] /\ \A u \in Threads : Asks(u, h, m)' <=> Asks(u, h, m)
        BY <1>5, <2>2, <3>3
      <4> QED
        BY <3>1, <4>2, <4>3 DEF WaitOf
    <3> QED
      BY <3>2, <3>3
  <2>9. ToldInv'
    <3>1. \A u \in Threads, h \in Groups : Owes(u, h)' <=> Owes(u, h) \/ (u = t /\ h \in F)
      BY <1>g, <1>1, <1>2, <2>2, <2>3, <2>5 DEF Owes
    <3>2. F \subseteq Groups /\ \A h \in F : ~Settled(h) /\ life[h] = "live"
      BY <2>2
    <3>3. \A u \in Threads, h \in Groups : h \in ends'[u] => h \in ends[u] \/ h \in F
      BY <1>1
    <3> QED
      BY <1>1, <2>2, <3>1, <3>2, <3>3, ToldOwed
  <2> QED
    BY <2>2, <2>6, <2>7, <2>8, <2>9
<1>9. CASE /\ Online(n)
           /\ table' = [table EXCEPT ![n].queue = Append(@, g)]
           /\ Nodeid' = [Nodeid EXCEPT ![g][n] = table[n].fence]
           /\ ret' = [ret EXCEPT ![t] = "PENDING"]
           /\ UNCHANGED <<stat, err>>
  <2>1. QueueStep(n, Popped(n) \cup {g})
    BY <1>3, <1>6, <1>9, PushQueues
  <2>2. /\ Nodeid' \in [Groups -> [Nodes -> Nat \cup {-1}]]
        /\ \A h \in Groups, m \in Nodes :
             Nodeid'[h][m] = IF h = g /\ m = n THEN table[n].fence ELSE Nodeid[h][m]
    BY <1>7, <1>9 DEF TypeOK
  <2>3. TypeOK'
    BY <1>1, <1>9, <2>1, <2>2 DEF TypeOK, QueueStep, Errs
  <2>4. ret' = ret
    BY <1>2, <1>9 DEF TypeOK
  <2>5. PlaceInv'
    <3>1. todo'[t] = todo[t] \ {n}
      BY <1>1 DEF TypeOK
    <3>2. PlaceOf(t)'
      BY <1>g, <1>1, <1>2, <2>4, <3>1 DEF PlaceOf, Getter, Putter
    <3>3. Getter(t)' => Getter(t) /\ grp'[t] = grp[t]
      BY <1>1, <1>2
    <3>4. Putter(t)' => Putter(t) /\ grp'[t] = grp[t]
      BY <1>1 DEF Putter
    <3>5. \A u \in Threads \ {t} : /\ pc'[u] = pc[u] /\ grp'[u] = grp[u] /\ todo'[u] = todo[u]
                                   /\ id'[u] = id[u] /\ ends'[u] = ends[u] /\ back'[u] = back[u]
                                   /\ ret'[u] = ret[u]
      BY <1>1, <2>4 DEF TypeOK
    <3> QED
      BY <1>1, <3>2, <3>3, <3>4, <3>5, PlaceMove
  <2>6. StatInv'
    BY <1>1, <1>9 DEF StatInv
  <2>7. WaitInv'
    <3> SUFFICES ASSUME NEW h \in Groups, NEW m \in Nodes PROVE WaitOf(h, m)'
      BY <2>1 DEF WaitInv, QueueStep
    <3>1. WaitOf(h, m) /\ (h \in Popped(m)' <=> h \in Popped(m) \/ (h = g /\ m = n))
      BY <2>1 DEF WaitInv, QueueStep
    <3>2. CASE h = g /\ m = n
      <4>1. Online(n)' /\ table'[n].fence = table[n].fence
        <5>1. g \in Popped(n)'
          BY <3>1, <3>2
        <5>2. Online(n)'
          BY <5>1 DEF Popped
        <5> QED
          BY <1>9, <2>1, <5>2 DEF QueueStep
      <4>2. stat'[g][n] = "init" /\ g \in Popped(n)' /\ Nodeid'[g][n] = table'[n].fence
        BY <1>3, <1>9, <2>2, <3>1, <3>2, <4>1
      <4>3. \A u \in Threads : ~Asks(u, g, n)'
        BY <1>4, <1>5
      <4> QED
        BY <3>2, <4>2, <4>3 DEF WaitOf
    <3>3. CASE ~(h = g /\ m = n)
      <4>1. h \in Popped(m) => Online(m) /\ Online(m)'
        BY <3>1 DEF Popped
      <4>2. h \in Popped(m)' => stat'[h][m] = "init" /\ Nodeid'[h][m] = table'[m].fence
        BY <1>9, <2>1, <2>2, <3>1, <3>3, <4>1 DEF WaitOf, QueueStep
      <4>3. stat'[h][m] = stat[h][m] /\ \A u \in Threads : Asks(u, h, m)' <=> Asks(u, h, m)
        BY <1>5, <1>9, <3>3
      <4> QED
        BY <3>1, <3>3, <4>2, <4>3 DEF WaitOf
    <3> QED
      BY <3>2, <3>3
  <2>8. ToldInv'
    <3>1. \A u \in Threads, h \in Groups : Owes(u, h)' <=> Owes(u, h)
      BY <1>1, <2>4 DEF Owes
    <3> QED
      BY <1>1, <1>9, <3>1, ToldQuiet
  <2> QED
    BY <2>3, <2>5, <2>6, <2>7, <2>8
<1>10. CASE /\ ~Online(n) /\ Settle({g}, n, "failed")
            /\ ret' = [ret EXCEPT ![t] = RequestErr(g, n, "failed")]
            /\ UNCHANGED <<table, Nodeid>>
  <2>1. QueueStep(n, Popped(n))
    BY <1>6, <1>10, SameQueues
  <2>2. Nodeid' \in [Groups -> [Nodes -> Nat \cup {-1}]]
    BY <1>10 DEF TypeOK
  <2> QED
    BY <1>8, <1>10, <2>1, <2>2
<1>11. CASE /\ Online(n)
            /\ table' = [table EXCEPT ![n].base = Charged(@, Cost[g])]
            /\ Nodeid' = [Nodeid EXCEPT ![g][n] = table[n].fence]
            /\ Settle({g}, n, "got")
            /\ ret' = [ret EXCEPT ![t] = RequestErr(g, n, "got")]
  <2>1. PICK b \in Account : b = Charged(table[n].base, Cost[g])
    BY <1>7, <1>11, CostType, ChargedType
  <2>2. table' = [table EXCEPT ![n].base = b]
    BY <1>11, <2>1
  <2>3. QueueStep(n, Popped(n))
    BY <1>6, <1>11, <2>1, <2>2, NewBase
  <2>4. Nodeid' \in [Groups -> [Nodes -> Nat \cup {-1}]]
    BY <1>7, <1>11 DEF TypeOK
  <2>5. \A h \in Groups, m \in Nodes : ~(h = g /\ m = n) => Nodeid'[h][m] = Nodeid[h][m]
    BY <1>11 DEF TypeOK
  <2> QED
    BY <1>8, <1>11, <2>3, <2>4, <2>5
<1> QED
  <2>1. \/ /\ ~Online(n) /\ Settle({g}, n, "failed")
           /\ ret' = [ret EXCEPT ![t] = RequestErr(g, n, "failed")]
           /\ UNCHANGED <<table, Nodeid>>
        \/ /\ Online(n)
           /\ table' = [table EXCEPT ![n].base = Charged(@, Cost[g])]
           /\ Nodeid' = [Nodeid EXCEPT ![g][n] = table[n].fence]
           /\ Settle({g}, n, "got")
           /\ ret' = [ret EXCEPT ![t] = RequestErr(g, n, "got")]
        \/ /\ Online(n)
           /\ table' = [table EXCEPT ![n].queue = Append(@, g)]
           /\ Nodeid' = [Nodeid EXCEPT ![g][n] = table[n].fence]
           /\ ret' = [ret EXCEPT ![t] = "PENDING"]
           /\ UNCHANGED <<stat, err>>
    BY <1>g DEF GetOne
  <2> QED
    BY <1>9, <1>10, <1>11, <2>1

\* Its loop is over.
LEMMA GetReturnStep ==
  ASSUME Inv, NEW t \in Threads, GetReturn(t)
  PROVE  Inv'
<1> USE DEF Inv
<1>g. PICK g \in Groups : g = grp[t]
  BY DEF GetReturn, PlaceInv, PlaceOf, Getter
<1>1. /\ pc[t] = "get" /\ todo[t] = {}
      /\ UNCHANGED <<crew, table, version, stat, Nodeid, err, todo, ends, back>>
  BY DEF GetReturn
<1>2. /\ PlaceOf(t) /\ Getter(t) /\ ~Putter(t) /\ ends[t] = {} /\ back[t] = "idle"
      /\ ret[t] # "PENDING" => life[g] = "live"
  BY <1>g, <1>1 DEF PlaceInv, PlaceOf, Getter, Putter
<1>3. CASE /\ ret[t] = "FAILEDNODE" /\ life' = [life EXCEPT ![g] = "putting"]
           /\ pc' = [pc EXCEPT ![t] = "out"]
           /\ UNCHANGED <<told, grp, id, ret>>
  <2>1. TypeOK'
    BY <1>1, <1>3 DEF TypeOK, Places
  <2>2. Owes(t, g) /\ told[g] = 0 /\ Settled(g) /\ \A u \in Threads \ {t} : ~Owes(u, g)
    <3>1. Owes(t, g)
      BY <1>g, <1>3 DEF Owes
    <3> QED
      BY <3>1 DEF ToldInv, ToldOf
  <2>3. \A u \in Threads \ {t} : grp[u] = g => ~Getter(u) /\ ~Putter(u)
    BY <1>g, <1>2, <1>3 DEF PlaceInv, PlaceOf, Apart
  <2>4. PlaceInv'
    <3>1. ASSUME NEW u \in Threads \ {t}
          PROVE  PlaceOf(u)' /\ (Getter(u)' <=> Getter(u)) /\ (Putter(u)' <=> Putter(u)) /\ grp'[u] = grp[u]
      BY <1>1, <1>3, <2>3, <3>1 DEF PlaceInv, PlaceOf, Getter, Putter, TypeOK
    <3>2. pc'[t] = "out" /\ life'[g] = "putting" /\ grp'[t] = g
      BY <1>g, <1>3 DEF TypeOK
    <3>3. PlaceOf(t)' /\ ~Getter(t)' /\ grp'[t] = g
      BY <1>1, <1>2, <1>3, <3>2 DEF PlaceOf, Getter, Putter
    <3>4. \A u, v \in Threads : Apart(u, v)'
      BY <2>3, <3>1, <3>3 DEF PlaceInv, Apart
    <3> QED
      BY <3>1, <3>3, <3>4 DEF PlaceInv
  <2>5. StatInv'
    BY <1>1, <1>2, <1>3, <2>2 DEF StatInv, TypeOK, Settled
  <2>6. WaitInv'
    <3>1. \A u \in Threads, h \in Groups, m \in Nodes : Asks(u, h, m)' <=> Asks(u, h, m)
      BY <1>1, <1>3 DEF Asks, TypeOK
    <3> QED
      BY <1>1, <3>1, WaitQuiet
  <2>7. ToldInv'
    <3>1. \A u \in Threads, h \in Groups : Owes(u, h)' <=> Owes(u, h)
      BY <1>1, <1>3 DEF Owes
    <3>2. \A h \in Groups : Settled(h)' <=> Settled(h)
      BY <1>1 DEF Settled, Asked
    <3>3. \A u \in Threads : g \notin ends[u]
      BY <1>2, <2>2 DEF Owes
    <3>4. \A u \in Threads, h \in Groups : h \in ends'[u] => life'[h] = "live"
      BY <1>1, <1>3, <3>3 DEF ToldInv, ToldOf, TypeOK
    <3> QED
      BY <1>3, <3>1, <3>2, <3>4 DEF ToldInv, ToldOf
  <2> QED
    BY <2>1, <2>4, <2>5, <2>6, <2>7
<1>4. CASE /\ ret[t] # "FAILEDNODE"
           /\ told' = [told EXCEPT ![g] = IF ret[t] = "OK" THEN @ + 1 ELSE @]
           /\ ret' = [ret EXCEPT ![t] = "PENDING"]
           /\ pc' = [pc EXCEPT ![t] = "idle"]
           /\ grp' = [grp EXCEPT ![t] = NoGroup] /\ id' = [id EXCEPT ![t] = NoNode]
           /\ life' = life
  <2>1. told' \in [Groups -> Nat]
    BY <1>4 DEF TypeOK
  <2>2. TypeOK'
    BY <1>1, <1>4, <2>1 DEF TypeOK, Places, Errs
  <2>3. pc'[t] = "idle" /\ grp'[t] = NoGroup /\ ret'[t] = "PENDING"
    BY <1>4 DEF TypeOK
  <2>4. \A u \in Threads \ {t} : /\ pc'[u] = pc[u] /\ grp'[u] = grp[u] /\ todo'[u] = todo[u]
                                 /\ id'[u] = id[u] /\ ends'[u] = ends[u] /\ back'[u] = back[u]
                                 /\ ret'[u] = ret[u]
    BY <1>1, <1>4 DEF TypeOK
  <2>5. PlaceInv'
    <3>1. PlaceOf(t)' /\ ~Getter(t)' /\ ~Putter(t)'
      BY <1>1, <1>2, <2>3, NullAssumption DEF PlaceOf, Getter, Putter
    <3> QED
      BY <1>4, <2>4, <3>1, PlaceMove
  <2>6. StatInv'
    BY <1>1, <1>4 DEF StatInv
  <2>7. WaitInv'
    <3>1. ASSUME NEW u \in Threads, NEW h \in Groups, NEW m \in Nodes
          PROVE  Asks(u, h, m)' <=> Asks(u, h, m)
      <4>1. CASE u = t
        BY <1>1, <2>3, <4>1 DEF Asks
      <4>2. CASE u # t
        BY <2>4, <4>2 DEF Asks
      <4> QED
        BY <4>1, <4>2
    <3> QED
      BY <1>1, <1>4, <3>1, WaitQuiet
  <2>8. ToldInv'
    <3>1. ret[t] \in {"PENDING", "OK"}
      BY <1>4 DEF TypeOK, Errs
    <3>2. \A u \in Threads, h \in Groups : Owes(u, h)' <=> Owes(u, h) /\ ~(u = t /\ h = g /\ ret[t] = "OK")
      <4> SUFFICES ASSUME NEW u \in Threads, NEW h \in Groups
                   PROVE  Owes(u, h)' <=> Owes(u, h) /\ ~(u = t /\ h = g /\ ret[t] = "OK")
        OBVIOUS
      <4>1. CASE u = t
        BY <1>g, <1>1, <1>2, <2>3, <3>1, <4>1 DEF Owes
      <4>2. CASE u # t
        BY <2>4, <4>2 DEF Owes
      <4> QED
        BY <4>1, <4>2
    <3>3. ret[t] = "OK" => Owes(t, g)
      BY <1>g DEF Owes
    <3>4. \A h \in Groups : told'[h] = IF h = g /\ ret[t] = "OK" THEN told[h] + 1 ELSE told[h]
      BY <1>4 DEF TypeOK
    <3>5. ASSUME NEW h \in Groups PROVE ToldOf(h)'
      <4>1. ToldOf(h) /\ (Settled(h)' <=> Settled(h))
        BY <1>1 DEF ToldInv, Settled, Asked
      <4>2. CASE h = g /\ ret[t] = "OK"
        <5>1. /\ told[h] = 0 /\ told'[h] = 1 /\ Settled(h)
              /\ \A u \in Threads : ~Owes(u, h)'
          BY <3>2, <3>3, <3>4, <4>1, <4>2 DEF ToldOf
        <5>2. \A u \in Threads : h \notin ends'[u]
          BY <5>1 DEF Owes
        <5> QED
          BY <4>1, <5>1, <5>2 DEF ToldOf
      <4>3. CASE ~(h = g /\ ret[t] = "OK")
        <5>1. told'[h] = told[h] /\ \A u \in Threads : Owes(u, h)' <=> Owes(u, h)
          BY <3>2, <3>4, <4>3
        <5> QED
          BY <1>1, <1>4, <4>1, <5>1 DEF ToldOf
      <4> QED
        BY <4>2, <4>3
    <3> QED
      BY <3>5 DEF ToldInv
  <2> QED
    BY <2>2, <2>5, <2>6, <2>7, <2>8
<1> QED
  BY <1>g, <1>3, <1>4 DEF GetReturn, Return, Goto

\* Requests H of node n are settled and leave its queue, and t will tell the groups
\* this ends: what both taking a node offline and waking its queue do.
SettledFrom(t, n, H, how) ==
  /\ H \subseteq Popped(n)
  /\ QueueStep(n, Popped(n) \ H)
  /\ Settle(H, n, how)
  /\ ends' = [ends EXCEPT ![t] = @ \cup FinalAfter(H, n, how)]
  /\ UNCHANGED <<crew, life, Nodeid, told, grp, ret>>
  /\ \A u \in Threads, g \in Groups, m \in Nodes : Asks(u, g, m)' <=> Asks(u, g, m)

\* It keeps the parts of the invariant about requests and verdicts.
LEMMA SettledFromStep ==
  ASSUME Inv, NEW t \in Threads, NEW n \in Nodes, NEW H, NEW how \in {"got", "failed"},
         SettledFrom(t, n, H, how)
  PROVE  /\ StatInv' /\ WaitInv' /\ ToldInv'
         /\ stat' \in [Groups -> [Nodes -> {"none", "init", "got", "failed"}]]
         /\ err' \in [Groups -> Errs]
         /\ ends' \in [Threads -> SUBSET Groups]
<1>1. TypeOK /\ StatInv /\ WaitInv /\ ToldInv /\ TableInv
  BY InvTable DEF Inv
<1>2. /\ H \subseteq Popped(n) /\ QueueStep(n, Popped(n) \ H) /\ Settle(H, n, how)
      /\ ends' = [ends EXCEPT ![t] = @ \cup FinalAfter(H, n, how)]
      /\ UNCHANGED <<crew, life, Nodeid, told, grp, ret>>
      /\ \A u \in Threads, g \in Groups, m \in Nodes : Asks(u, g, m)' <=> Asks(u, g, m)
  BY DEF SettledFrom
<1>3. H \subseteq Groups /\ \A g \in H : stat[g][n] = "init"
  <2>1. Popped(n) \subseteq Groups
    BY <1>1, ItemIs
  <2> QED
    BY <1>1, <1>2, <2>1 DEF WaitInv, WaitOf
<1>4. /\ stat' \in [Groups -> [Nodes -> {"none", "init", "got", "failed"}]]
      /\ err' \in [Groups -> Errs]
      /\ \A g \in Groups, m \in Nodes :
           stat'[g][m] = IF g \in H /\ m = n THEN how ELSE stat[g][m]
      /\ FinalAfter(H, n, how) \subseteq H
      /\ \A g \in H : ~Settled(g) /\ life[g] = "live"
      /\ \A g \in Groups : Settled(g)' <=> Settled(g) \/ g \in FinalAfter(H, n, how)
      /\ life' = life => StatInv'
  BY <1>1, <1>2, <1>3, SettleIs
<1>5. WaitInv'
  <2>1. WaitInv /\ Nodeid' = Nodeid
    BY <1>1, <1>2
  <2>2. \A g \in Groups, m \in Nodes : stat'[g][m] = IF g \in H /\ m = n THEN how ELSE stat[g][m]
    BY <1>4
  <2> HIDE DEF Inv
  <2> QED
    BY <1>2, <2>1, <2>2, WaitKept
<1>6. PICK F : F = FinalAfter(H, n, how)
  OBVIOUS
<1>7. F \subseteq Groups /\ \A g \in F : ~Settled(g) /\ life[g] = "live"
  BY <1>3, <1>4, <1>6
<1>8. ends' = [ends EXCEPT ![t] = @ \cup F] /\ \A g \in Groups : Settled(g)' <=> Settled(g) \/ g \in F
  BY <1>2, <1>4, <1>6
<1>9. ToldInv'
  BY <1>1, <1>2, <1>7, <1>8, ToldSettle
<1>10. ends' \in [Threads -> SUBSET Groups]
  BY <1>1, <1>7, <1>8 DEF TypeOK
<1> QED
  BY <1>2, <1>4, <1>5, <1>9, <1>10

\* A node is taken offline, by an event or by a putter.
LEMMA TakeOfflineStep ==
  ASSUME Inv, NEW t \in Threads, NEW n \in Nodes, NEW next \in {"idle", "out"},
         IF next = "out" THEN pc[t] = "outoffline" ELSE pc[t] = "idle",
         TakeOffline(t, n, next), UNCHANGED <<crew, grp, todo, id, ret>>
  PROVE  Inv'
<1>1. /\ table' = [table EXCEPT ![n] = NoItem] /\ Settle(Popped(n), n, "failed")
      /\ ends' = [ends EXCEPT ![t] = FinalAfter(Popped(n), n, "failed")]
      /\ pc' = [pc EXCEPT ![t] = "ends"] /\ back' = [back EXCEPT ![t] = next]
      /\ UNCHANGED <<version, life, Nodeid, told>>
  BY DEF TakeOffline
<1>2. PlaceOf(t) /\ ends[t] = {}
  BY DEF Inv, PlaceInv, PlaceOf
<1>3. pc'[t] = "ends" /\ back'[t] = next
  BY <1>1 DEF Inv, TypeOK
<1>4. SettledFrom(t, n, Popped(n), "failed")
  <2>1. QueueStep(n, Popped(n) \ Popped(n))
    <3>1. QueueStep(n, {})
      BY <1>1, InvTable, OfflineQueues
    <3>2. Popped(n) \ Popped(n) = {}
      OBVIOUS
    <3> QED
      BY <3>1, <3>2
  <2>2. \A u \in Threads, g \in Groups, m \in Nodes : Asks(u, g, m)' <=> Asks(u, g, m)
    BY <1>1 DEF Asks, Inv, TypeOK
  <2>3. ends' = [ends EXCEPT ![t] = @ \cup FinalAfter(Popped(n), n, "failed")]
    BY <1>1, <1>2
  <2> QED
    BY <1>1, <2>1, <2>2, <2>3 DEF SettledFrom
<1>5. /\ StatInv' /\ WaitInv' /\ ToldInv'
      /\ stat' \in [Groups -> [Nodes -> {"none", "init", "got", "failed"}]]
      /\ err' \in [Groups -> Errs]
      /\ ends' \in [Threads -> SUBSET Groups]
  BY <1>4, SettledFromStep
<1>6. TypeOK'
  BY <1>1, <1>4, <1>5 DEF Inv, TypeOK, Places, SettledFrom, QueueStep
<1>7. PlaceInv'
  <2>1. PlaceOf(t)' /\ ~Getter(t)' /\ (Putter(t)' => Putter(t))
    BY <1>1, <1>2, <1>3 DEF PlaceOf, Getter, Putter
  <2>2. \A u \in Threads \ {t} : /\ pc'[u] = pc[u] /\ grp'[u] = grp[u] /\ todo'[u] = todo[u]
                                 /\ id'[u] = id[u] /\ ends'[u] = ends[u] /\ back'[u] = back[u]
                                 /\ ret'[u] = ret[u]
    BY <1>1 DEF Inv, TypeOK
  <2> QED
    BY <1>1, <2>1, <2>2, PlaceMove DEF Inv
<1> QED
  BY <1>5, <1>6, <1>7 DEF Inv

\* A putter takes a dead node offline.
LEMMA OutOfflineStep ==
  ASSUME Inv, NEW t \in Threads, OutOffline(t)
  PROVE  Inv'
<1>1. pc[t] = "outoffline" /\ id[t] \in Nodes
  BY DEF OutOffline, Inv, PlaceInv, PlaceOf
<1> QED
  BY <1>1, TakeOfflineStep DEF OutOffline

\* A node goes by itself.
LEMMA NodeOfflineStep ==
  ASSUME Inv, NEW t \in Threads, NEW n \in Nodes, NodeOffline(t, n)
  PROVE  Inv'
BY TakeOfflineStep DEF NodeOffline

\* A node is woken with an account that got better.
LEMMA WakeIs ==
  ASSUME Inv, NEW t \in Threads, NEW n \in Nodes, Online(n), NEW b \in Account,
         NEW item, item = [table[n] EXCEPT !.base = b], WakeNode(t, n, item),
         UNCHANGED <<crew, life, Nodeid, told, grp, ret>>,
         \A u \in Threads, g \in Groups, m \in Nodes : Asks(u, g, m)' <=> Asks(u, g, m)
  PROVE  SettledFrom(t, n, Woken(item), "got")
<1>1. item \in Items /\ item.queue = table[n].queue /\ item.fence = table[n].fence
  <2>1. table[n] \in Items
    BY InvTable, ItemIs
  <2> QED
    BY <2>1 DEF Items
<1>2. /\ table' = [table EXCEPT ![n] = WakenItem(item)] /\ Settle(Woken(item), n, "got")
      /\ ends' = [ends EXCEPT ![t] = @ \cup FinalAfter(Woken(item), n, "got")]
  BY DEF WakeNode
<1>3. QueueStep(n, Popped(n) \ Woken(item)) /\ Woken(item) \subseteq Popped(n)
  BY <1>1, <1>2, InvTable, WakeQueues
<1> QED
  BY <1>2, <1>3 DEF SettledFrom

\* A putter gives tokens back.
LEMMA PutOneStep ==
  ASSUME Inv, NEW t \in Threads, NEW n \in Nodes, PutOne(t, n)
  PROVE  Inv'
<1>g. PICK g \in Groups : g = grp[t]
  BY DEF PutOne, Inv, PlaceInv, PlaceOf, Putter
<1>1. /\ pc[t] = "put" /\ n \in todo[t] /\ todo' = [todo EXCEPT ![t] = @ \ {n}]
      /\ UNCHANGED <<crew, version, life, Nodeid, told, pc, grp, id, back, ret>>
      /\ PlaceOf(t)
  BY DEF PutOne, Inv, PlaceInv
<1>2. \A u \in Threads, h \in Groups, m \in Nodes : Asks(u, h, m)' <=> Asks(u, h, m)
  BY <1>1 DEF Asks, Inv, TypeOK
<1>3. \A u \in Threads \ {t} : todo'[u] = todo[u]
  BY <1>1 DEF Inv, TypeOK
<1>4. todo' \in [Threads -> SUBSET Nodes]
  BY <1>1 DEF Inv, TypeOK
<1>5. Getter(t)' => Getter(t)
  BY <1>1 DEF Getter
<1>6. Putter(t)' => Putter(t)
  BY <1>1 DEF Putter
<1>7. CASE IsOurNode(g, n) /\ WakeNode(t, n, [table[n] EXCEPT !.base = Freed(@, Cost[g])])
  <2>1. Online(n)
    BY <1>7 DEF IsOurNode
  <2>2. PICK b \in Account : b = Freed(table[n].base, Cost[g])
    <3>1. table[n].base \in Account
      BY <2>1, InvTable, ItemIs
    <3> QED
      BY <3>1, CostType, FreedType
  <2>3. PICK item : item = [table[n] EXCEPT !.base = b]
    OBVIOUS
  <2>4. WakeNode(t, n, item)
    BY <1>7, <2>2, <2>3
  <2>5. SettledFrom(t, n, Woken(item), "got")
    BY <1>1, <1>2, <2>1, <2>3, <2>4, WakeIs
  <2>6. /\ StatInv' /\ WaitInv' /\ ToldInv'
        /\ stat' \in [Groups -> [Nodes -> {"none", "init", "got", "failed"}]]
        /\ err' \in [Groups -> Errs]
        /\ ends' \in [Threads -> SUBSET Groups]
    BY <2>5, SettledFromStep
  <2>7. TypeOK'
    BY <1>1, <1>4, <2>5, <2>6 DEF Inv, TypeOK, SettledFrom, QueueStep
  <2>8. PlaceInv'
    <3>1. \A u \in Threads \ {t} : ends'[u] = ends[u]
      BY <2>5 DEF SettledFrom, Inv, TypeOK
    <3>2. PlaceOf(t)'
      BY <1>1 DEF PlaceOf, Getter, Putter
    <3> QED
      BY <1>1, <1>3, <1>5, <1>6, <3>1, <3>2, PlaceMove DEF Inv
  <2> QED
    BY <2>6, <2>7, <2>8 DEF Inv
<1>8. CASE UNCHANGED <<table, stat, err, ends>>
  <2>1. TypeOK'
    BY <1>1, <1>4, <1>8 DEF Inv, TypeOK
  <2>2. Quietly(t)
    BY <1>1, <1>2, <1>3, <1>8 DEF Quietly, Owes, group
  <2>3. QueueStep(n, Popped(n))
    BY <1>8, InvTable, SameQueues
  <2>4. PlaceOf(t)'
    BY <1>1, <1>8 DEF PlaceOf, Getter, Putter
  <2> QED
    BY <1>1, <1>5, <1>6, <2>1, <2>2, <2>3, <2>4, QuietStep
<1> QED
  BY <1>g, <1>7, <1>8 DEF PutOne

\* A message is received.
LEMMA RcvdStep ==
  ASSUME Inv, NEW t \in Threads, NEW n \in Nodes, NEW q \in Quotas, NEW v \in Versions,
         Rcvd(t, n, q, v)
  PROVE  Inv'
<1>1. /\ pc[t] = "idle" /\ PlaceOf(t) /\ grp[t] = NoGroup /\ ends[t] = {} /\ back[t] = "idle"
      /\ ret[t] = "PENDING"
      /\ UNCHANGED <<crew, version, life, Nodeid, told, grp, todo, back, ret>>
  BY DEF Rcvd, Inv, PlaceInv, PlaceOf, Getter, Putter, TypeOK
<1>2. Online(n) => Updated(table[n].base, q, v) \in Account
  BY InvTable, ItemIs, UpdatedType
<1>3. CASE /\ Online(n) /\ WakeNode(t, n, [table[n] EXCEPT !.base = Updated(@, q, v)])
           /\ pc' = [pc EXCEPT ![t] = "ends"] /\ id' = id
  <2>1. PICK b \in Account : b = Updated(table[n].base, q, v)
    BY <1>2, <1>3
  <2>2. PICK item : item = [table[n] EXCEPT !.base = b]
    OBVIOUS
  <2>3. WakeNode(t, n, item)
    BY <1>3, <2>1, <2>2
  <2>4. \A u \in Threads, h \in Groups, m \in Nodes : Asks(u, h, m)' <=> Asks(u, h, m)
    BY <1>1, <1>3 DEF Asks, Inv, TypeOK
  <2>5. SettledFrom(t, n, Woken(item), "got")
    BY <1>1, <1>3, <2>2, <2>3, <2>4, WakeIs
  <2>6. /\ StatInv' /\ WaitInv' /\ ToldInv'
        /\ stat' \in [Groups -> [Nodes -> {"none", "init", "got", "failed"}]]
        /\ err' \in [Groups -> Errs]
        /\ ends' \in [Threads -> SUBSET Groups]
    BY <2>5, SettledFromStep
  <2>7. TypeOK'
    BY <1>1, <1>3, <2>5, <2>6 DEF Inv, TypeOK, Places, SettledFrom, QueueStep
  <2>8. PlaceInv'
    <3>1. \A u \in Threads \ {t} : ends'[u] = ends[u] /\ pc'[u] = pc[u]
      BY <1>3, <2>5 DEF SettledFrom, Inv, TypeOK
    <3>2. pc'[t] = "ends"
      BY <1>3 DEF Inv, TypeOK
    <3>3. PlaceOf(t)' /\ ~Getter(t)' /\ ~Putter(t)'
      BY <1>1, <3>2, NullAssumption DEF PlaceOf, Getter, Putter
    <3> QED
      BY <1>1, <1>3, <3>1, <3>3, PlaceMove DEF Inv
  <2> QED
    BY <2>6, <2>7, <2>8 DEF Inv
<1>4. ASSUME QueueStep(n, Popped(n)), UNCHANGED <<stat, err, ends>>,
             NEW p \in {"idle", "rcvdonline", "reset"}, pc' = [pc EXCEPT ![t] = p],
             NEW i \in Nodes \cup {NoNode}, id' = [id EXCEPT ![t] = i], p # "idle" => i \in Nodes
      PROVE  Inv'
  <2>1. TypeOK'
    BY <1>1, <1>4 DEF Inv, TypeOK, Places, QueueStep
  <2>2. pc'[t] = p /\ id'[t] = i
    BY <1>4 DEF Inv, TypeOK
  <2>3. PlaceOf(t)' /\ ~Getter(t)' /\ ~Putter(t)'
    BY <1>1, <1>4, <2>2, NullAssumption DEF PlaceOf, Getter, Putter
  <2>4. Quietly(t)
    BY <1>1, <1>4, <2>2 DEF Quietly, Asks, Owes, Inv, TypeOK, group
  <2> QED
    BY <1>4, <2>1, <2>3, <2>4, QuietStep
<1>5. id[t] \in Nodes \cup {NoNode} /\ pc = [pc EXCEPT ![t] = "idle"] /\ id = [id EXCEPT ![t] = id[t]]
  BY <1>1 DEF Inv, TypeOK
<1>6. table' = table => QueueStep(n, Popped(n))
  BY InvTable, SameQueues
<1>7. CASE /\ Online(n) /\ table' = [table EXCEPT ![n].base = Updated(@, q, v)]
           /\ UNCHANGED <<stat, err, ends, pc, id>>
  <2>1. PICK b \in Account : b = Updated(table[n].base, q, v)
    BY <1>2, <1>7
  <2>2. table' = [table EXCEPT ![n].base = b]
    BY <1>7, <2>1
  <2>3. QueueStep(n, Popped(n))
    BY <1>7, <2>2, InvTable, NewBase
  <2> QED
    BY <1>4, <1>5, <1>7, <2>3
<1>8. CASE \E p \in {"rcvdonline", "reset"} : /\ pc' = [pc EXCEPT ![t] = p] /\ id' = [id EXCEPT ![t] = n]
                                              /\ UNCHANGED <<table, stat, err, ends>>
  BY <1>4, <1>6, <1>8
<1> QED
  BY <1>3, <1>7, <1>8 DEF Rcvd, Goto

\* A thread calls a group back.
LEMMA EndOneStep ==
  ASSUME Inv, NEW t \in Threads, NEW g \in Groups, EndOne(t, g)
  PROVE  Inv'
<1> USE DEF Inv
<1>1. /\ pc[t] = "ends" /\ g \in ends[t] /\ PlaceOf(t)
      /\ told' = [told EXCEPT ![g] = @ + 1] /\ ends' = [ends EXCEPT ![t] = @ \ {g}]
      /\ UNCHANGED <<crew, table, version, life, stat, Nodeid, err, pc, grp, todo, id, back, ret>>
  BY DEF EndOne, PlaceInv
<1>2. TypeOK'
  BY <1>1 DEF TypeOK
<1>3. /\ told[g] = 0 /\ Settled(g) /\ life[g] = "live" /\ Owes(t, g)
      /\ \A u \in Threads \ {t} : ~Owes(u, g)
  <2>1. Owes(t, g)
    BY <1>1 DEF Owes
  <2> QED
    BY <1>1, <2>1 DEF ToldInv, ToldOf
<1>4. PlaceInv'
  <2>1. PlaceOf(t)' /\ (Getter(t)' => Getter(t)) /\ (Putter(t)' => Putter(t))
    BY <1>1 DEF PlaceOf, Getter, Putter
  <2>2. \A u \in Threads \ {t} : ends'[u] = ends[u]
    BY <1>1 DEF TypeOK
  <2> QED
    BY <1>1, <2>1, <2>2, PlaceMove
<1>5. StatInv'
  BY <1>1 DEF StatInv
<1>6. WaitInv'
  <2>1. \A u \in Threads, h \in Groups, m \in Nodes : Asks(u, h, m)' <=> Asks(u, h, m)
    BY <1>1 DEF Asks
  <2> QED
    BY <1>1, <2>1, WaitQuiet
<1>7. ToldInv'
  <2>1. \A u \in Threads, h \in Groups : h \in ends'[u] <=> h \in ends[u] /\ ~(u = t /\ h = g)
    BY <1>1 DEF TypeOK
  <2>2. \A h \in Groups : /\ told'[h] = IF h = g THEN told[h] + 1 ELSE told[h]
                          /\ Settled(h)' <=> Settled(h)
    BY <1>1 DEF TypeOK, Settled, Asked
  <2>3. ~(ret[t] # "PENDING" /\ grp[t] = g)
    BY <1>1, <1>3 DEF PlaceOf, Getter
  <2>4. \A u \in Threads, h \in Groups : Owes(u, h)' <=> Owes(u, h) /\ ~(u = t /\ h = g)
    BY <1>1, <2>1, <2>3 DEF Owes
  <2>5. ASSUME NEW h \in Groups PROVE ToldOf(h)'
    <3>1. ToldOf(h)
      BY DEF ToldInv
    <3>2. CASE h = g
      <4>1. told'[h] = 1 /\ \A u \in Threads : ~Owes(u, h)'
        BY <1>3, <2>2, <2>4, <3>2
      <4> QED
        BY <1>1, <1>3, <2>1, <2>2, <3>1, <3>2, <4>1 DEF ToldOf
    <3>3. CASE h # g
      BY <1>1, <2>1, <2>2, <2>4, <3>1, <3>3 DEF ToldOf
    <3> QED
      BY <3>2, <3>3
  <2> QED
    BY <2>5 DEF ToldInv
<1> QED
  BY <1>2, <1>4, <1>5, <1>6, <1>7

\* So does every step.
LEMMA NextInv ==
  ASSUME Inv, [Next]_vars
  PROVE  Inv'
<1>1. CASE UNCHANGED vars
  BY <1>1 DEF Inv, vars, TypeOK, PlaceInv, PlaceOf, Apart, Getter, Putter, StatInv, WaitInv, WaitOf,
              OnceQueued, Popped, Online, Asks, ToldInv, ToldOf, Owes, Settled, Asked
<1>2. CASE Rest
  BY <1>1, <1>2 DEF Rest
<1>3. ASSUME NEW t \in Threads, Step(t) PROVE Inv'
  BY <1>3, CheckInStep, InOnlineStep, GetReturnStep, CheckOutStep, OutOfflineStep, GetOneStep,
     PutOneStep, PutUnlockStep, EndsDoneStep, FreeGroupStep, EndOneStep, RcvdOnlineStep,
     NodeResetStep DEF Step
<1>4. ASSUME NEW t \in Threads, Put(t) PROVE Inv'
  BY <1>4, PutBeginStep DEF Put
<1>5. ASSUME NEW t \in Threads, Event(t) PROVE Inv'
  BY <1>5, GetBeginStep, GetNoMemoryStep, NodeOnlineStep, NodeOfflineStep, RcvdStep DEF Event
<1> QED
  BY <1>1, <1>2, <1>3, <1>4, <1>5 DEF Next

\* The invariant holds always.
LEMMA AlwaysInv == Spec => []Inv
<1>1. Inv /\ [Next]_vars => Inv'
  BY NextInv
<1> QED
  BY <1>1, InitInv, PTL DEF Spec

-------------------------------------------------------------------------------
(* What follows from it.                                                       *)

\* All the state keeps its type, for any nodes, groups, threads and messages.
THEOREM TypeCorrect == Spec => []TypeOK
<1>1. Inv => TypeOK
  BY DEF Inv
<1> QED
  BY <1>1, AlwaysInv, PTL

\* How many members a set has of which no two differ.
LEMMA AtMostOne ==
  ASSUME NEW S, \A x, y \in S : x = y
  PROVE  /\ Cardinality(S) = IF S = {} THEN 0 ELSE 1
<1>1. CASE S = {}
  BY <1>1, FS_EmptySet
<1>2. CASE S # {}
  <2>1. PICK x \in S : S = {x}
    BY <1>2
  <2> QED
    BY <1>2, <2>1, FS_Singleton
<1> QED
  BY <1>1, <1>2

\* A request that waits is in the queue of the node that is in the table now, once,
\* and is of that node's incarnation; one that is not there has still to be made by
\* the get_token_grp of its group.  However nodes come and go, none is lost.
THEOREM WaitersAreKnown == Spec => []WaitersKnown
<1>1. ASSUME Inv PROVE WaitersKnown
  <2> USE <1>1 DEF Inv
  <2> DEFINE places(g, n) ==
               IF Online(n) THEN {i \in DOMAIN table[n].queue : table[n].queue[i] = g} ELSE {}
             toAsk(g, n) == {t \in Threads : /\ grp[t] = g
                                             /\ \/ pc[t] \in {"in", "inonline"} /\ n \in Want[g]
                                                \/ pc[t] = "get" /\ n \in todo[t]}
  <2>1. ASSUME NEW g \in Groups, NEW n \in Nodes
        PROVE  /\ Cardinality(places(g, n)) + Cardinality(toAsk(g, n))
                    = IF stat[g][n] = "init" THEN 1 ELSE 0
               /\ places(g, n) # {} => Nodeid[g][n] = table[n].fence
    <3>1. WaitOf(g, n)
      BY DEF WaitInv
    <3>2. places(g, n) # {} <=> g \in Popped(n)
      BY DEF Popped
    <3>3. \A i, j \in places(g, n) : i = j
      BY DEF WaitInv, OnceQueued
    <3>4. \A t : t \in toAsk(g, n) <=> t \in Threads /\ Asks(t, g, n)
      BY DEF Asks
    <3>5. \A t, u \in toAsk(g, n) : t = u
      BY <3>4 DEF PlaceInv, Apart, Asks, Getter
    <3> HIDE DEF places, toAsk
    <3>6. toAsk(g, n) # {} <=> \E t \in Threads : Asks(t, g, n)
      BY <3>4
    <3>7. Cardinality(places(g, n)) = IF places(g, n) = {} THEN 0 ELSE 1
      BY <3>3, AtMostOne
    <3>8. Cardinality(toAsk(g, n)) = IF toAsk(g, n) = {} THEN 0 ELSE 1
      BY <3>5, AtMostOne
    <3> QED
      BY <3>1, <3>2, <3>6, <3>7, <3>8 DEF WaitOf
  <2> QED
    BY <2>1 DEF WaitersKnown
<1> QED
  BY <1>1, AlwaysInv, PTL

\* The application is told each verdict once: from the moment the last request of a
\* group is settled either it was told, or one thread is about to tell it.
THEOREM AnswersOnce == Spec => []ToldOnce
<1>1. ASSUME Inv PROVE ToldOnce
  <2>1. ASSUME NEW g \in Groups
        PROVE  told[g] + Cardinality(Owing(g)) = IF Settled(g) THEN 1 ELSE 0
    <3>1. ToldOf(g)
      BY <1>1 DEF Inv, ToldInv
    <3>2. \A t : t \in Owing(g) <=> t \in Threads /\ Owes(t, g)
      BY DEF Owing, Owes
    <3>3. \A t, u \in Owing(g) : t = u
      BY <3>1, <3>2 DEF ToldOf
    <3>4. Cardinality(Owing(g)) = IF Owing(g) = {} THEN 0 ELSE 1
      BY <3>3, AtMostOne
    <3>5. Owing(g) # {} <=> \E t \in Threads : Owes(t, g)
      BY <3>2
    <3> QED
      BY <3>1, <3>4, <3>5 DEF ToldOf
  <2> QED
    BY <2>1 DEF ToldOnce
<1> QED
  BY <1>1, AlwaysInv, PTL

\* No queue, no callback and no operation goes on with a group that was freed.
THEOREM NoneDangles == Spec => []NoDanglingGroup
<1>1. ASSUME Inv PROVE NoDanglingGroup
  <2> SUFFICES ASSUME NEW g \in Groups, life[g] # "live"
               PROVE  /\ \A n \in Nodes : Online(n) =>
                           \A i \in DOMAIN table[n].queue : table[n].queue[i] # g
                      /\ \A t \in Threads : g \notin ends[t]
                      /\ life[g] = "freed" =>
                           \A t \in Threads : grp[t] = g => pc[t] = "get" /\ todo[t] = {}
    BY DEF NoDanglingGroup
  <2>1. \A n \in Nodes : g \notin Popped(n)
    BY <1>1 DEF Inv, WaitInv, WaitOf, StatInv
  <2>2. \A t \in Threads : g \notin ends[t]
    BY <1>1 DEF Inv, ToldInv, ToldOf
  <2>3. ASSUME life[g] = "freed", NEW t \in Threads, grp[t] = g
        PROVE  pc[t] = "get" /\ todo[t] = {}
    BY <1>1, <2>3 DEF Inv, PlaceInv, PlaceOf, Getter
  <2> QED
    BY <2>1, <2>2, <2>3 DEF Popped
<1> QED
  BY <1>1, AlwaysInv, PTL

\* A thread inside a read-locked loop has a group that lives or is being put, unless
\* it has only to return.
THEOREM LoopsAreLive == Spec => [](\A t \in Threads :
  pc[t] \in {"get", "put"} /\ todo[t] # {} => life[grp[t]] \in {"live", "putting"})
<1>1. Inv => \A t \in Threads :
        pc[t] \in {"get", "put"} /\ todo[t] # {} => life[grp[t]] \in {"live", "putting"}
  BY DEF Inv, PlaceInv, PlaceOf, Putter
<1> QED
  BY <1>1, AlwaysInv, PTL
===============================================================================
