-------------------------- MODULE DispatchNodeProofs --------------------------
(***************************************************************************)
(* Proofs about DispatchNode, for every set of requests and threads, every *)
(* cost and word size, and every message: type correctness, the exclusion  *)
(* of the spin lock and what rests on it, the account's bounds, the sums   *)
(* of press and of tokens in use, and what a single thread can rely on.    *)
(***************************************************************************)
EXTENDS DispatchNode, FiniteSums, SequenceTheorems

\* An account whose quota has not fallen below its target.
Settling == {b \in Account : b.quota_new <= b.quota}

\* The word, MIN_RS_NUM and the respond step are what WordAssumption says.
LEMMA WordPositive == Word \in Nat /\ Word > 0 /\ MinRs \in Tokens /\ RespondStep \in Tokens
BY WordAssumption DEF Tokens

\* Unsigned sums and differences of token counts are token counts.
LEMMA TokenArithmetic ==
  ASSUME NEW x \in Tokens, NEW y \in Tokens
  PROVE  Plus(x, y) \in Tokens /\ Minus(x, y) \in Tokens
BY WordPositive DEF Tokens, Plus, Minus

\* Stepping a quota down to a target that is not above it leaves it not below.
LEMMA SteppedDownType ==
  ASSUME NEW b \in Account, NEW target \in Tokens
  PROVE  SteppedDown(b, target) \in Tokens /\ target <= SteppedDown(b, target)
<1>1. b.quota \in Tokens /\ RespondStep \in Tokens
  BY WordPositive DEF Account
<1>2. Minus(b.quota, RespondStep) \in Tokens
  BY <1>1, TokenArithmetic
<1> QED
  BY <1>2 DEF SteppedDown, Tokens

\* Four fields of the right types, the target not above the quota, make an account.
LEMMA SettlingRecord ==
  ASSUME NEW i \in Tokens, NEW q \in Tokens, NEW n \in Tokens, NEW v \in Nat, n <= q
  PROVE  [inuse |-> i, quota |-> q, quota_new |-> n, version |-> v] \in Settling
<1> DEFINE r == [inuse |-> i, quota |-> q, quota_new |-> n, version |-> v]
<1>1. r \in Account
  BY DEF Account
<1>2. r.quota_new = n /\ r.quota = q
  OBVIOUS
<1> HIDE DEF r
<1> QED
  BY <1>1, <1>2 DEF Settling, r

\* An account is its four fields.
LEMMA SettlingFields ==
  ASSUME NEW b \in Settling
  PROVE  /\ b = [inuse |-> b.inuse, quota |-> b.quota,
                 quota_new |-> b.quota_new, version |-> b.version]
         /\ b \in Account
         /\ b.inuse \in Tokens /\ b.quota \in Tokens /\ b.quota_new \in Tokens
         /\ b.version \in Nat
         /\ b.quota_new <= b.quota
BY DEF Settling, Account

(* Each operation of sysqos_dispatch_base_node.c leaves the quota not below its
   target: init, reset, free, the charge of an allocation, and the update by a
   message.                                                                    *)

\* dispatch_base_node_init.
LEMMA FreshSettling == Fresh \in Settling
<1>1. 0 \in Tokens /\ MinRs \in Tokens /\ MinRs <= MinRs
  BY WordPositive DEF Tokens
<1> QED
  BY <1>1, SettlingRecord DEF Fresh

\* reset: quota and target are both MIN_RS_NUM.
LEMMA ResetSettling ==
  ASSUME NEW b \in Settling
  PROVE  ResetAccount(b) \in Settling
<1>1. b \in Account /\ MinRs \in Tokens /\ MinRs <= MinRs /\ 0 \in Nat
  BY WordPositive, SettlingFields DEF Tokens
<1>2. ResetAccount(b) \in Account
  BY <1>1 DEF ResetAccount, Account
<1>3. ResetAccount(b).quota = MinRs /\ ResetAccount(b).quota_new = MinRs
  BY <1>1 DEF ResetAccount, Account
<1> QED
  BY <1>1, <1>2, <1>3 DEF Settling

\* free_to_desc changes the tokens in use only.
LEMMA FreedSettling ==
  ASSUME NEW b \in Settling, NEW cost \in Tokens
  PROVE  Freed(b, cost) \in Settling
<1>1. Minus(b.inuse, cost) \in Tokens
  BY TokenArithmetic, SettlingFields
<1>2. Freed(b, cost) = [inuse |-> Minus(b.inuse, cost), quota |-> b.quota,
                        quota_new |-> b.quota_new, version |-> b.version]
  <2>1. b \in Account
    BY SettlingFields
  <2> QED
    BY <2>1 DEF Freed, Account
<1> QED
  BY <1>1, <1>2, SettlingFields, SettlingRecord

\* A charge takes the quota at most one step down, to the target at the lowest.
LEMMA ChargedSettling ==
  ASSUME NEW b \in Settling, NEW cost \in Tokens
  PROVE  Charged(b, cost) \in Settling
<1>1. Plus(b.inuse, cost) \in Tokens
  BY TokenArithmetic, SettlingFields
<1> DEFINE q == IF b.quota_new < b.quota THEN SteppedDown(b, b.quota_new) ELSE b.quota
<1>2. q \in Tokens /\ b.quota_new <= q
  BY SteppedDownType, SettlingFields
<1>3. Charged(b, cost) = [inuse |-> Plus(b.inuse, cost), quota |-> q,
                          quota_new |-> b.quota_new, version |-> b.version]
  <2>1. b \in Account
    BY SettlingFields
  <2>2. Charged(b, cost) = [b EXCEPT !.inuse = Plus(@, cost), !.quota = q]
    BY <2>1 DEF Charged, Account
  <2> HIDE DEF q
  <2> QED
    BY <2>1, <2>2 DEF Account
<1> HIDE DEF q
<1> QED
  BY <1>1, <1>2, <1>3, SettlingFields, SettlingRecord

\* A newer message sets the target to its quota, or keeps it when nothing changes.
LEMMA UpdatedSettling ==
  ASSUME NEW b \in Settling, NEW q \in Tokens, NEW v \in Nat
  PROVE  Updated(b, q, v) \in Settling
<1>1. CASE v <= b.version
  BY <1>1 DEF Updated
<1>2. CASE ~(v <= b.version)
  <2> DEFINE new == IF b.quota = q THEN b.quota_new ELSE q
             quota == CASE b.quota < q -> q
                        [] b.quota > q -> SteppedDown(b, q)
                        [] OTHER -> b.quota
  <2>1. Updated(b, q, v) = [inuse |-> b.inuse, quota |-> quota, quota_new |-> new, version |-> v]
    <3>1. b \in Account /\ b.version \in Nat
      BY SettlingFields
    <3> QED
      BY <1>2, <3>1 DEF Updated, Account
  <2>2. new \in Tokens /\ quota \in Tokens /\ new <= quota
    <3>1. SteppedDown(b, q) \in Tokens /\ q <= SteppedDown(b, q)
      BY SteppedDownType, SettlingFields
    <3>2. b.quota \in Nat /\ q \in Nat
      BY SettlingFields, WordPositive DEF Tokens
    <3>3. CASE b.quota < q
      BY <3>2, <3>3
    <3>4. CASE b.quota > q
      BY <3>1, <3>2, <3>4
    <3>5. CASE b.quota = q
      BY <3>2, <3>5, SettlingFields
    <3> QED
      BY <3>2, <3>3, <3>4, <3>5
  <2> HIDE DEF new, quota
  <2> QED
    BY <2>1, <2>2, SettlingFields, SettlingRecord
<1> QED
  BY <1>1, <1>2
-------------------------------------------------------------------------------
(* The inductive invariant.                                                    *)

\* A section entered with the spin lock held is run by the thread that holds it.
LockInv == \A t \in Threads : pc[t] \in Locked => lck = t

\* A thread that is looking at a message has one.
MsgInv ==
  \A t \in Threads : pc[t] \in {"isold", "issame", "update"} =>
    msg[t] \in Quotas \X Versions

Inv == /\ TypeOK
       /\ QuotaNotBelowTarget
       /\ LockInv
       /\ MsgInv
       /\ PopsWhatItPaid

\* Every cost is a number of tokens, and so is every quota a message carries.
LEMMA InputTypes ==
  /\ \A r \in Rips : Cost[r] \in Tokens
  /\ \A m \in Quotas \X Versions : m[1] \in Tokens /\ m[2] \in Nat
<1>1. 1..(Word - 1) \subseteq Tokens
  BY WordPositive DEF Tokens
<1>2. \A r \in Rips : Cost[r] \in Tokens
  BY <1>1, CostAssumption
<1>3. \A m \in Quotas \X Versions : m[1] \in Tokens /\ m[2] \in Nat
  BY MessageAssumption
<1> QED
  BY <1>2, <1>3

\* What an operation does to the account keeps the account's part of the invariant.
LEMMA PaySettling ==
  ASSUME NEW r \in Rips, TypeOK, QuotaNotBelowTarget, Pay(r)
  PROVE  base' \in Settling /\ paid' \subseteq Rips
<1>1. base \in Settling /\ Cost[r] \in Tokens
  BY InputTypes DEF TypeOK, QuotaNotBelowTarget, Settling
<1>2. Charged(base, Cost[r]) \in Settling
  BY <1>1, ChargedSettling
<1> QED
  BY <1>1, <1>2 DEF Pay, TypeOK

\* No other thread is in a section that needs the spin lock while one is.
LEMMA Exclusion ==
  ASSUME Inv, NEW t \in Threads, pc[t] \in Locked,
         NEW u \in Threads, u # t
  PROVE  pc[u] \notin Locked
BY DEF Inv, LockInv

\* A new node, with no thread working on it.
LEMMA InvInit == Init => Inv
<1> SUFFICES ASSUME Init PROVE Inv
  OBVIOUS
<1>1. Fresh \in Account /\ Fresh.quota_new <= Fresh.quota
  BY FreshSettling DEF Settling
<1>2. (CHOOSE r \in Rips : TRUE) \in Rips
  BY RipsAssumption
<1>3. <<>> \in Seq(Rips) /\ 0 \in Tokens
  BY WordPositive DEF Tokens
<1>4. TypeOK
  BY <1>1, <1>2, <1>3 DEF Init, TypeOK, RipStats, Places, NoMsg
<1>5. QuotaNotBelowTarget
  BY <1>1 DEF Init, QuotaNotBelowTarget
<1>6. LockInv /\ MsgInv /\ PopsWhatItPaid
  BY DEF Init, LockInv, MsgInv, PopsWhatItPaid, Locked
<1> QED
  BY <1>4, <1>5, <1>6 DEF Inv

(* One lemma per action: the invariant holds after it.                         *)

\* The actions that move a thread on and touch nothing but its own pc: a test of
\* the account or the queue, and the entry of a section that needs no lock.
LEMMA MoveKeepsInv ==
  ASSUME Inv, NEW t \in Threads, NEW place \in Places \ Locked,
         pc[t] \notin Locked,
         place \in {"isold", "issame", "update"} => msg'[t] \in Quotas \X Versions,
         Goto(t, place),
         \A u \in Threads \ {t} : msg'[u] = msg[u],
         msg' \in [Threads -> Quotas \X Versions \cup {NoMsg}],
         UNCHANGED <<crew, online, node, lck, rip>>
  PROVE  Inv'
<1> USE DEF Inv, node, Goto
<1>1. \A u \in Threads : pc'[u] = IF u = t THEN place ELSE pc[u]
  BY DEF TypeOK
<1>2. TypeOK'
  BY DEF TypeOK
<1>3. QuotaNotBelowTarget'
  BY DEF QuotaNotBelowTarget
<1>4. LockInv'
  BY <1>1 DEF LockInv
<1>5. MsgInv'
  BY <1>1 DEF MsgInv
<1>6. PopsWhatItPaid'
  BY <1>1 DEF PopsWhatItPaid, Locked
<1> QED
  BY <1>2, <1>3, <1>4, <1>5, <1>6
\* Taking the spin lock: everybody else is outside the sections that need it.
LEMMA SpinLockKeepsInv ==
  ASSUME Inv, NEW t \in Threads, NEW from \in Places, NEW to \in {"retry", "wake"},
         SpinLock(t, from, to)
  PROVE  Inv'
<1> USE DEF Inv, SpinLock, node, Goto
<1>1. \A u \in Threads : pc'[u] = IF u = t THEN to ELSE pc[u]
  BY DEF TypeOK
<1>2. \A u \in Threads : pc[u] \notin Locked
  BY ThreadsAssumption DEF LockInv
<1>3. TypeOK'
  BY DEF TypeOK, Places
<1>4. QuotaNotBelowTarget'
  BY DEF QuotaNotBelowTarget
<1>5. LockInv'
  BY <1>1, <1>2 DEF LockInv
<1>6. MsgInv'
  BY <1>1 DEF MsgInv
<1>7. PopsWhatItPaid'
  BY <1>1 DEF PopsWhatItPaid
<1> QED
  BY <1>3, <1>4, <1>5, <1>6, <1>7

\* A move between two sections that are both entered with the lock held.
LEMMA HeldMoveKeepsInv ==
  ASSUME Inv, NEW t \in Threads, pc[t] = "retry",
         NEW place \in {"recharge", "push"}, Goto(t, place),
         UNCHANGED <<crew, online, node, lck, rip, msg>>
  PROVE  Inv'
<1> USE DEF Inv, node, Goto
<1>0. pc[t] \in Locked
  BY DEF Locked
<1>1. \A u \in Threads : pc'[u] = IF u = t THEN place ELSE pc[u]
  BY DEF TypeOK
<1>2. TypeOK'
  BY DEF TypeOK, Places
<1>3. QuotaNotBelowTarget'
  BY DEF QuotaNotBelowTarget
<1>4. LockInv'
  BY <1>0, <1>1 DEF LockInv
<1>5. MsgInv'
  BY <1>1 DEF MsgInv
<1>6. PopsWhatItPaid'
  BY <1>1 DEF PopsWhatItPaid
<1> QED
  BY <1>2, <1>3, <1>4, <1>5, <1>6

\* A change of the account, of what was paid, of a request's status or of the
\* request a thread outside the lock works on leaves the queue and its order alone.
LEMMA AccountKeepsInv ==
  ASSUME Inv, NEW t \in Threads, NEW place \in Places \ Locked,
         Goto(t, place),
         base' \in Settling, paid' \subseteq Rips, rstat' \in [Rips -> RipStats],
         rip' \in [Threads -> Rips],
         \A u \in Threads \ {t} : rip'[u] = rip[u] /\ msg'[u] = msg[u],
         msg' \in [Threads -> Quotas \X Versions \cup {NoMsg}],
         place \notin {"isold", "issame", "update"},
         lck' = lck \/ (pc[t] \in Locked /\ Unlock(t)),
         UNCHANGED <<crew, online, queue, press>>
  PROVE  Inv'
<1> USE DEF Inv, Goto
<1>1. \A u \in Threads : pc'[u] = IF u = t THEN place ELSE pc[u]
  BY DEF TypeOK
<1>2. TypeOK'
  BY DEF TypeOK, Settling, Unlock
<1>3. QuotaNotBelowTarget'
  BY DEF QuotaNotBelowTarget, Settling
<1>4. LockInv'
  BY <1>1, Exclusion DEF LockInv
<1>5. MsgInv'
  BY <1>1 DEF MsgInv
<1>6. PopsWhatItPaid'
  BY <1>1 DEF PopsWhatItPaid, Locked
<1> QED
  BY <1>2, <1>3, <1>4, <1>5, <1>6

\* Appending to the queue under the lock: nobody else is about to pop its front.
LEMMA PushBackKeepsInv ==
  ASSUME Inv, NEW t \in Threads, PushBack(t)
  PROVE  Inv'
<1> USE DEF Inv, PushBack, Goto, Unlock
<1>0. pc[t] \in Locked
  BY DEF Locked
<1>1. \A u \in Threads : pc'[u] = IF u = t THEN "idle" ELSE pc[u]
  BY DEF TypeOK
<1>2. TypeOK'
  <2>1. Append(queue, rip[t]) \in Seq(Rips)
    BY AppendProperties DEF TypeOK
  <2>2. Plus(press, Cost[rip[t]]) \in Tokens
    BY TokenArithmetic, InputTypes DEF TypeOK
  <2> QED
    BY <2>1, <2>2 DEF TypeOK, RipStats, Places
<1>3. QuotaNotBelowTarget'
  BY DEF QuotaNotBelowTarget
<1>4. \A u \in Threads : pc'[u] \notin Locked
  BY <1>0, <1>1, Exclusion DEF Locked
<1>5. LockInv' /\ PopsWhatItPaid'
  BY <1>4 DEF LockInv, PopsWhatItPaid, Locked
<1>6. MsgInv'
  BY <1>1 DEF MsgInv
<1> QED
  BY <1>2, <1>3, <1>5, <1>6

\* Popping the front: the thread that does it is the only one that was about to.
LEMMA PopKeepsInv ==
  ASSUME Inv, NEW t \in Threads, Pop(t)
  PROVE  Inv'
<1> USE DEF Inv, Pop, Goto, Grant
<1>0. pc[t] \in Locked /\ queue # <<>>
  BY DEF Locked, PopsWhatItPaid
<1>1. \A u \in Threads : pc'[u] = IF u = t THEN "wake" ELSE pc[u]
  BY DEF TypeOK
<1>2. TypeOK'
  <2>1. Tail(queue) \in Seq(Rips) /\ Head(queue) \in Rips
    BY <1>0, HeadTailProperties DEF TypeOK
  <2>2. Minus(press, Cost[Head(queue)]) \in Tokens
    BY <2>1, TokenArithmetic, InputTypes DEF TypeOK
  <2> QED
    BY <2>1, <2>2 DEF TypeOK, RipStats, Places
<1>3. QuotaNotBelowTarget'
  BY DEF QuotaNotBelowTarget
<1>4. \A u \in Threads \ {t} : pc'[u] \notin Locked
  BY <1>0, <1>1, Exclusion
<1>5. LockInv'
  BY <1>0, <1>4 DEF LockInv
<1>6. PopsWhatItPaid'
  BY <1>1, <1>4 DEF PopsWhatItPaid, Locked
<1>7. MsgInv'
  BY <1>1 DEF MsgInv
<1> QED
  BY <1>2, <1>3, <1>5, <1>6, <1>7
\* Looking at the front: the request looked at is the front one.
LEMMA WakeKeepsInv ==
  ASSUME Inv, NEW t \in Threads, Wake(t)
  PROVE  Inv'
<1> USE DEF Inv, Goto
<1>0. pc[t] \in Locked
  BY DEF Wake, Locked
<1>1. CASE FrontFits /\ rip' = [rip EXCEPT ![t] = Head(queue)] /\ Goto(t, "wakecharge")
           /\ UNCHANGED <<crew, online, node, lck, msg>>
  <2> USE <1>1 DEF node
  <2>1. \A u \in Threads : pc'[u] = IF u = t THEN "wakecharge" ELSE pc[u]
    BY DEF TypeOK
  <2>2. queue # <<>> /\ Head(queue) \in Rips
    BY HeadTailProperties DEF FrontFits, TypeOK
  <2>3. TypeOK'
    BY <2>2 DEF TypeOK, Places
  <2>4. QuotaNotBelowTarget'
    BY DEF QuotaNotBelowTarget
  <2>5. LockInv'
    BY <1>0, <2>1 DEF LockInv
  <2>6. MsgInv'
    BY <2>1 DEF MsgInv
  <2>7. PopsWhatItPaid'
    BY <2>1, <2>2 DEF PopsWhatItPaid, TypeOK
  <2> QED
    BY <2>3, <2>4, <2>5, <2>6, <2>7
<1>2. CASE Goto(t, "idle") /\ Unlock(t) /\ UNCHANGED <<crew, online, node, rip, msg>>
  <2>1. base' \in Settling /\ paid' \subseteq Rips /\ rstat' \in [Rips -> RipStats]
    BY <1>2 DEF TypeOK, QuotaNotBelowTarget, Settling, node
  <2>2. "idle" \in Places \ Locked
    BY DEF Places, Locked
  <2>3. rip' \in [Threads -> Rips] /\ msg' \in [Threads -> Quotas \X Versions \cup {NoMsg}]
    BY <1>2 DEF TypeOK
  <2> QED
    BY <1>0, <1>2, <2>1, <2>2, <2>3, AccountKeepsInv DEF node
<1> QED
  BY <1>1, <1>2 DEF Wake

\* Charging the front request: the lock is kept until it is popped.
LEMMA WakeChargeKeepsInv ==
  ASSUME Inv, NEW t \in Threads, WakeCharge(t)
  PROVE  Inv'
<1> USE DEF Inv, WakeCharge, Goto
<1>0. pc[t] \in Locked
  BY DEF Locked
<1>1. \A u \in Threads : pc'[u] = IF u = t THEN "pop" ELSE pc[u]
  BY DEF TypeOK
<1>2. base' \in Settling /\ paid' \subseteq Rips
  BY PaySettling DEF TypeOK
<1>3. TypeOK'
  BY <1>2 DEF TypeOK, Settling, Places
<1>4. QuotaNotBelowTarget'
  BY <1>2 DEF QuotaNotBelowTarget, Settling
<1>5. LockInv'
  BY <1>0, <1>1 DEF LockInv
<1>6. MsgInv'
  BY <1>1 DEF MsgInv
<1>7. PopsWhatItPaid'
  BY <1>1 DEF PopsWhatItPaid
<1> QED
  BY <1>3, <1>4, <1>5, <1>6, <1>7

\* Dropping the queue: nobody is inside an operation.
LEMMA OfflineKeepsInv ==
  ASSUME Inv, Offline
  PROVE  Inv'
<1> USE DEF Inv, Offline
<1>1. TypeOK'
  <2>1. <<>> \in Seq(Rips) /\ 0 \in Tokens
    BY WordPositive DEF Tokens
  <2>2. rstat' \in [Rips -> RipStats]
    BY DEF TypeOK, RipStats
  <2> QED
    BY <2>1, <2>2 DEF TypeOK
<1>2. QuotaNotBelowTarget'
  BY DEF QuotaNotBelowTarget
<1>3. LockInv' /\ MsgInv' /\ PopsWhatItPaid'
  BY DEF LockInv, MsgInv, PopsWhatItPaid, WriteLocked
<1> QED
  BY <1>1, <1>2, <1>3
\* The steps of an operation that is under way.
LEMMA StepKeepsInv ==
  ASSUME Inv, NEW t \in Threads, Step(t)
  PROVE  Inv'
<1>a. {"idle", "lock", "charge", "front", "wakelock", "issame", "update", "reset"}
        \subseteq Places \ Locked
  BY DEF Places, Locked
<1>b. /\ base \in Settling /\ paid \subseteq Rips /\ rstat \in [Rips -> RipStats]
      /\ rip \in [Threads -> Rips] /\ rip[t] \in Rips
      /\ msg \in [Threads -> Quotas \X Versions \cup {NoMsg}]
      /\ TypeOK /\ QuotaNotBelowTarget
  BY DEF Inv, TypeOK, QuotaNotBelowTarget, Settling
<1>c. [rstat EXCEPT ![rip[t]] = "held"] \in [Rips -> RipStats]
      /\ [rstat EXCEPT ![rip[t]] = "put"] \in [Rips -> RipStats]
  BY <1>b DEF RipStats
<1>d. [msg EXCEPT ![t] = NoMsg] \in [Threads -> Quotas \X Versions \cup {NoMsg}]
      /\ \A u \in Threads \ {t} : [msg EXCEPT ![t] = NoMsg][u] = msg[u]
  BY <1>b
<1>1. CASE TryAlloc(t)
  <2>1. PICK place \in {"charge", "lock"} : Goto(t, place)
    BY <1>1 DEF TryAlloc
  <2> QED
    BY <1>1, <1>a, <1>b, <2>1, MoveKeepsInv DEF TryAlloc, Locked
<1>2. CASE Charge(t)
  BY <1>2, <1>a, <1>b, <1>c, PaySettling, AccountKeepsInv DEF Charge, Grant
<1>3. CASE AllocLock(t)
  BY <1>3, SpinLockKeepsInv DEF AllocLock, Places
<1>4. CASE Retry(t)
  <2>1. PICK place \in {"recharge", "push"} : Goto(t, place)
    BY <1>4 DEF Retry
  <2> QED
    BY <1>4, <2>1, <1>a, HeldMoveKeepsInv DEF Retry
<1>5. CASE Recharge(t)
  <2>1. pc[t] \in Locked
    BY <1>5 DEF Recharge, Locked
  <2> QED
    BY <1>5, <2>1, <1>a, <1>b, <1>c, PaySettling, AccountKeepsInv DEF Recharge, Grant
<1>6. CASE PushBack(t)
  BY <1>6, PushBackKeepsInv
<1>7. CASE Front(t)
  <2>1. PICK place \in {"idle", "wakelock"} : Goto(t, place)
    BY <1>7 DEF Front
  <2> QED
    BY <1>7, <1>a, <1>b, <2>1, MoveKeepsInv DEF Front, Locked
<1>8. CASE WakeLock(t)
  BY <1>8, SpinLockKeepsInv DEF WakeLock, Places
<1>9. CASE Wake(t)
  BY <1>9, WakeKeepsInv
<1>10. CASE WakeCharge(t)
  BY <1>10, WakeChargeKeepsInv
<1>11. CASE Pop(t)
  BY <1>11, PopKeepsInv
<1>12. CASE Free(t)
  <2>1. base' \in Settling
    BY <1>12, <1>b, InputTypes, FreedSettling DEF Free
  <2> QED
    BY <1>12, <1>a, <1>b, <1>c, <2>1, AccountKeepsInv DEF Free
<1>13. CASE IsOld(t)
  <2>1. CASE Goto(t, "reset") /\ Forget(t) /\ UNCHANGED <<crew, online, node, lck, rip>>
    BY <1>13, <2>1, <1>a, <1>d, MoveKeepsInv DEF IsOld, Locked, Forget
  <2>2. CASE Goto(t, "issame") /\ UNCHANGED msg /\ UNCHANGED <<crew, online, node, lck, rip>>
    <3>1. msg[t] \in Quotas \X Versions
      BY <1>13 DEF IsOld, Inv, MsgInv
    <3> QED
      BY <1>13, <2>2, <3>1, <1>a, <1>b, MoveKeepsInv DEF IsOld, Locked
  <2> QED
    BY <1>13, <2>1, <2>2 DEF IsOld
<1>14. CASE IsSameVersion(t)
  <2>1. CASE Goto(t, "idle") /\ Forget(t) /\ UNCHANGED <<crew, online, node, lck, rip>>
    BY <1>14, <2>1, <1>a, <1>d, MoveKeepsInv DEF IsSameVersion, Locked, Forget
  <2>2. CASE Goto(t, "update") /\ UNCHANGED msg /\ UNCHANGED <<crew, online, node, lck, rip>>
    <3>1. msg[t] \in Quotas \X Versions
      BY <1>14 DEF IsSameVersion, Inv, MsgInv
    <3> QED
      BY <1>14, <2>2, <3>1, <1>a, <1>b, MoveKeepsInv DEF IsSameVersion, Locked
  <2> QED
    BY <1>14, <2>1, <2>2 DEF IsSameVersion
<1>15. CASE Update(t)
  <2>1. msg[t] \in Quotas \X Versions
    BY <1>15 DEF Update, Inv, MsgInv
  <2>2. base' \in Settling
    BY <1>15, <2>1, <1>b, InputTypes, UpdatedSettling DEF Update
  <2>3. PICK place \in {"idle", "front"} : Goto(t, place)
    BY <1>15 DEF Update
  <2> QED
    BY <1>15, <1>a, <1>b, <1>d, <2>2, <2>3, AccountKeepsInv DEF Update, Forget
<1>16. CASE Reset(t)
  <2>1. base' \in Settling
    BY <1>16, <1>b, ResetSettling DEF Reset
  <2> QED
    BY <1>16, <1>a, <1>b, <2>1, AccountKeepsInv DEF Reset
<1> QED
  BY <1>1, <1>2, <1>3, <1>4, <1>5, <1>6, <1>7, <1>8, <1>9, <1>10, <1>11, <1>12,
     <1>13, <1>14, <1>15, <1>16 DEF Step
\* Every step of every thread, and the end of the node, keeps the invariant.
LEMMA InvNext == Inv /\ [Next]_vars => Inv'
<1> SUFFICES ASSUME Inv, [Next]_vars PROVE Inv'
  OBVIOUS
<1>a. {"try", "free", "isold"} \subseteq Places \ Locked /\ "idle" \notin Locked
  BY DEF Places, Locked
<1>b. /\ base \in Settling /\ paid \subseteq Rips /\ rstat \in [Rips -> RipStats]
      /\ rip \in [Threads -> Rips]
      /\ msg \in [Threads -> Quotas \X Versions \cup {NoMsg}]
  BY DEF Inv, TypeOK, QuotaNotBelowTarget, Settling
<1>1. ASSUME NEW t \in Threads, NEW r \in Rips, AllocBegin(t, r)
      PROVE  Inv'
  <2>1. rstat' \in [Rips -> RipStats] /\ rip' \in [Threads -> Rips]
        /\ \A u \in Threads \ {t} : rip'[u] = rip[u]
    BY <1>1, <1>b DEF AllocBegin, RipStats
  <2> QED
    BY <1>1, <1>a, <1>b, <2>1, AccountKeepsInv DEF AllocBegin
<1>2. ASSUME NEW t \in Threads, NEW r \in Rips, FreeBegin(t, r)
      PROVE  Inv'
  <2>1. rstat' \in [Rips -> RipStats] /\ rip' \in [Threads -> Rips]
        /\ \A u \in Threads \ {t} : rip'[u] = rip[u]
    BY <1>2, <1>b DEF FreeBegin, RipStats
  <2> QED
    BY <1>2, <1>a, <1>b, <2>1, AccountKeepsInv DEF FreeBegin
<1>3. ASSUME NEW t \in Threads, NEW m \in Quotas \X Versions, RcvdBegin(t, m)
      PROVE  Inv'
  <2>1. msg' \in [Threads -> Quotas \X Versions \cup {NoMsg}] /\ msg'[t] = m
        /\ \A u \in Threads \ {t} : msg'[u] = msg[u]
    BY <1>3, <1>b DEF RcvdBegin
  <2> QED
    BY <1>3, <1>a, <2>1, MoveKeepsInv DEF RcvdBegin
<1>4. CASE UNCHANGED vars
  BY <1>4 DEF vars, node, Inv, TypeOK, QuotaNotBelowTarget, LockInv, MsgInv, PopsWhatItPaid
<1>5. CASE Retired
  BY <1>4, <1>5 DEF Retired
<1> QED
  BY <1>1, <1>2, <1>3, <1>4, <1>5, StepKeepsInv, OfflineKeepsInv DEF Next

\* The invariant holds of every behaviour of the node, whatever its threads do.
THEOREM InvInductive == Spec => []Inv
BY InvInit, InvNext, PTL DEF Spec
-------------------------------------------------------------------------------
(* What follows from it.                                                       *)

\* Every variable keeps its type: the queue is never popped when it is empty, and
\* the account's fields stay unsigned words whatever is charged, freed or received.
THEOREM TypeCorrect == Spec => []TypeOK
<1>1. Inv => TypeOK
  BY DEF Inv
<1> QED
  BY <1>1, InvInductive, PTL

\* resource_increased pops the request it paid for, for any number of threads.
THEOREM PopsPaid == Spec => []PopsWhatItPaid
<1>1. Inv => PopsWhatItPaid
  BY DEF Inv
<1> QED
  BY <1>1, InvInductive, PTL

\* The quota in force is never below the one it is on its way to, even when the
\* unsigned step wraps.
THEOREM QuotaAboveTarget == Spec => []QuotaNotBelowTarget
<1>1. Inv => QuotaNotBelowTarget
  BY DEF Inv
<1> QED
  BY <1>1, InvInductive, PTL

\* The operations that pay are the only ones that change what was paid, and the
\* account moves by one of the five operations of the base node.
LEMMA AccountMoves ==
  ASSUME Inv, [Next]_vars
  PROVE  \/ UNCHANGED <<base, paid>>
         \/ \E r \in Rips : Pay(r)
         \/ paid' = paid /\ \/ \E r \in Rips : base' = Freed(base, Cost[r])
                            \/ \E m \in Quotas \X Versions : base' = Updated(base, m[1], m[2])
                            \/ base' = ResetAccount(base)
<1>1. ASSUME NEW t \in Threads, Step(t), ~UNCHANGED <<base, paid>>
      PROVE  \/ \E r \in Rips : Pay(r)
             \/ paid' = paid /\ \/ \E r \in Rips : base' = Freed(base, Cost[r])
                                \/ \E m \in Quotas \X Versions : base' = Updated(base, m[1], m[2])
                                \/ base' = ResetAccount(base)
  <2>1. rip[t] \in Rips
    BY DEF Inv, TypeOK
  <2>2. pc[t] = "update" => msg[t] \in Quotas \X Versions
    BY DEF Inv, MsgInv
  <2>3. \/ Charge(t) \/ Recharge(t) \/ WakeCharge(t) \/ Free(t) \/ Update(t) \/ Reset(t)
    BY <1>1 DEF Step, TryAlloc, AllocLock, WakeLock, SpinLock, Retry, PushBack, Front, Wake,
                Pop, IsOld, IsSameVersion, node
  <2> QED
    BY <1>1, <2>1, <2>2, <2>3 DEF Charge, Recharge, WakeCharge, Free, Update, Reset
<1>2. ASSUME NEW t \in Threads, NEW r \in Rips, AllocBegin(t, r) \/ FreeBegin(t, r)
      PROVE  UNCHANGED <<base, paid>>
  BY <1>2 DEF AllocBegin, FreeBegin
<1>3. ASSUME NEW t \in Threads, NEW m \in Quotas \X Versions, RcvdBegin(t, m)
      PROVE  UNCHANGED <<base, paid>>
  BY <1>3 DEF RcvdBegin, node
<1> QED
  BY <1>1, <1>2, <1>3 DEF Next, Offline, Retired, vars

\* However check, look and write section of several messages interleave, no message
\* overrides a newer one: outside a reset the version never goes back, and the
\* target moves only with a newer version.
THEOREM NewerWins == Spec => NewerMessageWins
<1> DEFINE Newer == /\ base'.version >= base.version
                    /\ base'.quota_new # base.quota_new => base'.version > base.version
           Wins == base' = ResetAccount(base) \/ Newer
<1>1. ASSUME Inv, [Next]_vars
      PROVE  [Wins]_base
  <2>1. base \in Account /\ base.version \in Nat
    BY <1>1 DEF Inv, TypeOK, Account
  <2>2. ASSUME NEW r \in Rips, Pay(r)
        PROVE  Newer
    <3>1. base'.version = base.version /\ base'.quota_new = base.quota_new
      BY <2>1, <2>2 DEF Pay, Charged, Account
    <3> QED
      BY <2>1, <3>1
  <2>3. ASSUME NEW r \in Rips, base' = Freed(base, Cost[r])
        PROVE  Newer
    <3>1. base'.version = base.version /\ base'.quota_new = base.quota_new
      BY <2>1, <2>3 DEF Freed, Account
    <3> QED
      BY <2>1, <3>1
  <2>4. ASSUME NEW m \in Quotas \X Versions, base' = Updated(base, m[1], m[2]), base' # base
        PROVE  Newer
    <3>1. ~(m[2] <= base.version) /\ base'.version = m[2]
      BY <2>1, <2>4 DEF Updated, Account
    <3>2. m[2] \in Nat
      BY InputTypes
    <3> QED
      BY <2>1, <3>1, <3>2
  <2> HIDE DEF Newer
  <2> QED
    BY <1>1, <2>2, <2>3, <2>4, AccountMoves
<1> QED
  BY <1>1, InvInductive, PTL DEF Spec, NewerMessageWins
-------------------------------------------------------------------------------
(* Where the unsigned step does not wrap.                                      *)

\* MIN_RS_NUM and every quota the dispatcher sends are at least the respond step.
\* The program assumes it nowhere; the run underflow shows what happens without.
StepCovered == MinRs >= RespondStep /\ \A q \in Quotas : q >= RespondStep

\* The account's target never falls below the step.
TargetAboveStep == base.quota_new >= RespondStep

\* A new account starts at MIN_RS_NUM.
LEMMA TargetInit == StepCovered /\ Init => TargetAboveStep
BY DEF StepCovered, Init, Fresh, TargetAboveStep

\* The target only ever becomes a quota received, or MIN_RS_NUM.
LEMMA TargetNext ==
  ASSUME StepCovered, Inv, TargetAboveStep, [Next]_vars
  PROVE  TargetAboveStep'
<1>1. base \in Account
  BY DEF Inv, TypeOK
<1>2. ASSUME NEW r \in Rips, Pay(r)
      PROVE  base'.quota_new = base.quota_new
  BY <1>1, <1>2 DEF Pay, Charged, Account
<1>3. ASSUME NEW r \in Rips, base' = Freed(base, Cost[r])
      PROVE  base'.quota_new = base.quota_new
  BY <1>1, <1>3 DEF Freed, Account
<1>4. ASSUME NEW m \in Quotas \X Versions, base' = Updated(base, m[1], m[2])
      PROVE  base'.quota_new = base.quota_new \/ base'.quota_new = m[1]
  BY <1>1, <1>4 DEF Updated, Account
<1>5. ASSUME base' = ResetAccount(base)
      PROVE  base'.quota_new = MinRs
  BY <1>1, <1>5 DEF ResetAccount, Account
<1>6. ASSUME NEW m \in Quotas \X Versions
      PROVE  m[1] >= RespondStep
  BY DEF StepCovered
<1> QED
  BY <1>2, <1>3, <1>4, <1>5, <1>6, AccountMoves DEF StepCovered, TargetAboveStep

\* A sum that wraps once.
LEMMA WrapOnce ==
  ASSUME NEW w \in Nat, NEW d \in 0..(w - 1)
  PROVE  (d + w) % w = d
OBVIOUS

\* A step down from a quota that covers the step goes down, by no more than it.
LEMMA StepDown ==
  ASSUME NEW b \in Settling, NEW target \in Tokens,
         b.quota >= RespondStep, target <= b.quota
  PROVE  SteppedDown(b, target) <= b.quota /\ b.quota - SteppedDown(b, target) <= RespondStep
<1>1. Minus(b.quota, RespondStep) = b.quota - RespondStep
  <2>1. b.quota \in 0..(Word - 1) /\ RespondStep \in 0..(Word - 1) /\ Word \in Nat
    BY SettlingFields, WordPositive DEF Tokens
  <2>2. b.quota + (Word - RespondStep) = (b.quota - RespondStep) + Word
        /\ b.quota - RespondStep \in 0..(Word - 1)
    BY <2>1
  <2>3. ((b.quota - RespondStep) + Word) % Word = b.quota - RespondStep
    BY <2>1, <2>2, WrapOnce
  <2> QED
    BY <2>2, <2>3 DEF Minus
<1> QED
  BY <1>1, SettlingFields, WordPositive DEF SteppedDown, Tokens
\* While quotas cover the step, the quota rises only to its target, falls by at
\* most the step, and is otherwise changed by nothing but a reset.
THEOREM QuotaMovesCovered ==
  ASSUME StepCovered
  PROVE  Spec => QuotaMoves
<1> DEFINE Rise == base'.quota > base.quota => base'.quota = base'.quota_new
           Fall == base'.quota < base.quota =>
                     \/ base.quota - base'.quota <= RespondStep
                     \/ base' = ResetAccount(base)
<1>1. ASSUME Inv, TargetAboveStep, [Next]_vars
      PROVE  [Rise /\ Fall]_base
  <2>1. /\ base \in Settling /\ base \in Account
        /\ base.quota \in Nat /\ base.quota_new \in Tokens /\ base.version \in Nat
        /\ base.quota_new <= base.quota /\ RespondStep \in Nat
        /\ base.quota >= RespondStep
    <3>1. base \in Settling /\ base \in Account /\ base.quota_new <= base.quota
      BY <1>1 DEF Inv, TypeOK, QuotaNotBelowTarget, Settling
    <3>2. base.quota \in Nat /\ base.quota_new \in Nat /\ RespondStep \in Nat
      BY <3>1, SettlingFields, WordPositive DEF Tokens
    <3> QED
      BY <1>1, <3>1, <3>2, SettlingFields DEF TargetAboveStep
  <2>2. ASSUME NEW r \in Rips, Pay(r), base' # base
        PROVE  Rise /\ Fall
    <3>1. base'.quota = IF base.quota_new < base.quota
                        THEN SteppedDown(base, base.quota_new) ELSE base.quota
      BY <2>1, <2>2 DEF Pay, Charged, Account
    <3>2. SteppedDown(base, base.quota_new) \in Nat
      BY <2>1, SteppedDownType, WordPositive DEF Tokens
    <3>3. SteppedDown(base, base.quota_new) <= base.quota
          /\ base.quota - SteppedDown(base, base.quota_new) <= RespondStep
      BY <2>1, StepDown
    <3> QED
      BY <2>1, <3>1, <3>2, <3>3
  <2>3. ASSUME NEW r \in Rips, base' = Freed(base, Cost[r])
        PROVE  Rise /\ Fall
    <3>1. base'.quota = base.quota
      BY <2>1, <2>3 DEF Freed, Account
    <3> QED
      BY <2>1, <3>1
  <2>4. ASSUME NEW m \in Quotas \X Versions, base' = Updated(base, m[1], m[2]), base' # base
        PROVE  Rise /\ Fall
    <3>1. m[1] \in Nat /\ m[1] \in Tokens
      BY InputTypes, WordPositive DEF Tokens
    <3>2. ~(m[2] <= base.version)
      BY <2>4 DEF Updated
    <3>3. CASE base.quota < m[1]
      <4>1. base'.quota = m[1]
        BY <2>1, <2>4, <3>1, <3>2, <3>3 DEF Updated, Account
      <4>2. base'.quota_new = m[1]
        BY <2>1, <2>4, <3>1, <3>2, <3>3 DEF Updated, Account
      <4> QED
        BY <2>1, <3>1, <3>3, <4>1, <4>2
    <3>4. CASE base.quota > m[1]
      <4>1. SteppedDown(base, m[1]) \in Nat
        BY <2>1, <3>1, SteppedDownType, WordPositive DEF Tokens
      <4>2. SteppedDown(base, m[1]) <= base.quota
            /\ base.quota - SteppedDown(base, m[1]) <= RespondStep
        BY <2>1, <3>1, <3>4, StepDown
      <4>3. base'.quota = SteppedDown(base, m[1])
        BY <2>1, <2>4, <3>1, <3>2, <3>4 DEF Updated, Account
      <4> QED
        BY <2>1, <4>1, <4>2, <4>3
    <3>5. CASE base.quota = m[1]
      <4>1. base'.quota = base.quota
        BY <2>1, <2>4, <3>1, <3>2, <3>5 DEF Updated, Account
      <4> QED
        BY <2>1, <4>1
    <3> QED
      BY <2>1, <3>1, <3>3, <3>4, <3>5
  <2>5. ASSUME base' = ResetAccount(base)
        PROVE  Rise /\ Fall
    <3>1. base'.quota = MinRs /\ base'.quota_new = MinRs
      BY <2>1, <2>5 DEF ResetAccount, Account
    <3>2. base'.quota > base.quota => base'.quota = base'.quota_new
      BY <3>1
    <3> QED
      BY <2>5, <3>2
  <2> HIDE DEF Rise, Fall
  <2> QED
    BY <1>1, <2>2, <2>3, <2>4, <2>5, AccountMoves
<1>2. Init => TargetAboveStep
  BY TargetInit
<1>3. Inv /\ TargetAboveStep /\ [Next]_vars => TargetAboveStep'
  BY TargetNext
<1> QED
  BY <1>1, <1>2, <1>3, InvInductive, PTL DEF Spec, QuotaMoves

-------------------------------------------------------------------------------
(* Who works on a request.                                                     *)

\* alloc_resource runs, with a request that is in neither list.
Asking == {"try", "charge", "lock", "retry", "recharge", "push"}

\* A thread in alloc_resource or free_resource has the request to itself.
Working == Asking \cup {"free"}

WorkInv ==
  /\ \A t \in Threads : pc[t] \in Asking => rstat[rip[t]] = "asking"
  /\ \A t \in Threads : pc[t] = "free" => rstat[rip[t]] = "freeing"
  /\ \A t, u \in Threads : t # u /\ pc[t] \in Working /\ pc[u] \in Working => rip[t] # rip[u]

\* A request waits exactly when it is in the queue, and it is there once.
QueueInv ==
  /\ \A r \in Rips : rstat[r] = "queued" <=> \E i \in 1..Len(queue) : queue[i] = r
  /\ \A i, j \in 1..Len(queue) : queue[i] = queue[j] => i = j

\* The front of a queue that is not empty waits.
LEMMA HeadQueued ==
  ASSUME Inv, QueueInv, queue # <<>>
  PROVE  Head(queue) \in Rips /\ rstat[Head(queue)] = "queued"
<1>1. queue \in Seq(Rips)
  BY DEF Inv, TypeOK
<1>2. Len(queue) \in Nat /\ Len(queue) >= 1 /\ Head(queue) = queue[1] /\ Head(queue) \in Rips
  BY <1>1, HeadTailProperties, EmptySeq
<1>3. 1 \in 1..Len(queue)
  BY <1>2
<1> QED
  BY <1>2, <1>3 DEF QueueInv

\* No thread works on a request, and nothing waits.
LEMMA WorkInit == Init => WorkInv /\ QueueInv
BY DEF Init, WorkInv, QueueInv, Asking, Working

\* The one request a thread outside the lock works on stays its own.
LEMMA WorkStep ==
  ASSUME Inv, WorkInv, QueueInv, [Next]_vars
  PROVE  WorkInv'
<1> USE DEF WorkInv, Asking, Working, Goto, Grant
<1>t. /\ pc \in [Threads -> Places] /\ rip \in [Threads -> Rips] /\ rstat \in [Rips -> RipStats]
  BY DEF Inv, TypeOK
<1>1. ASSUME NEW t \in Threads, NEW r \in Rips, AllocBegin(t, r) PROVE WorkInv'
  BY <1>1, <1>t DEF AllocBegin
<1>2. ASSUME NEW t \in Threads, NEW r \in Rips, FreeBegin(t, r) PROVE WorkInv'
  BY <1>2, <1>t DEF FreeBegin
<1>3. ASSUME NEW t \in Threads, NEW m \in Quotas \X Versions, RcvdBegin(t, m) PROVE WorkInv'
  BY <1>3, <1>t DEF RcvdBegin, node
<1>4. ASSUME NEW t \in Threads, TryAlloc(t) \/ AllocLock(t) \/ Retry(t) PROVE WorkInv'
  BY <1>4, <1>t DEF TryAlloc, AllocLock, SpinLock, Retry, node
<1>5. ASSUME NEW t \in Threads, Charge(t) \/ Recharge(t) PROVE WorkInv'
  BY <1>5, <1>t DEF Charge, Recharge
<1>6. ASSUME NEW t \in Threads, PushBack(t) \/ Free(t) PROVE WorkInv'
  BY <1>6, <1>t DEF PushBack, Free
<1>7. ASSUME NEW t \in Threads, Front(t) \/ WakeLock(t) \/ Wake(t) \/ WakeCharge(t) PROVE WorkInv'
  BY <1>7, <1>t DEF Front, WakeLock, SpinLock, Wake, WakeCharge, node
<1>8. ASSUME NEW t \in Threads, Pop(t) PROVE WorkInv'
  <2>1. queue # <<>> /\ Head(queue) = rip[t]
    BY <1>8 DEF Pop, Inv, PopsWhatItPaid
  <2>2. rstat[rip[t]] = "queued"
    BY <2>1, HeadQueued
  <2> QED
    BY <1>8, <1>t, <2>2 DEF Pop
<1>9. ASSUME NEW t \in Threads, IsOld(t) \/ IsSameVersion(t) \/ Update(t) \/ Reset(t) PROVE WorkInv'
  BY <1>9, <1>t DEF IsOld, IsSameVersion, Update, Reset, node
<1>10. CASE Offline
  BY <1>10, <1>t DEF Offline, WriteLocked
<1>11. CASE UNCHANGED vars
  BY <1>11 DEF vars, node
<1> QED
  BY <1>1, <1>2, <1>3, <1>4, <1>5, <1>6, <1>7, <1>8, <1>9, <1>10, <1>11
     DEF Next, Step, Retired

\* The steps that move no request into or out of the queue.
LEMMA SameQueue ==
  ASSUME QueueInv, queue' = queue, rstat \in [Rips -> RipStats],
         \A r \in Rips : rstat'[r] # rstat[r] => "queued" \notin {rstat[r], rstat'[r]}
  PROVE  QueueInv'
<1>1. \A r \in Rips : rstat'[r] = "queued" <=> rstat[r] = "queued"
  OBVIOUS
<1> QED
  BY <1>1 DEF QueueInv

\* A request is pushed by the one thread that works on it: it is not there yet.
LEMMA PushBackQueue ==
  ASSUME Inv, WorkInv, QueueInv, NEW t \in Threads, PushBack(t)
  PROVE  QueueInv'
<1>1. queue \in Seq(Rips) /\ rip[t] \in Rips /\ rstat \in [Rips -> RipStats]
  BY DEF Inv, TypeOK
<1>2. rstat[rip[t]] = "asking"
  BY DEF PushBack, WorkInv, Asking
<1>3. PICK n \in Nat : n = Len(queue)
  BY <1>1
<1>4. /\ Len(queue') = n + 1 /\ queue'[n + 1] = rip[t]
      /\ \A i \in 1..n : queue'[i] = queue[i]
  BY <1>1, <1>3, AppendProperties DEF PushBack
<1>5. \A i \in 1..n : queue[i] # rip[t]
  BY <1>1, <1>2, <1>3 DEF QueueInv
<1>6. \A r \in Rips : rstat'[r] = IF r = rip[t] THEN "queued" ELSE rstat[r]
  BY <1>1 DEF PushBack
<1>7. 1..(n + 1) = 1..n \cup {n + 1}
  BY <1>3
<1>8. \A r \in Rips : rstat'[r] = "queued" <=> \E i \in 1..(n + 1) : queue'[i] = r
  BY <1>1, <1>3, <1>4, <1>5, <1>6, <1>7 DEF QueueInv
<1>9. \A i, j \in 1..(n + 1) : queue'[i] = queue'[j] => i = j
  BY <1>3, <1>4, <1>5, <1>7 DEF QueueInv
<1> QED
  BY <1>4, <1>8, <1>9 DEF QueueInv

\* The request that stops waiting is the one that leaves the queue.
LEMMA PopQueue ==
  ASSUME Inv, QueueInv, NEW t \in Threads, Pop(t)
  PROVE  QueueInv'
<1>1. queue \in Seq(Rips) /\ rip[t] \in Rips /\ rstat \in [Rips -> RipStats]
  BY DEF Inv, TypeOK
<1>2. queue # <<>> /\ Head(queue) = rip[t]
  BY DEF Pop, Inv, PopsWhatItPaid
<1>3. PICK n \in Nat : n = Len(queue)
  BY <1>1
<1>4. /\ n >= 1 /\ rip[t] = queue[1]
      /\ Len(queue') = n - 1
      /\ \A i \in 1..(n - 1) : queue'[i] = queue[i + 1]
  BY <1>1, <1>2, <1>3, HeadTailProperties DEF Pop
<1>5. \A r \in Rips : rstat'[r] = IF r = rip[t] THEN "held" ELSE rstat[r]
  BY <1>1 DEF Pop, Grant
<1>6. \A i \in 2..n : queue[i] # rip[t]
  BY <1>3, <1>4 DEF QueueInv
<1>7. ASSUME NEW r \in Rips PROVE rstat'[r] = "queued" <=> \E i \in 1..(n - 1) : queue'[i] = r
  <2>1. CASE r = rip[t]
    <3>1. \A i \in 1..(n - 1) : i + 1 \in 2..n
      BY <1>3
    <3> QED
      BY <1>4, <1>5, <1>6, <2>1, <3>1
  <2>2. CASE r # rip[t]
    <3>1. ASSUME NEW i \in 1..n, queue[i] = r PROVE \E j \in 1..(n - 1) : queue'[j] = r
      <4>1. i - 1 \in 1..(n - 1) /\ (i - 1) + 1 = i
        BY <1>3, <1>4, <2>2, <3>1
      <4> QED
        BY <1>4, <3>1, <4>1
    <3>2. ASSUME NEW j \in 1..(n - 1), queue'[j] = r PROVE \E i \in 1..n : queue[i] = r
      <4>1. j + 1 \in 1..n
        BY <1>3
      <4> QED
        BY <1>4, <3>2, <4>1
    <3>3. rstat[r] = "queued" <=> \E i \in 1..n : queue[i] = r
      BY <1>3 DEF QueueInv
    <3> QED
      BY <1>5, <2>2, <3>1, <3>2, <3>3
  <2> QED
    BY <2>1, <2>2
<1>8. ASSUME NEW i \in 1..(n - 1), NEW j \in 1..(n - 1), queue'[i] = queue'[j] PROVE i = j
  <2>1. i + 1 \in 1..n /\ j + 1 \in 1..n /\ queue[i + 1] = queue[j + 1]
    BY <1>3, <1>4, <1>8
  <2>2. i + 1 = j + 1
    BY <1>3, <2>1 DEF QueueInv
  <2> QED
    BY <2>2
<1> QED
  BY <1>4, <1>7, <1>8 DEF QueueInv

\* No step puts a request into the queue twice, or loses one.
LEMMA QueueStep ==
  ASSUME Inv, WorkInv, QueueInv, [Next]_vars
  PROVE  QueueInv'
<1> USE DEF Goto, Grant
<1>t. /\ pc \in [Threads -> Places] /\ rip \in [Threads -> Rips] /\ rstat \in [Rips -> RipStats]
  BY DEF Inv, TypeOK
<1>1. ASSUME NEW t \in Threads, NEW r \in Rips, AllocBegin(t, r) \/ FreeBegin(t, r)
      PROVE  QueueInv'
  BY <1>1, <1>t, SameQueue DEF AllocBegin, FreeBegin
<1>2. ASSUME NEW t \in Threads, Charge(t) \/ Recharge(t) PROVE QueueInv'
  <2>1. rstat[rip[t]] = "asking"
    BY <1>2 DEF Charge, Recharge, WorkInv, Asking
  <2> QED
    BY <1>2, <1>t, <2>1, SameQueue DEF Charge, Recharge
<1>3. ASSUME NEW t \in Threads, Free(t) PROVE QueueInv'
  <2>1. rstat[rip[t]] = "freeing"
    BY <1>3 DEF Free, WorkInv
  <2> QED
    BY <1>3, <1>t, <2>1, SameQueue DEF Free
<1>4. ASSUME NEW t \in Threads, Step(t), ~(Charge(t) \/ Recharge(t) \/ Free(t) \/ PushBack(t) \/ Pop(t))
      PROVE  UNCHANGED <<queue, rstat>>
  BY <1>4 DEF Step, TryAlloc, AllocLock, SpinLock, Retry, Front, WakeLock, Wake, WakeCharge,
              IsOld, IsSameVersion, Update, Reset, node
<1>5. CASE UNCHANGED <<queue, rstat>>
  BY <1>5, <1>t, SameQueue
<1>6. ASSUME NEW t \in Threads, NEW m \in Quotas \X Versions, RcvdBegin(t, m) PROVE QueueInv'
  BY <1>5, <1>6 DEF RcvdBegin, node
<1>7. CASE Offline
  <2>1. queue' = <<>> /\ Len(queue') = 0
    BY <1>7 DEF Offline
  <2>2. \A r \in Rips : rstat[r] = "queued" => r \in Waiting
    <3>1. queue \in Seq(Rips) /\ DOMAIN queue = 1..Len(queue)
      BY DEF Inv, TypeOK
    <3> QED
      BY <3>1 DEF QueueInv, Waiting
  <2>3. \A r \in Rips : rstat'[r] # "queued"
    BY <1>7, <2>2 DEF Offline
  <2> QED
    BY <2>1, <2>3 DEF QueueInv
<1>8. CASE UNCHANGED vars \/ Retired
  BY <1>5, <1>8 DEF Retired, vars, node
<1>9. ASSUME NEW t \in Threads, Step(t) PROVE QueueInv'
  BY <1>2, <1>3, <1>4, <1>5, <1>9, PushBackQueue, PopQueue
<1> QED
  BY <1>1, <1>6, <1>7, <1>8, <1>9 DEF Next

-------------------------------------------------------------------------------
(* The press.                                                                  *)

Begun == {r \in Rips : rstat[r] # "new"}
Queued == {r \in Rips : rstat[r] = "queued"}

\* Only requests that were begun count, and however many Rips has, these are finite.
BegunInv == IsFiniteSet(Begun)

PressInv == press = SumOf(Cost, Queued) % Word

\* The token arithmetic on what is the remainder of a sum.
LEMMA SumPlus ==
  ASSUME NEW s \in Int, NEW c \in Int
  PROVE  Plus(s % Word, c) = (s + c) % Word
BY WordPositive, RemainderSum DEF Plus

\* And less a cost.
LEMMA SumMinus ==
  ASSUME NEW s \in Int, NEW c \in Int
  PROVE  Minus(s % Word, c) = (s - c) % Word
<1>1. Word - c \in Int /\ s - c \in Int /\ s + (Word - c) = (s - c) + Word
  BY WordPositive
<1>2. ((s % Word) + (Word - c)) % Word = (s + (Word - c)) % Word
  BY <1>1, WordPositive, RemainderSum
<1>3. ((s - c) + Word) % Word = (s - c) % Word
  BY <1>1, WordPositive, RemainderShift
<1> QED
  BY <1>1, <1>2, <1>3 DEF Minus

\* The costs of requests are numbers.
LEMMA CostType == \A r \in Rips : Cost[r] \in Nat /\ Cost[r] >= 1 /\ Cost[r] \in Tokens
BY CostAssumption, InputTypes, WordPositive

\* A request more in a set of requests.
LEMMA CostAdd ==
  ASSUME NEW S \in SUBSET Rips, IsFiniteSet(S), NEW r \in Rips, r \notin S
  PROVE  SumOf(Cost, S) \in Nat /\ SumOf(Cost, S \cup {r}) = SumOf(Cost, S) + Cost[r]
BY CostType, SumAdd

\* And one less.
LEMMA CostRemove ==
  ASSUME NEW S \in SUBSET Rips, IsFiniteSet(S), NEW r \in S
  PROVE  /\ SumOf(Cost, S \ {r}) \in Nat
         /\ SumOf(Cost, S) = SumOf(Cost, S \ {r}) + Cost[r]
<1>1. IsFiniteSet(S \ {r}) /\ (S \ {r}) \cup {r} = S
  BY FS_Subset
<1> QED
  BY <1>1, CostAdd

\* What is in the queue is what waits.
LEMMA WaitingIs ==
  ASSUME Inv, QueueInv
  PROVE  Waiting = Queued
<1>1. queue \in Seq(Rips) /\ DOMAIN queue = 1..Len(queue) /\ \A i \in 1..Len(queue) : queue[i] \in Rips
  BY DEF Inv, TypeOK
<1> QED
  BY <1>1 DEF QueueInv, Waiting, Queued

\* A step begins one request at most.
LEMMA BegunStep ==
  ASSUME Inv, QueueInv, BegunInv, [Next]_vars
  PROVE  BegunInv'
<1>t. rip \in [Threads -> Rips] /\ rstat \in [Rips -> RipStats]
  BY DEF Inv, TypeOK
<1>1. ASSUME NEW r \in Rips, Begun' \subseteq Begun \cup {r}
      PROVE  BegunInv'
  <2>1. IsFiniteSet(Begun \cup {r})
    BY FS_AddElement DEF BegunInv
  <2> QED
    BY <1>1, <2>1, FS_Subset DEF BegunInv
<1>2. ASSUME NEW r \in Rips, rstat' = [rstat EXCEPT ![r] = rstat'[r]]
      PROVE  BegunInv'
  <2>1. Begun' \subseteq Begun \cup {r}
    BY <1>2, <1>t DEF Begun
  <2> QED
    BY <1>1, <2>1
<1>3. CASE rstat' = rstat
  <2>1. Begun' = Begun
    BY <1>3 DEF Begun
  <2> QED
    BY <2>1 DEF BegunInv
<1>4. ASSUME NEW t \in Threads, NEW r \in Rips, AllocBegin(t, r) \/ FreeBegin(t, r)
      PROVE  BegunInv'
  BY <1>2, <1>4, <1>t DEF AllocBegin, FreeBegin
<1>5. ASSUME NEW t \in Threads, NEW m \in Quotas \X Versions, RcvdBegin(t, m)
      PROVE  BegunInv'
  BY <1>3, <1>5 DEF RcvdBegin, node
<1>6. ASSUME NEW t \in Threads, Step(t)
      PROVE  rstat' = rstat \/ \E r \in Rips : rstat' = [rstat EXCEPT ![r] = rstat'[r]]
  BY <1>6, <1>t DEF Step, TryAlloc, Charge, AllocLock, SpinLock, Retry, Recharge, PushBack, Front,
              WakeLock, Wake, WakeCharge, Pop, Free, IsOld, IsSameVersion, Update, Reset, node, Grant
<1>7. CASE Offline
  <2>1. Begun' = Begun
    BY <1>7, <1>t, WaitingIs DEF Offline, Begun, Queued
  <2> QED
    BY <2>1 DEF BegunInv
<1>8. CASE UNCHANGED vars \/ Retired
  BY <1>3, <1>8 DEF Retired, vars, node
<1> QED
  BY <1>2, <1>3, <1>4, <1>5, <1>6, <1>7, <1>8 DEF Next

\* The requests that wait are finitely many, and as many as the queue is long.
LEMMA QueuedFinite ==
  ASSUME Inv, QueueInv, BegunInv
  PROVE  IsFiniteSet(Queued) /\ Len(queue) = Cardinality(Queued)
<1>1. IsFiniteSet(Queued)
  <2>1. Queued \subseteq Begun
    BY DEF Queued, Begun
  <2> QED
    BY <2>1, FS_Subset DEF BegunInv
<1>2. queue \in Seq(Rips) /\ Len(queue) \in Nat /\ DOMAIN queue = 1..Len(queue)
      /\ queue \in [1..Len(queue) -> Rips]
  BY DEF Inv, TypeOK
<1>3. \A i \in 1..Len(queue) : queue[i] \in Queued
  BY <1>2 DEF QueueInv, Queued
<1>4. queue \in Bijection(1..Len(queue), Queued)
  <2>1. queue \in [1..Len(queue) -> Queued]
    BY <1>2, <1>3
  <2>2. \A r \in Queued : \E i \in 1..Len(queue) : queue[i] = r
    BY DEF QueueInv, Queued
  <2> QED
    BY <2>1, <2>2 DEF Bijection, Injection, Surjection, IsInjective, QueueInv
<1>5. IsFiniteSet(1..Len(queue)) /\ Cardinality(1..Len(queue)) = Len(queue)
  BY <1>2, FS_Interval
<1> QED
  BY <1>1, <1>4, <1>5, FS_Bijection DEF ExistsBijection

\* The steps that move no request into or out of the queue move no press either.
LEMMA SamePress ==
  ASSUME PressInv, press' = press, rstat \in [Rips -> RipStats],
         \A r \in Rips : rstat'[r] # rstat[r] => "queued" \notin {rstat[r], rstat'[r]}
  PROVE  PressInv'
<1>1. Queued' = Queued
  BY DEF Queued
<1> QED
  BY <1>1 DEF PressInv

\* A push adds the cost of what it pushes.
LEMMA PushBackPress ==
  ASSUME Inv, WorkInv, QueueInv, BegunInv, PressInv, NEW t \in Threads, PushBack(t)
  PROVE  PressInv'
<1>1. PICK r \in Rips : r = rip[t]
  BY DEF Inv, TypeOK
<1>2. rstat[r] = "asking" /\ rstat \in [Rips -> RipStats]
  BY <1>1 DEF PushBack, WorkInv, Asking, Inv, TypeOK
<1>3. r \notin Queued /\ Queued' = Queued \cup {r}
  BY <1>1, <1>2 DEF PushBack, Queued
<1>4. SumOf(Cost, Queued) \in Nat /\ SumOf(Cost, Queued \cup {r}) = SumOf(Cost, Queued) + Cost[r]
  <2>1. Queued \in SUBSET Rips /\ IsFiniteSet(Queued)
    BY QueuedFinite DEF Queued
  <2> QED
    BY <1>3, <2>1, CostAdd
<1>5. Plus(SumOf(Cost, Queued) % Word, Cost[r]) = (SumOf(Cost, Queued) + Cost[r]) % Word
  <2>1. SumOf(Cost, Queued) \in Int /\ Cost[r] \in Int
    BY <1>4, CostType
  <2> QED
    BY <2>1, SumPlus
<1> QED
  BY <1>1, <1>3, <1>4, <1>5 DEF PushBack, PressInv

\* A pop takes the cost of what it pops.
LEMMA PopPress ==
  ASSUME Inv, QueueInv, BegunInv, PressInv, NEW t \in Threads, Pop(t)
  PROVE  PressInv'
<1>1. PICK r \in Rips : r = rip[t] /\ r = Head(queue)
  BY DEF Pop, Inv, PopsWhatItPaid, TypeOK
<1>2. rstat[r] = "queued" /\ rstat \in [Rips -> RipStats]
  BY <1>1, HeadQueued DEF Pop, Inv, PopsWhatItPaid, TypeOK
<1>3. r \in Queued /\ Queued' = Queued \ {r}
  BY <1>1, <1>2 DEF Pop, Grant, Queued
<1>4. /\ SumOf(Cost, Queued \ {r}) \in Nat
      /\ SumOf(Cost, Queued) = SumOf(Cost, Queued \ {r}) + Cost[r]
  <2>1. Queued \in SUBSET Rips /\ IsFiniteSet(Queued)
    BY QueuedFinite DEF Queued
  <2> QED
    BY <1>3, <2>1, CostRemove
<1>5. SumOf(Cost, Queued) \in Int /\ SumOf(Cost, Queued) - Cost[r] = SumOf(Cost, Queued \ {r})
  BY <1>4, CostType
<1>6. Minus(SumOf(Cost, Queued) % Word, Cost[r]) = SumOf(Cost, Queued \ {r}) % Word
  <2>1. SumOf(Cost, Queued) \in Int /\ Cost[r] \in Int
    BY <1>5, CostType
  <2>2. Minus(SumOf(Cost, Queued) % Word, Cost[r]) = (SumOf(Cost, Queued) - Cost[r]) % Word
    BY <2>1, SumMinus
  <2> QED
    BY <1>5, <2>2
<1> QED
  BY <1>1, <1>3, <1>6 DEF Pop, PressInv

\* When the node goes nobody waits any more.
LEMMA OfflinePress ==
  ASSUME Inv, QueueInv, Offline
  PROVE  PressInv'
<1>1. Queued' = {}
  BY WaitingIs DEF Offline, Queued
<1>2. 0 % Word = 0
  BY WordPositive
<1> QED
  BY <1>1, <1>2, SumEmpty DEF Offline, PressInv

\* No step lets the press and the queue part.
LEMMA PressStep ==
  ASSUME Inv, WorkInv, QueueInv, BegunInv, PressInv, [Next]_vars
  PROVE  PressInv'
<1> USE DEF Goto, Grant
<1>t. /\ pc \in [Threads -> Places] /\ rip \in [Threads -> Rips] /\ rstat \in [Rips -> RipStats]
  BY DEF Inv, TypeOK
<1>1. ASSUME NEW t \in Threads, NEW r \in Rips, AllocBegin(t, r) \/ FreeBegin(t, r)
      PROVE  PressInv'
  BY <1>1, <1>t, SamePress DEF AllocBegin, FreeBegin
<1>2. ASSUME NEW t \in Threads, Charge(t) \/ Recharge(t) PROVE PressInv'
  <2>1. rstat[rip[t]] = "asking"
    BY <1>2 DEF Charge, Recharge, WorkInv, Asking
  <2> QED
    BY <1>2, <1>t, <2>1, SamePress DEF Charge, Recharge
<1>3. ASSUME NEW t \in Threads, Free(t) PROVE PressInv'
  <2>1. rstat[rip[t]] = "freeing"
    BY <1>3 DEF Free, WorkInv
  <2> QED
    BY <1>3, <1>t, <2>1, SamePress DEF Free
<1>4. ASSUME NEW t \in Threads, Step(t), ~(Charge(t) \/ Recharge(t) \/ Free(t) \/ PushBack(t) \/ Pop(t))
      PROVE  UNCHANGED <<press, rstat>>
  BY <1>4 DEF Step, TryAlloc, AllocLock, SpinLock, Retry, Front, WakeLock, Wake, WakeCharge,
              IsOld, IsSameVersion, Update, Reset, node
<1>5. CASE UNCHANGED <<press, rstat>>
  BY <1>5, <1>t, SamePress
<1>6. ASSUME NEW t \in Threads, NEW m \in Quotas \X Versions, RcvdBegin(t, m) PROVE PressInv'
  BY <1>5, <1>6 DEF RcvdBegin, node
<1>7. CASE Offline
  BY <1>7, OfflinePress
<1>8. CASE UNCHANGED vars \/ Retired
  BY <1>5, <1>8 DEF Retired, vars, node
<1>9. ASSUME NEW t \in Threads, Step(t) PROVE PressInv'
  BY <1>2, <1>3, <1>4, <1>5, <1>9, PushBackPress, PopPress
<1> QED
  BY <1>1, <1>6, <1>7, <1>8, <1>9 DEF Next

\* No request was begun: nothing waits.
LEMMA PressInit == Init => BegunInv /\ PressInv
<1> SUFFICES ASSUME Init PROVE BegunInv /\ PressInv
  OBVIOUS
<1>1. Begun = {} /\ Queued = {}
  BY DEF Init, Begun, Queued
<1>2. 0 % Word = 0
  BY WordPositive
<1> QED
  BY <1>1, <1>2, FS_EmptySet, SumEmpty DEF Init, BegunInv, PressInv

\* The part of the invariant that is about requests and the queue.
CallsInv == Inv /\ WorkInv /\ QueueInv /\ BegunInv /\ PressInv

\* It is inductive.
LEMMA CallsInductive == Spec => []CallsInv
<1>1. Init => CallsInv
  BY InvInit, WorkInit, PressInit DEF CallsInv
<1>2. CallsInv /\ [Next]_vars => CallsInv'
  BY InvNext, WorkStep, QueueStep, BegunStep, PressStep DEF CallsInv
<1> QED
  BY <1>1, <1>2, PTL DEF Spec

\* The press a report would carry is the cost of the requests that wait, in the
\* unsigned word the counter is, and the queue is those requests, each once, however
\* many threads push, pop and drop it.
THEOREM PressExact == Spec => []PressIsQueued
<1>1. ASSUME CallsInv PROVE PressIsQueued
  <2>1. Waiting = Queued /\ Len(queue) = Cardinality(Queued)
    BY <1>1, WaitingIs, QueuedFinite DEF CallsInv
  <2>2. CostOf(Waiting) = SumOf(Cost, Waiting)
    BY DEF CostOf, SumOf
  <2> QED
    BY <1>1, <2>1, <2>2 DEF CallsInv, PressInv, PressIsQueued, Queued
<1> QED
  BY <1>1, CallsInductive, PTL

-------------------------------------------------------------------------------
(* The ledger.                                                                 *)

Granted == {"held", "freeing", "put"}

\* A request is paid when it is granted, or by the thread that is about to pop it.
PaidInv ==
  \A r \in paid : \/ rstat[r] \in Granted
                  \/ rstat[r] = "queued" /\ \E t \in Threads : pc[t] = "pop" /\ rip[t] = r

\* What was charged and not freed, and what was freed though it was not charged.
Owed == {r \in paid : rstat[r] # "put"}
Phantom == {r \in Rips \ paid : rstat[r] = "put"}

LedgerInv == base.inuse = (SumOf(Cost, Owed) - SumOf(Cost, Phantom)) % Word

\* A request is paid once at most: what a thread is about to pay is not paid.
LEMMA NotPaidYet ==
  ASSUME Inv, WorkInv, QueueInv, PaidInv,
         NEW t \in Threads, pc[t] \in {"charge", "recharge", "wakecharge"}
  PROVE  rip[t] \in Rips \ paid /\ rstat[rip[t]] \in {"asking", "queued"}
<1>1. rip[t] \in Rips
  BY DEF Inv, TypeOK
<1>2. CASE pc[t] \in {"charge", "recharge"}
  BY <1>1, <1>2 DEF WorkInv, Asking, PaidInv, Granted
<1>3. CASE pc[t] = "wakecharge"
  <2>1. queue # <<>> /\ Head(queue) = rip[t]
    BY <1>3 DEF Inv, PopsWhatItPaid
  <2>2. rstat[rip[t]] = "queued"
    BY <2>1, HeadQueued
  <2>3. \A u \in Threads : pc[u] # "pop"
    <3>1. pc[t] \in Locked /\ "pop" \in Locked
      BY <1>3 DEF Locked
    <3> QED
      BY <1>3, <3>1, Exclusion
  <2> QED
    BY <1>1, <2>2, <2>3 DEF PaidInv, Granted
<1> QED
  BY <1>2, <1>3

\* No step lets what was paid and what was granted part any further.
LEMMA PaidStep ==
  ASSUME Inv, WorkInv, QueueInv, PaidInv, [Next]_vars
  PROVE  PaidInv'
<1> USE DEF PaidInv, Granted, Goto, Grant
<1>t. /\ pc \in [Threads -> Places] /\ rip \in [Threads -> Rips] /\ rstat \in [Rips -> RipStats]
      /\ paid \subseteq Rips
  BY DEF Inv, TypeOK
<1>1. ASSUME NEW t \in Threads, NEW r \in Rips, AllocBegin(t, r) \/ FreeBegin(t, r)
      PROVE  PaidInv'
  BY <1>1, <1>t DEF AllocBegin, FreeBegin
<1>2. ASSUME NEW t \in Threads, NEW m \in Quotas \X Versions, RcvdBegin(t, m) PROVE PaidInv'
  BY <1>2, <1>t DEF RcvdBegin, node
<1>3. ASSUME NEW t \in Threads, Charge(t) \/ Recharge(t) PROVE PaidInv'
  <2>1. paid' \subseteq paid \cup {rip[t]}
    BY <1>3 DEF Charge, Recharge, Pay
  <2> QED
    BY <1>3, <1>t, <2>1 DEF Charge, Recharge
<1>4. ASSUME NEW t \in Threads, PushBack(t) PROVE PaidInv'
  <2>1. rstat[rip[t]] = "asking"
    BY <1>4 DEF PushBack, WorkInv, Asking
  <2> QED
    BY <1>4, <1>t, <2>1 DEF PushBack
<1>5. ASSUME NEW t \in Threads, Free(t) PROVE PaidInv'
  BY <1>5, <1>t DEF Free
<1>6. ASSUME NEW t \in Threads, WakeCharge(t) PROVE PaidInv'
  <2>1. paid' \subseteq paid \cup {rip[t]}
    BY <1>6 DEF WakeCharge, Pay
  <2>2. rstat[rip[t]] = "queued"
    BY <1>6, HeadQueued DEF WakeCharge, Inv, PopsWhatItPaid
  <2> QED
    BY <1>6, <1>t, <2>1, <2>2 DEF WakeCharge
<1>7. ASSUME NEW t \in Threads, Pop(t) PROVE PaidInv'
  <2>1. \A u \in Threads \ {t} : pc[u] # "pop"
    <3>1. pc[t] \in Locked /\ "pop" \in Locked
      BY <1>7 DEF Pop, Locked
    <3> QED
      BY <3>1, Exclusion
  <2> QED
    BY <1>7, <1>t, <2>1 DEF Pop
<1>8. ASSUME NEW t \in Threads,
             TryAlloc(t) \/ AllocLock(t) \/ Retry(t) \/ Front(t) \/ WakeLock(t) \/ Wake(t)
      PROVE  PaidInv'
  BY <1>8, <1>t DEF TryAlloc, AllocLock, SpinLock, Retry, Front, WakeLock, Wake, node
<1>9. ASSUME NEW t \in Threads, IsOld(t) \/ IsSameVersion(t) \/ Update(t) \/ Reset(t)
      PROVE  PaidInv'
  BY <1>9, <1>t DEF IsOld, IsSameVersion, Update, Reset, node
<1>10. CASE Offline
  <2>1. \A r \in paid : rstat[r] \in Granted
    BY <1>10 DEF Offline, WriteLocked
  <2>2. Waiting = Queued
    BY WaitingIs
  <2> QED
    BY <1>10, <1>t, <2>1, <2>2 DEF Offline, Queued
<1>11. CASE UNCHANGED vars \/ Retired
  BY <1>11 DEF Retired, vars, node
<1> QED
  BY <1>1, <1>2, <1>3, <1>4, <1>5, <1>6, <1>7, <1>8, <1>9, <1>10, <1>11 DEF Next, Step

\* Only requests that were begun are in the ledger.
LEMMA LedgerFinite ==
  ASSUME Inv, BegunInv, PaidInv
  PROVE  /\ Owed \in SUBSET Rips /\ IsFiniteSet(Owed)
         /\ Phantom \in SUBSET Rips /\ IsFiniteSet(Phantom)
         /\ SumOf(Cost, Owed) \in Nat /\ SumOf(Cost, Phantom) \in Nat
<1>1. Owed \in SUBSET Begun /\ Phantom \in SUBSET Begun /\ Begun \in SUBSET Rips
  BY DEF Owed, Phantom, Begun, PaidInv, Granted, Inv, TypeOK
<1>2. IsFiniteSet(Owed) /\ IsFiniteSet(Phantom)
  BY <1>1, FS_Subset DEF BegunInv
<1>3. (\A r \in Owed : Cost[r] \in Nat) /\ (\A r \in Phantom : Cost[r] \in Nat)
  BY <1>1, CostType
<1>4. SumOf(Cost, Owed) \in Nat
  BY <1>2, <1>3, SumType
<1>5. SumOf(Cost, Phantom) \in Nat
  BY <1>2, <1>3, SumType
<1> QED
  BY <1>1, <1>2, <1>4, <1>5

\* The steps that charge nothing and free nothing.
LEMMA SameLedger ==
  ASSUME Inv, LedgerInv, paid' = paid, base'.inuse = base.inuse,
         \A r \in Rips : rstat'[r] = "put" <=> rstat[r] = "put"
  PROVE  LedgerInv'
<1>1. paid \subseteq Rips
  BY DEF Inv, TypeOK
<1>2. Owed' = Owed /\ Phantom' = Phantom
  BY <1>1 DEF Owed, Phantom
<1> QED
  BY <1>2 DEF LedgerInv

\* A charge, of a request that is not paid.
LEMMA PayLedger ==
  ASSUME Inv, BegunInv, PaidInv, LedgerInv,
         NEW r \in Rips, r \notin paid, rstat[r] # "put", Pay(r),
         \A x \in Rips : rstat'[x] = "put" <=> rstat[x] = "put"
  PROVE  LedgerInv'
<1>1. paid \subseteq Rips /\ base \in Account
  BY DEF Inv, TypeOK
<1>2. CASE Fits(base, Cost[r])
  <2>1. paid' = paid \cup {r} /\ base'.inuse = Plus(base.inuse, Cost[r])
    BY <1>1, <1>2 DEF Pay, Charged, Account
  <2>2. r \notin Owed /\ Owed' = Owed \cup {r} /\ Phantom' = Phantom
    BY <1>1, <2>1 DEF Owed, Phantom
  <2>3. SumOf(Cost, Owed \cup {r}) = SumOf(Cost, Owed) + Cost[r]
    BY <2>2, LedgerFinite, CostAdd
  <2>4. PICK a \in Nat, b \in Nat : a = SumOf(Cost, Owed) /\ b = SumOf(Cost, Phantom)
    BY LedgerFinite
  <2>5. a - b \in Int /\ Cost[r] \in Int /\ (a - b) + Cost[r] = (a + Cost[r]) - b
    BY CostType
  <2>6. Plus((a - b) % Word, Cost[r]) = ((a - b) + Cost[r]) % Word
    BY <2>5, SumPlus
  <2> QED
    BY <2>1, <2>2, <2>3, <2>4, <2>5, <2>6 DEF LedgerInv
<1>3. CASE ~Fits(base, Cost[r])
  BY <1>3, SameLedger DEF Pay
<1> QED
  BY <1>2, <1>3

\* A free, of a request that was paid or of one that was not.
LEMMA FreeLedger ==
  ASSUME Inv, WorkInv, BegunInv, PaidInv, LedgerInv, NEW t \in Threads, Free(t)
  PROVE  LedgerInv'
<1>1. PICK r \in Rips : r = rip[t] /\ rstat[r] = "freeing"
  BY DEF Free, Inv, TypeOK, WorkInv
<1>2. paid \subseteq Rips /\ base \in Account /\ rstat \in [Rips -> RipStats]
  BY DEF Inv, TypeOK
<1>3. /\ paid' = paid /\ base'.inuse = Minus(base.inuse, Cost[r])
      /\ \A x \in Rips : rstat'[x] = IF x = r THEN "put" ELSE rstat[x]
  BY <1>1, <1>2 DEF Free, Freed, Account
<1>4. PICK a \in Nat, b \in Nat : a = SumOf(Cost, Owed) /\ b = SumOf(Cost, Phantom)
  BY LedgerFinite
<1>5. a - b \in Int /\ Cost[r] \in Int /\ base.inuse = (a - b) % Word
  BY <1>4, CostType DEF LedgerInv
<1>6. base'.inuse = ((a - b) - Cost[r]) % Word
  BY <1>3, <1>5, SumMinus
<1>7. CASE r \in paid
  <2>1. r \in Owed /\ Owed' = Owed \ {r} /\ Phantom' = Phantom
    BY <1>1, <1>2, <1>3, <1>7 DEF Owed, Phantom
  <2>2. SumOf(Cost, Owed \ {r}) \in Nat /\ a = SumOf(Cost, Owed \ {r}) + Cost[r]
    BY <1>4, <2>1, LedgerFinite, CostRemove
  <2>3. (a - b) - Cost[r] = SumOf(Cost, Owed \ {r}) - b
    BY <1>5, <2>2
  <2> QED
    BY <1>4, <1>6, <2>1, <2>3 DEF LedgerInv
<1>8. CASE r \notin paid
  <2>1. r \notin Phantom /\ Phantom' = Phantom \cup {r} /\ Owed' = Owed
    BY <1>1, <1>2, <1>3, <1>8 DEF Owed, Phantom
  <2>2. SumOf(Cost, Phantom \cup {r}) = b + Cost[r]
    BY <1>4, <2>1, LedgerFinite, CostAdd
  <2>3. (a - b) - Cost[r] = a - (b + Cost[r])
    BY <1>5
  <2> QED
    BY <1>4, <1>6, <2>1, <2>2, <2>3 DEF LedgerInv
<1> QED
  BY <1>7, <1>8

\* Every step keeps the ledger.
LEMMA LedgerStep ==
  ASSUME CallsInv, PaidInv, LedgerInv, [Next]_vars
  PROVE  LedgerInv'
<1> USE DEF CallsInv, Goto, Grant
<1>t. /\ pc \in [Threads -> Places] /\ rip \in [Threads -> Rips] /\ rstat \in [Rips -> RipStats]
      /\ paid \subseteq Rips /\ base \in Account
  BY DEF Inv, TypeOK
<1>1. ASSUME NEW t \in Threads, NEW r \in Rips, AllocBegin(t, r) \/ FreeBegin(t, r)
      PROVE  LedgerInv'
  BY <1>1, <1>t, SameLedger DEF AllocBegin, FreeBegin
<1>2. CASE UNCHANGED <<base, paid, rstat>>
  BY <1>2, SameLedger
<1>3. ASSUME NEW t \in Threads, NEW m \in Quotas \X Versions, RcvdBegin(t, m) PROVE LedgerInv'
  BY <1>2, <1>3 DEF RcvdBegin, node
<1>4. ASSUME NEW t \in Threads, Charge(t) \/ Recharge(t) \/ WakeCharge(t) PROVE LedgerInv'
  <2>1. PICK r \in Rips : r = rip[t]
    BY <1>t
  <2>2. r \notin paid /\ rstat[r] \in {"asking", "queued"} /\ Pay(r)
    BY <1>4, <2>1, NotPaidYet DEF Charge, Recharge, WakeCharge
  <2>3. \A x \in Rips : rstat'[x] = "put" <=> rstat[x] = "put"
    BY <1>4, <1>t, <2>1, <2>2 DEF Charge, Recharge, WakeCharge
  <2> QED
    BY <2>1, <2>2, <2>3, PayLedger
<1>5. ASSUME NEW t \in Threads, PushBack(t) \/ Pop(t) PROVE LedgerInv'
  <2>1. pc[t] = "push" => rstat[rip[t]] = "asking"
    BY DEF WorkInv, Asking
  <2>2. pc[t] = "pop" => rstat[rip[t]] = "queued"
    BY HeadQueued DEF Inv, PopsWhatItPaid
  <2>3. \A x \in Rips : rstat'[x] = "put" <=> rstat[x] = "put"
    BY <1>5, <1>t, <2>1, <2>2 DEF PushBack, Pop
  <2> QED
    BY <1>5, <2>3, SameLedger DEF PushBack, Pop
<1>6. ASSUME NEW t \in Threads, Free(t) PROVE LedgerInv'
  BY <1>6, FreeLedger
<1>7. ASSUME NEW t \in Threads, Update(t) \/ Reset(t) PROVE LedgerInv'
  <2>1. base'.inuse = base.inuse /\ paid' = paid /\ rstat' = rstat
    BY <1>7, <1>t DEF Update, Updated, Reset, ResetAccount, Account
  <2> QED
    BY <2>1, SameLedger
<1>8. ASSUME NEW t \in Threads,
             TryAlloc(t) \/ AllocLock(t) \/ Retry(t) \/ Front(t) \/ WakeLock(t) \/ Wake(t)
             \/ IsOld(t) \/ IsSameVersion(t)
      PROVE  LedgerInv'
  BY <1>2, <1>8 DEF TryAlloc, AllocLock, SpinLock, Retry, Front, WakeLock, Wake, IsOld,
                    IsSameVersion, node
<1>9. CASE Offline
  <2>1. \A r \in Rips : rstat'[r] = "put" <=> rstat[r] = "put"
    BY <1>9, <1>t, WaitingIs DEF Offline, Queued
  <2> QED
    BY <1>9, <2>1, SameLedger DEF Offline
<1>10. CASE UNCHANGED vars \/ Retired
  BY <1>2, <1>10 DEF Retired, vars, node
<1> QED
  BY <1>1, <1>3, <1>4, <1>5, <1>6, <1>7, <1>8, <1>9, <1>10 DEF Next, Step

\* Nothing was charged, nothing was freed.
LEMMA LedgerInit == Init => PaidInv /\ LedgerInv
<1> SUFFICES ASSUME Init PROVE PaidInv /\ LedgerInv
  OBVIOUS
<1>1. PaidInv
  BY DEF Init, PaidInv
<1>2. Owed = {} /\ Phantom = {}
  BY DEF Init, Owed, Phantom
<1>3. base.inuse = 0 /\ (0 - 0) % Word = 0
  BY WordPositive DEF Init, Fresh
<1> QED
  BY <1>1, <1>2, <1>3, SumEmpty DEF LedgerInv

\* The tokens in use are what was charged less what was freed.
AccountsInv == CallsInv /\ PaidInv /\ LedgerInv

\* Every step keeps it.
LEMMA AccountsNext == AccountsInv /\ [Next]_vars => AccountsInv'
<1> SUFFICES ASSUME AccountsInv, [Next]_vars PROVE AccountsInv'
  OBVIOUS
<1>1. CallsInv'
  BY InvNext, WorkStep, QueueStep, BegunStep, PressStep DEF AccountsInv, CallsInv
<1>2. PaidInv' /\ LedgerInv'
  BY PaidStep, LedgerStep DEF AccountsInv, CallsInv
<1> QED
  BY <1>1, <1>2 DEF AccountsInv

\* It is inductive, with what is known of the requests.
LEMMA AccountsInductive == Spec => []AccountsInv
<1>1. Init => AccountsInv
  BY InvInit, WorkInit, PressInit, LedgerInit DEF AccountsInv, CallsInv
<1> QED
  BY <1>1, AccountsNext, PTL DEF Spec

\* token_inuse is, in its unsigned word, the cost of what was charged and not freed
\* less the cost of what was freed without ever having been charged: no other race of
\* allocating and freeing threads loses or invents a token.
THEOREM LedgerBalances == Spec => []Ledger
<1>1. ASSUME AccountsInv PROVE Ledger
  <2>1. PICK a \in Nat, b \in Nat : a = SumOf(Cost, Owed) /\ b = SumOf(Cost, Phantom)
    BY <1>1, LedgerFinite DEF AccountsInv, CallsInv
  <2>2. Minus(a % Word, b % Word) = (a - b) % Word
    <3>1. a \in Int /\ b \in Int /\ Word \in Nat /\ Word > 0
      BY WordPositive
    <3>2. ((a % Word) + (Word - (b % Word))) % Word = (a - b) % Word
      BY <3>1, RemainderDifference
    <3> QED
      BY <3>2 DEF Minus
  <2>3. CostOf(Owed) = a /\ CostOf(Phantom) = b
    BY <2>1 DEF CostOf, SumOf
  <2> QED
    BY <1>1, <2>1, <2>2, <2>3 DEF AccountsInv, LedgerInv, Ledger, Owed, Phantom
<1> QED
  BY <1>1, AccountsInductive, PTL

-------------------------------------------------------------------------------
(* A single thread.                                                            *)

\* No quota is so large that a request on top of it wraps the word.  The program
\* does not check it; with quotas near the word's size a wrapped sum fits.
SumsFit == \A r \in Rips : MinRs + Cost[r] < Word /\ \A q \in Quotas : q + Cost[r] < Word

\* What holds while c is the only thread.
AloneExact(c) ==
  /\ crew = {c}
  /\ \A t \in Threads \ {c} : pc[t] = "idle"
  /\ \A r \in Rips : rstat[r] \in Granted => r \in paid
  /\ base.inuse = SumOf(Cost, Owed)
  /\ \A r \in Rips : base.inuse + Cost[r] < Word /\ base.quota + Cost[r] < Word
  /\ pc[c] \in {"charge", "recharge", "wakecharge"} => Fits(base, Cost[rip[c]])
  /\ pc[c] = "pop" => rip[c] \in paid
  /\ \A r \in Rips : rstat[r] = "freeing" => pc[c] = "free" /\ rip[c] = r

\* The fields of the account are numbers.
LEMMA AccountNumbers ==
  ASSUME Inv
  PROVE  /\ base \in Account /\ base \in Settling
         /\ base.inuse \in Nat /\ base.inuse < Word
         /\ base.quota \in Nat /\ base.quota < Word
         /\ base.quota_new \in Nat /\ base.quota_new <= base.quota
         /\ base.version \in Nat
         /\ Word \in Nat /\ Word > 0 /\ RespondStep \in Nat /\ MinRs \in Nat
BY WordPositive DEF Inv, TypeOK, QuotaNotBelowTarget, Settling, Account, Tokens

\* A test of the account that does not wrap.
LEMMA FitsPlainly ==
  ASSUME NEW b \in Account, NEW cost \in Nat, b.inuse + cost < Word
  PROVE  /\ Plus(b.inuse, cost) = b.inuse + cost
         /\ Fits(b, cost) <=> b.inuse + cost <= b.quota
<1>1. b.inuse \in Nat /\ b.quota \in Nat /\ Word \in Nat /\ Word > 0
  BY WordPositive DEF Account, Tokens
<1>2. PICK s \in 0..(Word - 1) : s = b.inuse + cost /\ s = cost + b.inuse
  BY <1>1
<1>3. s % Word = s
  BY <1>1
<1> QED
  BY <1>2, <1>3 DEF Plus, Fits

\* A charge that fits, of an account none of whose sums wraps.
LEMMA ChargePlainly ==
  ASSUME Inv, TargetAboveStep, NEW r \in Rips, base.inuse + Cost[r] < Word,
         Fits(base, Cost[r]), Pay(r)
  PROVE  /\ paid' = paid \cup {r}
         /\ base'.inuse = base.inuse + Cost[r] /\ base'.inuse <= base.quota
         /\ base'.quota \in Nat /\ base'.quota <= base.quota
         /\ base'.quota_new = base.quota_new
<1>1. /\ base \in Account /\ base \in Settling /\ Cost[r] \in Nat
      /\ base.quota \in Nat /\ base.quota_new \in Tokens /\ base.quota_new \in Nat
      /\ base.quota_new <= base.quota /\ base.quota >= RespondStep
  <2>1. base.quota_new \in Tokens
    BY AccountNumbers, SettlingFields
  <2> QED
    BY <2>1, AccountNumbers, CostType DEF TargetAboveStep
<1>2. base' = Charged(base, Cost[r]) /\ paid' = paid \cup {r}
  BY DEF Pay
<1>3. /\ base'.inuse = Plus(base.inuse, Cost[r])
      /\ base'.quota = IF base.quota_new < base.quota THEN SteppedDown(base, base.quota_new)
                                                      ELSE base.quota
      /\ base'.quota_new = base.quota_new
  BY <1>1, <1>2 DEF Charged, Account
<1>4. base'.inuse = base.inuse + Cost[r] /\ base'.inuse <= base.quota
  BY <1>1, <1>3, FitsPlainly
<1>5. /\ SteppedDown(base, base.quota_new) <= base.quota
      /\ SteppedDown(base, base.quota_new) \in Tokens
  BY <1>1, StepDown, SteppedDownType
<1>6. base'.quota \in Nat /\ base'.quota <= base.quota
  BY <1>1, <1>3, <1>5 DEF Tokens
<1> QED
  BY <1>2, <1>3, <1>4, <1>6

\* A message leaves the tokens in use alone, and takes the quota down, or up to its own.
LEMMA UpdatePlainly ==
  ASSUME Inv, TargetAboveStep, NEW m \in Quotas \X Versions, base' = Updated(base, m[1], m[2])
  PROVE  /\ base'.inuse = base.inuse /\ base'.quota \in Nat
         /\ base'.quota <= base.quota \/ (Increases(base, m[1], m[2]) /\ base'.quota = m[1])
         /\ base'.quota_new \in {base.quota_new, m[1]}
<1>1. /\ base \in Account /\ base \in Settling
      /\ base.quota \in Nat /\ base.quota >= RespondStep /\ base.version \in Nat
      /\ m[1] \in Tokens /\ m[1] \in Nat /\ m[2] \in Nat
  BY AccountNumbers, InputTypes, WordPositive DEF TargetAboveStep, Tokens
<1>2. CASE m[2] <= base.version
  BY <1>1, <1>2 DEF Updated
<1>3. CASE ~(m[2] <= base.version)
  <2>1. /\ base'.inuse = base.inuse
        /\ base'.quota_new = IF base.quota = m[1] THEN base.quota_new ELSE m[1]
        /\ base'.quota = CASE base.quota < m[1] -> m[1]
                           [] base.quota > m[1] -> SteppedDown(base, m[1])
                           [] OTHER -> base.quota
    BY <1>1, <1>3 DEF Updated, Account
  <2>2. CASE base.quota < m[1]
    BY <1>1, <1>3, <2>1, <2>2 DEF Increases
  <2>3. CASE base.quota > m[1]
    <3>1. SteppedDown(base, m[1]) <= base.quota /\ SteppedDown(base, m[1]) \in Nat
      BY <1>1, <2>3, StepDown, SteppedDownType DEF Tokens
    <3> QED
      BY <1>1, <2>1, <2>3, <3>1
  <2>4. CASE base.quota = m[1]
    BY <1>1, <2>1, <2>4
  <2> QED
    BY <1>1, <2>2, <2>3, <2>4
<1> QED
  BY <1>2, <1>3

\* Nobody but c moves.
LEMMA OnlyOneMoves ==
  ASSUME NEW c \in Threads, AloneExact(c), NEW t \in Threads,
         \/ Step(t)
         \/ \E r \in Rips : AllocBegin(t, r) \/ FreeBegin(t, r)
         \/ \E m \in Quotas \X Versions : RcvdBegin(t, m)
  PROVE  t = c
<1>1. CASE t \in crew
  BY <1>1 DEF AloneExact
<1>2. CASE pc[t] # "idle"
  BY <1>2 DEF AloneExact
<1> QED
  BY <1>1, <1>2 DEF Step, AllocBegin, FreeBegin, RcvdBegin, TryAlloc, Charge, AllocLock, SpinLock,
     Retry, Recharge, PushBack, Front, WakeLock, Wake, WakeCharge, Pop, Free, IsOld, IsSameVersion,
     Update, Reset

\* What c frees was paid, so that the tokens in use do not fall below nothing.
LEMMA FreePlainly ==
  ASSUME AccountsInv, NEW c \in Threads, AloneExact(c), Free(c)
  PROVE  /\ base'.inuse \in Nat /\ base'.inuse <= base.inuse
         /\ base'.inuse = SumOf(Cost, Owed')
         /\ base'.quota = base.quota /\ base'.quota_new = base.quota_new
<1> USE DEF AccountsInv, CallsInv
<1>1. PICK r \in Rips : r = rip[c] /\ rstat[r] = "freeing"
  BY DEF Free, Inv, TypeOK, WorkInv
<1>2. /\ paid \subseteq Rips /\ base \in Account /\ rstat \in [Rips -> RipStats]
      /\ r \in paid
  BY <1>1 DEF Inv, TypeOK, AloneExact, Granted
<1>3. /\ paid' = paid /\ base'.inuse = Minus(base.inuse, Cost[r])
      /\ base'.quota = base.quota /\ base'.quota_new = base.quota_new
      /\ \A x \in Rips : rstat'[x] = IF x = r THEN "put" ELSE rstat[x]
  BY <1>1, <1>2 DEF Free, Freed, Account
<1>4. r \in Owed /\ Owed' = Owed \ {r}
  BY <1>1, <1>2, <1>3 DEF Owed
<1>5. PICK n \in Nat : n = SumOf(Cost, Owed \ {r}) /\ base.inuse = n + Cost[r]
  BY <1>4, LedgerFinite, CostRemove DEF AloneExact
<1>6. n \in 0..(Word - 1) /\ Cost[r] \in Nat /\ Word \in Nat
  BY <1>5, AccountNumbers, CostType
<1>7. (n + Word) % Word = n
  BY <1>6, WrapOnce
<1>8. (n + Cost[r]) + (Word - Cost[r]) = n + Word
  BY <1>6
<1>9. Minus(base.inuse, Cost[r]) = n
  BY <1>5, <1>7, <1>8 DEF Minus
<1> QED
  BY <1>3, <1>4, <1>5, <1>6, <1>9

\* What the account of c holds after a step: the cost of what is owed, and no sum wraps.
LEMMA AloneAccount ==
  ASSUME StepCovered, SumsFit, AccountsInv, TargetAboveStep,
         NEW c \in Threads, AloneExact(c), [Next]_vars
  PROVE  /\ base'.inuse = SumOf(Cost, Owed')
         /\ \A r \in Rips : base'.inuse + Cost[r] < Word /\ base'.quota + Cost[r] < Word
<1> USE DEF AccountsInv, CallsInv
<1>t. /\ pc \in [Threads -> Places] /\ rip \in [Threads -> Rips] /\ rstat \in [Rips -> RipStats]
      /\ paid \subseteq Rips /\ base \in Account /\ base.inuse \in Nat /\ base.quota \in Nat
      /\ Word \in Nat /\ \A r \in Rips : Cost[r] \in Nat
  BY AccountNumbers, CostType DEF Inv, TypeOK
<1>s. base.inuse = SumOf(Cost, Owed)
      /\ \A r \in Rips : base.inuse + Cost[r] < Word /\ base.quota + Cost[r] < Word
  BY DEF AloneExact
<1> DEFINE Done == /\ base'.inuse = SumOf(Cost, Owed')
                   /\ \A r \in Rips : base'.inuse + Cost[r] < Word /\ base'.quota + Cost[r] < Word
<1>1. ASSUME paid' = paid, base'.inuse = base.inuse,
             \A r \in Rips : rstat'[r] = "put" <=> rstat[r] = "put",
             \A r \in Rips : base'.quota + Cost[r] < Word
      PROVE  Done
  <2>1. Owed' = Owed
    BY <1>1, <1>t DEF Owed
  <2> QED
    BY <1>1, <1>s, <2>1
<1>2. ASSUME UNCHANGED <<base, paid>>,
             \A r \in Rips : rstat'[r] = "put" <=> rstat[r] = "put"
      PROVE  Done
  BY <1>1, <1>2, <1>s
<1> HIDE DEF Done
<1>3. ASSUME NEW t \in Threads, NEW r \in Rips, AllocBegin(t, r) \/ FreeBegin(t, r)
      PROVE  Done
  BY <1>2, <1>3, <1>t DEF AllocBegin, FreeBegin
<1>4. ASSUME NEW t \in Threads, NEW m \in Quotas \X Versions, RcvdBegin(t, m) PROVE Done
  BY <1>2, <1>4 DEF RcvdBegin, node
<1>5. ASSUME Charge(c) \/ Recharge(c) \/ WakeCharge(c) PROVE Done
  <2>1. PICK r \in Rips : r = rip[c]
    BY <1>t
  <2>2. r \notin paid /\ rstat[r] \in {"asking", "queued"} /\ Pay(r) /\ Fits(base, Cost[r])
    BY <1>5, <2>1, NotPaidYet DEF Charge, Recharge, WakeCharge, AloneExact
  <2>3. \A x \in Rips : rstat'[x] = "put" <=> rstat[x] = "put"
    BY <1>5, <1>t, <2>1, <2>2 DEF Charge, Recharge, WakeCharge, Grant
  <2>4. /\ paid' = paid \cup {r}
        /\ base'.inuse = base.inuse + Cost[r] /\ base'.inuse <= base.quota
        /\ base'.quota \in Nat /\ base'.quota <= base.quota
    BY <1>s, <2>2, ChargePlainly
  <2>5. r \notin Owed /\ Owed' = Owed \cup {r}
    BY <1>t, <2>2, <2>3, <2>4 DEF Owed
  <2>6. SumOf(Cost, Owed \cup {r}) = SumOf(Cost, Owed) + Cost[r]
    BY <2>5, LedgerFinite, CostAdd
  <2>7. base'.inuse = SumOf(Cost, Owed')
    BY <1>s, <2>4, <2>5, <2>6
  <2>8. \A x \in Rips : base'.inuse + Cost[x] < Word /\ base'.quota + Cost[x] < Word
    BY <1>t, <1>s, <2>4
  <2> QED
    BY <2>7, <2>8 DEF Done
<1>6. ASSUME NEW t \in Threads, PushBack(t) \/ Pop(t) PROVE Done
  <2>1. pc[t] = "push" => rstat[rip[t]] = "asking"
    BY DEF WorkInv, Asking
  <2>2. pc[t] = "pop" => rstat[rip[t]] = "queued"
    BY HeadQueued DEF Inv, PopsWhatItPaid
  <2>3. \A x \in Rips : rstat'[x] = "put" <=> rstat[x] = "put"
    BY <1>6, <1>t, <2>1, <2>2 DEF PushBack, Pop, Grant
  <2> QED
    BY <1>2, <1>6, <2>3 DEF PushBack, Pop
<1>7. ASSUME Free(c) PROVE Done
  <2>1. /\ base'.inuse \in Nat /\ base'.inuse <= base.inuse
        /\ base'.inuse = SumOf(Cost, Owed') /\ base'.quota = base.quota
    BY <1>7, FreePlainly
  <2> QED
    BY <1>t, <1>s, <2>1 DEF Done
<1>8. ASSUME Update(c) PROVE Done
  <2>1. PICK m \in Quotas \X Versions : base' = Updated(base, m[1], m[2])
    BY <1>8 DEF Update, Inv, MsgInv
  <2>2. /\ base'.inuse = base.inuse /\ base'.quota \in Nat
        /\ base'.quota <= base.quota \/ base'.quota = m[1]
    BY <2>1, UpdatePlainly
  <2>3. \A r \in Rips : base'.quota + Cost[r] < Word
    BY <1>t, <1>s, <2>2 DEF SumsFit
  <2> QED
    BY <1>1, <1>8, <2>2, <2>3 DEF Update
<1>9. ASSUME Reset(c) PROVE Done
  <2>1. base'.inuse = base.inuse /\ (base'.quota = base.quota \/ base'.quota = MinRs)
    BY <1>9, <1>t DEF Reset, ResetAccount, Account
  <2>2. \A r \in Rips : base'.quota + Cost[r] < Word
    BY <1>s, <2>1 DEF SumsFit
  <2> QED
    BY <1>1, <1>9, <2>1, <2>2 DEF Reset
<1>10. ASSUME NEW t \in Threads,
              TryAlloc(t) \/ AllocLock(t) \/ Retry(t) \/ Front(t) \/ WakeLock(t) \/ Wake(t)
              \/ IsOld(t) \/ IsSameVersion(t)
       PROVE  Done
  BY <1>2, <1>10 DEF TryAlloc, AllocLock, SpinLock, Retry, Front, WakeLock, Wake, IsOld,
                     IsSameVersion, node
<1>11. ASSUME Offline PROVE Done
  <2>1. \A r \in Rips : rstat'[r] = "put" <=> rstat[r] = "put"
    BY <1>11, <1>t, WaitingIs DEF Offline, Queued
  <2> QED
    BY <1>2, <1>11, <2>1 DEF Offline
<1>12. ASSUME UNCHANGED vars \/ Retired PROVE Done
  BY <1>2, <1>12 DEF Retired, vars, node
<1>13. ASSUME NEW t \in Threads, Step(t) PROVE Done
  <2>1. t = c
    BY <1>13, OnlyOneMoves
  <2> QED
    BY <1>5, <1>6, <1>7, <1>8, <1>9, <1>10, <1>13, <2>1 DEF Step
<1>14. Done
  BY <1>3, <1>4, <1>11, <1>12, <1>13 DEF Next
<1> QED
  BY <1>14 DEF Done

\* What c was granted it paid, and what it is about to charge fits.
LEMMA AloneGrants ==
  ASSUME AccountsInv, TargetAboveStep, NEW c \in Threads, AloneExact(c), [Next]_vars
  PROVE  /\ crew' = {c}
         /\ \A t \in Threads \ {c} : pc'[t] = "idle"
         /\ \A r \in Rips : rstat'[r] \in Granted => r \in paid'
         /\ pc'[c] \in {"charge", "recharge", "wakecharge"} => Fits(base, Cost[rip[c]])'
         /\ pc'[c] = "pop" => rip'[c] \in paid'
         /\ \A r \in Rips : rstat'[r] = "freeing" => pc'[c] = "free" /\ rip'[c] = r
<1> USE DEF AccountsInv, CallsInv, Goto, Grant, Granted
<1>t. /\ pc \in [Threads -> Places] /\ rip \in [Threads -> Rips] /\ rstat \in [Rips -> RipStats]
      /\ paid \subseteq Rips
  BY DEF Inv, TypeOK
<1>s. /\ crew = {c} /\ \A t \in Threads \ {c} : pc[t] = "idle"
      /\ \A r \in Rips : rstat[r] \in Granted => r \in paid
      /\ pc[c] \in {"charge", "recharge", "wakecharge"} => Fits(base, Cost[rip[c]])
      /\ pc[c] = "pop" => rip[c] \in paid
      /\ \A r \in Rips : rstat[r] = "freeing" => pc[c] = "free" /\ rip[c] = r
  BY DEF AloneExact
<1> DEFINE Done == /\ crew' = {c}
                   /\ \A t \in Threads \ {c} : pc'[t] = "idle"
                   /\ \A r \in Rips : rstat'[r] \in Granted => r \in paid'
                   /\ pc'[c] \in {"charge", "recharge", "wakecharge"} => Fits(base, Cost[rip[c]])'
                   /\ pc'[c] = "pop" => rip'[c] \in paid'
                   /\ \A r \in Rips : rstat'[r] = "freeing" => pc'[c] = "free" /\ rip'[c] = r
<1>1. ASSUME NEW r \in Rips, AllocBegin(c, r) \/ FreeBegin(c, r) PROVE Done
  BY <1>1, <1>t, <1>s DEF AllocBegin, FreeBegin
<1>2. ASSUME NEW m \in Quotas \X Versions, RcvdBegin(c, m) PROVE Done
  BY <1>2, <1>t, <1>s DEF RcvdBegin, node
<1>3. ASSUME Charge(c) \/ Recharge(c) PROVE Done
  <2>1. Fits(base, Cost[rip[c]]) /\ Pay(rip[c])
    BY <1>3, <1>s DEF Charge, Recharge
  <2>2. paid' = paid \cup {rip[c]}
    BY <2>1 DEF Pay
  <2> QED
    BY <1>3, <1>t, <1>s, <2>2 DEF Charge, Recharge
<1>4. ASSUME PushBack(c) PROVE Done
  BY <1>4, <1>t, <1>s DEF PushBack
<1>5. ASSUME Free(c) PROVE Done
  <2>1. rstat[rip[c]] = "freeing"
    BY <1>5 DEF Free, WorkInv
  <2> QED
    BY <1>5, <1>t, <1>s, <2>1 DEF Free
<1>6. ASSUME WakeCharge(c) PROVE Done
  <2>1. Fits(base, Cost[rip[c]]) /\ Pay(rip[c])
    BY <1>6, <1>s DEF WakeCharge
  <2>2. paid' = paid \cup {rip[c]}
    BY <2>1 DEF Pay
  <2> QED
    BY <1>6, <1>t, <1>s, <2>2 DEF WakeCharge
<1>7. ASSUME Pop(c) PROVE Done
  BY <1>7, <1>t, <1>s DEF Pop
<1>8. ASSUME TryAlloc(c) \/ Retry(c) \/ Wake(c) PROVE Done
  <2>1. base' = base
    BY <1>8 DEF TryAlloc, Retry, Wake, node
  <2>2. pc'[c] \in {"charge", "recharge", "wakecharge"} => Fits(base, Cost[rip'[c]])
    BY <1>8, <1>t DEF TryAlloc, Retry, Wake, FrontFits, node
  <2>3. Fits(base, Cost[rip[c]])' <=> Fits(base, Cost[rip'[c]])
    BY <2>1 DEF Fits
  <2> QED
    BY <1>8, <1>t, <1>s, <2>2, <2>3 DEF TryAlloc, Retry, Wake, node
<1>9. ASSUME AllocLock(c) \/ Front(c) \/ WakeLock(c) PROVE Done
  BY <1>9, <1>t, <1>s DEF AllocLock, SpinLock, Front, WakeLock, node
<1>10. ASSUME IsOld(c) \/ IsSameVersion(c) \/ Update(c) \/ Reset(c) PROVE Done
  BY <1>10, <1>t, <1>s DEF IsOld, IsSameVersion, Update, Reset, node
<1>11. ASSUME Offline PROVE Done
  BY <1>11, <1>t, <1>s DEF Offline, WriteLocked
<1>12. ASSUME UNCHANGED vars \/ Retired PROVE Done
  <2>1. UNCHANGED vars
    BY <1>12 DEF Retired
  <2>2. Fits(base, Cost[rip[c]])' <=> Fits(base, Cost[rip[c]])
    BY <2>1 DEF Fits, vars, node
  <2> QED
    BY <1>s, <2>1, <2>2 DEF vars, node
<1> HIDE DEF Done
<1>13. ASSUME NEW t \in Threads, Step(t) PROVE Done
  <2>1. t = c
    BY <1>13, OnlyOneMoves
  <2> QED
    BY <1>3, <1>4, <1>5, <1>6, <1>7, <1>8, <1>9, <1>10, <1>13, <2>1 DEF Step
<1>14. ASSUME NEW t \in Threads,
              \/ \E r \in Rips : AllocBegin(t, r) \/ FreeBegin(t, r)
              \/ \E m \in Quotas \X Versions : RcvdBegin(t, m)
       PROVE  Done
  <2>1. t = c
    BY <1>14, OnlyOneMoves
  <2> QED
    BY <1>1, <1>2, <1>14, <2>1
<1>15. Done
  BY <1>11, <1>12, <1>13, <1>14 DEF Next
<1> QED
  BY <1>15 DEF Done

\* A new node has granted nothing.
LEMMA AloneInit ==
  ASSUME SumsFit, Init, NEW c \in Threads, crew = {c}
  PROVE  AloneExact(c)
<1>1. Owed = {} /\ base.inuse = 0 /\ base.quota = MinRs
  BY DEF Init, Owed, Fresh
<1>2. \A r \in Rips : 0 + Cost[r] < Word /\ MinRs + Cost[r] < Word
  BY CostType, WordPositive DEF SumsFit, Tokens
<1>3. base.inuse = SumOf(Cost, Owed)
  BY <1>1, SumEmpty
<1> QED
  BY <1>1, <1>2, <1>3 DEF AloneExact, Init, Granted

\* The invariant of a single thread, whoever it is.
AloneInv == /\ AccountsInv /\ TargetAboveStep
            /\ \A c \in Threads : crew = {c} => AloneExact(c)

\* The threads that take part are fixed.
LEMMA CrewFixed == [Next]_vars => crew' = crew
BY DEF Next, Step, AllocBegin, FreeBegin, RcvdBegin, TryAlloc, Charge, AllocLock, SpinLock, Retry,
       Recharge, PushBack, Front, WakeLock, Wake, WakeCharge, Pop, Free, IsOld, IsSameVersion, Update,
       Reset, Offline, Retired, vars

\* It is inductive, where nothing wraps.
LEMMA AloneInductive ==
  ASSUME StepCovered, SumsFit
  PROVE  Spec => []AloneInv
<1>1. Init => AloneInv
  <2> SUFFICES ASSUME Init PROVE AloneInv
    OBVIOUS
  <2>1. AccountsInv
    BY InvInit, WorkInit, PressInit, LedgerInit DEF AccountsInv, CallsInv
  <2>2. TargetAboveStep
    BY TargetInit
  <2>3. \A c \in Threads : crew = {c} => AloneExact(c)
    BY AloneInit
  <2> QED
    BY <2>1, <2>2, <2>3 DEF AloneInv
<1>2. AloneInv /\ [Next]_vars => AloneInv'
  <2> SUFFICES ASSUME AloneInv, [Next]_vars PROVE AloneInv'
    OBVIOUS
  <2>1. AccountsInv /\ TargetAboveStep
    BY DEF AloneInv
  <2>2. AccountsInv'
    BY <2>1, AccountsNext
  <2>3. TargetAboveStep'
    BY <2>1, TargetNext DEF AccountsInv, CallsInv
  <2>4. ASSUME NEW c \in Threads, crew' = {c} PROVE AloneExact(c)'
    <3>1. AloneExact(c)
      BY <2>4, CrewFixed DEF AloneInv
    <3> QED
      BY <2>1, <3>1, AloneAccount, AloneGrants DEF AloneExact
  <2> QED
    BY <2>2, <2>3, <2>4 DEF AloneInv
<1> QED
  BY <1>1, <1>2, PTL DEF Spec

\* One thread that takes part is the crew.
LEMMA OneIsCrew ==
  ASSUME Inv, Cardinality(crew) = 1
  PROVE  \E c \in Threads : crew = {c}
<1>1. crew \subseteq Threads
  BY DEF Inv, TypeOK
<1>2. IsFiniteSet(crew)
  BY <1>1, ThreadsAssumption, FS_Subset
<1>3. PICK c : crew = {c}
  BY <1>2, FS_Singleton
<1> QED
  BY <1>1, <1>3

\* While one thread uses the node every request it was granted was paid for, and when
\* it is between two calls the tokens in use are the cost of what it holds, no more
\* and no less: the unpaid grants need a second thread.  If no sum of a quota and a
\* request wraps and no step down of the quota does.
THEOREM AloneAccountIsExact ==
  ASSUME StepCovered, SumsFit
  PROVE  Spec => []AloneIsExact
<1>1. ASSUME AloneInv PROVE AloneIsExact
  <2> SUFFICES ASSUME Cardinality(crew) = 1
               PROVE  /\ \A r \in Rips : rstat[r] \in Granted => r \in paid
                      /\ Quiet => base.inuse = CostOf({r \in Rips : rstat[r] = "held"})
    BY DEF AloneIsExact, Granted
  <2>1. PICK c \in Threads : AloneExact(c)
    BY <1>1, OneIsCrew DEF AloneInv, AccountsInv, CallsInv
  <2>2. \A r \in Rips : rstat[r] \in Granted => r \in paid
    BY <2>1 DEF AloneExact
  <2>3. ASSUME Quiet PROVE base.inuse = CostOf({r \in Rips : rstat[r] = "held"})
    <3>1. \A r \in Rips : rstat[r] # "freeing"
      BY <2>1, <2>3 DEF AloneExact, Quiet
    <3>2. \A r \in Rips : ~(rstat[r] = "queued" /\ \E t \in Threads : pc[t] = "pop" /\ rip[t] = r)
      BY <2>3 DEF Quiet
    <3>3. \A r \in paid : rstat[r] \in Granted /\ r \in Rips
      BY <1>1, <3>2 DEF AloneInv, AccountsInv, CallsInv, PaidInv, Inv, TypeOK
    <3>4. Owed = {r \in Rips : rstat[r] = "held"}
      BY <2>2, <3>1, <3>3 DEF Owed, Granted
    <3> QED
      BY <2>1, <3>4 DEF AloneExact, CostOf, SumOf
  <2> QED
    BY <2>2, <2>3
<1> QED
  BY <1>1, AloneInductive, PTL

-------------------------------------------------------------------------------
(* Nobody waits for tokens that are there, while a single thread works.        *)

\* A reset, which wakes nobody, takes the quota to MIN_RS_NUM: this is not a rise when
\* no quota is smaller.  The program does not ensure it; the run strand_reset shows
\* what happens without.
NoResetRaises == \A q \in Quotas : MinRs <= q

Waking == {"front", "wakelock", "wake", "wakecharge", "pop"}

\* The front request fits only while c is on its way to wake it.
AloneServed(c) ==
  /\ pc[c] = "push" => ~Fits(base, Cost[rip[c]])
  /\ FrontFits => pc[c] \in Waking
  /\ MinRs <= base.quota_new

\* What did not fit does not fit an account with more in use and no higher quota.
LEMMA StillTooLarge ==
  ASSUME Inv, base' \in Account, NEW r \in Rips, ~Fits(base, Cost[r]),
         base.inuse + Cost[r] < Word, base'.inuse + Cost[r] < Word,
         base.inuse <= base'.inuse, base'.quota <= base.quota
  PROVE  ~Fits(base', Cost[r])
<1>1. /\ base \in Account /\ Cost[r] \in Nat /\ base.inuse \in Nat /\ base.quota \in Nat
      /\ base'.inuse \in Nat /\ base'.quota \in Nat
  BY AccountNumbers, CostType, WordPositive DEF Account, Tokens
<1>2. Fits(base, Cost[r]) <=> base.inuse + Cost[r] <= base.quota
  BY <1>1, FitsPlainly
<1>3. Fits(base', Cost[r]) <=> base'.inuse + Cost[r] <= base'.quota
  BY <1>1, FitsPlainly
<1> QED
  BY <1>1, <1>2, <1>3

\* So it is for the front of a queue that does not move.
LEMMA FrontStillTooLarge ==
  ASSUME Inv, QueueInv, base' \in Account, queue' = queue, ~FrontFits,
         \A r \in Rips : base.inuse + Cost[r] < Word /\ base'.inuse + Cost[r] < Word,
         base.inuse <= base'.inuse, base'.quota <= base.quota
  PROVE  ~FrontFits'
<1>1. CASE queue = <<>>
  BY <1>1 DEF FrontFits
<1>2. CASE queue # <<>>
  <2>1. PICK r \in Rips : r = Head(queue)
    BY <1>2, HeadQueued
  <2>2. ~Fits(base, Cost[r])
    BY <1>2, <2>1 DEF FrontFits
  <2>3. ~Fits(base', Cost[r])
    BY <2>2, StillTooLarge
  <2> QED
    BY <2>1, <2>3 DEF FrontFits
<1> QED
  BY <1>1, <1>2

\* The target of the quota never falls below MIN_RS_NUM.
LEMMA AloneTarget ==
  ASSUME NoResetRaises, Inv, MinRs <= base.quota_new, [Next]_vars
  PROVE  MinRs <= base'.quota_new
<1>1. base \in Account
  BY DEF Inv, TypeOK
<1>2. ASSUME NEW r \in Rips, Pay(r) PROVE base'.quota_new = base.quota_new
  BY <1>1, <1>2 DEF Pay, Charged, Account
<1>3. ASSUME NEW r \in Rips, base' = Freed(base, Cost[r]) PROVE base'.quota_new = base.quota_new
  BY <1>1, <1>3 DEF Freed, Account
<1>4. ASSUME NEW m \in Quotas \X Versions, base' = Updated(base, m[1], m[2])
      PROVE  base'.quota_new = base.quota_new \/ base'.quota_new = m[1]
  BY <1>1, <1>4 DEF Updated, Account
<1>5. ASSUME base' = ResetAccount(base) PROVE base'.quota_new = MinRs
  BY <1>1, <1>5 DEF ResetAccount, Account
<1>6. \A m \in Quotas \X Versions : MinRs <= m[1]
  BY DEF NoResetRaises
<1>7. MinRs \in Nat /\ base.quota_new \in Nat
  BY AccountNumbers
<1> QED
  BY <1>2, <1>3, <1>4, <1>5, <1>6, <1>7, AccountMoves

\* A push into an empty queue is of what did not fit; into another one it changes no front.
LEMMA PushBackServed ==
  ASSUME Inv, NEW c \in Threads, AloneServed(c), PushBack(c)
  PROVE  ~FrontFits'
<1>1. queue \in Seq(Rips) /\ rip[c] \in Rips /\ base' = base /\ queue' = Append(queue, rip[c])
  BY DEF PushBack, Inv, TypeOK
<1>2. ~Fits(base, Cost[rip[c]]) /\ ~FrontFits
  BY DEF PushBack, AloneServed, Waking
<1>3. queue' # <<>>
  BY <1>1, AppendProperties
<1>4. Head(queue') = IF queue = <<>> THEN rip[c] ELSE Head(queue)
  BY <1>1, AppendProperties
<1> QED
  BY <1>1, <1>2, <1>3, <1>4 DEF FrontFits

\* A message that wakes nobody makes no room.
LEMMA UpdateServed ==
  ASSUME AccountsInv, TargetAboveStep, NEW c \in Threads, AloneExact(c), AloneServed(c),
         base' \in Account, Update(c)
  PROVE  FrontFits' => pc'[c] \in Waking
<1> USE DEF AccountsInv, CallsInv
<1>1. PICK m \in Quotas \X Versions : m = msg[c] /\ base' = Updated(base, m[1], m[2])
  BY DEF Update, Inv, MsgInv
<1>2. /\ base'.inuse = base.inuse
      /\ base'.quota <= base.quota \/ (Increases(base, m[1], m[2]) /\ base'.quota = m[1])
  BY <1>1, UpdatePlainly
<1>3. pc'[c] = IF Increases(base, m[1], m[2]) THEN "front" ELSE "idle"
  BY <1>1 DEF Update, Goto, Inv, TypeOK
<1>4. CASE Increases(base, m[1], m[2])
  BY <1>3, <1>4 DEF Waking
<1>5. CASE ~Increases(base, m[1], m[2])
  <2>1. ~FrontFits /\ queue' = queue
    BY DEF Update, AloneServed, Waking
  <2>2. base'.quota <= base.quota /\ base.inuse <= base'.inuse
    BY <1>2, <1>5, AccountNumbers
  <2>3. \A r \in Rips : base.inuse + Cost[r] < Word /\ base'.inuse + Cost[r] < Word
    BY <1>2 DEF AloneExact
  <2> QED
    BY <2>1, <2>2, <2>3, FrontStillTooLarge
<1> QED
  BY <1>4, <1>5

\* Nor does a reset.
LEMMA ResetServed ==
  ASSUME AccountsInv, NEW c \in Threads, AloneExact(c), AloneServed(c),
         base' \in Account, Reset(c)
  PROVE  ~FrontFits'
<1> USE DEF AccountsInv, CallsInv
<1>1. ~FrontFits /\ queue' = queue
  BY DEF Reset, AloneServed, Waking
<1>2. /\ base.quota \in Nat /\ base.inuse \in Nat /\ MinRs <= base.quota /\ base \in Account
  BY AccountNumbers DEF AloneServed
<1>3. base'.inuse = base.inuse /\ base'.quota \in {base.quota, MinRs}
  BY <1>2 DEF Reset, ResetAccount, Account
<1>4. base'.quota <= base.quota /\ base.inuse <= base'.inuse
  BY <1>2, <1>3
<1>5. \A r \in Rips : base.inuse + Cost[r] < Word /\ base'.inuse + Cost[r] < Word
  BY <1>3 DEF AloneExact
<1> QED
  BY <1>1, <1>4, <1>5, FrontStillTooLarge

\* Nor does a charge.
LEMMA ChargeServed ==
  ASSUME AccountsInv, TargetAboveStep, NEW c \in Threads, AloneExact(c), AloneServed(c),
         base' \in Account, Charge(c) \/ Recharge(c)
  PROVE  ~FrontFits'
<1> USE DEF AccountsInv, CallsInv
<1>1. ~FrontFits /\ queue' = queue
  BY DEF Charge, Recharge, AloneServed, Waking
<1>2. PICK r \in Rips : r = rip[c] /\ Pay(r) /\ Fits(base, Cost[r])
  BY DEF Charge, Recharge, AloneExact, Inv, TypeOK
<1>3. base.inuse + Cost[r] < Word /\ \A x \in Rips : base.quota + Cost[x] < Word
  BY DEF AloneExact
<1>4. /\ base'.inuse = base.inuse + Cost[r] /\ base'.inuse <= base.quota
      /\ base'.quota <= base.quota
  BY <1>2, <1>3, ChargePlainly
<1>5. base.inuse \in Nat /\ base.quota \in Nat /\ Word \in Nat /\ \A x \in Rips : Cost[x] \in Nat
  BY AccountNumbers, CostType
<1>6. \A x \in Rips : base.inuse + Cost[x] < Word /\ base'.inuse + Cost[x] < Word
  BY <1>3, <1>4, <1>5 DEF AloneExact
<1>7. base.inuse <= base'.inuse
  BY <1>4, <1>5
<1> QED
  BY <1>1, <1>4, <1>6, <1>7, FrontStillTooLarge

\* No step leaves room for the front request without going on to wake it.
LEMMA ServedStep ==
  ASSUME NoResetRaises, AccountsInv, TargetAboveStep, base' \in Account,
         NEW c \in Threads, AloneExact(c), AloneServed(c), [Next]_vars
  PROVE  AloneServed(c)'
<1> USE DEF AccountsInv, CallsInv, Goto
<1>t. pc \in [Threads -> Places] /\ rip \in [Threads -> Rips]
  BY DEF Inv, TypeOK
<1>s. /\ pc[c] = "push" => ~Fits(base, Cost[rip[c]])
      /\ FrontFits => pc[c] \in Waking
  BY DEF AloneServed
<1>r. MinRs <= base'.quota_new
  BY AloneTarget DEF AloneServed
<1> DEFINE Done == /\ pc'[c] = "push" => ~Fits(base', Cost[rip'[c]])
                   /\ FrontFits' => pc'[c] \in Waking
<1>1. ASSUME NEW r \in Rips, AllocBegin(c, r) \/ FreeBegin(c, r) PROVE Done
  BY <1>1, <1>t, <1>s DEF AllocBegin, FreeBegin, FrontFits, Waking
<1>2. ASSUME NEW m \in Quotas \X Versions, RcvdBegin(c, m) PROVE Done
  BY <1>2, <1>t, <1>s DEF RcvdBegin, node, FrontFits, Waking
<1>3. ASSUME Charge(c) \/ Recharge(c) PROVE Done
  BY <1>3, <1>t, ChargeServed DEF Charge, Recharge
<1>4. ASSUME PushBack(c) PROVE Done
  BY <1>4, <1>t, PushBackServed DEF PushBack
<1>5. ASSUME Free(c) \/ WakeCharge(c) \/ Pop(c) PROVE Done
  BY <1>5, <1>t DEF Free, WakeCharge, Pop, Waking
<1>6. ASSUME TryAlloc(c) \/ AllocLock(c) \/ Retry(c) PROVE Done
  <2>1. base' = base /\ queue' = queue /\ rip' = rip
    BY <1>6 DEF TryAlloc, AllocLock, SpinLock, Retry, node
  <2>2. ~FrontFits
    BY <1>6, <1>s DEF TryAlloc, AllocLock, SpinLock, Retry, Waking
  <2>3. pc'[c] = "push" => ~Fits(base, Cost[rip[c]])
    BY <1>6, <1>t DEF TryAlloc, AllocLock, SpinLock, Retry
  <2> QED
    BY <2>1, <2>2, <2>3 DEF FrontFits
<1>7. ASSUME Front(c) \/ WakeLock(c) \/ Wake(c) PROVE Done
  <2>1. base' = base /\ queue' = queue
    BY <1>7 DEF Front, WakeLock, SpinLock, Wake, node
  <2>2. pc'[c] = "idle" => ~FrontFits
    BY <1>7, <1>t DEF Front, WakeLock, SpinLock, Wake, FrontFits
  <2>3. pc'[c] \in Waking \cup {"idle"}
    BY <1>7, <1>t DEF Front, WakeLock, SpinLock, Wake, Waking
  <2> QED
    BY <2>1, <2>2, <2>3 DEF FrontFits, Waking
<1>8. ASSUME IsOld(c) \/ IsSameVersion(c) PROVE Done
  BY <1>8, <1>t, <1>s DEF IsOld, IsSameVersion, node, FrontFits, Waking
<1>9. ASSUME Update(c) PROVE Done
  BY <1>9, <1>t, UpdateServed DEF Update
<1>10. ASSUME Reset(c) PROVE Done
  BY <1>10, <1>t, ResetServed DEF Reset
<1>11. ASSUME Offline PROVE Done
  BY <1>11, <1>t DEF Offline, WriteLocked, FrontFits
<1>12. ASSUME UNCHANGED vars \/ Retired PROVE Done
  BY <1>12, <1>s DEF Retired, vars, node, FrontFits
<1> HIDE DEF Done
<1>13. ASSUME NEW t \in Threads, Step(t) PROVE Done
  <2>1. t = c
    BY <1>13, OnlyOneMoves
  <2> QED
    BY <1>3, <1>4, <1>5, <1>6, <1>7, <1>8, <1>9, <1>10, <1>13, <2>1 DEF Step
<1>14. ASSUME NEW t \in Threads,
              \/ \E r \in Rips : AllocBegin(t, r) \/ FreeBegin(t, r)
              \/ \E m \in Quotas \X Versions : RcvdBegin(t, m)
       PROVE  Done
  <2>1. t = c
    BY <1>14, OnlyOneMoves
  <2> QED
    BY <1>1, <1>2, <1>14, <2>1
<1>15. Done
  BY <1>11, <1>12, <1>13, <1>14 DEF Next
<1> QED
  BY <1>15, <1>r DEF Done, AloneServed

\* While one thread uses the node no request waits for tokens that are there once it is
\* between two calls: a request that fits is woken by the free, the message or the
\* wake-up that made the room, though a reset wakes nobody.  If no reset raises the
\* quota, no sum of a quota and a request wraps and no step down of the quota does.
THEOREM AloneWakes ==
  ASSUME StepCovered, SumsFit, NoResetRaises
  PROVE  Spec => []AloneNobodyStranded
<1> DEFINE Served == \A c \in Threads : crew = {c} => AloneServed(c)
<1>1. Init => Served
  BY AccountNumbers, InvInit DEF Init, AloneServed, FrontFits, Fresh
<1>2. AloneInv /\ AloneInv' /\ Served /\ [Next]_vars => Served'
  <2> SUFFICES ASSUME AloneInv, AloneInv', Served, [Next]_vars, NEW c \in Threads, crew' = {c}
               PROVE  AloneServed(c)'
    OBVIOUS
  <2>1. AloneExact(c) /\ AloneServed(c) /\ AccountsInv /\ TargetAboveStep
    BY CrewFixed DEF AloneInv
  <2>2. base' \in Account
    BY DEF AloneInv, AccountsInv, CallsInv, Inv, TypeOK
  <2> QED
    BY <2>1, <2>2, ServedStep
<1>3. AloneInv /\ Served => AloneNobodyStranded
  <2> SUFFICES ASSUME AloneInv, Served, Cardinality(crew) = 1, Quiet PROVE ~FrontFits
    BY DEF AloneNobodyStranded, NoStrandedRequest
  <2>1. PICK c \in Threads : crew = {c}
    BY OneIsCrew DEF AloneInv, AccountsInv, CallsInv
  <2> QED
    BY <2>1 DEF AloneServed, Waking, Quiet
<1>4. Spec => []AloneInv
  BY AloneInductive
<1> HIDE DEF Served
<1> QED
  BY <1>1, <1>2, <1>3, <1>4, PTL DEF Spec
===============================================================================
