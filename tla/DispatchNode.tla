----------------------------- MODULE DispatchNode -----------------------------
(***************************************************************************)
(* src/sysqos_dispatch_node.c over sysqos_dispatch_base_node.c and         *)
(* sysqos_nodereq_list.c: one node of the application's table, its token   *)
(* account, its queue of waiting requests, and the threads that allocate,  *)
(* free and receive quotas on it at the same time.                         *)
(*                                                                         *)
(* A step is what runs inside one section of a lock: the account's rwlock, *)
(* the queue's rwlock, the node's spin lock.  Between two sections other   *)
(* threads run.  All operations hold the manager's lock for reading except *)
(* the reset and the end of the node, which hold it for writing.           *)
(***************************************************************************)
EXTENDS BaseNode, Sequences, FiniteSets, FiniteSetsExt

CONSTANTS Rips,        \* token requests (token_req_t) made on this node
          Cost,        \* what each of them costs
          Threads,     \* threads of the application
          NoThread,    \* nobody holds the spin lock
          Quotas,      \* the quotas a dispatch2app message may carry
          Versions     \* and its versions

ASSUME RipsAssumption == Rips # {}
ASSUME CostAssumption == Cost \in [Rips -> 1..(Word - 1)]
ASSUME MessageAssumption == Quotas \subseteq Tokens /\ Versions \subseteq Nat
ASSUME ThreadsAssumption == IsFiniteSet(Threads) /\ NoThread \notin Threads

VARIABLES
  crew,      \* the threads that take part in this behaviour; fixed
  online,    \* the node is in the manager's table
  base,      \* dispatch_base_node_t
  queue,     \* nodereq_list_t.token_list, front first
  press,     \* nodereq_list_t.press
  lck,       \* who holds dispatch_node_t.lck
  rstat,     \* where each request is in its life
  paid,      \* history: requests whose cost was added to token_inuse
  pc,        \* the section each thread is about to enter
  rip,       \* the request it works on
  msg        \* the message it received

node == <<base, queue, press, rstat, paid>>
vars == <<crew, online, base, queue, press, lck, rstat, paid, pc, rip, msg>>

RipStats == {"new", "asking", "queued", "held", "freeing", "put", "failed"}
Places == {"idle", "try", "charge", "lock", "retry", "recharge", "push",
           "free", "front", "wakelock", "wake", "wakecharge", "pop",
           "isold", "issame", "update", "reset"}
NoMsg == <<>>

\* Sections entered with the spin lock held.
Locked == {"retry", "recharge", "push", "wake", "wakecharge", "pop"}

TypeOK ==
  /\ crew \subseteq Threads
  /\ online \in BOOLEAN
  /\ base \in Account
  /\ queue \in Seq(Rips)
  /\ press \in Tokens
  /\ lck \in Threads \cup {NoThread}
  /\ rstat \in [Rips -> RipStats]
  /\ paid \subseteq Rips
  /\ pc \in [Threads -> Places]
  /\ rip \in [Threads -> Rips]
  /\ msg \in [Threads -> Quotas \X Versions \cup {NoMsg}]

Waiting == {queue[i] : i \in DOMAIN queue}
CostOf(S) == MapThenSumSet(LAMBDA r : Cost[r], S)
Quiet == \A t \in Threads : pc[t] = "idle"
-------------------------------------------------------------------------------
Init ==
  /\ crew \in (SUBSET Threads) \ {{}}
  /\ online = TRUE
  /\ base = Fresh
  /\ queue = <<>>
  /\ press = 0
  /\ lck = NoThread
  /\ rstat = [r \in Rips |-> "new"]
  /\ paid = {}
  /\ pc = [t \in Threads |-> "idle"]
  /\ rip = [t \in Threads |-> CHOOSE r \in Rips : TRUE]
  /\ msg = [t \in Threads |-> NoMsg]

Goto(t, place) == pc' = [pc EXCEPT ![t] = place]
Unlock(t) == lck' = NoThread

\* pthread_spin_lock(&item->lck).
SpinLock(t, from, to) ==
  /\ pc[t] = from
  /\ lck = NoThread
  /\ lck' = t
  /\ Goto(t, to)
  /\ UNCHANGED <<crew, online, node, rip, msg>>

\* The write section of try_alloc_from_base.  It looks at the account again, and
\* charges nothing when the request no longer fits; the caller gets OK anyway.
Pay(r) ==
  IF Fits(base, Cost[r]) THEN base' = Charged(base, Cost[r]) /\ paid' = paid \cup {r}
                         ELSE UNCHANGED <<base, paid>>

\* to_got(rip): the request is its group's from here on.
Grant(r) == rstat' = [rstat EXCEPT ![r] = "held"]

-------------------------------------------------------------------------------
(* alloc_resource: one try without the spin lock, one with it, else the queue. *)

AllocBegin(t, r) ==
  /\ online /\ t \in crew /\ pc[t] = "idle"
  /\ rstat[r] = "new"
  /\ rstat' = [rstat EXCEPT ![r] = "asking"]
  /\ rip' = [rip EXCEPT ![t] = r]
  /\ Goto(t, "try")
  /\ UNCHANGED <<crew, online, base, queue, press, lck, paid, msg>>

\* Mutant: the request is charged without a look at the account.
TryNothing(t) ==
  /\ pc[t] = "try"
  /\ Goto(t, "charge")
  /\ UNCHANGED <<crew, online, node, lck, rip, msg>>

TryAlloc(t) ==
  /\ pc[t] = "try"
  /\ Goto(t, IF Fits(base, Cost[rip[t]]) THEN "charge" ELSE "lock")
  /\ UNCHANGED <<crew, online, node, lck, rip, msg>>

Charge(t) ==
  /\ pc[t] = "charge"
  /\ Pay(rip[t]) /\ Grant(rip[t])
  /\ Goto(t, "idle")
  /\ UNCHANGED <<crew, online, queue, press, lck, rip, msg>>

AllocLock(t) == SpinLock(t, "lock", "retry")

Retry(t) ==
  /\ pc[t] = "retry"
  /\ Goto(t, IF Fits(base, Cost[rip[t]]) THEN "recharge" ELSE "push")
  /\ UNCHANGED <<crew, online, node, lck, rip, msg>>

Recharge(t) ==
  /\ pc[t] = "recharge"
  /\ Pay(rip[t]) /\ Grant(rip[t])
  /\ Goto(t, "idle") /\ Unlock(t)
  /\ UNCHANGED <<crew, online, queue, press, rip, msg>>

PushBack(t) ==
  /\ pc[t] = "push"
  /\ queue' = Append(queue, rip[t])
  /\ press' = Plus(press, Cost[rip[t]])
  /\ rstat' = [rstat EXCEPT ![rip[t]] = "queued"]
  /\ Goto(t, "idle") /\ Unlock(t)
  /\ UNCHANGED <<crew, online, base, paid, rip, msg>>
-------------------------------------------------------------------------------
(* resource_increased: wake the queue from its front while requests fit.       *)

\* The look at the queue before the spin lock is taken.
Front(t) ==
  /\ pc[t] = "front"
  /\ Goto(t, IF queue = <<>> THEN "idle" ELSE "wakelock")
  /\ UNCHANGED <<crew, online, node, lck, rip, msg>>

\* Mutant: the queue is woken without the spin lock.
WakeUnlocked(t) ==
  /\ pc[t] = "wakelock"
  /\ Goto(t, "wake")
  /\ UNCHANGED <<crew, online, node, lck, rip, msg>>

WakeLock(t) == SpinLock(t, "wakelock", "wake")

FrontFits == queue # <<>> /\ Fits(base, Cost[Head(queue)])

\* The loop's condition and the check of try_alloc_from_base.
Wake(t) ==
  /\ pc[t] = "wake"
  /\ \/ /\ FrontFits
        /\ rip' = [rip EXCEPT ![t] = Head(queue)]
        /\ Goto(t, "wakecharge")
        /\ UNCHANGED lck
     \/ /\ ~FrontFits
        /\ Goto(t, "idle") /\ Unlock(t)
        /\ UNCHANGED rip
  /\ UNCHANGED <<crew, online, node, msg>>

WakeCharge(t) ==
  /\ pc[t] = "wakecharge"
  /\ Pay(rip[t])
  /\ Goto(t, "pop")
  /\ UNCHANGED <<crew, online, queue, press, lck, rstat, rip, msg>>

\* Mutant: the press is not lowered.
PopKeepsPress(t) ==
  /\ pc[t] = "pop"
  /\ queue' = Tail(queue)
  /\ Grant(rip[t])
  /\ Goto(t, "wake")
  /\ UNCHANGED <<crew, online, base, press, lck, paid, rip, msg>>

\* pop_front takes whatever is in front; to_got settles the request looked at.
Pop(t) ==
  /\ pc[t] = "pop"
  /\ queue' = Tail(queue)
  /\ press' = Minus(press, Cost[Head(queue)])
  /\ Grant(rip[t])
  /\ Goto(t, "wake")
  /\ UNCHANGED <<crew, online, base, lck, paid, rip, msg>>
-------------------------------------------------------------------------------
(* free_resource, for a request of this incarnation of the node.               *)

FreeBegin(t, r) ==
  /\ online /\ t \in crew /\ pc[t] = "idle"
  /\ rstat[r] = "held"
  /\ rstat' = [rstat EXCEPT ![r] = "freeing"]
  /\ rip' = [rip EXCEPT ![t] = r]
  /\ Goto(t, "free")
  /\ UNCHANGED <<crew, online, base, queue, press, lck, paid, msg>>

\* Mutant: nobody is woken.
FreeWakesNobody(t) ==
  /\ pc[t] = "free"
  /\ base' = Freed(base, Cost[rip[t]])
  /\ rstat' = [rstat EXCEPT ![rip[t]] = "put"]
  /\ Goto(t, "idle")
  /\ UNCHANGED <<crew, online, queue, press, lck, paid, rip, msg>>

Free(t) ==
  /\ pc[t] = "free"
  /\ base' = Freed(base, Cost[rip[t]])
  /\ rstat' = [rstat EXCEPT ![rip[t]] = "put"]
  /\ Goto(t, "front")
  /\ UNCHANGED <<crew, online, queue, press, lck, paid, rip, msg>>
-------------------------------------------------------------------------------
(* resource_changed: a message of the dispatcher, checked in three sections.   *)

Forget(t) == msg' = [msg EXCEPT ![t] = NoMsg]

RcvdBegin(t, m) ==
  /\ online /\ t \in crew /\ pc[t] = "idle"
  /\ msg' = [msg EXCEPT ![t] = m]
  /\ Goto(t, "isold")
  /\ UNCHANGED <<crew, online, node, lck, rip>>

IsOld(t) ==
  /\ pc[t] = "isold"
  /\ \/ /\ IsToReset(base, msg[t][2])
        /\ Goto(t, "reset") /\ Forget(t)
     \/ /\ ~IsToReset(base, msg[t][2])
        /\ Goto(t, "issame") /\ UNCHANGED msg
  /\ UNCHANGED <<crew, online, node, lck, rip>>

IsSameVersion(t) ==
  /\ pc[t] = "issame"
  /\ \/ /\ IsSame(base, msg[t][2])
        /\ Goto(t, "idle") /\ Forget(t)
     \/ /\ ~IsSame(base, msg[t][2])
        /\ Goto(t, "update") /\ UNCHANGED msg
  /\ UNCHANGED <<crew, online, node, lck, rip>>

Update(t) ==
  /\ pc[t] = "update"
  /\ base' = Updated(base, msg[t][1], msg[t][2])
  /\ Goto(t, IF Increases(base, msg[t][1], msg[t][2]) THEN "front" ELSE "idle")
  /\ Forget(t)
  /\ UNCHANGED <<crew, online, queue, press, lck, rstat, paid, rip>>

\* The manager's lock is held by nobody: threads are between two operations, or
\* between the read-locked and the write-locked half of rcvd.
WriteLocked == \A t \in Threads : pc[t] \in {"idle", "reset"}

\* node_reset, the write-locked half.  It wakes nobody.
Reset(t) ==
  /\ pc[t] = "reset"
  /\ WriteLocked
  /\ base' = IF online THEN ResetAccount(base) ELSE base
  /\ Goto(t, "idle")
  /\ UNCHANGED <<crew, online, queue, press, lck, rstat, paid, rip, msg>>

\* node_offline: pop_all settles every waiting request as failed.
Offline ==
  /\ online
  /\ WriteLocked
  /\ online' = FALSE
  /\ queue' = <<>>
  /\ press' = 0
  /\ rstat' = [r \in Rips |-> IF r \in Waiting THEN "failed" ELSE rstat[r]]
  /\ UNCHANGED <<crew, base, lck, paid, pc, rip, msg>>

\* The node's memory is given back; nothing more happens to it.
Retired == ~online /\ Quiet /\ UNCHANGED vars

Step(t) == \/ TryAlloc(t) \/ Charge(t) \/ AllocLock(t)
           \/ Retry(t) \/ Recharge(t) \/ PushBack(t)
           \/ Front(t) \/ WakeLock(t) \/ Wake(t) \/ WakeCharge(t) \/ Pop(t)
           \/ Free(t)
           \/ IsOld(t) \/ IsSameVersion(t) \/ Update(t) \/ Reset(t)

Next == \/ \E t \in Threads : \/ \E r \in Rips : AllocBegin(t, r) \/ FreeBegin(t, r)
                              \/ \E m \in Quotas \X Versions : RcvdBegin(t, m)
                              \/ Step(t)
        \/ Offline
        \/ Retired

Spec == Init /\ [][Next]_vars
-------------------------------------------------------------------------------
\* The press reported to the dispatcher is the cost of the requests that wait, and
\* the queue holds each of them once and nothing else, whatever threads push, pop
\* and drop the whole queue.
PressIsQueued ==
  online =>
    /\ press = CostOf(Waiting) % Word
    /\ Waiting = {r \in Rips : rstat[r] = "queued"}
    /\ Len(queue) = Cardinality(Waiting)

\* resource_increased pays for the front request, then pops the front in another
\* section: it is the same request, though allocating threads run in between.
PopsWhatItPaid ==
  \A t \in Threads : pc[t] \in {"wakecharge", "pop"} =>
    queue # <<>> /\ Head(queue) = rip[t]

\* token_inuse is what was charged and not freed, less what was granted without a
\* charge and freed all the same: the grants that pass try_alloc_from_desc's second
\* test unpaid are the only way the account goes wrong.
Ledger ==
  base.inuse = Minus(CostOf({r \in paid : rstat[r] # "put"}) % Word,
                     CostOf({r \in Rips \ paid : rstat[r] = "put"}) % Word)

\* While a single thread works on the node every request held was paid for.
AloneIsExact ==
  Cardinality(crew) = 1 =>
    /\ \A r \in Rips : rstat[r] \in {"held", "freeing", "put"} => r \in paid
    /\ Quiet => base.inuse = CostOf({r \in Rips : rstat[r] = "held"})

\* A quota on its way down is never below the one it goes to.
QuotaNotBelowTarget == base.quota_new <= base.quota

\* The quota goes up only to a value the dispatcher sent, or MIN_RS_NUM; it goes
\* down by at most RespondStep at a time, except in a reset.
QuotaMoves ==
  [][ /\ base'.quota > base.quota => base'.quota = base'.quota_new
      /\ base'.quota < base.quota =>
           \/ base.quota - base'.quota <= RespondStep
           \/ base' = ResetAccount(base) ]_base

\* However the sections of several messages interleave, a message never overrides a
\* newer one: outside a reset the version does not go back, and the target moves only
\* with a newer version.  With QuotaMoves, so does the quota rise.
NewerMessageWins ==
  [][ \/ base' = ResetAccount(base)
      \/ /\ base'.version >= base.version
         /\ base'.quota_new # base.quota_new => base'.version > base.version ]_base

\* Nobody waits for tokens that are there: when no thread runs, the front request
\* does not fit.
NoStrandedRequest == online /\ Quiet => ~FrontFits

\* It holds while a single thread works on the node, if no reset raises the quota.
AloneNobodyStranded == Cardinality(crew) = 1 => NoStrandedRequest

\* When every request was put back no token is in use.
AllPutNoneInUse ==
  online /\ Quiet /\ (\A r \in Rips : rstat[r] \in {"new", "put"}) => base.inuse = 0
===============================================================================
