------------------------------ MODULE DispManager ------------------------------
(***************************************************************************)
(* src/sysqos_dispatch_manager.c over sysqos_app_node.c,                   *)
(* sysqos_waitincrease_list.c, count_controller.c and fence_executor.c:    *)
(* the dispatcher's end.  Threads of its host take applications online,    *)
(* hand out and take back tokens, add and remove resources, and receive    *)
(* the reports of applications.                                            *)
(*                                                                         *)
(* A step is a section of the manager's rwlock or of a node's spin lock,   *)
(* or one access to what no lock protects.  The account of all tokens is   *)
(* one of those: an operation on it loads and then stores, and other       *)
(* threads' stores come in between.  A failed assert and a call through a  *)
(* null pointer end the program; aborted says which.                       *)
(***************************************************************************)
EXTENDS QuotaSplit, FiniteSets

CONSTANTS Ids,           \* ids of applications
          Threads, NoThread,
          NumMaxs, Mins, Intervals,   \* max_node_num, min_rs_num, update_interval
          Units,         \* tokens a resource is increased or reduced by
          Costs,         \* tokens an application asks for
          Garbage,       \* numbers an app2dispatch_t on the stack may hold
          MaxCalls,      \* bound: calls the host makes in a behaviour
          NoNode

ASSUME NullAssumption == NoThread \notin Threads /\ NoNode \notin Ids
ASSUME FiniteAssumption == IsFiniteSet(Ids) /\ IsFiniteSet(Threads)
ASSUME ParamAssumption == /\ NumMaxs \subseteq Tokens /\ Mins \subseteq Tokens
                          /\ Intervals \subseteq Nat
                          /\ Units \cup Costs \cup Garbage \subseteq Tokens

VARIABLES
  hashed,       \* the host has given the table its hash and compare functions; fixed
  interval,     \* count_controller_t.max; fixed
  tokens,       \* token_global_t
  tab,          \* the app_node_t of each application that is online
  cached,       \* nodes the cache has handed out and not got back
  fence_id,
  wait,         \* lhead_wait_increase, first to be served first
  cnt,          \* count_controller_t.cnt
  is_exe,       \* fence_executor_t.is_exe
  ctx,          \* token_update_ctx_t
  readers,      \* threads inside a section of the rwlock that takes several steps
  writer,
  pc,           \* what each thread does next
  me,           \* its local variables
  told,         \* history: the last dispatch2app_t of each application
  granted,      \* history: allocations, as (id, fence, cost)
  aborted,      \* "no", or what ended the program
  calls         \* bound

lock == <<readers, writer>>
policy == <<cnt, is_exe, ctx>>
history == <<told, granted>>
config == <<hashed, interval>>
vars == <<hashed, interval, tokens, tab, cached, fence_id, wait, cnt, is_exe, ctx,
          readers, writer, pc, me, told, granted, aborted, calls>>

Nodes == [fence : Nat, inuse : Tokens, quota : Tokens, quota_new : Tokens,
          press : Tokens, version : Nat]

Messages == [quota : Tokens, version : Nat]       \* dispatch2app_t

ASSUME NoNodeAssumption == NoNode \notin Nodes

\* app_node_init, and what tokens.online then gives the node.
NewNode(fence, quota) == [fence |-> fence, inuse |-> 0, quota |-> quota, quota_new |-> quota,
                          press |-> 0, version |-> 0]

Places == {"idle", "check", "newnode", "admit", "online", "drop", "alloc", "rcvd", "increase",
           "reduce", "gfree", "gfreeend", "clear", "count", "recount", "swap", "execute", "collect",
           "gather", "weigh", "divide", "divided", "wakeup", "serve", "take", "send"}
NoMe == [id |-> NoNode, amount |-> 0, back |-> "idle", snap |-> <<>>, fence |-> 0,
         old |-> 0, new |-> 0, due |-> FALSE, first |-> NoNode]
Aborts == {"no", "hash", "offline", "reset", "free", "weight", "floor"}

TypeOK ==
  /\ hashed \in BOOLEAN /\ interval \in Intervals
  /\ tokens \in Account
  /\ tab \in [Ids -> Nodes \cup {NoNode}]
  /\ cached \in Nat /\ fence_id \in Nat
  /\ wait \in Seq(Ids)
  /\ cnt \in 0..interval /\ is_exe \in BOOLEAN
  /\ ctx.loop \in 0..3
  /\ readers \subseteq Threads /\ writer \in Threads \cup {NoThread}
  /\ readers # {} => writer = NoThread
  /\ pc \in [Threads -> Places]
  /\ \A t \in Threads : /\ me[t].id \in Ids \cup {NoNode}
                        /\ me[t].back \in {"idle", "alloc", "rcvd"}
  /\ told \in [Ids -> Messages \cup {<<>>}]
  /\ granted \subseteq Ids \X Nat \X Costs
  /\ aborted \in Aborts

Online(i) == tab[i] # NoNode

Init ==
  /\ hashed \in BOOLEAN /\ interval \in Intervals
  /\ \E m \in NumMaxs, l \in Mins : tokens = NewAccount(m, l)
  /\ tab = [i \in Ids |-> NoNode]
  /\ cached = 0 /\ fence_id = 0
  /\ wait = <<>>
  /\ cnt = 0 /\ is_exe = FALSE /\ ctx = NoContext
  /\ readers = {} /\ writer = NoThread
  /\ pc = [t \in Threads |-> "idle"]
  /\ me = [t \in Threads |-> NoMe]
  /\ told = [i \in Ids |-> <<>>]
  /\ granted = {}
  /\ aborted = "no"
  /\ calls = 0

Enter(t, place) == aborted = "no" /\ pc[t] = place
Goto(t, place) == pc' = [pc EXCEPT ![t] = place]
Done(t) == pc' = [pc EXCEPT ![t] = "idle"] /\ me' = [me EXCEPT ![t] = NoMe]
\* Where node_online was called from: the operation goes on, if any.
Back(t) == IF me[t].back = "idle" THEN Done(t) ELSE Goto(t, me[t].back) /\ UNCHANGED me
Abort(why) == aborted' = why

\* A section that is one step needs nobody inside who excludes it.
CanRead == writer = NoThread
CanWrite == readers = {} /\ writer = NoThread
RdLock(t) == CanRead /\ readers' = readers \cup {t} /\ UNCHANGED writer
RdUnlock(t) == readers' = readers \ {t} /\ UNCHANGED writer

\* node->lck: the one section of it that takes two steps is update_token_quota's.
NodeFree(i) == \A t \in Threads : pc[t] = "take" => me[t].first # i

\* update_policy, at once.  A report comes here by way of "count" instead.
UpdatePolicy(t) == Goto(t, "clear")

Call(t) == Enter(t, "idle") /\ calls < MaxCalls /\ calls' = calls + 1

Begin(t, place, i, amount, back) ==
  /\ Call(t)
  /\ Goto(t, place)
  /\ me' = [me EXCEPT ![t] = [NoMe EXCEPT !.id = i, !.amount = amount, !.back = back]]
  /\ UNCHANGED <<config, tokens, tab, cached, fence_id, wait, policy, lock, history, aborted>>
-------------------------------------------------------------------------------
(* Unlocked operations on the account.                                         *)

Load(t) == me' = [me EXCEPT ![t].snap = tokens]
Forget(t) == me' = [me EXCEPT ![t].snap = <<>>, ![t].amount = 0]

\* Each field is read either before or after what other threads have stored since.
Views(t) ==
  LET snap == me[t].snap
      moved == {f \in DOMAIN tokens : snap[f] # tokens[f]}
  IN  {[f \in DOMAIN tokens |-> IF f \in S THEN snap[f] ELSE tokens[f]] : S \in SUBSET moved}

\* The operation stores the fields it changes in its view, and no others.
Store(view, result) ==
  tokens' = [f \in DOMAIN tokens |-> IF result[f] # view[f] THEN result[f] ELSE tokens[f]]

-------------------------------------------------------------------------------
(* check_online and node_online.                                               *)

AllocTokens(t, i, cost) == Begin(t, "check", i, cost, "alloc")
Rcvd(t, i) == Begin(t, "check", i, 0, "rcvd")
NodeOnline(t, i) == Begin(t, "newnode", i, 0, "idle")

\* hfind asserts that there is a hash function.
CheckOnline(t) ==
  /\ Enter(t, "check")
  /\ IF hashed THEN Goto(t, IF Online(me[t].id) THEN me[t].back ELSE "newnode") /\ UNCHANGED aborted
               ELSE Abort("hash") /\ UNCHANGED pc
  /\ UNCHANGED <<config, tokens, tab, cached, fence_id, wait, policy, lock, me, history, calls>>

\* Mutant: the cache does not count.
GetNodeAlways(t) ==
  /\ Enter(t, "newnode")
  /\ cached' = cached + 1 /\ fence_id' = fence_id + 1
  /\ me' = [me EXCEPT ![t].fence = fence_id]
  /\ Goto(t, "admit")
  /\ UNCHANGED <<config, tokens, tab, wait, policy, lock, history, aborted, calls>>

\* Without a node from the cache, which holds num_max of them, nothing is done.
GetNode(t) ==
  /\ Enter(t, "newnode")
  /\ IF cached < tokens.num_max
     THEN /\ cached' = cached + 1 /\ fence_id' = fence_id + 1
          /\ me' = [me EXCEPT ![t].fence = fence_id]
          /\ Goto(t, "admit")
     ELSE Back(t) /\ UNCHANGED <<cached, fence_id>>
  /\ UNCHANGED <<config, tokens, tab, wait, policy, lock, history, aborted, calls>>

\* The write section, up to the load of tokens.online.
AdmitBegin(t) ==
  /\ Enter(t, "admit") /\ CanWrite
  /\ \/ ~hashed /\ Abort("hash") /\ UNCHANGED <<pc, me, writer>>
     \/ hashed /\ Online(me[t].id) /\ Goto(t, "drop") /\ UNCHANGED <<me, writer, aborted>>
     \/ /\ hashed /\ ~Online(me[t].id)
        /\ writer' = t /\ Load(t)
        /\ Goto(t, "online")
        /\ UNCHANGED aborted
  /\ UNCHANGED <<config, tokens, tab, cached, fence_id, wait, policy, readers, history, calls>>

\* Its rest.  The table's own cache is as large as the cache of nodes and a node is
\* taken from that first, so the insert finds an item.
AdmitEnd(t) ==
  /\ Enter(t, "online")
  /\ writer' = NoThread
  /\ me' = [me EXCEPT ![t].snap = <<>>]
  /\ \E g \in Views(t) :
       \/ /\ Admits(g)
          /\ Store(g, OnlineAccount(g))
          /\ tab' = [tab EXCEPT ![me[t].id] = NewNode(me[t].fence, g.min)]
          /\ UpdatePolicy(t)
       \/ /\ ~Admits(g)
          /\ Goto(t, "drop")
          /\ UNCHANGED <<tokens, tab>>
  /\ UNCHANGED <<config, cached, fence_id, wait, policy, readers, history, aborted, calls>>

\* The node that was not needed goes back to the cache.
DropNode(t) ==
  /\ Enter(t, "drop")
  /\ cached' = cached - 1
  /\ Back(t)
  /\ UNCHANGED <<config, tokens, tab, fence_id, wait, policy, lock, history, aborted, calls>>

\* The erase takes the node from the table but hands it to nobody (node_val is
\* passed by value), and the wait list's erase asserts that there is a node.
NodeOffline(t, i) ==
  /\ Call(t) /\ CanWrite
  /\ \/ ~hashed /\ Abort("hash") /\ UNCHANGED tab
     \/ hashed /\ Online(i) /\ Abort("offline") /\ tab' = [tab EXCEPT ![i] = NoNode]
     \/ hashed /\ ~Online(i) /\ UNCHANGED <<tab, aborted>>
  /\ UNCHANGED <<config, tokens, cached, fence_id, wait, policy, lock, pc, me, history>>

\* node->reset is never set.
NodeReset(t, i) ==
  /\ Call(t) /\ CanRead
  /\ \/ ~hashed /\ Abort("hash") /\ UNCHANGED pc
     \/ hashed /\ Online(i) /\ Abort("reset") /\ UNCHANGED pc
     \/ hashed /\ ~Online(i) /\ UpdatePolicy(t) /\ UNCHANGED aborted
  /\ UNCHANGED <<config, tokens, tab, cached, fence_id, wait, policy, lock, me, history>>
-------------------------------------------------------------------------------
(* alloc_tokens and free_tokens, after check_online.                           *)

\* Mutant: the tokens in use are left out of the comparison.
CostFitsAlone(node, cost) == cost <= node.quota

CostFits(node, cost) == Plus(node.inuse, cost) <= node.quota

Alloc(t) ==
  LET i == me[t].id
      cost == me[t].amount
  IN  /\ Enter(t, "alloc") /\ CanRead /\ NodeFree(i)
      /\ IF Online(i) /\ CostFits(tab[i], cost)
         THEN /\ tab' = [tab EXCEPT ![i].inuse = Plus(@, cost)]
              /\ granted' = granted \cup {<<i, tab[i].fence, cost>>}
         ELSE UNCHANGED <<tab, granted>>
      /\ Done(t)
      /\ UNCHANGED <<config, tokens, cached, fence_id, wait, policy, lock, told, aborted, calls>>

\* dtn_free asserts that fewer tokens are in use than come back.
FreeAssertion(node, cost) == node.inuse < cost

\* An application's tokens come back, as they were granted.
FreeTokens(t, i, fence, cost) ==
  /\ Call(t) /\ CanRead /\ NodeFree(i)
  /\ <<i, fence, cost>> \in granted
  /\ \/ /\ Online(i) /\ tab[i].fence = fence /\ FreeAssertion(tab[i], cost)
        /\ tab' = [tab EXCEPT ![i].inuse = Minus(@, cost)]
        /\ UNCHANGED aborted
     \/ /\ Online(i) /\ tab[i].fence = fence /\ ~FreeAssertion(tab[i], cost)
        /\ Abort("free") /\ UNCHANGED tab
     \/ /\ Online(i) => tab[i].fence # fence
        /\ UNCHANGED <<tab, aborted>>
  /\ UNCHANGED <<config, tokens, cached, fence_id, wait, policy, lock, pc, me, history>>
-------------------------------------------------------------------------------
(* resource_increase and resource_reduce.                                      *)

Increase(t, units) ==
  /\ Call(t) /\ RdLock(t)
  /\ Goto(t, "increase")
  /\ me' = [me EXCEPT ![t] = [NoMe EXCEPT !.amount = units, !.snap = tokens]]
  /\ UNCHANGED <<config, tokens, tab, cached, fence_id, wait, policy, history, aborted>>

IncreaseEnd(t) ==
  /\ Enter(t, "increase")
  /\ \E g \in Views(t) : Store(g, IncreasedAccount(g, me[t].amount))
  /\ RdUnlock(t)
  /\ UpdatePolicy(t) /\ Forget(t)
  /\ UNCHANGED <<config, tab, cached, fence_id, wait, policy, history, aborted, calls>>

Reduce(t, units) ==
  /\ Call(t) /\ RdLock(t)
  /\ Goto(t, "reduce")
  /\ me' = [me EXCEPT ![t] = [NoMe EXCEPT !.amount = units, !.snap = tokens]]
  /\ UNCHANGED <<config, tokens, tab, cached, fence_id, wait, policy, history, aborted>>

ReduceEnd(t) ==
  LET units == me[t].amount
  IN  /\ Enter(t, "reduce")
      /\ \E g \in Views(t) :
           IF CouldDecrease(g, units)
           THEN Store(g, DecreasedAccount(g, units)) /\ UpdatePolicy(t) /\ Forget(t)
           ELSE Done(t) /\ UNCHANGED tokens
      /\ RdUnlock(t)
      /\ UNCHANGED <<config, tab, cached, fence_id, wait, policy, history, aborted, calls>>
-------------------------------------------------------------------------------
(* rcvd, after check_online.  The message is never copied out of buf: what     *)
(* node_rcvd is given is whatever was on the stack.                            *)

\* update_quota_after_rcvd: the quota is raised to what is confirmed, and the
\* difference reported as tokens that came free.
Raised(node, confirmed) ==
  IF node.quota < Least(confirmed, node.quota_new) THEN Least(confirmed, node.quota_new)
                                                   ELSE node.quota

NodeRcvd(t) ==
  LET i == me[t].id
  IN  /\ Enter(t, "rcvd") /\ CanRead /\ NodeFree(i)
      /\ \/ ~Online(i) /\ Done(t) /\ UNCHANGED tab
         \/ /\ Online(i)           \* garbage for the version of a report that is not taken
            /\ Goto(t, "count")
            /\ me' = [me EXCEPT ![t].back = "idle"]
            /\ UNCHANGED tab
         \/ /\ Online(i)
            /\ \E press, confirmed \in Garbage :
                 LET new == Raised(tab[i], confirmed)
                     size == new - tab[i].quota
                 IN  /\ tab' = [tab EXCEPT ![i].press = press, ![i].quota = new]
                     /\ me' = [me EXCEPT ![t].amount = size, ![t].back = "idle"]
                     /\ Goto(t, IF size = 0 THEN "count" ELSE "gfree")
      /\ UNCHANGED <<config, tokens, cached, fence_id, wait, policy, lock, history, aborted,
                     calls>>

\* tokens.free, under no lock at all.
GFree(t) ==
  /\ Enter(t, "gfree")
  /\ Load(t) /\ Goto(t, "gfreeend")
  /\ UNCHANGED <<config, tokens, tab, cached, fence_id, wait, policy, lock, history, aborted, calls>>

GFreeEnd(t) ==
  /\ Enter(t, "gfreeend")
  /\ \E g \in Views(t) : Store(g, FreedAccount(g, me[t].amount))
  /\ Goto(t, "wakeup") /\ Forget(t)
  /\ UNCHANGED <<config, tab, cached, fence_id, wait, policy, lock, history, aborted, calls>>
-------------------------------------------------------------------------------
(* update_policy: count_controller.c, fence_executor.c, and the executor's run.*)

ClearCount(t) ==
  /\ Enter(t, "clear")
  /\ cnt' = 0
  /\ Goto(t, "execute")
  /\ UNCHANGED <<config, tokens, tab, cached, fence_id, wait, is_exe, ctx, lock, me, history,
                 aborted, calls>>

\* Mutant: one more than the interval.
UpCntLate(c) == IF c <= interval THEN c + 1 ELSE 0

UpCnt(c) == IF c < interval THEN c + 1 ELSE 0

\* test_cnt reads the counter for the old value, and again for the new one.
ReadCount(t) ==
  /\ \/ Enter(t, "count") /\ me' = [me EXCEPT ![t].old = cnt] /\ Goto(t, "recount")
     \/ /\ Enter(t, "recount")
        /\ me' = [me EXCEPT ![t].new = UpCnt(cnt), ![t].due = (cnt >= interval)]
        /\ Goto(t, "swap")
  /\ UNCHANGED <<config, tokens, tab, cached, fence_id, wait, policy, lock, history, aborted, calls>>

SwapCount(t) ==
  /\ Enter(t, "swap")
  /\ IF cnt = me[t].old
     THEN /\ cnt' = me[t].new
          /\ IF me[t].due THEN Goto(t, "execute") /\ UNCHANGED me ELSE Done(t)
     ELSE Goto(t, "count") /\ UNCHANGED <<cnt, me>>
  /\ UNCHANGED <<config, tokens, tab, cached, fence_id, wait, is_exe, ctx, lock, history, aborted,
                 calls>>

\* Mutant: is_exe is set, and not looked at.
ExecuteAlways(t) ==
  /\ Enter(t, "execute")
  /\ is_exe' = TRUE
  /\ Goto(t, "collect")
  /\ UNCHANGED <<config, tokens, tab, cached, fence_id, wait, cnt, ctx, lock, me, history, aborted,
                 calls>>

\* The compare-and-swap of execute.  Nothing ever clears is_exe.
Execute(t) ==
  /\ Enter(t, "execute")
  /\ is_exe' = TRUE
  /\ Goto(t, IF is_exe THEN "wakeup" ELSE "collect")
  /\ UNCHANGED <<config, tokens, tab, cached, fence_id, wait, cnt, ctx, lock, me, history, aborted,
                 calls>>

\* update_nodes_token_quota_new: the manager's read lock, kept until the run ends.
Collect(t) ==
  /\ Enter(t, "collect") /\ RdLock(t)
  /\ Goto(t, "gather")
  /\ UNCHANGED <<config, tokens, tab, cached, fence_id, wait, policy, me, history, aborted, calls>>

ToGather == {i \in Ids : Online(i)} \ {ctx.node[k].id : k \in DOMAIN ctx.node}

\* for_each_do with add_rs_to_upctx, a node at a time.  init_update_node reads quota and
\* press one after the other without the node's lock, while a report may change them.
InitUpdateNode(t) ==
  /\ Enter(t, "gather")
  /\ \E i \in ToGather : me' = [me EXCEPT ![t].first = i, ![t].snap = tab[i]]
  /\ Goto(t, "weigh")
  /\ UNCHANGED <<config, tokens, tab, cached, fence_id, wait, policy, lock, history, aborted, calls>>

AddToUpctx(t) ==
  LET i == me[t].first
      seen == {me[t].snap, tab[i]}
  IN  /\ Enter(t, "weigh")
      /\ \E n, m \in seen : ctx' = AddResource(ctx, UpdateNode(i, n.quota, tokens.min, m.press))
      /\ me' = [me EXCEPT ![t].first = NoNode, ![t].snap = <<>>]
      /\ Goto(t, "gather")
      /\ UNCHANGED <<config, tokens, tab, cached, fence_id, wait, cnt, is_exe, lock, history, aborted,
                     calls>>

UpdateBegin(t) ==
  /\ Enter(t, "gather") /\ ToGather = {}
  /\ ctx' = Begun(ctx)
  /\ Goto(t, IF ctx.node = <<>> THEN "divided" ELSE "divide")
  /\ UNCHANGED <<config, tokens, tab, cached, fence_id, wait, cnt, is_exe, lock, me, history,
                 aborted, calls>>

\* wait_increase_list_t: its nodes are in it once.
Erased(list, i) == RemoveFirst(list, i)
Enqueued(list, i) == Append(Erased(list, i), i)

\* update_token_quota_new: every change is a new version; a higher quota has yet to
\* be given, and puts the node at the end of the wait list.
SetQuotaNew(i, quota) ==
  /\ tab' = [tab EXCEPT ![i].quota_new = quota,
                        ![i].version = IF quota = tab[i].quota_new THEN @ ELSE @ + 1]
  /\ wait' = IF quota > tab[i].quota_new THEN Enqueued(wait, i) ELSE wait

\* A turn of a loop of update, with its assertions.
DivideNext(t) ==
  LET i == Current(ctx).id
  IN  /\ Enter(t, "divide") /\ NodeFree(i)
      /\ \/ /\ ctx.loop = 1 /\ ctx.weight = 0
            /\ Abort("weight") /\ UNCHANGED <<tab, wait, ctx, pc>>
         \/ /\ ctx.loop = 1 => ctx.weight > 0
            /\ NextQuota(ctx) < tokens.min
            /\ Abort("floor") /\ UNCHANGED <<tab, wait, ctx, pc>>
         \/ /\ ctx.loop = 1 => ctx.weight > 0
            /\ NextQuota(ctx) >= tokens.min
            /\ SetQuotaNew(i, NextQuota(ctx))
            /\ ctx' = Divide(ctx)
            /\ Goto(t, IF Divide(ctx).loop = 3 THEN "divided" ELSE "divide")
            /\ UNCHANGED aborted
      /\ UNCHANGED <<config, tokens, cached, fence_id, cnt, is_exe, lock, me, history, calls>>

\* update clears the context at its end.
ExecuteEnd(t) ==
  /\ Enter(t, "divided")
  /\ RdUnlock(t)
  /\ ctx' = NoContext
  /\ Goto(t, "wakeup")
  /\ UNCHANGED <<config, tokens, tab, cached, fence_id, wait, cnt, is_exe, me, history, aborted, calls>>
-------------------------------------------------------------------------------
(* try_clear_wait_increase.                                                    *)

Wakeup(t) ==
  /\ Enter(t, "wakeup") /\ RdLock(t)
  /\ Goto(t, "serve")
  /\ UNCHANGED <<config, tokens, tab, cached, fence_id, wait, policy, me, history, aborted, calls>>

\* Mutant: a return that forgets the read lock.
LeaveServeLocked(t) == UNCHANGED lock /\ Back(t)

LeaveServe(t) == RdUnlock(t) /\ Back(t)

\* The first of the list.  One that has its quota stays where it is, and the loop
\* turns on the spot.
Serve(t) ==
  /\ Enter(t, "serve")
  /\ \/ wait = <<>> /\ LeaveServe(t)
     \/ /\ wait # <<>> /\ NodeFree(Head(wait))
        /\ tab[Head(wait)].quota < tab[Head(wait)].quota_new
        /\ me' = [me EXCEPT ![t].first = Head(wait), ![t].snap = tokens]
        /\ Goto(t, "take")
        /\ UNCHANGED lock
  /\ UNCHANGED <<config, tokens, tab, cached, fence_id, wait, policy, history, aborted, calls>>

\* try_alloc, and what update_token_quota does with its answer.  The tokens are taken
\* and the quota stays: the node is told nothing and is given nothing.
Take(t) ==
  LET i == me[t].first
      want == tab[i].quota_new - tab[i].quota
  IN  /\ Enter(t, "take")
      /\ \E g \in Views(t) :
           /\ Store(g, TakenAccount(g, want))
           /\ IF Taken(g, want) = want
              THEN /\ wait' = Erased(wait, i)
                   /\ Goto(t, "serve")
                   /\ me' = [me EXCEPT ![t].first = NoNode, ![t].snap = <<>>]
                   /\ UNCHANGED lock
              ELSE LeaveServe(t) /\ UNCHANGED wait
      /\ UNCHANGED <<config, tab, cached, fence_id, policy, history, aborted, calls>>
-------------------------------------------------------------------------------
(* snd_msg_buf: the message to an application.                                 *)

\* get_protocol.
Protocol(node) == [quota |-> Least(node.quota_new, node.quota), version |-> node.version]

SndMsg(t, i) == Begin(t, "send", i, 0, "idle")

SndMsgBuf(t) ==
  LET i == me[t].id
  IN  /\ Enter(t, "send") /\ CanWrite
      /\ IF hashed
         THEN /\ told' = IF Online(i) THEN [told EXCEPT ![i] = Protocol(tab[i])] ELSE told
              /\ Done(t) /\ UNCHANGED aborted
         ELSE Abort("hash") /\ UNCHANGED <<told, pc, me>>
      /\ UNCHANGED <<config, tokens, tab, cached, fence_id, wait, policy, lock, granted, calls>>
-------------------------------------------------------------------------------
HostCall(t) ==
  \/ \E i \in Ids : \/ \E c \in Costs : AllocTokens(t, i, c)
                    \/ \E c \in Costs, f \in 0..fence_id : FreeTokens(t, i, f, c)
                    \/ Rcvd(t, i) \/ NodeOnline(t, i) \/ NodeOffline(t, i)
                    \/ NodeReset(t, i) \/ SndMsg(t, i)
  \/ \E u \in Units : Increase(t, u) \/ Reduce(t, u)

Continue(t) ==
  \/ CheckOnline(t) \/ GetNode(t) \/ AdmitBegin(t) \/ AdmitEnd(t) \/ DropNode(t)
  \/ Alloc(t) \/ IncreaseEnd(t) \/ ReduceEnd(t) \/ NodeRcvd(t) \/ GFree(t) \/ GFreeEnd(t)
  \/ ClearCount(t) \/ ReadCount(t) \/ SwapCount(t) \/ Execute(t)
  \/ Collect(t) \/ InitUpdateNode(t) \/ AddToUpctx(t) \/ UpdateBegin(t) \/ DivideNext(t) \/ ExecuteEnd(t)
  \/ Wakeup(t) \/ Serve(t) \/ Take(t) \/ SndMsgBuf(t)

Next == \E t \in Threads : HostCall(t) \/ Continue(t)

Spec == Init /\ [][Next]_vars

\* Threads inside a call are scheduled; the host need not make another.
FairSpec == Spec /\ \A t \in Threads : WF_vars(Continue(t))
-------------------------------------------------------------------------------
OnlineIds == {i \in Ids : Online(i)}

\* The account's number of nodes, the table and the cache agree, whatever refused and
\* repeated node_online calls of several threads there were, and the cache is never
\* overdrawn: it alone bounds the nodes, as check_up_app_num does not.
SeatsMatch ==
  /\ aborted # "offline" => tokens.num_cur = Cardinality(OnlineIds)
  /\ cached <= tokens.num_max
  /\ aborted # "offline" =>
       cached = Cardinality(OnlineIds)
                + Cardinality({t \in Threads : pc[t] \in {"admit", "online", "drop"}})

\* In a run of the policy: from execute's compare-and-swap to its function's return.
RunPlaces == {"collect", "gather", "weigh", "divide", "divided"}

\* No two threads run the policy at once, so the context, which update reads and writes
\* without its lock, is one thread's; and while tokens are divided it has every node that
\* is online, once, though host threads take nodes online since the run began.
PolicyRunsAlone ==
  \A t \in Threads : pc[t] \in RunPlaces =>
    /\ \A u \in Threads : pc[u] \in RunPlaces => u = t
    /\ pc[t] \in {"divide", "divided"} =>
         /\ {ctx.node[k].id : k \in DOMAIN ctx.node} = OnlineIds
         /\ Len(ctx.node) = Cardinality(OnlineIds)

\* "Only one may execute at the same moment": execute turns a caller away only while
\* another thread is in a run.
TurnedAwayBesideARun ==
  [][ \A t \in Threads : pc[t] = "execute" /\ pc'[t] = "wakeup" =>
        \E u \in Threads : pc[u] \in RunPlaces ]_vars

\* Allocations of several threads together never take an application above its quota.
InuseWithinQuota == \A i \in OnlineIds : tab[i].inuse <= tab[i].quota

\* Every call returns, unless the program is ended by an assertion: no thread is left
\* behind the rwlock, in test_cnt's loop or in the loop over the wait list.
EveryCallReturns == \A t \in Threads : pc[t] # "idle" ~> (pc[t] = "idle" \/ aborted # "no")
===============================================================================
