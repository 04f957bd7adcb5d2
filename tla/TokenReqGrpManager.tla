-------------------------- MODULE TokenReqGrpManager --------------------------
(***************************************************************************)
(* src/sysqos_token_reqgrp_manager.c: the application's end.  Threads get  *)
(* and put groups of tokens, nodes come, go and send quotas, and each      *)
(* waiting group is called back once with its verdict.                     *)
(*                                                                         *)
(* The manager's rwlock is modelled by who is inside a read-locked loop:   *)
(* get and put visit their requests one step at a time and other readers   *)
(* run in between; a write-locked section is one step that needs no reader *)
(* inside.  What a reader does on one node is one step here: DispatchNode  *)
(* takes it apart, and TokenReqGrp takes the settling of a group apart.    *)
(***************************************************************************)
EXTENDS BaseNode, Sequences, FiniteSets, FiniteSetsExt

CONSTANTS Nodes,       \* ids of dispatcher nodes
          Groups,      \* token groups: each is asked for once
          NoGroup, NoNode,   \* the arguments of a thread that is outside
          Want,        \* the nodes a group wants tokens of
          Cost,        \* how many of each
          Threads,
          Quotas, Versions,  \* of the messages received
          MaxFence     \* bound: no event takes a node online past this fence

ASSUME NullAssumption == NoGroup \notin Groups /\ NoNode \notin Nodes
ASSUME WantAssumption == /\ Want \in [Groups -> (SUBSET Nodes) \ {{}}]
                         /\ Cost \in [Groups -> 1..(Word - 1)]
ASSUME MessageAssumption == Quotas \subseteq Tokens /\ Versions \subseteq Nat

VARIABLES
  crew,        \* the threads of this behaviour; fixed
  table,       \* app_node_table: the dispatch_node_t of a node that is online
  version,     \* token_reqgrp_manager_t.version: the next fence
  life,        \* of each group: "new", "live", "putting", "freed"
  stat,        \* token_req_t.stat of each request of a group
  Nodeid,      \* token_req_t.Nodeid: the fence of the node it was made on
  err,         \* token_reqgrp_t.err
  told,        \* history: how often the application was told a group's verdict
  pc, grp,     \* what each thread does, for which group
  todo,        \* the nodes its loop has still to visit
  id,          \* the node it takes online, offline or resets
  ends,        \* groups it has to call back
  back,        \* where it goes after the callbacks
  ret          \* the err its get_token_grp will return

group == <<life, stat, Nodeid, err, told>>
local == <<pc, grp, todo, id, ends, back, ret>>
vars == <<crew, table, version, life, stat, Nodeid, err, told,
          pc, grp, todo, id, ends, back, ret>>

NoItem == [fence |-> -1]
Items == [base : Account, queue : Seq(Groups), fence : Nat]
Errs == {"PENDING", "OK", "FAILEDNODE"}
Places == {"idle", "in", "inonline", "get", "out", "outoffline", "put", "ends",
           "free", "rcvdonline", "reset"}

TypeOK ==
  /\ crew \subseteq Threads
  /\ table \in [Nodes -> Items \cup {NoItem}]
  /\ version \in Nat
  /\ life \in [Groups -> {"new", "live", "putting", "freed"}]
  /\ stat \in [Groups -> [Nodes -> {"none", "init", "got", "failed"}]]
  /\ Nodeid \in [Groups -> [Nodes -> Nat \cup {-1}]]
  /\ err \in [Groups -> Errs]
  /\ told \in [Groups -> Nat]
  /\ pc \in [Threads -> Places]
  /\ grp \in [Threads -> Groups \cup {NoGroup}]
  /\ todo \in [Threads -> SUBSET Nodes]
  /\ id \in [Threads -> Nodes \cup {NoNode}]
  /\ ends \in [Threads -> SUBSET Groups]
  /\ back \in [Threads -> {"idle", "out", "free"}]
  /\ ret \in [Threads -> Errs]

Online(n) == table[n] # NoItem

\* No thread is inside a read-locked loop, so a writer can have the lock.
NoReader == \A t \in Threads : pc[t] \notin {"get", "put"}

Init ==
  /\ crew \in (SUBSET Threads) \ {{}}
  /\ table = [n \in Nodes |-> NoItem]
  /\ version = 0
  /\ life = [g \in Groups |-> "new"]
  /\ stat = [g \in Groups |-> [n \in Nodes |-> "none"]]
  /\ Nodeid = [g \in Groups |-> [n \in Nodes |-> -1]]
  /\ err = [g \in Groups |-> "PENDING"]
  /\ told = [g \in Groups |-> 0]
  /\ pc = [t \in Threads |-> "idle"]
  /\ grp = [t \in Threads |-> NoGroup]
  /\ todo = [t \in Threads |-> {}]
  /\ id = [t \in Threads |-> NoNode]
  /\ ends = [t \in Threads |-> {}]
  /\ back = [t \in Threads |-> "idle"]
  /\ ret = [t \in Threads |-> "PENDING"]
-------------------------------------------------------------------------------
(* Settling requests: to_got or to_failed of the requests of groups H on n.    *)

SettledStat(H, n, how) ==
  [g \in Groups |-> IF g \in H THEN [stat[g] EXCEPT ![n] = how] ELSE stat[g]]

\* Mutant: each settled request is taken for the last.
FinalAlways(H, s) == H

\* The groups of H whose last pending request this was, and their verdict.
Final(H, s) == {g \in H : \A n \in Want[g] : s[g][n] # "init"}
VerdictOf(g, s) == IF \E n \in Nodes : s[g][n] = "failed" THEN "FAILEDNODE" ELSE "OK"

Settle(H, n, how) ==
  LET s == SettledStat(H, n, how)
  IN  /\ stat' = s
      /\ err' = [g \in Groups |-> IF g \in Final(H, s) THEN VerdictOf(g, s) ELSE err[g]]

FinalAfter(H, n, how) == Final(H, SettledStat(H, n, how))

\* Mutant: a failed request fails the call though others still wait.
RequestErrAtOnce(g, n, how) == VerdictOf(g, SettledStat({g}, n, how))

\* What to_got and to_failed return to get_token_grp.
RequestErr(g, n, how) ==
  IF g \in FinalAfter({g}, n, how) THEN VerdictOf(g, SettledStat({g}, n, how)) ELSE "PENDING"

-------------------------------------------------------------------------------
(* The queue of a node: resource_increased charges requests from the front     *)
(* while they fit.                                                              *)

ChargedFirst(item) ==
  LET after[k \in 0..Len(item.queue)] ==
        IF k = 0 THEN item.base ELSE Charged(after[k - 1], Cost[item.queue[k]])
  IN  after

\* Mutant: the loop ends before its first request.
WokenNone(item) == 0

WokenCount(item) ==
  LET after == ChargedFirst(item)
      FitsUpTo(k) == \A i \in 1..k : Fits(after[i - 1], Cost[item.queue[i]])
  IN  Max({k \in 0..Len(item.queue) : FitsUpTo(k)})

Woken(item) == {item.queue[i] : i \in 1..WokenCount(item)}

WakenItem(item) ==
  [item EXCEPT !.base = ChargedFirst(item)[WokenCount(item)],
               !.queue = SubSeq(@, WokenCount(item) + 1, Len(@))]

\* Wake node n, whose item becomes item; the thread will call back the groups
\* that became final.
WakeNode(t, n, item) ==
  /\ table' = [table EXCEPT ![n] = WakenItem(item)]
  /\ Settle(Woken(item), n, "got")
  /\ ends' = [ends EXCEPT ![t] = @ \cup FinalAfter(Woken(item), n, "got")]
-------------------------------------------------------------------------------
(* node_online and node_offline: the section under the write lock of each.      *)

\* Mutant: the fence is read before it exists.
TakeOnlineBefore(n) ==
  /\ NoReader
  /\ version' = version + 1
  /\ table' = IF Online(n) THEN table
              ELSE [table EXCEPT ![n] = [base |-> Fresh, queue |-> <<>>, fence |-> version - 1]]

\* A node that is online stays; the fence is used up all the same.  When the cache
\* has no dispatch_node_t left nothing happens.
TakeOnline(n) ==
  \/ /\ NoReader
     /\ version' = version + 1
     /\ table' = IF Online(n) THEN table
                 ELSE [table EXCEPT ![n] = [base |-> Fresh, queue |-> <<>>, fence |-> version]]
  \/ UNCHANGED <<table, version>>

\* Mutant: the waiting requests go with the node.
PoppedNone(n) == {}

\* pop_all takes every request that waits.
Popped(n) == IF Online(n) THEN {table[n].queue[i] : i \in DOMAIN table[n].queue} ELSE {}

\* The popped requests fail, the node leaves the table, and the thread
\* goes to call back the groups this ended.
TakeOffline(t, n, next) ==
  /\ NoReader
  /\ table' = [table EXCEPT ![n] = NoItem]
  /\ Settle(Popped(n), n, "failed")
  /\ ends' = [ends EXCEPT ![t] = FinalAfter(Popped(n), n, "failed")]
  /\ pc' = [pc EXCEPT ![t] = "ends"]
  /\ back' = [back EXCEPT ![t] = next]
  /\ UNCHANGED <<version, life, Nodeid, told>>

Goto(t, place) == pc' = [pc EXCEPT ![t] = place]

\* The operation returns; its arguments are gone.
Return(t) == /\ Goto(t, "idle")
             /\ grp' = [grp EXCEPT ![t] = NoGroup]
             /\ id' = [id EXCEPT ![t] = NoNode]
-------------------------------------------------------------------------------
(* get_token_grp                                                               *)

GetBegin(t, g) ==
  /\ t \in crew /\ pc[t] = "idle"
  /\ life[g] = "new"
  /\ life' = [life EXCEPT ![g] = "live"]
  /\ stat' = [stat EXCEPT ![g] = [n \in Nodes |-> IF n \in Want[g] THEN "init" ELSE "none"]]
  /\ grp' = [grp EXCEPT ![t] = g]
  /\ todo' = [todo EXCEPT ![t] = Want[g]]
  /\ Goto(t, "in")
  /\ UNCHANGED <<crew, table, version, Nodeid, err, told, id, ends, back, ret>>

\* The caches have no room for the group or for one of its requests: those made
\* are freed and get_token_grp returns QOS_ERROR_MEMORY.
GetNoMemory(t, g) ==
  /\ t \in crew /\ pc[t] = "idle"
  /\ life[g] = "new"
  /\ life' = [life EXCEPT ![g] = "freed"]
  /\ UNCHANGED <<crew, table, version, stat, Nodeid, err, told>> /\ UNCHANGED local

\* check_node_in_when_get looks the node up without the manager's lock.
CheckIn(t) ==
  /\ pc[t] = "in"
  /\ \/ \E n \in todo[t] :
          /\ todo' = [todo EXCEPT ![t] = @ \ {n}]
          /\ id' = [id EXCEPT ![t] = n]
          /\ Goto(t, IF Online(n) THEN "in" ELSE "inonline")
     \/ /\ todo[t] = {}
        /\ todo' = [todo EXCEPT ![t] = Want[grp[t]]]
        /\ Goto(t, "get")
        /\ id' = [id EXCEPT ![t] = NoNode]
  /\ UNCHANGED <<crew, table, version, group, grp, ends, back, ret>>

InOnline(t) ==
  /\ pc[t] = "inonline"
  /\ TakeOnline(id[t])
  /\ Goto(t, "in")
  /\ UNCHANGED <<crew, group, grp, todo, id, ends, back, ret>>

\* try_to_alloc_from_manager_nolock of one request: failed when the node is gone,
\* charged when it fits, else queued.  The loop's err is that of its last request.
GetOne(t, n) ==
  LET g == grp[t]
      Answer(how) ==
        /\ Settle({g}, n, how)
        /\ ret' = [ret EXCEPT ![t] = RequestErr(g, n, how)]
  IN
  /\ pc[t] = "get"
  /\ n \in todo[t]
  /\ todo' = [todo EXCEPT ![t] = @ \ {n}]
  /\ \/ /\ ~Online(n)
        /\ Answer("failed")
        /\ UNCHANGED <<table, Nodeid>>
     \/ /\ Online(n) /\ Fits(table[n].base, Cost[g])
        /\ table' = [table EXCEPT ![n].base = Charged(@, Cost[g])]
        /\ Nodeid' = [Nodeid EXCEPT ![g][n] = table[n].fence]
        /\ Answer("got")
     \/ /\ Online(n) /\ ~Fits(table[n].base, Cost[g])
        /\ table' = [table EXCEPT ![n].queue = Append(@, g)]
        /\ Nodeid' = [Nodeid EXCEPT ![g][n] = table[n].fence]
        /\ ret' = [ret EXCEPT ![t] = "PENDING"]
        /\ UNCHANGED <<stat, err>>
  /\ UNCHANGED <<crew, version, life, told, pc, grp, id, ends, back>>

\* The loop is over: OK is returned, PENDING is too and a callback will come, and a
\* group that failed is put first.
GetReturn(t) ==
  LET g == grp[t]
  IN
  /\ pc[t] = "get"
  /\ todo[t] = {}
  /\ \/ /\ ret[t] = "FAILEDNODE"
        /\ life' = [life EXCEPT ![g] = "putting"]
        /\ Goto(t, "out")
        /\ UNCHANGED <<told, grp, id, ret>>
     \/ /\ ret[t] # "FAILEDNODE"
        /\ told' = [told EXCEPT ![g] = IF ret[t] = "OK" THEN @ + 1 ELSE @]
        /\ ret' = [ret EXCEPT ![t] = "PENDING"]
        /\ Return(t)
        /\ UNCHANGED life
  /\ UNCHANGED <<crew, table, version, stat, Nodeid, err, todo, ends, back>>
-------------------------------------------------------------------------------
(* put_token_grp                                                               *)

\* The application puts a group it was told about, and names nodes it found dead.
PutBegin(t, g, dead) ==
  /\ t \in crew /\ pc[t] = "idle"
  /\ life[g] = "live" /\ told[g] > 0
  /\ life' = [life EXCEPT ![g] = "putting"]
  /\ grp' = [grp EXCEPT ![t] = g]
  /\ todo' = [todo EXCEPT ![t] = dead]
  /\ ret' = [ret EXCEPT ![t] = "PENDING"]
  /\ Goto(t, "out")
  /\ UNCHANGED <<crew, table, version, stat, Nodeid, err, told, id, ends, back>>

\* check_node_out_when_put looks each dead node up without the manager's lock; the
\* read-locked loop over the granted requests follows.
CheckOut(t) ==
  /\ pc[t] = "out"
  /\ \/ \E n \in todo[t] :
          /\ todo' = [todo EXCEPT ![t] = @ \ {n}]
          /\ id' = [id EXCEPT ![t] = n]
          /\ Goto(t, IF Online(n) THEN "outoffline" ELSE "out")
     \/ /\ todo[t] = {}
        /\ todo' = [todo EXCEPT ![t] = {n \in Nodes : stat[grp[t]][n] = "got"}]
        /\ Goto(t, "put")
        /\ id' = [id EXCEPT ![t] = NoNode]
  /\ UNCHANGED <<crew, table, version, group, grp, ends, back, ret>>

OutOffline(t) ==
  /\ pc[t] = "outoffline"
  /\ TakeOffline(t, id[t], "out")
  /\ UNCHANGED <<crew, grp, todo, id, ret>>

\* Mutant: whatever node has the id now gets the tokens.
IsOurNodeById(g, n) == Online(n)

\* The fence test of free_resource: it is the node the tokens were taken from.
IsOurNode(g, n) == Online(n) /\ Nodeid[g][n] = table[n].fence

PutOne(t, n) ==
  LET g == grp[t]
  IN
  /\ pc[t] = "put"
  /\ n \in todo[t]
  /\ todo' = [todo EXCEPT ![t] = @ \ {n}]
  /\ \/ /\ IsOurNode(g, n)
        /\ WakeNode(t, n, [table[n] EXCEPT !.base = Freed(@, Cost[g])])
     \/ /\ ~IsOurNode(g, n)
        /\ UNCHANGED <<table, stat, err, ends>>
  /\ UNCHANGED <<crew, version, life, Nodeid, told, pc, grp, id, back, ret>>

PutUnlock(t) ==
  /\ pc[t] = "put"
  /\ todo[t] = {}
  /\ Goto(t, "ends")
  /\ back' = [back EXCEPT ![t] = "free"]
  /\ UNCHANGED <<crew, table, version, group, grp, todo, id, ends, ret>>

\* end_token_grps: token_grp_got for one group of the thread's list.
EndOne(t, g) ==
  /\ pc[t] = "ends"
  /\ g \in ends[t]
  /\ told' = [told EXCEPT ![g] = @ + 1]
  /\ ends' = [ends EXCEPT ![t] = @ \ {g}]
  /\ UNCHANGED <<crew, table, version, life, stat, Nodeid, err, pc, grp, todo, id, back, ret>>

EndsDone(t) ==
  /\ pc[t] = "ends"
  /\ ends[t] = {}
  /\ \/ back[t] = "idle" /\ Return(t)
     \/ back[t] # "idle" /\ Goto(t, back[t]) /\ UNCHANGED <<grp, id>>
  /\ back' = [back EXCEPT ![t] = "idle"]
  /\ UNCHANGED <<crew, table, version, group, todo, ends, ret>>

\* The group's memory goes back; a get_token_grp that failed returns only now.
FreeGroup(t) ==
  /\ pc[t] = "free"
  /\ life' = [life EXCEPT ![grp[t]] = "freed"]
  /\ told' = [told EXCEPT ![grp[t]] = IF ret[t] = "FAILEDNODE" THEN @ + 1 ELSE @]
  /\ ret' = [ret EXCEPT ![t] = "PENDING"]
  /\ Nodeid' = [Nodeid EXCEPT ![grp[t]] = [n \in Nodes |-> -1]]
  /\ Return(t)
  /\ UNCHANGED <<crew, table, version, stat, err, todo, ends, back>>
-------------------------------------------------------------------------------
(* Events of the message layer                                                 *)

NodeOnline(t, n) ==
  /\ t \in crew /\ pc[t] = "idle"
  /\ version < MaxFence
  /\ TakeOnline(n)
  /\ UNCHANGED <<crew, group, local>>

NodeOffline(t, n) ==
  /\ t \in crew /\ pc[t] = "idle"
  /\ Online(n)
  /\ TakeOffline(t, n, "idle")
  /\ UNCHANGED <<crew, grp, todo, id, ret>>

\* rcvd under the read lock: a message of an unknown node only takes it online, an
\* old version asks for a reset, a higher quota wakes the queue.
Rcvd(t, n, q, v) ==
  /\ t \in crew /\ pc[t] = "idle"
  /\ \/ /\ ~Online(n) /\ version < MaxFence
        /\ Goto(t, "rcvdonline")
        /\ id' = [id EXCEPT ![t] = n]
        /\ UNCHANGED <<table, stat, err, ends>>
     \/ /\ Online(n) /\ IsToReset(table[n].base, v)
        /\ Goto(t, "reset")
        /\ id' = [id EXCEPT ![t] = n]
        /\ UNCHANGED <<table, stat, err, ends>>
     \/ /\ Online(n) /\ ~IsToReset(table[n].base, v) /\ Increases(table[n].base, q, v)
        /\ WakeNode(t, n, [table[n] EXCEPT !.base = Updated(@, q, v)])
        /\ Goto(t, "ends")
        /\ UNCHANGED id
     \/ /\ Online(n) /\ ~IsToReset(table[n].base, v) /\ ~Increases(table[n].base, q, v)
        /\ table' = [table EXCEPT ![n].base = Updated(@, q, v)]
        /\ UNCHANGED <<stat, err, ends, pc, id>>
  /\ UNCHANGED <<crew, version, life, Nodeid, told, grp, todo, back, ret>>

\* The message is not applied after all: `continue' leaves a do-while(0) loop.
RcvdOnline(t) ==
  /\ pc[t] = "rcvdonline"
  /\ TakeOnline(id[t])
  /\ Return(t)
  /\ UNCHANGED <<crew, group, todo, ends, back, ret>>

\* node_reset looks the node up again: it may be another incarnation, or gone.
NodeReset(t) ==
  /\ pc[t] = "reset"
  /\ NoReader
  /\ table' = IF Online(id[t]) THEN [table EXCEPT ![id[t]].base = ResetAccount(@)] ELSE table
  /\ Return(t)
  /\ UNCHANGED <<crew, version, group, todo, ends, back, ret>>

\* The steps of a thread that is inside an operation.
Step(t) ==
  \/ CheckIn(t) \/ InOnline(t) \/ GetReturn(t) \/ CheckOut(t) \/ OutOffline(t)
  \/ \E n \in Nodes : GetOne(t, n) \/ PutOne(t, n)
  \/ PutUnlock(t) \/ EndsDone(t) \/ FreeGroup(t)
  \/ \E g \in Groups : EndOne(t, g)
  \/ RcvdOnline(t) \/ NodeReset(t)

\* The application puts each group it was told about.
Put(t) == \E g \in Groups, dead \in SUBSET Nodes : dead \subseteq Want[g] /\ PutBegin(t, g, dead)

Event(t) ==
  \/ \E g \in Groups : GetBegin(t, g) \/ GetNoMemory(t, g)
  \/ \E n \in Nodes : \/ NodeOnline(t, n) \/ NodeOffline(t, n)
                      \/ \E q \in Quotas, v \in Versions : Rcvd(t, n, q, v)

\* No operation is under way, and none need come.
Rest == (\A t \in Threads : pc[t] = "idle") /\ UNCHANGED vars

Next == (\E t \in Threads : Step(t) \/ Put(t) \/ Event(t)) \/ Rest

Spec == Init /\ [][Next]_vars

\* Threads run on, and the application does put what it was told about.
FairSpec == /\ Spec
            /\ \A t \in Threads : WF_vars(Step(t))
            /\ \A g \in Groups : SF_vars(\E t \in Threads : PutBegin(t, g, {}))
-------------------------------------------------------------------------------
Asked(g) == \E n \in Nodes : stat[g][n] # "none"
Settled(g) == Asked(g) /\ \A n \in Nodes : stat[g][n] # "init"

\* Threads that are going to tell the application g's verdict: by a callback, or by
\* the return of the get_token_grp that is putting the failed group.
Owing(g) == {t \in Threads : \/ g \in ends[t]
                             \/ ret[t] # "PENDING" /\ grp[t] = g}

\* The application is told the verdict of a group exactly once: from the moment the
\* last request is settled either it was told, or exactly one thread is about to;
\* before that it was not told anything.
ToldOnce == \A g \in Groups :
  told[g] + Cardinality(Owing(g)) = IF Settled(g) THEN 1 ELSE 0

\* No callback, no queue and no running operation will go on with a group that was
\* freed; a get_token_grp that has asked for all its tokens has only to return.
NoDanglingGroup == \A g \in Groups : life[g] # "live" =>
  /\ \A n \in Nodes : Online(n) => \A i \in DOMAIN table[n].queue : table[n].queue[i] # g
  /\ \A t \in Threads : g \notin ends[t]
  /\ life[g] = "freed" => \A t \in Threads : grp[t] = g => pc[t] = "get" /\ todo[t] = {}

\* Nor is it in the hands of a thread that is still in its loop.
LoopsOnLiveGroups == \A t \in Threads :
  pc[t] \in {"get", "put"} => life[grp[t]] \in {"live", "putting"}

\* The put of g has still to give back the tokens of n.
ToGiveBack(g, n) == \E t \in Threads : /\ grp[t] = g
                                       /\ \/ pc[t] \in {"out", "outoffline"}
                                          \/ pc[t] = "ends" /\ back[t] = "out"
                                          \/ pc[t] = "put" /\ n \in todo[t]
Holds(g, n) == /\ stat[g][n] = "got"
               /\ life[g] = "live" \/ (life[g] = "putting" /\ ToGiveBack(g, n))

\* The tokens in use of a node are those of the groups that got them of this
\* incarnation and have not given them back.
FenceLedger == \A n \in Nodes : Online(n) =>
  table[n].base.inuse =
    MapThenSumSet(LAMBDA g : Cost[g],
                  {g \in Groups : Holds(g, n) /\ Nodeid[g][n] = table[n].fence}) % Word

\* So it is while one thread works on the nodes: a put after a node went and came back
\* takes nothing from the new account.  With more threads the check and the charge of
\* try_alloc_from_desc, one step here, come apart, and a grant may go uncharged.
AloneFenceLedger == Cardinality(crew) = 1 => FenceLedger

\* A request that waits is in the queue of the node that is in the table now, once;
\* a request that is not there has still to be made by its get_token_grp.
WaitersKnown == \A g \in Groups, n \in Nodes :
  LET places == IF Online(n) THEN {i \in DOMAIN table[n].queue : table[n].queue[i] = g} ELSE {}
      toAsk == {t \in Threads : /\ grp[t] = g
                                /\ \/ pc[t] \in {"in", "inonline"} /\ n \in Want[g]
                                   \/ pc[t] = "get" /\ n \in todo[t]}
  IN  /\ Cardinality(places) + Cardinality(toAsk) = IF stat[g][n] = "init" THEN 1 ELSE 0
      /\ places # {} => Nodeid[g][n] = table[n].fence

\* Every group is answered: the application hears OK or the failure.
Answered == \A g \in Groups : life[g] = "live" ~> told[g] = 1

\* So it is while groups are asked for by one thread and cost the same.
AloneAnswered == Cardinality(crew) = 1 => Answered
===============================================================================
