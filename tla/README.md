# A formal model of sysqos

sysqos shares out tokens.  An *application* asks for groups of tokens, each of some cost and of
some *dispatcher node*; a dispatcher divides its tokens between the applications and sends each
one its quota.  The library has two ends: the application's end (`sysqos_token_reqgrp_manager.c`
and what it uses) is written and tested with threads; the dispatcher's end
(`sysqos_dispatch_manager.c` and what it uses) is unfinished.  Both are modelled as they are.  Of
the first the project shows mostly what works, and five places where it does not; of the second,
that its locks, its counters and its accounts of nodes hold together wherever they get to run, and
section 2 lists where the code is at odds with its own comments.

## 1. Inventory

| component | state | operations | how it interacts | what makes it correct |
|---|---|---|---|---|
| request group `sysqos_token_reqgrp.c` | `stat` of each request, `req_pending_nr`, `failed_exist`, `err` | `token_reqgrp_init`, `to_got`, `to_failed`, `token_reqgrp_exit` | called by whoever settles a request: getter, putter, receiver, offline event; lock-free (CAS, atomic decrement) | exactly one call learns the verdict; the verdict is right; the group may be freed on it |
| token account `sysqos_dispatch_base_node.c` | `token_inuse`, `token_quota`, `token_quota_new`, `version` | try to allocate, free, update from a message, reset | an rwlock of its own; check and act are separate sections | in use = charged and not freed; no charge above the quota; a quota moves as the dispatcher said |
| queue `sysqos_nodereq_list.c` | list of waiting requests, `press` | `front`, `push_back`, `pop_front`, `pop_all` | an rwlock of its own | press is the cost of the list |
| dispatcher node `sysqos_dispatch_node.c` | an account, a queue, a spin lock, `fence_id` | `alloc_resource`, `free_resource`, `resource_changed`, `reset`, `pop_all` | by threads that hold the manager's lock for reading; reset and pop_all for writing | what is popped is what was paid for; nobody waits for tokens that are free |
| manager `sysqos_token_reqgrp_manager.c` | the table of online nodes, the next fence, an rwlock | `get_token_grp`, `put_token_grp`, `node_online`, `node_offline`, `rcvd`, `node_reset`, `snd_msg_buf` | called by application threads and by the message layer; calls the application back | each group is told its verdict once; tokens go back to the incarnation of the node they came from; every group is answered |
| hash table `hash_table.c`, `safe_rw_list.c` | buckets, lists of (id, item), a rwlock each | find, insert, erase, `for_each_do`, free | find runs without the manager's lock in two places; items come from one cache | a map in which each operation takes effect at one instant; a traversal misses nobody who stays |
| memory `memory_cache.c`, `sysqos_alloc.c` | two wrapping counts of allocated and freed units | alloc, free | a spin lock of its own, outside the lists' locks | at most `cache_unit` out; none leaked, none back twice |
| messages `sysqos_protocol.h` | `dispatch2app` (quota, version), `app2dispatch` (press, version, in use) | | between the ends | a quota applies once, in version order |
| global account `sysqos_token_global.c` | free, static, dynamic, reserved tokens, number of applications | online, offline, try_alloc, free, increase, try_decrease | by the dispatcher's manager; its lock is never taken | conservation of tokens |
| application's node `sysqos_app_node.c` | quota, target, version, press, limit, fence | alloc, free, rcvd, update of quota | spin lock | quotas are lowered only when confirmed |
| dispatcher's manager `sysqos_dispatch_manager.c`, `sysqos_waitincrease_list.c` | table of applications, list of those that wait for tokens | online, offline, rcvd, reset, policy update | owns the above | |
| distribution `sysqos_token_update.c`, `sysqos_update_node.c` | weights | update | pure computation | the shares add up |
| counters `count_controller.c`, `fence_executor.c` | a count, a flag | test_cnt, execute | CAS | count exact, one executor at a time |

**What is hard here.**  Threads meet in three layers of locks (manager rwlock, node spin lock, two
rwlocks per node) and in a lock-free counter.  Checks are made in one section and acted on in
another.  Nodes disappear and come back while groups hold or wait for their tokens; messages are
old, repeated, or come for nodes nobody knows.  A group has several requests in several queues and
one verdict.  Arithmetic is unsigned and wraps.  `PROJECT.json` lists each hazard at its line.

## 2. Modules

| module | models | composes |
|---|---|---|
| `FiniteSums` | sums of costs over finite sets, and remainders: lemmas for the modules below with proofs | |
| `GroupPromise` | abstract: requests are settled, then one verdict is given | |
| `TokenReqGrp` | `sysqos_token_reqgrp.c`, one shared-memory access per step | implements `GroupPromise` |
| `TokenReqGrpProofs` | theorems about `TokenReqGrp` | |
| `BaseNode` | `sysqos_dispatch_base_node.c` as operators on its record | |
| `DispatchNode` | `sysqos_dispatch_node.c` with the account and the queue, one lock section per step | extends `BaseNode` |
| `DispatchNodeProofs` | theorems about `DispatchNode` | |
| `TokenReqGrpManager` | `sysqos_token_reqgrp_manager.c` over many nodes and groups, one step per node visited | extends `BaseNode` |
| `TokenReqGrpManagerProofs` | theorems about `TokenReqGrpManager` | |
| `TokenReqGrpManagerLedger` | the theorem about its ledger, `AloneFenceLedger` | |
| `MapPromise` | abstract: a map under concurrent operations | |
| `HashTable` | `hash_table.c` over `safe_rw_list.c` and `memory_cache.c`, one section of a bucket's rwlock or of the cache's lock per step | implements `MapPromise` |
| `HashTableProofs` | theorems about `HashTable` | |
| `TokenGlobal` | `sysqos_token_global.c` as operators on its record | |
| `QuotaSplit` | `sysqos_token_update.c`, `sysqos_update_node.c` as operators on the update context, and a reference definition of the shares | extends `TokenGlobal` |
| `QuotaSplitProofs` | theorems about `QuotaSplit` | |
| `DispManager` | `sysqos_dispatch_manager.c` with the application's node, the waiting list, the report counter and the executor | extends `QuotaSplit` |
| `DispManagerProofs` | theorems about `DispManager` | |
| `MCTokenReqGrp`, `MCDispatchNode`, `MCTokenReqGrpManager`, `MCHashTable`, `MCDispManager` | instances for TLC: costs, wanted nodes, hash function, small divisions, symmetry | |

The three layers of the application's end are checked at three grains.  `TokenReqGrp` takes a settling call apart, so the
manager's module can treat it as one step: its theorems say the calls are linearised by their CAS,
that the verdict is reported once and that nothing touches the group afterwards.  `DispatchNode`
takes one node's operations apart into lock sections.  `TokenReqGrpManager` treats what a thread
does on one node (`GetOne`, `PutOne`) as one step, and so leaves out what goes wrong *inside* a node when
two threads are in it under the manager's read lock: the grant that is not charged
(`sysqos_dispatch_base_node.c:92-109`, finding `phantom`) and the lost wake-up
(`sysqos_dispatch_node.c:34`, finding `strand_race`).  Its properties for any number of threads
(`ToldOnce`, `NoDanglingGroup`, `WaitersKnown`) are about who settles a request, which the missing
steps do not change: they end, too, with the request granted, queued or failed.  What depends on the
account (`AloneFenceLedger`) or on every wake-up (`AloneAnswered`) is stated for one thread only.

### How state and actions correspond to the code

*TokenReqGrp.*  `stat`, `req_pending_nr`, `failed_exist`, `err` are the fields of `token_req_t` and
`token_reqgrp_t`; `pc`, `rip`, `kind`, `ret` are the callers' locals.  A call goes
`MarkFailed` (only `to_failed`) - `CasWon`/`CasLost` - `Decrement` - `Judge` (only the final
`to_got`) - `Publish`.  `plan` fixes in advance which calls the group will see: the manager makes
one per request (`SettledOnce`); the module also allows both calls on one request, which
`to_got`/`to_failed` are written to survive.  In that case the owner frees the group only when all
calls are over; in the manager's use it does so as soon as one call reports (`ReqgrpExit`).

*BaseNode, DispatchNode.*  `base` is `dispatch_base_node_t`; `Word` is one more than the largest
`unsigned long`.  A step is a lock section: `TryAlloc` (read lock) and `Charge` (write lock) are the
two halves of `try_alloc_from_desc` without the spin lock, `Retry` and `Recharge` with it, then
`PushBack`.  `resource_increased` is `Front`, `WakeLock`, then `Wake`, `WakeCharge`, `Pop` in a loop.
A message is looked at in three sections (`IsOld`, `IsSameVersion`, `Update`).  `Reset` and
`Offline` hold the manager's lock for writing, so they need every thread outside (`WriteLocked`).
`crew` is the set of threads that take part in a behaviour: one specification covers both the
sequential and the concurrent use, and properties can speak of each.  `rstat` and `paid` are
history: where a request is in its life and whether it was ever charged.

*TokenReqGrpManager.*  `table` maps each node to its account, queue and fence or to `NoItem`;
`version` is the next fence.  A `get` is `GetBegin`, `CheckIn` (with `InOnline` for a node it
did not find), `GetOne` for each node, `GetReturn`; a `put` is `PutBegin`, `CheckOut` (with
`OutOffline` for each node the application found dead), `PutOne`, `PutUnlock`, `EndOne` for each
callback, `FreeGroup`.  The read lock is the set of threads in `GetOne` and `PutOne`; a writer's
section is one step that needs none there (`NoReader`).  The order in which the list of a group is
visited is left open.  The fence counter is incremented together with the insertion: only the
equality of fences is ever used and each is used once.  An application thread asks for a group
once, and puts it after it was told the verdict, as `sysqos_interface.h:320` demands.  A message
carries any quota and version of the configured sets, in any order and any number of times, so it
may be lost, repeated or reordered.

*HashTable.*  `chain` is the set of (id, item) pairs in each bucket: their order in the list is told
apart by nothing.  `insert` is `CountAlloc` (the cache's lock), `Link` (the look and the insertion,
one write section) and, for a duplicate, `CountFree`; `erase` is `Unlink`, `CountFree`; `find` is
`Look`; `for_each_do` is `Each` and one `EachBucket` for each bucket.  What a call found is handed
over in `Return`, so that other calls fit between an operation's effect and its answer.  `rwinsert`
takes its item before it looks (`safe_rw_list.c:49`): with a full cache an insert that would answer
"exists" ends the program (`life = "aborted"`).  `kept` and `met` are history, for `TraversalSound`.

*TokenGlobal, QuotaSplit, DispManager.*  A step is a section of the manager's rwlock or of a node's
spin lock, or one access to what no lock protects.  The account of all tokens (`tokens`) is of the
last kind: an operation takes its view (`Load`), other threads may store meanwhile, each field is
read before or after that (`Views`), and only the changed fields are stored (`Store`).  A call that
first makes the application known goes `CheckOnline`, `GetNode`, `AdmitBegin`, `AdmitEnd`,
`DropNode` and then `Alloc` or `NodeRcvd`.  `update_policy` is `ClearCount`, or `ReadCount` twice
and `SwapCount` after a report; `Execute`; the run itself, `Collect`, for each node `InitUpdateNode`
and `AddToUpctx` (quota and press are read one after the other without the node's lock),
`UpdateBegin`, a `DivideNext` for each turn of either loop, `ExecuteEnd`, which clears the context;
and in any case `try_clear_wait_increase`: `Wakeup`, then `Serve` and `Take` in a loop.  A failed
assertion or a call through a null pointer sets `aborted`, and nothing happens after it.  `told` and
`granted` are history.  `hashed` is the host's doing: only the application's manager gives its table
a hash function (`token_reqgrp_manager.c:428`); a host that does not reach into the dispatcher's
private table meets the assertion of `hash_table.c` at the first call.

The dispatcher's end, read as it is, does less than its names promise.  The model follows the code
in each of these places, and no property asserts them: they are flaws, to be repaired.  Where a
comment or a document of the repository says otherwise it is quoted; the one that a run shows is
`policy_once`.

* `is_exe` is never cleared (`fence_executor.c:11`): the policy runs once in the program's life.
  `fence_executor.h:17`, `同一时刻只让一个执行` (only one may execute at the same moment), excludes only
  concurrent runs, and `README.md:2`, `调整app在本端的资源占有量`, says the dispatcher adjusts what an
  application has.  `TurnedAwayBesideARun` states the former, and the run shows it fail.
* A run of the policy that meets a node ends the program when `min_rs_num` is positive: without press
  the weights add up to zero, and with press the base is taken off twice (`token_update.c:34` takes it
  off the sum of what `update_node_init` computed without it), so that the new quotas fall below the
  minimum.  `token_update.c:33` says that everything is given back (`暂时采用的是全部 返还`).
* `check_up_app_num` compares the wrong way (`token_global.c:29`): with two seats or more nobody is
  ever admitted, though the refusal is called `QOS_ERROR_TOO_MANY_NODES`; with one seat the number of
  nodes is not bounded here, but by the cache of nodes (`SeatsMatch`).
* `dtn_free` asserts the opposite of what it means (`app_node.c:37`): a return of tokens that is due
  ends the program, while `interface.h:382` (GBK) obliges callers to release all they acquired.
* `update_token_quota` takes tokens for a node from the account and does not give them to it
  (`app_node.c:68-76`), while `app_node.h:41` says it changes `token_quota` to `token_quota_new`
  (`根据token_quota_new更改token_quota`).
* `update_quota_after_rcvd` raises a quota and reports the difference as tokens that came free, while
  `app_node.c:151` says that only a lowering has an effect here (`只有变小才有意义`), as does
  `app_node.c:69` (`变小时在rcvd触发`).
* `could_decrease` subtracts before it compares (`token_global.c:190`), so a reduction by more than
  there is is allowed; and no operation on the account takes its lock (`FIXME lock` in seven places),
  so updates are lost.  For these reasons no property speaks of the sum of all tokens.
* `rcvd` never copies the message out of its buffer (`dispatch_manager.c:339`): the report is
  whatever was on the stack (`Garbage`).  The two ends are for this reason not composed: what one
  reports does not reach the other.
* `node_offline` of a node that is online passes the node by value and asserts on the null it gets
  (`dispatch_manager.c:282`), and `node_reset` calls a pointer nobody sets.

## 3. Runs

| run | instance | shows |
|---|---|---|
| `token_reqgrp` | 3 requests, 2 threads, every plan of calls | `PendingCounts`, `OneVerdict`, `VerdictSound`, `NoUseAfterExit`, `VerdictDelivered`, and the refinement of `GroupPromise` |
| `dispatch_node` | 3 requests of cost 1, 2, 2; crews of 1 and 2 threads; Word 8; quotas 2 and 5; versions 0..2; step 2 | `PressIsQueued`, `PopsWhatItPaid`, `Ledger`, `AloneIsExact`, `QuotaNotBelowTarget`, `AloneNobodyStranded`, `QuotaMoves`, `NewerMessageWins` |
| `manager` | 2 groups that each want a token of each of 2 nodes; crews of 1 and 2 threads; quota 2; versions 0 and 1 | `ToldOnce`, `NoDanglingGroup`, `WaitersKnown`, and of the crew of one `AloneFenceLedger` |
| `manager_alone` | the same with one thread, quotas 1 and 2, more fences | `AloneAnswered`: every group is answered |
| `hash_table` | 3 ids in 2 buckets, 2 values, a cache of 2 items, counters of 4 values, 2 threads, symmetry; 340,000 states | `OneEntryPerId`, `CacheExact`, `CacheBound`, `AbortOnlyFull`, `TraversalSound`, and the refinement of `MapPromise` |
| `dispatcher` | 1 application, 2 threads, 3 calls of the host, 1 or 2 seats, a minimum of 0 or 1, Word 16; 292,000 states | `SeatsMatch`, `PolicyRunsAlone`, `InuseWithinQuota`, `SplitGivesShares`, `EveryCallReturns` |
| `phantom` | as `dispatch_node` | violation of `AllPutNoneInUse`: granted, not charged, freed |
| `strand_race` | as `dispatch_node` | violation of `NoStrandedRequest`: a lost wake-up |
| `strand_reset` | one thread, quota 1 below `MIN_RS_NUM` | violation of `NoStrandedRequest`: a reset that raises the quota wakes nobody |
| `underflow` | one thread, quotas 0 and 1 below the step | violation of `QuotaMoves`: an unsigned difference wraps |
| `get_loop` | as `manager` | violation of `LoopsOnLiveGroups`: a getter still reads the list of a freed group |
| `policy_once` | as `dispatcher` | violation of `TurnedAwayBesideARun`: a caller of the executor is turned away though nobody is in a run |

The last six show what the code does against what its tests, its interface and its comments say; `findings` in
`PROJECT.json` quotes the lines.

**Bounds.**  Three requests are the least at which one is first, one last and one between, and two
threads at which every pair of sections meets.  On a node, costs 1, 2, 2 against quotas 2 and 5 let
all requests fit, some, or none; versions 0..2 give an old, an equal and a newer message at each
point, and two lowered targets in a row.  `Word` = 8 puts the wrap close enough to be reached
(a grant that was not charged and is freed takes `token_inuse` to 7 or 6).  `MinRs` and `RespondStep`
stand for `MIN_RS_NUM` (10) and `MMAX_RESPOND_STEP` (5): in the passing run no quota is below the
step and none is below `MinRs`, the two cases the violation runs are about.  In the manager, two
groups over two nodes with quotas that fit one or two of them give every order of granting, queueing,
waking and failing; `MaxFence` bounds the events that take a node online (getters do so too, without
a bound), enough for a node to go and come back while a group holds its tokens.

In the hash table two of three ids share a bucket, so that operations meet in one list and pass each
other in two; a cache of two items is full while a third is asked for; counters of four values wrap
after two inserts that failed.  Nothing else is bounded: threads call for ever.  At the dispatcher
three calls (`MaxCalls`) are enough for a node to come online while another call of the same id
looks, to get a report while tokens are taken, and to be met by a run of the policy that another
thread's call began; one application is all that more than one seat admits, and with one seat all
that the cache has room for.  Reports hold 1 or 5 (`Garbage`), below and above the minimum and any
target; resources come and go by 3 tokens, so that a reduction can wrap.  Seven calls and two
applications were simulated at random without an error.  `SplitGivesShares` divides every
combination of two and three nodes with bases 0 and 1, parts up to `MCMax` = 2 and weights 1 and 2.

**Fairness.**  No operation waits for anything but locks, and all locks are released after finitely
many steps, so weak fairness of each thread's own steps (`Step(t)`) says only that a started
operation is scheduled again.  `FairSpec` of the manager also assumes that the application puts what
it was told about (strong fairness, since a thread may be busy with another operation whenever it
could put): the interface leaves that to the application, and without it nobody who waits can be
answered.  No event is fair: nodes need not come, go or send anything.  At the dispatcher a thread
inside a call goes on (`Continue(t)`), and that is enough for `EveryCallReturns`: the loop of
`test_cnt` ends because calls do.

**Deadlock** is checked in `dispatch_node` and in the manager's runs, where a state in which all
threads are outside may rest (`Retired`, `Rest`).  It is off in `token_reqgrp`, whose group ends; in
`hash_table`, where an assertion or `hash_free` ends the table; and in `dispatcher`, where an
assertion ends the program and the bound on calls ends the rest.  In that run `EveryCallReturns`
says more than the absence of deadlock would.

## 4. Proofs

`TokenReqGrpProofs` proves, for any finite nonempty set of requests and any finite set of threads:

* `TypeCorrect`, `PendingIsExact`, `AtMostOneVerdict`, `VerdictIsSound`, `FreedIsLeftAlone`: the
  type invariant and the four safety invariants of `TokenReqGrp` under `Spec`;
* `RefinesPromise`: `Spec` implements `GroupPromise`.

None of the five is inductive alone.  `IndInv` is `TypeOK`, `PendingCounts` and six named parts:
`ConcludedInv` - once some thread judges or a verdict was returned, nothing is unsettled, nothing is
still to be counted, the counter is 0 and there is one judge, or none and one verdict (with
`PendingCounts` this makes a second zero impossible); `FailureInv` - a failed request, or a
`to_failed` past its first line, means `failed_exist`, and what a thread is about to publish agrees
with it; `CallInv` - each call under way is in `plan` and no longer in `calls`; `OnceInv` - with one
call per request the attempt on a request is the only one, so its CAS wins and `failed_exist` always
has a failed request, or one about to fail, behind it; `PhaseInv` and `GoneInv` - nothing runs on a
group that does not live.  There is one preservation lemma per action (`CallStep`, `CasWonStep`, ...)
with a step per part that the action disturbs; `NextIndInv` gathers them.  Facts about cardinalities
come from `FiniteSetTheorems`.  The only assumptions are those `TokenReqGrp` states of its
constants.

`DispatchNodeProofs` proves, for any requests, costs, threads, word size and messages:

* `TypeCorrect`, `PopsPaid`, `QuotaAboveTarget`: `TypeOK`, `PopsWhatItPaid` and
  `QuotaNotBelowTarget` under `Spec`;
* `NewerWins`: the action property `NewerMessageWins`;
* `QuotaMovesCovered`: `QuotaMoves`, **if** `MIN_RS_NUM` and every quota received are at least the
  respond step (`StepCovered`).  The program does not enforce it, and the run `underflow` shows the
  property fail without it: between them they say exactly when the quota is safe;
* `PressExact`: `PressIsQueued`, for a press that wraps as `unsigned long` does;
* `LedgerBalances`: `Ledger`, whatever the threads do;
* **if** `StepCovered` and no cost added to a quota or to `MIN_RS_NUM` wraps (`SumsFit`):
  `AloneAccountIsExact` (`AloneIsExact`), for a single thread;
* **if** moreover no quota received is below `MIN_RS_NUM`, so that a reset raises no quota
  (`NoResetRaises`): `AloneWakes` (`AloneNobodyStranded`).  A reset wakes nobody, and the run
  `strand_reset` shows a request stranded where the condition does not hold.

`TypeOK` is not inductive: a pop of an empty queue, or an update by a message that is not there,
would break it.  `Inv` adds `LockInv` (a thread in a section of the spin lock is the one `lck`
names), from which comes `Exclusion`, that no second thread is in such a section; `PopsWhatItPaid`,
which needs the exclusion because a push or another pop would change the front; `MsgInv` (a thread
that looks at a message has one); and `QuotaNotBelowTarget`, which says that a step down never has
to go below the target.  The algebra of the account is proved first, one lemma per operation of
`BaseNode` (`ChargedSettling`, `UpdatedSettling`, ...), with wrapping arithmetic for a symbolic word
size.  Then one lemma per kind of step (`MoveKeepsInv`, `AccountKeepsInv`, `SpinLockKeepsInv`) or per
action (`PushBackKeepsInv`, `PopKeepsInv`, ...) shows that `Inv` is kept; `AccountMoves` says that
the account changes only by one of its five operations, and the two action properties follow.
`QuotaMovesCovered` also needs that the target never falls below the step (`TargetAboveStep`).

The sums need more parts.  `WorkInv` says who has a request in hand: one thread at most, and only
while it is neither queued nor granted; `QueueInv`, that the requests that wait are those in the
queue, each once.  From the two each step adds at most one request to the set that is summed or
takes one from it, and `PressInv` and `LedgerInv` follow, the latter as one remainder: the tokens in
use are the costs of what was charged and not freed (`Owed`) less those of what was freed though it
was never charged (`Phantom`), modulo the word.  `BegunInv` says that only finitely many requests have begun, so the
sums exist for an infinite set of requests too.  `AloneInv` says of a crew of one what it has
checked and not yet acted on, place by place; while nobody interleaves, the check still holds when
it acts.

`FiniteSums` is what these proofs and those below stand on.  The library's sum over a set is a fold
whose recursion is chosen, and the induction theorems take an operator: so the lemmas name the
*set* of good cases instead, and a least counterexample does the rest (`CountingUp` for numbers,
`SubsetInduction` for subsets of a finite set, both from `LeastNat`).  With them `AddingExists` shows
that the chosen recursion exists, and `SumAdd`, `SumRemove`, `SumSame`, `SumChange` what a sum does
when its set or one term changes; `RemainderSum`, `RemainderShift` and `RemainderDifference` carry
sums through wrapping arithmetic for a symbolic word.

`TokenReqGrpManagerProofs` proves, for any nodes, groups (each wants at least one node and costs at
least one token), threads, word size and messages:

* `TypeCorrect`, `WaitersAreKnown`, `AnswersOnce`, `NoneDangles`: `TypeOK`, `WaitersKnown`,
  `ToldOnce`, `NoDanglingGroup` under `Spec`;
* `LoopsAreLive`: a getter or putter that has still a request to visit has a group that is not
  freed.  The run `get_loop` shows that without the condition it fails: what the getter reads of a
  freed group is only the head of its list.

The four hang together, and `Inv` is their joint strengthening: `PlaceInv` - what a thread has in
each place, and that a group is got by one thread and put by one; `StatInv` - a request waits only
while its group lives, and requests are made for all the nodes wanted or none; `WaitInv` - a group
is at most once in a queue, is there with the fence of the node in the table, and a request waits
exactly when it is in its queue or its getter has still to ask; `ToldInv` - a group is settled
exactly when it was told or one thread owes it to the application, and only a live group is on a
list of callbacks.  There is one lemma for each thing that happens to the queues (`PushQueues`,
`WakeQueues`, `OfflineQueues`, ...), each saying in `QueueStep` which groups are in which queue
afterwards; `SettleIs` says what settling does, `WaitKept` and `ToldOwed` carry the two parts over
it, and `QuietStep` does the steps that settle nothing.  How far a queue is woken is defined by a
recursive function and a maximum: that the function exists and yields accounts (`ChargingExists`,
`ChargedFirstType`), and that the maximum is one (`GreatestNat`), are shown by a least
counterexample (`LeastNat`, from the well-foundedness of `<`) instead of by induction.

`TokenReqGrpManagerLedger` adds `AloneFencesBalance`, which is `AloneFenceLedger`: with one thread,
the tokens in use of each node in the table are those of the groups that got them of *this*
incarnation and have not put them back, as nodes go and come back while groups hold, wait or are
being visited.  `LedgerInv` adds to `Inv` that every fence in the table or in a group is below the
next (`FenceInv`), so an incarnation is never mistaken for another; that a put gives back only what
was got (`GiveInv`); and the sum of each node (`LedgerOf`).  One lemma says when a step that leaves
the owners alone keeps a ledger (`KeptLedger`), one what settling does (`SettleLedger`), and
`WakeLedger` covers a node that serves its queue: `ChargedSum` and `WakenSum` follow the charging
loop from request to request.

`HashTableProofs` proves, for any hash function, number of buckets, size of the cache and of its
counters (the cache smaller than the counters' range), ids, values and threads:

* `TypeCorrect`, `UniqueEntries`, `ItemsCounted`, `ItemsBounded`, `AbortsOnlyFull`,
  `TraversalsAreSound`: `TypeOK`, `OneEntryPerId`, `CacheExact`, `CacheBound`, `AbortOnlyFull`,
  `TraversalSound` under `Spec`;
* `RefinesPromise`: `Spec` implements `MapPromise`.

`Inv` is `TypeOK`, `OneEntryPerId` and `CallInv` (what a call has, in each place it can be);
`CountInv` adds that the wrapped difference of the two counters is the number of items in the table
plus those in the hands of threads (`Holding`): it cannot be proved without the finiteness it also
states.  `Difference`, `DifferenceUp` and `DifferenceDown` do the arithmetic of wrapped counters for
a symbolic word, `LeftIsRoom` says that the cache's test, made on wrapped numbers, is right.
`ScanInv` says of a traversal that each entry that has been there throughout is passed or still
ahead, and that all it passed was met.  Under the refinement mapping `MapOf` an insert, an erase and
a find take effect in `Link`, `Unlink` and `Look`; counting is a stutter.

`DispManagerProofs` proves, for any applications, threads, word size, limits, intervals, units,
costs and garbage:

* `TypeCorrect`, `SeatsAgree`, `RunsAlone`: `TypeOK`, `SeatsMatch` and `PolicyRunsAlone`;
* **if** a cost and the minimum together are at most half a word (`CostsSmall`): `HoldsItsQuota`
  (`InuseWithinQuota`).  Without that the sum in `dtn_alloc` can wrap and the test admits what does
  not fit.

The inductive invariant `Inv` is about the whole program, since what keeps the quotas still is the
run of the policy, what bounds the run is the number of nodes, and that number hangs on the account.
Its parts: `Typed`, `LockInv` (who is inside the rwlock) and `MeInv` (what a thread's locals say, in
each place; the view an operation took has the account's limits, and while a thread is about to
admit a node, nobody else changes `num_cur`); `SeatsMatch` and `EmptyUnlessOneSeat` (with other than
one seat nobody is admitted: a consequence of the reversed comparison, which the induction needs as
the code has it), from which comes `AtMostOne` - one node is online at most; `RunInv` - one run of
the policy at a time, and one ever; `CtxInv` - its context is empty or holds that one node, spelled
out, and in the second loop what is left is what the node's quota lacks of zero (`NothingLeft`, an
argument in modular arithmetic), so that the second loop can only ask for quota 0; and `Settled \/
Doomed` - every node has the minimum it came with and nobody waits, or the run is in its second loop
with a positive minimum and aborts at its next step.  `RunsAlone` takes the first half of its
property from `RunInv` and the second from `CtxInv` with the read lock, which the run keeps while
writers admit nodes.  There is one lemma per variable (`TokensStep`, `TabStep`, `MeStep`, ...) or
part, each with a step per action that can disturb it.  For the last theorem `QuotaInv` bounds each
target by half a word plus the minimum (`ShareBound`: the product of the sum and a weight wraps to a
word and is then divided by the weight, which with two or more leaves at most half, and with one
wraps to a quota of zero).  The proof follows the code as it is: when its comparisons are repaired,
the parts of `Inv` that rest on them must be proved anew.

`QuotaSplitProofs` proves, for any number of nodes, any quotas, bases and press, and any word:

* `ProportionalShares`: if each node has press, there is something to divide and no sum or product
  wraps (`Divisible`), `update` gives each node its base and its proportional share rounded down,
  the first node also what rounding left, which is less than one token for each node, and the new
  quotas together fall short of the old by the sum of the bases: the code takes each base off twice,
  so tokens get lost.

`SplitGivesShares`, which the run evaluates, is this of all small divisions; it shows that the
definitions compute what the theorem says, and needs no theorem of its own.

The conditions are those under which the C computes what its author wrote: `LeftBase` and the
product of the sum and a weight wrap otherwise.  `PlainSumIs` and `SummedSteps` turn the folds over
a list into running sums (`Running`), `SuffixSum` and `SummedIs` say that the context has the sums of
the fields.  `SharesBound` bounds the sum of the first shares on both sides, from which `RestBound`:
something is left until the last node has its share, so the first loop visits every node, and less
than one token for each afterwards.  `FirstTurns` and `SecondTurn` compute a turn of each loop, and
`DividedIs` strings 2n of them together.

Only model-checked: the liveness properties `VerdictDelivered`, `AloneAnswered` and
`EveryCallReturns`.  The prover has no rules for `ENABLED` and fairness here.  Every other property
of a passing run is a theorem, or in the case of `SplitGivesShares` instances of one.  No `RECURSIVE` operator is used: the wake-up of a queue and the loops
of `update` are recursive functions.

## 5. Not modelled

* `get_protocol`, `snd_msg_buf` and `get_press` of the application's end only read, and what they
  report is not read by the dispatcher's `rcvd`.  `check_snd_msg` has no caller.
* A composition of the two ends.  What the dispatcher receives it does not look at, and its one run of the
  policy changes no quota before it ends the program: the application's end is checked with *any* quotas and
  versions instead, and the dispatcher's with any reports.
* `offline` of the global account, which no execution reaches (`node_offline` ends the program
  first), and `set_max_rsvr`, which nobody calls; so `rsvr` and `max_rsvr` stay zero, and the
  comparison of `could_decrease` with them is always true.
* The setters, which run once before everything else, and the dispatcher's callbacks, which nobody
  calls.  `erase` of the request queue, called by tests only.
* What two threads do to each other inside one node, in the model of the manager (`GetOne`, `PutOne`):
  `DispatchNode` has it, for one node.
* The lists' pointers (`list_head.h`): queues are sequences, buckets and lists of groups are sets.
  `rwclear` walks a list while it frees its items; `hash_free` is modelled as one step.
* Failure of `malloc`: exhaustion of the caches is modelled, exhaustion of memory is not.
  `qos_alloc` has no `return` on one path; its callers are modelled as getting memory.
* Test code, in each file after the `for test` line, and the test libraries (`test_include/`).  It
  is most of the repository's lines: of the 11,500 some 2,600 are the program.  What can be modelled
  of those is, with the exceptions above; the rest are includes, declarations, initialisers and the
  wiring of function pointers.

## 6. Plan

1. **Between the grains**: that the steps `TokenReqGrpManager` takes on one node are what a
   `DispatchNode` without the races does, so that its theorems about a single thread carry over;
   and, of what is left without a property, bounds on how long a request larger than every quota
   keeps the queue from moving.
2. **When the dispatcher's end is repaired** (the comparisons of `check_up_app_num` and `dtn_free`,
   the copy in `rcvd`, `is_exe`): conservation of the tokens becomes worth stating again, and a link
   between the two ends worth modelling: convergence to the last
   quota sent over a channel that loses, repeats and reorders; the torn report of `get_protocol`;
   the lowered quota that an idle application never reaches.
