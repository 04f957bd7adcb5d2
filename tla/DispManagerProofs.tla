--------------------------- MODULE DispManagerProofs ---------------------------
(***************************************************************************)
(* Proofs about DispManager, for any applications, threads, word size and  *)
(* parameters: type correctness, who is in the table and in the policy's   *)
(* run, and the tokens in use, in every interleaving.                      *)
(*                                                                         *)
(* Inv is inductive.  The section about the tokens in use assumes that     *)
(* costs and minima are small beside the word (CostsSmall).                *)
(***************************************************************************)
EXTENDS DispManager, FiniteSetTheorems, TLAPS

\* Wrapping sums and differences are words.
LEMMA PlusType == \A a, b \in Int : Plus(a, b) \in Tokens /\ Minus(a, b) \in Tokens
BY WordAssumption DEF Plus, Minus, Tokens

\* Words, as the provers want them: without an interval.
LEMMA TokensAre == \A a : a \in Tokens <=> (a \in Int /\ 0 <= a /\ a < Word)
BY WordAssumption DEF Tokens

\* The lesser of two words is a word no greater than either.
LEMMA LeastType == \A a, b \in Tokens : Least(a, b) \in Tokens /\ Least(a, b) <= a /\ Least(a, b) <= b
BY WordAssumption DEF Least, Tokens

SameLimits(g, h) == g.min = h.min /\ g.num_max = h.num_max

\* Each operation on the account yields an account and leaves its two limits alone:
\* here online, which also counts one node more.
LEMMA OnlineAccountType ==
  ASSUME NEW g \in Account
  PROVE  /\ OnlineAccount(g) \in Account /\ SameLimits(OnlineAccount(g), g)
         /\ OnlineAccount(g).num_cur = Plus(g.num_cur, 1)
<1>1. PICK r \in Tokens : r = Least(g.rsvr, g.min) /\ r <= g.min /\ r <= g.rsvr
  BY LeastType DEF Account
<1>2. PICK f \in Tokens : f = Least(g.free, g.min - r) /\ f <= g.free
  <2>1. g.min - r \in Tokens /\ g.free \in Tokens
    BY <1>1, WordAssumption DEF Account, Tokens
  <2> QED
    BY <2>1, LeastType
<1>3. /\ Plus(g.num_cur, 1) \in Tokens /\ g.rsvr - r \in Tokens /\ g.free - f \in Tokens
      /\ Plus(g.static, r + f) \in Tokens /\ Minus(g.dynamic_new, g.min - r - f) \in Tokens
  <2>1. r \in Int /\ f \in Int /\ g.num_cur \in Int /\ g.static \in Int /\ g.dynamic_new \in Int /\ g.min \in Int
    BY <1>1, <1>2, TokensAre DEF Account
  <2>2. g.rsvr - r \in Tokens /\ g.free - f \in Tokens
    BY <1>1, <1>2, WordAssumption DEF Account, Tokens
  <2> QED
    BY <2>1, <2>2, PlusType
<1>4. OnlineAccount(g) = [g EXCEPT !.num_cur = Plus(@, 1), !.rsvr = @ - r, !.free = @ - f,
                !.static = Plus(@, r + f), !.dynamic_new = Minus(@, g.min - r - f)]
  BY <1>1, <1>2 DEF OnlineAccount
<1> QED
  BY <1>3, <1>4 DEF Account, SameLimits

\* try_alloc.
LEMMA TakenAccountType ==
  ASSUME NEW g \in Account, NEW cost \in Tokens
  PROVE  TakenAccount(g, cost) \in Account /\ SameLimits(TakenAccount(g, cost), g)
BY LeastType, WordAssumption DEF TakenAccount, Taken, Account, Tokens, SameLimits

\* gfree: what is due is covered by the tokens given away.
LEMMA FreedAccountType ==
  ASSUME NEW g \in Account, NEW cost \in Tokens
  PROVE  FreedAccount(g, cost) \in Account /\ SameLimits(FreedAccount(g, cost), g)
<1>1. PICK due \in Tokens : /\ due = IF g.dynamic_new < g.dynamic
                                     THEN Least(g.dynamic - g.dynamic_new, cost) ELSE 0
                            /\ due <= cost /\ due <= g.dynamic
  <2>1. CASE g.dynamic_new < g.dynamic
    <3>1. g.dynamic - g.dynamic_new \in Tokens /\ g.dynamic - g.dynamic_new <= g.dynamic
      BY <2>1, WordAssumption DEF Account, Tokens
    <3>2. Least(g.dynamic - g.dynamic_new, cost) \in Tokens
      BY <3>1, LeastType
    <3> QED
      BY <2>1, <3>1, <3>2, LeastType DEF Account, Tokens
  <2>2. CASE ~(g.dynamic_new < g.dynamic)
    BY <2>2, WordAssumption DEF Account, Tokens
  <2> QED
    BY <2>1, <2>2
<1>2. /\ g.dynamic - due \in Tokens /\ Plus(g.static, due) \in Tokens
      /\ Plus(g.free, cost - due) \in Tokens
  <2>1. g.static \in Int /\ g.free \in Int /\ due \in Int /\ cost \in Int
    BY <1>1, TokensAre DEF Account
  <2>2. g.dynamic - due \in Tokens
    BY <1>1, WordAssumption DEF Account, Tokens
  <2> QED
    BY <2>1, <2>2, PlusType
<1>3. FreedAccount(g, cost) = [g EXCEPT !.dynamic = @ - due, !.static = Plus(@, due),
                                        !.free = Plus(@, cost - due)]
  BY <1>1 DEF FreedAccount
<1> QED
  BY <1>2, <1>3 DEF Account, SameLimits

\* increase.
LEMMA IncreasedAccountType ==
  ASSUME NEW g \in Account, NEW units \in Tokens
  PROVE  IncreasedAccount(g, units) \in Account /\ SameLimits(IncreasedAccount(g, units), g)
<1>1. /\ Plus(g.free, units) \in Tokens /\ Plus(g.total, units) \in Tokens
      /\ Plus(g.dynamic, units) \in Tokens /\ Plus(g.dynamic_new, units) \in Tokens
  BY PlusType, TokensAre DEF Account
<1> QED
  BY <1>1 DEF IncreasedAccount, Account, SameLimits

\* The decrease of try_decrease.
LEMMA DecreasedAccountType ==
  ASSUME NEW g \in Account, NEW units \in Tokens
  PROVE  DecreasedAccount(g, units) \in Account /\ SameLimits(DecreasedAccount(g, units), g)
<1>1. PICK f \in Tokens : f = Least(units, g.free) /\ f <= g.free
  BY LeastType DEF Account
<1>2. DecreasedAccount(g, units) = [g EXCEPT !.dynamic = Minus(@, units), !.dynamic_new = Minus(@, units),
            !.free = @ - f, !.total = Minus(@, units)]
  BY <1>1 DEF DecreasedAccount
<1>3. /\ Minus(g.dynamic, units) \in Tokens /\ Minus(g.dynamic_new, units) \in Tokens
      /\ g.free - f \in Tokens /\ Minus(g.total, units) \in Tokens
  <2>1. g.free - f \in Tokens
    BY <1>1, WordAssumption DEF Account, Tokens
  <2> QED
    BY <2>1, PlusType, TokensAre DEF Account
<1> QED
  BY <1>2, <1>3 DEF Account, SameLimits

\* token_global_init_value.
LEMMA NewAccountType ==
  ASSUME NEW m \in Tokens, NEW l \in Tokens
  PROVE  NewAccount(m, l) \in Account
BY WordAssumption DEF NewAccount, Account, Tokens

-------------------------------------------------------------------------------
UNodes == [id : Ids, base : Tokens, tmp : Tokens, weight : Tokens]
Contexts == [node : Seq(UNodes), weight : Tokens, total : Tokens, static : Tokens,
             left : Tokens, loop : 0..3, pos : Nat]
Locals == [id : Ids \cup {NoNode}, amount : Tokens, back : {"idle", "alloc", "rcvd"},
           snap : Account \cup Nodes \cup {<<>>}, fence : Nat, old : Nat, new : Nat, due : BOOLEAN,
           first : Ids \cup {NoNode}]

\* check_up_app_num's comparison lets in nobody but the one application of a dispatcher
\* made for one: a defect of the code that the induction has to know.
EmptyUnlessOneSeat == OnlineIds # {} => tokens.num_max = 1

Typed ==
  /\ TypeOK
  /\ me \in [Threads -> Locals]
  /\ ctx \in Contexts
  /\ tokens.min \in Mins

\* Where a thread holds the rwlock for reading, and where it has its view of the account.
Reading == {"increase", "reduce", "gather", "weigh", "divide", "divided", "serve", "take"}
Viewing == {"online", "increase", "reduce", "gfreeend", "take"}
HasId == {"check", "newnode", "admit", "online", "alloc", "rcvd", "send"}
Holders == {t \in Threads : pc[t] \in {"admit", "online", "drop"}}

LockInv ==
  \A t \in Threads : /\ t \in readers <=> pc[t] \in Reading
                     /\ writer = t <=> pc[t] = "online"

MeOf(t) ==
  /\ pc[t] \in HasId \/ me[t].back # "idle" => me[t].id \in Ids
  /\ pc[t] = "alloc" => me[t].back = "alloc"
  /\ me[t].back = "alloc" => me[t].amount \in Costs
  /\ pc[t] \in {"increase", "reduce", "gfree", "gfreeend"} => me[t].back = "idle"
  /\ pc[t] = "swap" => me[t].new \in 0..interval
  /\ pc[t] \in Viewing => me[t].snap \in Account /\ SameLimits(me[t].snap, tokens)
  /\ pc[t] = "online" => me[t].snap.num_cur = tokens.num_cur /\ ~Online(me[t].id)
  /\ pc[t] = "take" => /\ me[t].first \in Ids /\ Online(me[t].first)
                       /\ tab[me[t].first].quota <= tab[me[t].first].quota_new
  /\ pc[t] = "weigh" => /\ me[t].first \in Ids /\ Online(me[t].first)
                        /\ me[t].snap \in Nodes /\ me[t].snap.quota = tokens.min

MeInv == \A t \in Threads : MeOf(t)

RunInv ==
  /\ ~is_exe => ctx = NoContext /\ \A t \in Threads : pc[t] \notin RunPlaces
  /\ \A t, u \in Threads : pc[t] \in RunPlaces /\ pc[u] \in RunPlaces => t = u

\* The context of a run that has one node.
Alone(i, press) == AddResource(NoContext, UpdateNode(i, tokens.min, tokens.min, press))

\* Behind the first loop all that is left is what the quota of the node lacks of zero.
Rest ==
  /\ ctx.loop = 2 /\ ctx.pos = 1
  /\ \E u \in UNodes : /\ ctx.node = <<u>> /\ Online(u.id)
                       /\ Plus(u.tmp, ctx.left) = 0

\* The run has whoever is online.
Gathered ==
  \/ ctx.node = <<>> /\ OnlineIds = {}
  \/ \E u \in UNodes : ctx.node = <<u>> /\ Online(u.id)

CtxOf(t) ==
  /\ pc[t] = "collect" => ctx = NoContext
  /\ pc[t] = "gather" => \/ ctx = NoContext
                         \/ \E i \in Ids, w \in Tokens : Online(i) /\ ctx = Alone(i, w)
  /\ pc[t] = "divide" => \/ \E i \in Ids, w \in Tokens : Online(i) /\ ctx = Begun(Alone(i, w))
                         \/ Rest
  /\ pc[t] = "weigh" => ctx = NoContext
  /\ pc[t] = "divided" => ctx.loop = 3 /\ Gathered

CtxInv == \A t \in Threads : CtxOf(t)

\* Every node has the minimum that it came with,
Settled ==
  /\ wait = <<>>
  /\ \A i \in Ids : Online(i) =>
       tab[i].quota = tokens.min /\ tab[i].quota_new = tokens.min /\ tab[i].version = 0

\* but for a run of the policy that is about to abort.
Doomed ==
  /\ tokens.min > 0 /\ ctx.loop = 2
  /\ \E t \in Threads : pc[t] = "divide"
  /\ wait \in {<<>>, <<Current(ctx).id>>}

Inv ==
  /\ Typed /\ LockInv /\ MeInv /\ SeatsMatch /\ EmptyUnlessOneSeat
  /\ RunInv /\ CtxInv /\ (Settled \/ Doomed)
  /\ aborted = "offline" => readers = {}

-------------------------------------------------------------------------------
\* What no action but the owner's changes.
Moves(t) ==
  /\ \A u \in Threads \ {t} : pc'[u] = pc[u] /\ me'[u] = me[u]

\* Every step of Next is a move of its thread.
LEMMA NextMoves == ASSUME Typed, NEW t \in Threads, HostCall(t) \/ Continue(t) PROVE Moves(t)
<1>1. CASE HostCall(t)
  BY <1>1 DEF HostCall, AllocTokens, FreeTokens, Rcvd, NodeOnline, NodeOffline, NodeReset, SndMsg,
       Increase, Reduce, Begin, Typed, TypeOK, Moves, Goto, UpdatePolicy
<1>2. CASE Continue(t)
  BY <1>2 DEF Continue, CheckOnline, GetNode, AdmitBegin, AdmitEnd, DropNode, Alloc, IncreaseEnd,
       ReduceEnd, NodeRcvd, GFree, GFreeEnd, ClearCount, ReadCount, SwapCount, Execute, Collect,
       InitUpdateNode, AddToUpctx, UpdateBegin, DivideNext, ExecuteEnd, Wakeup, Serve, Take, SndMsgBuf, LeaveServe,
       Back, Done, Goto, Load, Forget, UpdatePolicy, Typed, TypeOK, Moves
<1> QED
  BY <1>1, <1>2

\* The rwlock: a thread is among the readers, or the writer, in the sections that say so.
LEMMA LockStep ==
  ASSUME Inv, NEW t \in Threads, HostCall(t) \/ Continue(t)
  PROVE  LockInv'
<1>0. Moves(t)
  BY NextMoves DEF Inv
<1>h. CASE HostCall(t)
  <2>1. CASE \E i \in Ids, c \in Costs : AllocTokens(t, i, c)
    BY <1>0, <2>1
      DEF AllocTokens, Begin, Call, Enter, Goto, lock, Reading, LockInv, Moves, Inv, Typed, TypeOK, Locals, MeInv, MeOf
  <2>2. CASE \E i \in Ids, c \in Costs, f \in 0..fence_id : FreeTokens(t, i, f, c)
    BY <1>0, <2>2
      DEF FreeTokens, Call, Enter, lock, Reading, LockInv, Moves, Inv, Typed, TypeOK, Locals, MeInv, MeOf
  <2>3. CASE \E i \in Ids : Rcvd(t, i)
    BY <1>0, <2>3
      DEF Rcvd, Begin, Call, Enter, Goto, lock, Reading, LockInv, Moves, Inv, Typed, TypeOK, Locals, MeInv, MeOf
  <2>4. CASE \E i \in Ids : NodeOnline(t, i)
    BY <1>0, <2>4
      DEF NodeOnline, Begin, Call, Enter, Goto, lock, Reading, LockInv, Moves, Inv, Typed, TypeOK, Locals, MeInv, MeOf
  <2>5. CASE \E i \in Ids : NodeOffline(t, i)
    BY <1>0, <2>5
      DEF NodeOffline, Call, Enter, CanWrite, lock, Reading, LockInv, Moves, Inv, Typed, TypeOK, Locals, MeInv, MeOf
  <2>6. CASE \E i \in Ids : NodeReset(t, i)
    <3>1. pc[t] = "idle" /\ pc'[t] \in {"idle", "clear"} /\ UNCHANGED lock
      BY <2>6 DEF NodeReset, Call, Enter, UpdatePolicy, Goto, lock, Inv, Typed, TypeOK
    <3> QED
      BY <1>0, <3>1 DEF Reading, LockInv, Moves, Inv, lock
  <2>7. CASE \E i \in Ids : SndMsg(t, i)
    BY <1>0, <2>7
      DEF SndMsg, Begin, Call, Enter, Goto, lock, Reading, LockInv, Moves, Inv, Typed, TypeOK, Locals, MeInv, MeOf
  <2>8. CASE \E u \in Units : Increase(t, u)
    BY <1>0, <2>8
      DEF Increase, Call, Enter, RdLock, CanRead, Goto, lock, Reading, LockInv, Moves, Inv, Typed, TypeOK, Locals, MeInv, MeOf
  <2>9. CASE \E u \in Units : Reduce(t, u)
    BY <1>0, <2>9
      DEF Reduce, Call, Enter, RdLock, CanRead, Goto, lock, Reading, LockInv, Moves, Inv, Typed, TypeOK, Locals, MeInv, MeOf
  <2> QED
    BY <1>h, <2>1, <2>2, <2>3, <2>4, <2>5, <2>6, <2>7, <2>8, <2>9 DEF HostCall
<1>c. CASE Continue(t)
  <2>1. CASE CheckOnline(t)
    BY <1>0, <2>1
      DEF CheckOnline, Enter, Goto, lock, Reading, LockInv, Moves, Inv, Typed, TypeOK, Locals, MeInv, MeOf
  <2>2. CASE GetNode(t)
    <3>1. pc[t] = "newnode" /\ pc'[t] \in {"admit", "idle", "alloc", "rcvd"} /\ UNCHANGED lock
      BY <2>2 DEF GetNode, lock, Back, Done, Goto, Enter, Inv, Typed, TypeOK
    <3> QED
      BY <1>0, <3>1 DEF Reading, LockInv, Moves, Inv, lock
  <2>3. CASE AdmitBegin(t)
    <3>1. pc[t] = "admit" /\ readers' = readers /\ writer = NoThread
          /\ \/ pc'[t] \in {"admit", "drop"} /\ writer' = writer
             \/ pc'[t] = "online" /\ writer' = t
      BY <2>3, NullAssumption
      DEF AdmitBegin, CanWrite, Goto, Enter, Inv, Typed, TypeOK
    <3> QED
      BY <1>0, <3>1, NullAssumption DEF Reading, LockInv, Moves, Inv, lock
  <2>4. CASE AdmitEnd(t)
    <3>1. pc[t] = "online" /\ pc'[t] \in {"clear", "drop"} /\ readers' = readers /\ writer' = NoThread
      BY <2>4, NullAssumption
      DEF AdmitEnd, UpdatePolicy, Goto, Enter, Inv, Typed, TypeOK
    <3> QED
      BY <1>0, <3>1, NullAssumption DEF Reading, LockInv, Moves, Inv, lock
  <2>5. CASE DropNode(t)
    <3>1. pc[t] = "drop" /\ pc'[t] \in {"idle", "alloc", "rcvd"} /\ UNCHANGED lock
      BY <2>5 DEF DropNode, Enter, Goto, Back, Done, lock, Inv, Typed, TypeOK
    <3> QED
      BY <1>0, <3>1 DEF Reading, LockInv, Moves, Inv, lock
  <2>6. CASE Alloc(t)
    BY <1>0, <2>6
      DEF Alloc, Enter, Done, lock, Reading, LockInv, Moves, Inv, Typed, TypeOK, Locals, MeInv, MeOf
  <2>7. CASE IncreaseEnd(t)
    BY <1>0, <2>7
      DEF IncreaseEnd, Enter, RdUnlock, UpdatePolicy, Goto, Forget, lock, Reading, LockInv, Moves, Inv, Typed, TypeOK, Locals, MeInv, MeOf
  <2>8. CASE ReduceEnd(t)
    BY <1>0, <2>8
      DEF ReduceEnd, Enter, RdUnlock, UpdatePolicy, Goto, Forget, Done, lock, Reading, LockInv, Moves, Inv, Typed, TypeOK, Locals, MeInv, MeOf
  <2>9. CASE NodeRcvd(t)
    <3>1. pc[t] = "rcvd" /\ pc'[t] \in {"idle", "count", "gfree"} /\ UNCHANGED lock
      BY <2>9
      DEF NodeRcvd, lock, Done, Goto, Enter, Inv, Typed, TypeOK
    <3> QED
      BY <1>0, <3>1 DEF Reading, LockInv, Moves, Inv, lock
  <2>10. CASE GFree(t)
    BY <1>0, <2>10
      DEF GFree, Enter, Goto, Load, lock, Reading, LockInv, Moves, Inv, Typed, TypeOK, Locals, MeInv, MeOf
  <2>11. CASE GFreeEnd(t)
    BY <1>0, <2>11
      DEF GFreeEnd, Enter, Goto, Forget, lock, Reading, LockInv, Moves, Inv, Typed, TypeOK, Locals, MeInv, MeOf
  <2>12. CASE ClearCount(t)
    BY <1>0, <2>12
      DEF ClearCount, Enter, Goto, lock, Reading, LockInv, Moves, Inv, Typed, TypeOK, Locals, MeInv, MeOf
  <2>13. CASE ReadCount(t)
    BY <1>0, <2>13
      DEF ReadCount, Enter, Goto, lock, Reading, LockInv, Moves, Inv, Typed, TypeOK, Locals, MeInv, MeOf
  <2>14. CASE SwapCount(t)
    <3>1. pc[t] = "swap" /\ pc'[t] \in {"idle", "count", "execute"} /\ UNCHANGED lock
      BY <2>14
      DEF SwapCount, lock, Done, Goto, Enter, Inv, Typed, TypeOK
    <3> QED
      BY <1>0, <3>1 DEF Reading, LockInv, Moves, Inv, lock
  <2>15. CASE Execute(t)
    BY <1>0, <2>15
      DEF Execute, Enter, Goto, lock, Reading, LockInv, Moves, Inv, Typed, TypeOK, Locals, MeInv, MeOf
  <2>16. CASE Collect(t)
    BY <1>0, <2>16
      DEF Collect, Enter, Goto, RdLock, CanRead, lock, Reading, LockInv, Moves, Inv, Typed, TypeOK, Locals, MeInv, MeOf
  <2>17. CASE AddToUpctx(t)
    BY <1>0, <2>17
      DEF AddToUpctx, Enter, Goto, lock, Reading, LockInv, Moves, Inv, Typed, TypeOK, Locals, MeInv, MeOf
  <2>18. CASE UpdateBegin(t)
    BY <1>0, <2>18
      DEF UpdateBegin, Enter, Goto, lock, Reading, LockInv, Moves, Inv, Typed, TypeOK, Locals, MeInv, MeOf
  <2>19. CASE DivideNext(t)
    BY <1>0, <2>19
      DEF DivideNext, Enter, Goto, lock, Reading, LockInv, Moves, Inv, Typed, TypeOK, Locals, MeInv, MeOf
  <2>20. CASE ExecuteEnd(t)
    BY <1>0, <2>20
      DEF ExecuteEnd, Enter, Goto, RdUnlock, lock, Reading, LockInv, Moves, Inv, Typed, TypeOK, Locals, MeInv, MeOf
  <2>21. CASE Wakeup(t)
    BY <1>0, <2>21
      DEF Wakeup, Enter, Goto, RdLock, CanRead, lock, Reading, LockInv, Moves, Inv, Typed, TypeOK, Locals, MeInv, MeOf
  <2>22. CASE Serve(t)
    <3>1. pc[t] = "serve" /\ writer' = writer
          /\ \/ pc'[t] = "take" /\ readers' = readers
             \/ pc'[t] \in {"idle", "alloc", "rcvd"} /\ readers' = readers \ {t}
      <4>1. CASE LeaveServe(t)
        BY <2>22, <4>1 DEF Serve, LeaveServe, RdUnlock, Back, Done, Goto, Enter, Inv, Typed, TypeOK, Locals
      <4>2. CASE ~LeaveServe(t)
        BY <2>22, <4>2 DEF Serve, Goto, lock, Enter, Inv, Typed, TypeOK
      <4> QED
        BY <4>1, <4>2
    <3> QED
      BY <1>0, <3>1 DEF Reading, LockInv, Moves, Inv
  <2>23. CASE Take(t)
    BY <1>0, <2>23
      DEF Take, Enter, Goto, LeaveServe, RdUnlock, Back, Done, lock, Reading, LockInv, Moves, Inv, Typed, TypeOK, Locals, MeInv, MeOf
  <2>24. CASE SndMsgBuf(t)
    BY <1>0, <2>24
      DEF SndMsgBuf, Enter, Done, CanWrite, lock, Reading, LockInv, Moves, Inv, Typed, TypeOK, Locals, MeInv, MeOf
  <2>25. CASE InitUpdateNode(t)
    BY <1>0, <2>25
      DEF InitUpdateNode, Enter, Goto, lock, Reading, LockInv, Moves, Inv, Typed, TypeOK, Locals, MeInv, MeOf
  <2> QED
    BY <1>c, <2>1, <2>2, <2>3, <2>4, <2>5, <2>6, <2>7, <2>8, <2>9, <2>10, <2>11, <2>12, <2>13, <2>14, <2>15,
       <2>16, <2>17, <2>18, <2>19, <2>20, <2>21, <2>22, <2>23, <2>24, <2>25 DEF Continue
<1> QED
  BY <1>h, <1>c

\* Each variable, and the actions that write it.
LEMMA WhoWrites ==
  ASSUME NEW t \in Threads, HostCall(t) \/ Continue(t)
  PROVE  /\ UNCHANGED config
         /\ UNCHANGED tokens \/ AdmitEnd(t) \/ IncreaseEnd(t) \/ ReduceEnd(t) \/ GFreeEnd(t) \/ Take(t)
         /\ \/ UNCHANGED tab \/ AdmitEnd(t) \/ Alloc(t) \/ NodeRcvd(t) \/ DivideNext(t)
            \/ \E i \in Ids : \/ NodeOffline(t, i)
                              \/ \E c \in Costs, f \in 0..fence_id : FreeTokens(t, i, f, c)
         /\ UNCHANGED <<cached, fence_id>> \/ GetNode(t) \/ DropNode(t)
         /\ UNCHANGED wait \/ DivideNext(t) \/ Take(t)
         /\ UNCHANGED cnt \/ ClearCount(t) \/ SwapCount(t)
         /\ UNCHANGED is_exe \/ Execute(t)
         /\ UNCHANGED ctx \/ AddToUpctx(t) \/ UpdateBegin(t) \/ DivideNext(t) \/ ExecuteEnd(t)
         /\ UNCHANGED told \/ SndMsgBuf(t)
         /\ UNCHANGED granted \/ Alloc(t)
<1>1. CASE HostCall(t)
  BY <1>1 DEF HostCall, AllocTokens, FreeTokens, Rcvd, NodeOnline, NodeOffline, NodeReset, SndMsg,
       Increase, Reduce, Begin, config, policy, history
<1>2. CASE Continue(t)
  BY <1>2 DEF Continue, CheckOnline, GetNode, AdmitBegin, AdmitEnd, DropNode, Alloc, IncreaseEnd,
       ReduceEnd, NodeRcvd, GFree, GFreeEnd, ClearCount, ReadCount, SwapCount, Execute, Collect,
       InitUpdateNode, AddToUpctx, UpdateBegin, DivideNext, ExecuteEnd, Wakeup, Serve, Take, SndMsgBuf,
       config, policy, history
<1> QED
  BY <1>1, <1>2

\* A view has the limits of the account, and a store leaves them.
LEMMA ViewLimits ==
  ASSUME Inv, NEW t \in Threads, pc[t] \in Viewing, NEW g \in Views(t)
  PROVE  g \in Account /\ SameLimits(g, tokens)
<1>1. tokens \in Account /\ me[t].snap \in Account /\ SameLimits(me[t].snap, tokens)
  BY DEF Inv, Typed, TypeOK, MeInv, MeOf
<1> QED
  BY <1>1 DEF Views, Account, SameLimits

\* A store over other threads' stores keeps the account's type and its limits.
LEMMA StoreLimits ==
  ASSUME Inv, NEW t \in Threads, NEW g \in Account, NEW r \in Account,
         SameLimits(r, g), Store(g, r)
  PROVE  /\ tokens' \in Account /\ SameLimits(tokens', tokens)
         /\ tokens'.num_cur = IF r.num_cur = g.num_cur THEN tokens.num_cur ELSE r.num_cur
<1>1. tokens \in Account
  BY DEF Inv, Typed, TypeOK
<1> QED
  BY <1>1 DEF Store, Account, SameLimits

\* The account keeps its type, and its limits for ever.
LEMMA TokensStep ==
  ASSUME Inv, NEW t \in Threads, HostCall(t) \/ Continue(t)
  PROVE  tokens' \in Account /\ SameLimits(tokens', tokens)
<1>1. CASE AdmitEnd(t)
  <2>1. PICK g \in Views(t) : Store(g, OnlineAccount(g)) \/ UNCHANGED tokens
    BY <1>1 DEF AdmitEnd
  <2>2. g \in Account /\ SameLimits(g, tokens)
    BY <1>1, ViewLimits DEF AdmitEnd, Enter, Viewing
  <2>3. me[t].amount \in Tokens
    BY DEF Inv, Typed, Locals
  <2>4. OnlineAccount(g) \in Account /\ SameLimits(OnlineAccount(g), g)
    BY <2>2, <2>3, OnlineAccountType
  <2> QED
    BY <2>1, <2>2, <2>4, StoreLimits DEF SameLimits, Inv, Typed, TypeOK
<1>2. CASE IncreaseEnd(t)
  <2>1. PICK g \in Views(t) : Store(g, IncreasedAccount(g, me[t].amount))
    BY <1>2 DEF IncreaseEnd
  <2>2. g \in Account /\ SameLimits(g, tokens)
    BY <1>2, ViewLimits DEF IncreaseEnd, Enter, Viewing
  <2>3. me[t].amount \in Tokens
    BY DEF Inv, Typed, Locals
  <2>4. IncreasedAccount(g, me[t].amount) \in Account /\ SameLimits(IncreasedAccount(g, me[t].amount), g)
    BY <2>2, <2>3, IncreasedAccountType
  <2> QED
    BY <2>1, <2>2, <2>4, StoreLimits DEF SameLimits, Inv, Typed, TypeOK
<1>3. CASE ReduceEnd(t)
  <2>1. PICK g \in Views(t) : Store(g, DecreasedAccount(g, me[t].amount)) \/ UNCHANGED tokens
    BY <1>3 DEF ReduceEnd
  <2>2. g \in Account /\ SameLimits(g, tokens)
    BY <1>3, ViewLimits DEF ReduceEnd, Enter, Viewing
  <2>3. me[t].amount \in Tokens
    BY DEF Inv, Typed, Locals
  <2>4. DecreasedAccount(g, me[t].amount) \in Account /\ SameLimits(DecreasedAccount(g, me[t].amount), g)
    BY <2>2, <2>3, DecreasedAccountType
  <2> QED
    BY <2>1, <2>2, <2>4, StoreLimits DEF SameLimits, Inv, Typed, TypeOK
<1>4. CASE GFreeEnd(t)
  <2>1. PICK g \in Views(t) : Store(g, FreedAccount(g, me[t].amount))
    BY <1>4 DEF GFreeEnd
  <2>2. g \in Account /\ SameLimits(g, tokens)
    BY <1>4, ViewLimits DEF GFreeEnd, Enter, Viewing
  <2>3. me[t].amount \in Tokens
    BY DEF Inv, Typed, Locals
  <2>4. FreedAccount(g, me[t].amount) \in Account /\ SameLimits(FreedAccount(g, me[t].amount), g)
    BY <2>2, <2>3, FreedAccountType
  <2> QED
    BY <2>1, <2>2, <2>4, StoreLimits DEF SameLimits, Inv, Typed, TypeOK
<1>5. CASE Take(t)
  <2>1. PICK g \in Views(t) : Store(g, TakenAccount(g, tab[me[t].first].quota_new - tab[me[t].first].quota))
    BY <1>5 DEF Take
  <2>2. g \in Account /\ SameLimits(g, tokens)
    BY <1>5, ViewLimits DEF Take, Enter, Viewing
  <2>3. tab[me[t].first].quota_new - tab[me[t].first].quota \in Tokens
    <3>1. /\ me[t].first \in Ids /\ Online(me[t].first)
          /\ tab[me[t].first].quota <= tab[me[t].first].quota_new
      BY <1>5 DEF Take, Enter, Inv, MeInv, MeOf
    <3>2. tab[me[t].first] \in Nodes
      BY <3>1 DEF Inv, Typed, TypeOK, Online
    <3>3. tab[me[t].first].quota \in Tokens /\ tab[me[t].first].quota_new \in Tokens
      BY <3>2 DEF Nodes
    <3> QED
      BY <3>1, <3>3, WordAssumption DEF Tokens
  <2>4. TakenAccount(g, tab[me[t].first].quota_new - tab[me[t].first].quota) \in Account /\ SameLimits(TakenAccount(g, tab[me[t].first].quota_new - tab[me[t].first].quota), g)
    BY <2>2, <2>3, TakenAccountType
  <2> QED
    BY <2>1, <2>2, <2>4, StoreLimits DEF SameLimits, Inv, Typed, TypeOK
<1>6. CASE UNCHANGED tokens
  BY <1>6 DEF SameLimits, Inv, Typed, TypeOK
<1> QED
  BY <1>1, <1>2, <1>3, <1>4, <1>5, <1>6, WhoWrites

\* A thread goes from one place of the code to another.
LEMMA PcStep ==
  ASSUME Inv, NEW t \in Threads, HostCall(t) \/ Continue(t)
  PROVE  pc' \in [Threads -> Places]
<1>1. pc \in [Threads -> Places] /\ me[t].back \in Places
  BY DEF Inv, Typed, TypeOK, Locals, Places
<1>2. CASE HostCall(t)
  BY <1>1, <1>2 DEF HostCall, AllocTokens, FreeTokens, Rcvd, NodeOnline, NodeOffline, NodeReset, SndMsg,
       Increase, Reduce, Begin, Goto, UpdatePolicy, Places
<1>3. CASE Continue(t)
  BY <1>1, <1>3 DEF Continue, CheckOnline, GetNode, AdmitBegin, AdmitEnd, DropNode, Alloc, IncreaseEnd,
       ReduceEnd, NodeRcvd, GFree, GFreeEnd, ClearCount, ReadCount, SwapCount, Execute, Collect,
       InitUpdateNode, AddToUpctx, UpdateBegin, DivideNext, ExecuteEnd, Wakeup, Serve, Take, SndMsgBuf, LeaveServe,
       Back, Done, Goto, UpdatePolicy, Places
<1> QED
  BY <1>2, <1>3

\* A confirmed quota is a word between the old quota and the target.
LEMMA RaisedType ==
  ASSUME NEW node \in Nodes, NEW confirmed \in Tokens
  PROVE  /\ Raised(node, confirmed) \in Tokens /\ Raised(node, confirmed) - node.quota \in Tokens
         /\ Raised(node, confirmed) >= node.quota
         /\ node.quota <= node.quota_new => Raised(node, confirmed) <= node.quota_new
<1>1. PICK least \in Tokens : least = Least(confirmed, node.quota_new) /\ least <= node.quota_new
  BY LeastType DEF Nodes
<1>2. Raised(node, confirmed) = IF node.quota < least THEN least ELSE node.quota
  BY <1>1 DEF Raised
<1>3. node.quota \in Tokens /\ node.quota_new \in Tokens
  BY DEF Nodes
<1> QED
  BY <1>1, <1>2, <1>3, WordAssumption DEF Tokens

\* The changes of a thread's locals that occur keep their type.
LEMMA LocalsWith ==
  ASSUME NEW l \in Locals
  PROVE  /\ \A a \in Tokens : [l EXCEPT !.amount = a] \in Locals
         /\ \A a \in Tokens, b \in {"idle", "alloc", "rcvd"} : [l EXCEPT !.amount = a, !.back = b] \in Locals
         /\ \A i \in Ids, a \in Tokens, b \in {"idle", "alloc", "rcvd"} :
              [l EXCEPT !.id = i, !.amount = a, !.back = b] \in Locals
         /\ \A s \in Account : [l EXCEPT !.snap = s] \in Locals
         /\ \A s \in Account, a \in Tokens : [l EXCEPT !.amount = a, !.snap = s] \in Locals
         /\ \A a \in Tokens : [l EXCEPT !.snap = <<>>, !.amount = a] \in Locals
         /\ \A n \in Nat, d \in BOOLEAN : [l EXCEPT !.new = n, !.due = d] \in Locals
<1>1. \A a \in Tokens : [l EXCEPT !.amount = a] \in Locals
  BY DEF Locals
<1>2. \A a \in Tokens, b \in {"idle", "alloc", "rcvd"} : [l EXCEPT !.amount = a, !.back = b] \in Locals
  BY DEF Locals
<1>3. \A i \in Ids, a \in Tokens, b \in {"idle", "alloc", "rcvd"} :
              [l EXCEPT !.id = i, !.amount = a, !.back = b] \in Locals
  BY DEF Locals
<1>4. \A s \in Account : [l EXCEPT !.snap = s] \in Locals
  BY DEF Locals
<1>5. \A s \in Account, a \in Tokens : [l EXCEPT !.amount = a, !.snap = s] \in Locals
  BY DEF Locals
<1>6. \A a \in Tokens : [l EXCEPT !.snap = <<>>, !.amount = a] \in Locals
  BY DEF Locals
<1>7. \A n \in Nat, d \in BOOLEAN : [l EXCEPT !.new = n, !.due = d] \in Locals
  BY DEF Locals
<1> QED
  BY <1>1, <1>2, <1>3, <1>4, <1>5, <1>6, <1>7

\* The locals keep their type.
LEMMA MeStep ==
  ASSUME Inv, NEW t \in Threads, HostCall(t) \/ Continue(t)
  PROVE  me' \in [Threads -> Locals]
<1>1. /\ tokens \in Account /\ me \in [Threads -> Locals] /\ me[t] \in Locals /\ NoMe \in Locals
      /\ Units \cup Costs \cup Garbage \subseteq Tokens /\ 0 \in Tokens
      /\ cnt \in Nat /\ fence_id \in Nat /\ interval \in Nat
  BY ParamAssumption, WordAssumption DEF NoMe, Locals, Tokens, Inv, Typed, TypeOK
<1>2. CASE HostCall(t)
  <2>1. CASE UNCHANGED me
    BY <1>1, <2>1
  <2>2. CASE \E i \in Ids, c \in Costs, back \in {"idle", "alloc", "rcvd"} :
               me' = [me EXCEPT ![t] = [NoMe EXCEPT !.id = i, !.amount = c, !.back = back]]
    <3>1. PICK i \in Ids, c \in Costs, back \in {"idle", "alloc", "rcvd"} :
            me' = [me EXCEPT ![t] = [NoMe EXCEPT !.id = i, !.amount = c, !.back = back]]
      BY <2>2
    <3>2. [NoMe EXCEPT !.id = i, !.amount = c, !.back = back] \in Locals
      BY <1>1, LocalsWith
    <3> QED
      BY <1>1, <3>1, <3>2
  <2>3. CASE \E i \in Ids, back \in {"idle", "alloc", "rcvd"} :
               me' = [me EXCEPT ![t] = [NoMe EXCEPT !.id = i, !.amount = 0, !.back = back]]
    <3>1. PICK i \in Ids, back \in {"idle", "alloc", "rcvd"} :
            me' = [me EXCEPT ![t] = [NoMe EXCEPT !.id = i, !.amount = 0, !.back = back]]
      BY <2>3
    <3>2. [NoMe EXCEPT !.id = i, !.amount = 0, !.back = back] \in Locals
      BY <1>1, LocalsWith
    <3> QED
      BY <1>1, <3>1, <3>2
  <2>4. CASE \E u \in Units : me' = [me EXCEPT ![t] = [NoMe EXCEPT !.amount = u, !.snap = tokens]]
    <3>1. PICK u \in Units : me' = [me EXCEPT ![t] = [NoMe EXCEPT !.amount = u, !.snap = tokens]]
      BY <2>4
    <3>2. [NoMe EXCEPT !.amount = u, !.snap = tokens] \in Locals
      BY <1>1, LocalsWith
    <3> QED
      BY <1>1, <3>1, <3>2
  <2> QED
    BY <1>2, <2>1, <2>2, <2>3, <2>4 DEF HostCall, AllocTokens, FreeTokens, Rcvd, NodeOnline, NodeOffline,
       NodeReset, SndMsg, Increase, Reduce, Begin
<1>3. CASE Continue(t)
  <2>1. CASE UNCHANGED me \/ me' = [me EXCEPT ![t] = NoMe]
    BY <1>1, <2>1
  <2>2. CASE Load(t) \/ Forget(t)
    <3>1. [me[t] EXCEPT !.snap = tokens] \in Locals /\ [me[t] EXCEPT !.snap = <<>>, !.amount = 0] \in Locals
      BY <1>1, LocalsWith
    <3>2. CASE Load(t)
      BY <1>1, <3>1, <3>2 DEF Load
    <3>3. CASE Forget(t)
      BY <1>1, <3>1, <3>3 DEF Forget
    <3> QED
      BY <2>2, <3>2, <3>3
  <2>3. CASE GetNode(t) /\ me' = [me EXCEPT ![t].fence = fence_id]
    BY <1>1, <2>3 DEF Locals
  <2>4. CASE AdmitEnd(t)
    BY <1>1, <2>4 DEF AdmitEnd, Locals
  <2>5. CASE NodeRcvd(t) /\ ~ Done(t)
    <3>1. CASE me' = [me EXCEPT ![t].back = "idle"]
      BY <1>1, <3>1 DEF Locals
    <3>2. CASE \E confirmed \in Garbage :
                 /\ Online(me[t].id) /\ me[t].id \in Ids
                 /\ me' = [me EXCEPT ![t].amount = Raised(tab[me[t].id], confirmed) - tab[me[t].id].quota,
                                     ![t].back = "idle"]
      <4>1. PICK confirmed \in Garbage :
                 me' = [me EXCEPT ![t].amount = Raised(tab[me[t].id], confirmed) - tab[me[t].id].quota,
                                  ![t].back = "idle"]
        BY <3>2
      <4>2. tab[me[t].id] \in Nodes
        BY <3>2 DEF Inv, Typed, TypeOK, Online
      <4>3. Raised(tab[me[t].id], confirmed) - tab[me[t].id].quota \in Tokens
        BY <1>1, <4>2, RaisedType
      <4> QED
        BY <1>1, <4>1, <4>3 DEF Locals
    <3>3. me[t].id \in Ids
      BY <2>5 DEF NodeRcvd, Enter, Inv, MeInv, MeOf, HasId
    <3> QED
      BY <2>5, <3>1, <3>2, <3>3 DEF NodeRcvd
  <2>6. CASE ReadCount(t)
    <3>1. UpCnt(cnt) \in Nat
      BY <1>1 DEF UpCnt
    <3>2. CASE me' = [me EXCEPT ![t].old = cnt]
      BY <1>1, <3>2 DEF Locals
    <3>3. CASE me' = [me EXCEPT ![t] = [me[t] EXCEPT !.new = UpCnt(cnt), !.due = (cnt >= interval)]]
      <4>1. (cnt >= interval) \in BOOLEAN
        OBVIOUS
      <4>2. [me[t] EXCEPT !.new = UpCnt(cnt), !.due = (cnt >= interval)] \in Locals
        BY ONLY <1>1, <3>1, <4>1, LocalsWith, Zenon
      <4> QED
        BY ONLY <1>1, <3>3, <4>2, Zenon
    <3>4. me' = [me EXCEPT ![t].new = UpCnt(cnt), ![t].due = (cnt >= interval)]
            => me' = [me EXCEPT ![t] = [me[t] EXCEPT !.new = UpCnt(cnt), !.due = (cnt >= interval)]]
      BY <1>1
    <3> QED
      BY <2>6, <3>2, <3>3, <3>4 DEF ReadCount
  <2>7. CASE Serve(t) /\ me' = [me EXCEPT ![t].first = Head(wait), ![t].snap = tokens] /\ wait # <<>>
    <3>1. Head(wait) \in Ids
      BY <2>7 DEF Inv, Typed, TypeOK
    <3> QED
      BY <1>1, <2>7, <3>1 DEF Locals
  <2>8. CASE me' = [me EXCEPT ![t].first = NoNode, ![t].snap = <<>>]
    BY <1>1, <2>8 DEF Locals
  <2>9. CASE InitUpdateNode(t)
    <3>1. PICK i \in Ids : Online(i) /\ me' = [me EXCEPT ![t].first = i, ![t].snap = tab[i]]
      BY <2>9 DEF InitUpdateNode, ToGather
    <3>2. tab[i] \in Nodes
      BY <3>1 DEF Inv, Typed, TypeOK, Online
    <3> QED
      BY <1>1, <3>1, <3>2 DEF Locals
  <2> QED
    BY <1>3, <2>1, <2>2, <2>3, <2>4, <2>5, <2>6, <2>7, <2>8, <2>9
       DEF Continue, CheckOnline, GetNode, AdmitBegin, DropNode, Alloc, IncreaseEnd,
       ReduceEnd, NodeRcvd, GFree, GFreeEnd, ClearCount, SwapCount, Execute, Collect,
       InitUpdateNode, AddToUpctx, UpdateBegin, DivideNext, ExecuteEnd, Wakeup, Serve, Take, SndMsgBuf, LeaveServe,
       Back, Done
<1> QED
  BY <1>2, <1>3

\* Zero is neutral.
LEMMA PlusIs ==
  ASSUME NEW a \in Tokens
  PROVE  Plus(0, a) = a /\ Plus(a, 0) = a /\ Minus(a, 0) = a
BY WordAssumption DEF Plus, Minus, Tokens

\* The context of a run with one node, spelled out.
LEMMA AloneIs ==
  ASSUME Typed, NEW i \in Ids, NEW w \in Tokens
  PROVE  /\ Alone(i, w) = [node |-> <<[id |-> i, base |-> tokens.min, tmp |-> 0, weight |-> w]>>,
                           weight |-> w, total |-> 0, static |-> tokens.min, left |-> 0,
                           loop |-> 0, pos |-> 1]
         /\ LET c == Begun(Alone(i, w))
            IN  /\ c.node = <<[id |-> i, base |-> tokens.min, tmp |-> 0, weight |-> w]>>
                /\ c.weight = w /\ c.total = 0 /\ c.static = tokens.min
                /\ c.left = Minus(0, tokens.min) /\ c.loop = 1 /\ c.pos = 1
<1>1. tokens.min \in Tokens /\ 0 \in Tokens
  BY WordAssumption DEF Typed, TypeOK, Account, Tokens
<1>2. UpdateNode(i, tokens.min, tokens.min, w) = [id |-> i, base |-> tokens.min, tmp |-> 0, weight |-> w]
  BY <1>1 DEF UpdateNode, Least, Tokens
<1>3. /\ Plus(0, w) = w /\ Plus(0, 0) = 0 /\ Plus(0, tokens.min) = tokens.min
  BY <1>1, PlusIs
<1>4. \A u : <<u>> \o <<>> = <<u>>
  OBVIOUS
<1>5. Alone(i, w) = [node |-> <<[id |-> i, base |-> tokens.min, tmp |-> 0, weight |-> w]>>,
                     weight |-> w, total |-> 0, static |-> tokens.min, left |-> 0,
                     loop |-> 0, pos |-> 1]
  <2>1. PICK u : u = [id |-> i, base |-> tokens.min, tmp |-> 0, weight |-> w]
    OBVIOUS
  <2>2. u.weight = w /\ u.tmp = 0 /\ u.base = tokens.min
    BY <2>1
  <2>3. Alone(i, w) = AddResource(NoContext, u)
    BY <1>2, <2>1 DEF Alone
  <2>4. AddResource(NoContext, u) =
          [node |-> <<u>> \o <<>>, weight |-> Plus(0, u.weight), total |-> Plus(0, u.tmp),
           static |-> Plus(0, u.base), left |-> 0, loop |-> 0, pos |-> 1]
    BY DEF AddResource, NoContext
  <2> QED
    BY <1>3, <1>4, <2>1, <2>2, <2>3, <2>4
<1> DEFINE c == Begun(Alone(i, w))
<1>6. /\ c.node = <<[id |-> i, base |-> tokens.min, tmp |-> 0, weight |-> w]>>
      /\ c.weight = w /\ c.total = 0 /\ c.static = tokens.min
      /\ c.left = Minus(0, tokens.min) /\ c.loop = 1 /\ c.pos = 1
  <2>1. PICK d : d = Alone(i, w)
    OBVIOUS
  <2>2. /\ d.node = <<[id |-> i, base |-> tokens.min, tmp |-> 0, weight |-> w]>> /\ d.node # <<>>
        /\ d.weight = w /\ d.total = 0 /\ d.static = tokens.min /\ d.pos = 1
    BY <1>5, <2>1
  <2>4. [id |-> i, base |-> tokens.min, tmp |-> 0, weight |-> w] \in UNodes
    BY <1>1 DEF UNodes
  <2>5. <<[id |-> i, base |-> tokens.min, tmp |-> 0, weight |-> w]>> \in Seq(UNodes)
    BY <2>4
  <2>6. d \in Contexts
    BY <1>1, <1>5, <2>1, <2>5 DEF Contexts
  <2>3. c = [d EXCEPT !.left = Minus(d.total, d.static), !.loop = 1]
    BY <2>1, <2>2 DEF Begun, LeftBase
  <2> HIDE DEF c
  <2> QED
    BY <2>2, <2>3, <2>6 DEF Contexts
<1> QED
  BY <1>5, <1>6

\* A division has one node left, which is online.
LEMMA Divided1 ==
  ASSUME Inv, NEW t \in Threads, pc[t] = "divide"
  PROVE  /\ ctx.pos = 1 /\ ctx.loop \in {1, 2} /\ Current(ctx) \in UNodes /\ ctx.node = <<Current(ctx)>>
         /\ Current(ctx).id \in Ids /\ Online(Current(ctx).id)
         /\ tab[Current(ctx).id] \in Nodes
<1>1. tokens.min \in Tokens /\ 0 \in Tokens /\ Typed
  BY WordAssumption DEF Inv, Typed, TypeOK, Account, Tokens
<1>2. PICK u \in UNodes : ctx.pos = 1 /\ ctx.loop \in {1, 2} /\ ctx.node = <<u>> /\ Online(u.id)
  <2>1. CASE \E i \in Ids, w \in Tokens : Online(i) /\ ctx = Begun(Alone(i, w))
    <3>1. PICK i \in Ids, w \in Tokens : Online(i) /\ ctx = Begun(Alone(i, w))
      BY <2>1
    <3>2. ctx.node = <<[id |-> i, base |-> tokens.min, tmp |-> 0, weight |-> w]>> /\ ctx.loop = 1 /\ ctx.pos = 1
      BY <1>1, <3>1, AloneIs
    <3>3. [id |-> i, base |-> tokens.min, tmp |-> 0, weight |-> w] \in UNodes
      BY <1>1 DEF UNodes
    <3> QED
      BY <3>1, <3>2, <3>3
  <2>2. CASE Rest
    BY <2>2 DEF Rest
  <2> QED
    BY <2>1, <2>2 DEF Inv, CtxInv, CtxOf
<1>3. Current(ctx) = u
  BY <1>2 DEF Current
<1>4. u.id \in Ids
  BY DEF UNodes
<1> QED
  BY <1>2, <1>3, <1>4 DEF Inv, Typed, TypeOK, Online

\* What a turn that does not abort asks for is a word.
LEMMA NextQuotaType ==
  ASSUME Inv, NEW t \in Threads, pc[t] = "divide", ctx.loop = 1 => ctx.weight > 0
  PROVE  NextQuota(ctx) \in Tokens
<1>1. ctx \in Contexts /\ Current(ctx) \in UNodes
  BY Divided1 DEF Inv, Typed
<1>2. /\ ctx.weight \in Tokens /\ ctx.total \in Tokens /\ ctx.static \in Tokens /\ ctx.left \in Tokens
      /\ Current(ctx).base \in Tokens /\ Current(ctx).tmp \in Tokens /\ Current(ctx).weight \in Tokens
  BY <1>1 DEF Contexts, UNodes
<1>3. CASE ctx.loop = 1
  <2>1. LeftBase(ctx) \in Tokens
    BY <1>2, TokensAre, PlusType DEF LeftBase
  <2>2. ((LeftBase(ctx) * Current(ctx).weight) % Word) \in Nat
    BY <1>2, <2>1, WordAssumption, TokensAre
  <2>3. (((LeftBase(ctx) * Current(ctx).weight) % Word) \div ctx.weight) \in Int
    BY <1>2, <1>3, <2>2, TokensAre
  <2> QED
    BY <1>2, <1>3, <2>3, TokensAre, PlusType DEF NextQuota
<1>4. CASE ctx.loop # 1
  BY <1>2, <1>4, TokensAre, PlusType DEF NextQuota
<1> QED
  BY <1>3, <1>4

\* The steps that change what is known of an online application.
NodeStep(t, i, node) ==
  /\ Online(i) /\ NodeFree(i)
  /\ node \in Nodes /\ node.fence = tab[i].fence
  /\ tab' = [tab EXCEPT ![i] = node]
  /\ \/ \E c \in Costs : /\ Alloc(t) /\ CostFits(tab[i], c) /\ node.inuse = Plus(tab[i].inuse, c)
                         /\ granted' = granted \cup {<<i, tab[i].fence, c>>}
                         /\ node.quota = tab[i].quota /\ node.quota_new = tab[i].quota_new
                         /\ node.version = tab[i].version
     \/ \E c \in Costs : /\ FreeAssertion(tab[i], c) /\ <<i, tab[i].fence, c>> \in granted
                         /\ node.inuse = Minus(tab[i].inuse, c) /\ granted' = granted
                         /\ node.quota = tab[i].quota /\ node.quota_new = tab[i].quota_new
                         /\ node.version = tab[i].version
     \/ \E c \in Tokens : /\ NodeRcvd(t)
                          /\ node.quota = Raised(tab[i], c) /\ node.quota_new = tab[i].quota_new
                          /\ node.inuse = tab[i].inuse /\ granted' = granted
                          /\ node.version = tab[i].version
     \/ /\ DivideNext(t) /\ node.quota = tab[i].quota /\ node.quota_new = NextQuota(ctx)
        /\ node.inuse = tab[i].inuse /\ granted' = granted /\ i = Current(ctx).id
        /\ node.version = IF NextQuota(ctx) = tab[i].quota_new THEN tab[i].version ELSE tab[i].version + 1

\* All that a step may do to the table.
LEMMA TabStep ==
  ASSUME Inv, NEW t \in Threads, HostCall(t) \/ Continue(t)
  PROVE  \/ tab' = tab /\ granted' = granted
         \/ /\ AdmitEnd(t) /\ me[t].id \in Ids /\ ~Online(me[t].id) /\ granted' = granted
            /\ tab' = [tab EXCEPT ![me[t].id] = NewNode(me[t].fence, tokens.min)]
            /\ NewNode(me[t].fence, tokens.min) \in Nodes
         \/ \E i \in Ids : /\ Online(i) /\ aborted' = "offline" /\ tab' = [tab EXCEPT ![i] = NoNode]
                           /\ granted' = granted /\ readers = {}
         \/ \E i \in Ids, node \in Nodes : NodeStep(t, i, node)
<1>0. /\ tab \in [Ids -> Nodes \cup {NoNode}] /\ NoNode \notin Nodes /\ me[t] \in Locals
      /\ Costs \subseteq Tokens /\ Garbage \subseteq Tokens
  BY NoNodeAssumption, ParamAssumption DEF Inv, Typed, TypeOK
<1>1. CASE AdmitEnd(t) /\ ~UNCHANGED tab
  <2>1. pc[t] = "online" /\ granted' = granted
    BY <1>1 DEF AdmitEnd, Enter, history
  <2>2. me[t].id \in Ids /\ ~Online(me[t].id)
    BY <2>1 DEF Inv, MeInv, MeOf, HasId
  <2>3. tokens.min \in Tokens /\ 0 \in Tokens /\ me[t].fence \in Nat
    BY <1>0, WordAssumption DEF Inv, Typed, TypeOK, Account, Tokens, Locals
  <2>4. NewNode(me[t].fence, tokens.min) \in Nodes
    BY <2>3 DEF NewNode, Nodes
  <2>5. PICK g \in Views(t) : tab' = [tab EXCEPT ![me[t].id] = NewNode(me[t].fence, g.min)]
    BY <1>1 DEF AdmitEnd
  <2>6. g.min = tokens.min
    BY <2>1, ViewLimits DEF Viewing, SameLimits
  <2> QED
    BY <1>1, <2>1, <2>2, <2>4, <2>5, <2>6
<1>2. ASSUME NEW i \in Ids, NodeOffline(t, i)
      PROVE  \/ tab' = tab /\ granted' = granted
             \/ /\ Online(i) /\ aborted' = "offline" /\ tab' = [tab EXCEPT ![i] = NoNode]
                /\ granted' = granted /\ readers = {}
  BY <1>2 DEF NodeOffline, history, Abort, CanWrite
<1>3. CASE Alloc(t) /\ ~(tab' = tab /\ granted' = granted)
  <2>1. PICK i, c : i = me[t].id /\ c = me[t].amount
    OBVIOUS
  <2>2. pc[t] = "alloc" /\ Online(i) /\ NodeFree(i) /\ CostFits(tab[i], c)
    BY <1>3, <2>1 DEF Alloc, Enter
  <2>3. i \in Ids /\ c \in Costs
    BY <2>1, <2>2 DEF Inv, MeInv, MeOf, HasId
  <2>4. tab[i] \in Nodes
    BY <1>0, <2>2, <2>3 DEF Online
  <2>5. Plus(tab[i].inuse, c) \in Tokens
    BY <1>0, <2>3, <2>4, PlusType, TokensAre DEF Nodes
  <2>6. PICK node : node = [tab[i] EXCEPT !.inuse = Plus(@, c)]
    OBVIOUS
  <2>7. /\ node \in Nodes /\ node.fence = tab[i].fence /\ node.inuse = Plus(tab[i].inuse, c)
        /\ node.quota = tab[i].quota /\ node.quota_new = tab[i].quota_new
        /\ node.version = tab[i].version
    BY <2>4, <2>5, <2>6 DEF Nodes
  <2>8. tab' = [tab EXCEPT ![i] = node] /\ granted' = granted \cup {<<i, tab[i].fence, c>>}
    BY <1>0, <1>3, <2>1, <2>2, <2>3, <2>6 DEF Alloc
  <2>9. NodeStep(t, i, node)
    BY <1>3, <2>2, <2>3, <2>7, <2>8 DEF NodeStep
  <2> QED
    BY <2>3, <2>7, <2>9
<1>4. ASSUME NEW i \in Ids, NEW c \in Costs, NEW f \in 0..fence_id, FreeTokens(t, i, f, c)
      PROVE  \/ tab' = tab /\ granted' = granted
             \/ \E node \in Nodes : NodeStep(t, i, node)
  <2>1. CASE UNCHANGED tab
    BY <1>4, <2>1 DEF FreeTokens, history
  <2>2. CASE ~UNCHANGED tab
    <3>1. /\ Online(i) /\ NodeFree(i) /\ tab[i].fence = f /\ FreeAssertion(tab[i], c)
          /\ <<i, f, c>> \in granted /\ tab' = [tab EXCEPT ![i].inuse = Minus(@, c)] /\ granted' = granted
      BY <1>4, <2>2 DEF FreeTokens, history
    <3>2. tab[i] \in Nodes
      BY <1>0, <3>1 DEF Online
    <3>3. Minus(tab[i].inuse, c) \in Tokens
      BY <1>0, <3>2, PlusType, TokensAre DEF Nodes
    <3>4. PICK node : node = [tab[i] EXCEPT !.inuse = Minus(@, c)]
      OBVIOUS
    <3>5. /\ node \in Nodes /\ node.fence = tab[i].fence /\ node.inuse = Minus(tab[i].inuse, c)
          /\ node.quota = tab[i].quota /\ node.quota_new = tab[i].quota_new
          /\ node.version = tab[i].version
      BY <3>2, <3>3, <3>4 DEF Nodes
    <3>6. tab' = [tab EXCEPT ![i] = node]
      BY <1>0, <3>1, <3>4
    <3>7. NodeStep(t, i, node)
      BY <3>1, <3>5, <3>6 DEF NodeStep
    <3> QED
      BY <3>5, <3>7
  <2> QED
    BY <2>1, <2>2
<1>5. CASE NodeRcvd(t)
  <2>1. CASE UNCHANGED tab
    BY <1>5, <2>1 DEF NodeRcvd, history
  <2>2. CASE ~UNCHANGED tab
    <3>1. PICK i : i = me[t].id
      OBVIOUS
    <3>2. pc[t] = "rcvd" /\ Online(i) /\ NodeFree(i) /\ granted' = granted
      BY <1>5, <2>2, <3>1 DEF NodeRcvd, Enter, history
    <3>3. PICK press \in Garbage, c \in Garbage :
            tab' = [tab EXCEPT ![i].press = press, ![i].quota = Raised(tab[i], c)]
      BY <1>5, <2>2, <3>1 DEF NodeRcvd
    <3>4. i \in Ids
      BY <3>1, <3>2 DEF Inv, MeInv, MeOf, HasId
    <3>5. tab[i] \in Nodes
      BY <1>0, <3>2, <3>4 DEF Online
    <3>6. Raised(tab[i], c) \in Tokens /\ c \in Tokens /\ press \in Tokens
      BY <1>0, <3>5, RaisedType
    <3>7. PICK node : node = [tab[i] EXCEPT !.press = press, !.quota = Raised(tab[i], c)]
      OBVIOUS
    <3>8. /\ node \in Nodes /\ node.fence = tab[i].fence /\ node.inuse = tab[i].inuse
          /\ node.quota = Raised(tab[i], c) /\ node.quota_new = tab[i].quota_new
          /\ node.version = tab[i].version
      BY <3>5, <3>6, <3>7 DEF Nodes
    <3>9. tab' = [tab EXCEPT ![i] = node]
      BY <1>0, <3>3, <3>4, <3>7
    <3>10. NodeStep(t, i, node)
      BY <1>5, <3>2, <3>6, <3>8, <3>9 DEF NodeStep
    <3> QED
      BY <3>4, <3>8, <3>10
  <2> QED
    BY <2>1, <2>2
<1>6. CASE DivideNext(t)
  <2>1. CASE UNCHANGED tab
    BY <1>6, <2>1 DEF DivideNext, history
  <2>2. CASE ~UNCHANGED tab
    <3>1. PICK i : i = Current(ctx).id
      OBVIOUS
    <3>2. /\ pc[t] = "divide" /\ NodeFree(i) /\ granted' = granted
          /\ ctx.loop = 1 => ctx.weight > 0
          /\ SetQuotaNew(i, NextQuota(ctx))
      BY <1>6, <2>2, <3>1 DEF DivideNext, Enter, history
    <3>3. i \in Ids /\ Online(i) /\ tab[i] \in Nodes
      BY <3>1, <3>2, Divided1
    <3>4. PICK q \in Tokens : q = NextQuota(ctx)
      BY <3>2, NextQuotaType
    <3>5. PICK v \in Nat : v = IF q = tab[i].quota_new THEN tab[i].version ELSE tab[i].version + 1
      BY <3>3 DEF Nodes
    <3>6. PICK node : node = [tab[i] EXCEPT !.quota_new = q, !.version = v]
      OBVIOUS
    <3>7. /\ node \in Nodes /\ node.fence = tab[i].fence /\ node.inuse = tab[i].inuse
          /\ node.quota = tab[i].quota /\ node.quota_new = q /\ node.version = v
      BY <3>3, <3>4, <3>5, <3>6 DEF Nodes
    <3>8. tab' = [tab EXCEPT ![i] = node]
      BY <1>0, <3>2, <3>3, <3>4, <3>5, <3>6 DEF SetQuotaNew
    <3>9. NodeStep(t, i, node)
      BY <1>6, <3>1, <3>2, <3>3, <3>4, <3>5, <3>7, <3>8 DEF NodeStep
    <3> QED
      BY <3>3, <3>7, <3>9
  <2> QED
    BY <2>1, <2>2
<1> QED
  BY <1>1, <1>2, <1>3, <1>4, <1>5, <1>6, WhoWrites DEF AdmitEnd

\* The rwlock's own state: readers are threads, and there is no writer beside them.
LEMMA ReadersStep ==
  ASSUME Inv, NEW t \in Threads, HostCall(t) \/ Continue(t)
  PROVE  /\ readers' \subseteq Threads /\ writer' \in Threads \cup {NoThread}
         /\ readers' # {} => writer' = NoThread
<1>1. /\ readers \subseteq Threads /\ writer \in Threads \cup {NoThread}
      /\ readers # {} => writer = NoThread
  BY DEF Inv, Typed, TypeOK
<1>2. \/ readers' \subseteq readers /\ writer' = writer
      \/ readers' = readers \cup {t} /\ writer = NoThread /\ writer' = writer
      \/ readers' = readers /\ writer' = NoThread
      \/ readers = {} /\ readers' = readers /\ writer' = t
  <2>1. CASE HostCall(t)
    BY <2>1 DEF HostCall, AllocTokens, FreeTokens, Rcvd, NodeOnline, NodeOffline, NodeReset, SndMsg,
       Increase, Reduce, Begin, RdLock, CanRead, lock
  <2>2. CASE Continue(t)
    BY <2>2 DEF Continue, CheckOnline, GetNode, AdmitBegin, AdmitEnd, DropNode, Alloc, IncreaseEnd,
       ReduceEnd, NodeRcvd, GFree, GFreeEnd, ClearCount, ReadCount, SwapCount, Execute, Collect,
       InitUpdateNode, AddToUpctx, UpdateBegin, DivideNext, ExecuteEnd, Wakeup, Serve, Take, SndMsgBuf, LeaveServe,
       RdLock, RdUnlock, CanRead, CanWrite, lock
  <2> QED
    BY <2>1, <2>2
<1> QED
  BY <1>1, <1>2

\* A thread that steps finds the program running.
LEMMA Running1 ==
  ASSUME NEW t \in Threads, HostCall(t) \/ Continue(t)
  PROVE  aborted = "no"
BY DEF HostCall, AllocTokens, FreeTokens, Rcvd, NodeOnline, NodeOffline, NodeReset, SndMsg,
   Increase, Reduce, Begin, Call, Continue, CheckOnline, GetNode, AdmitBegin, AdmitEnd, DropNode,
   Alloc, IncreaseEnd, ReduceEnd, NodeRcvd, GFree, GFreeEnd, ClearCount, ReadCount, SwapCount,
   Execute, Collect, InitUpdateNode, AddToUpctx, UpdateBegin, DivideNext, ExecuteEnd, Wakeup, Serve, Take,
   SndMsgBuf, Enter

\* The table and the cache are counted by natural numbers.
LEMMA Counted ==
  ASSUME Inv, aborted # "offline"
  PROVE  /\ IsFiniteSet(OnlineIds) /\ IsFiniteSet(Holders)
         /\ Cardinality(OnlineIds) \in Nat /\ Cardinality(Holders) \in Nat
         /\ cached = Cardinality(OnlineIds) + Cardinality(Holders)
         /\ tokens.num_cur = Cardinality(OnlineIds)
         /\ cached <= tokens.num_max /\ tokens.num_max \in Tokens
<1>1. IsFiniteSet(OnlineIds) /\ IsFiniteSet(Holders)
  BY FiniteAssumption, FS_Subset DEF OnlineIds, Holders
<1>2. Cardinality(OnlineIds) \in Nat /\ Cardinality(Holders) \in Nat
  BY <1>1, FS_CardinalityType
<1> QED
  BY <1>1, <1>2 DEF Inv, SeatsMatch, Holders, Typed, TypeOK, Account

\* There is never a second node.
LEMMA AtMostOne ==
  ASSUME Inv, aborted # "offline", NEW i \in Ids, NEW j \in Ids, Online(i), Online(j)
  PROVE  i = j
<1>1. tokens.num_max = 1
  BY DEF Inv, EmptyUnlessOneSeat, OnlineIds
<1>2. Cardinality(OnlineIds) <= 1 /\ IsFiniteSet(OnlineIds)
  BY <1>1, Counted, TokensAre
<1>3. ASSUME i # j PROVE FALSE
  <2>1. IsFiniteSet({i}) /\ Cardinality({i}) = 1
    BY FS_Singleton
  <2>2. Cardinality({i} \cup {j}) = 2
    BY <1>3, <2>1, FS_AddElement
  <2>3. {i} \cup {j} \subseteq OnlineIds
    BY DEF OnlineIds
  <2>4. Cardinality({i} \cup {j}) <= Cardinality(OnlineIds)
    BY <1>2, <2>3, FS_Subset
  <2> QED
    BY <1>2, <2>2, <2>4, Counted
<1> QED
  BY <1>3

\* The node that an admission puts in the table.
LEMMA NewNodeType ==
  ASSUME Inv, NEW t \in Threads
  PROVE  NewNode(me[t].fence, tokens.min) \in Nodes
<1>1. me[t] \in Locals /\ tokens \in Account
  BY DEF Inv, Typed, TypeOK
<1>2. me[t].fence \in Nat /\ tokens.min \in Tokens
  BY <1>1 DEF Locals, Account
<1>3. 0 \in Tokens
  BY TokensAre, WordAssumption
<1> QED
  BY <1>2, <1>3 DEF NewNode, Nodes

\* An admission that changes nothing in the table changes nothing in the account.
LEMMA AdmitRefused ==
  ASSUME Inv, NEW t \in Threads, AdmitEnd(t), UNCHANGED tab
  PROVE  UNCHANGED tokens
<1>1. pc[t] = "online" /\ me[t].id \in Ids /\ ~Online(me[t].id)
  BY DEF AdmitEnd, Enter, Inv, MeInv, MeOf, HasId
<1>2. NewNode(me[t].fence, tokens.min) # NoNode
  BY NewNodeType, NoNodeAssumption
<1>3. \A g \in Views(t) : g.min = tokens.min
  BY <1>1, ViewLimits DEF Viewing, SameLimits
<1>4. \A g \in Views(t) : tab' # [tab EXCEPT ![me[t].id] = NewNode(me[t].fence, g.min)]
  BY <1>1, <1>2, <1>3 DEF Online, Inv, Typed, TypeOK
<1> QED
  BY <1>4 DEF AdmitEnd

\* Only an admission counts a node in the account.
LEMMA NumCurStep ==
  ASSUME Inv, NEW t \in Threads, HostCall(t) \/ Continue(t)
  PROVE  \/ tokens'.num_cur = tokens.num_cur /\ ~(AdmitEnd(t) /\ ~UNCHANGED tab)
         \/ /\ AdmitEnd(t) /\ me[t].id \in Ids /\ ~Online(me[t].id)
            /\ Plus(tokens.num_cur, 1) >= tokens.num_max
            /\ tab' = [tab EXCEPT ![me[t].id] = NewNode(me[t].fence, tokens.min)]
            /\ pc' = [pc EXCEPT ![t] = "clear"]
            /\ tokens'.num_cur = Plus(tokens.num_cur, 1)
<1>0. tokens \in Account /\ me[t].amount \in Tokens
  BY DEF Inv, Typed, TypeOK, Locals
<1>1. CASE AdmitEnd(t) /\ ~UNCHANGED tab
  <2>1. pc[t] = "online"
    BY <1>1 DEF AdmitEnd, Enter
  <2>2. PICK g \in Views(t) : /\ Admits(g) /\ Store(g, OnlineAccount(g))
                              /\ pc' = [pc EXCEPT ![t] = "clear"]
                              /\ tab' = [tab EXCEPT ![me[t].id] = NewNode(me[t].fence, g.min)]
    BY <1>1 DEF AdmitEnd, UpdatePolicy, Goto
  <2>3. g \in Account /\ SameLimits(g, tokens)
    BY <2>1, ViewLimits DEF Viewing
  <2>4. me[t].id \in Ids /\ ~Online(me[t].id) /\ me[t].snap.num_cur = tokens.num_cur /\ me[t].snap \in Account
    BY <2>1 DEF Inv, MeInv, MeOf, HasId, Viewing
  <2>5. g.num_cur = tokens.num_cur
    BY <1>0, <2>4 DEF Views, Account
  <2>6. /\ OnlineAccount(g) \in Account /\ SameLimits(OnlineAccount(g), g)
        /\ OnlineAccount(g).num_cur = Plus(g.num_cur, 1)
    BY <2>3, OnlineAccountType
  <2>7. tokens'.num_cur = Plus(tokens.num_cur, 1)
    BY <2>2, <2>3, <2>5, <2>6, StoreLimits
  <2> QED
    BY <1>1, <2>2, <2>3, <2>4, <2>5, <2>7 DEF Admits, SameLimits
<1>2. CASE AdmitEnd(t) /\ UNCHANGED tab
  BY <1>2, AdmitRefused
<1>3. CASE IncreaseEnd(t)
  <2>1. PICK g \in Views(t) : Store(g, IncreasedAccount(g, me[t].amount))
    BY <1>3 DEF IncreaseEnd
  <2>2. g \in Account
    BY <1>3, ViewLimits DEF IncreaseEnd, Enter, Viewing
  <2>3. IncreasedAccount(g, me[t].amount).num_cur = g.num_cur
    BY <2>2 DEF IncreasedAccount, Account
  <2>4. tab' = tab
    BY <1>3 DEF IncreaseEnd
  <2> QED
    BY <1>0, <2>1, <2>2, <2>3, <2>4, IncreasedAccountType, StoreLimits
<1>4. CASE ReduceEnd(t)
  <2>1. PICK g \in Views(t) : Store(g, DecreasedAccount(g, me[t].amount)) \/ UNCHANGED tokens
    BY <1>4 DEF ReduceEnd
  <2>2. g \in Account
    BY <1>4, ViewLimits DEF ReduceEnd, Enter, Viewing
  <2>3. DecreasedAccount(g, me[t].amount).num_cur = g.num_cur
    BY <2>2 DEF DecreasedAccount, Account
  <2>4. tab' = tab
    BY <1>4 DEF ReduceEnd
  <2> QED
    BY <1>0, <2>1, <2>2, <2>3, <2>4, DecreasedAccountType, StoreLimits
<1>5. CASE GFreeEnd(t)
  <2>1. PICK g \in Views(t) : Store(g, FreedAccount(g, me[t].amount))
    BY <1>5 DEF GFreeEnd
  <2>2. g \in Account
    BY <1>5, ViewLimits DEF GFreeEnd, Enter, Viewing
  <2>3. FreedAccount(g, me[t].amount).num_cur = g.num_cur
    BY <2>2 DEF FreedAccount, Account
  <2>4. tab' = tab
    BY <1>5 DEF GFreeEnd
  <2> QED
    BY <1>0, <2>1, <2>2, <2>3, <2>4, FreedAccountType, StoreLimits
<1>6. CASE Take(t)
  <2>0. PICK want : want = tab[me[t].first].quota_new - tab[me[t].first].quota
    OBVIOUS
  <2>1. PICK g \in Views(t) : Store(g, TakenAccount(g, want))
    BY <1>6, <2>0 DEF Take
  <2>2. g \in Account
    BY <1>6, ViewLimits DEF Take, Enter, Viewing
  <2>3. TakenAccount(g, want).num_cur = g.num_cur
    BY <2>2 DEF TakenAccount, Account
  <2>4. tab' = tab
    BY <1>6 DEF Take
  <2>5. want \in Tokens
    <3>1. /\ me[t].first \in Ids /\ Online(me[t].first)
          /\ tab[me[t].first].quota <= tab[me[t].first].quota_new
      BY <1>6 DEF Take, Enter, Inv, MeInv, MeOf
    <3>2. tab[me[t].first] \in Nodes
      BY <3>1 DEF Inv, Typed, TypeOK, Online
    <3>3. tab[me[t].first].quota \in Tokens /\ tab[me[t].first].quota_new \in Tokens
      BY <3>2 DEF Nodes
    <3> QED
      BY <2>0, <3>1, <3>3, WordAssumption DEF Tokens
  <2> QED
    BY <1>0, <2>1, <2>2, <2>3, <2>4, <2>5, TakenAccountType, StoreLimits
<1>7. CASE UNCHANGED tokens /\ ~AdmitEnd(t)
  BY <1>7
<1> QED
  BY <1>1, <1>2, <1>3, <1>4, <1>5, <1>6, <1>7, WhoWrites

\* The threads with a node that is not in the table: what is taken from the cache.
LEMMA HoldersStep ==
  ASSUME Inv, NEW t \in Threads, HostCall(t) \/ Continue(t)
  PROVE  \/ cached' = cached /\ Holders' = Holders /\ ~(AdmitEnd(t) /\ ~UNCHANGED tab)
         \/ GetNode(t) /\ cached < tokens.num_max /\ cached' = cached + 1
              /\ t \notin Holders /\ Holders' = Holders \cup {t}
         \/ DropNode(t) /\ cached' = cached - 1 /\ t \in Holders /\ Holders' = Holders \ {t}
         \/ AdmitEnd(t) /\ ~UNCHANGED tab /\ cached' = cached /\ t \in Holders /\ Holders' = Holders \ {t}
<1>0. Moves(t) /\ pc \in [Threads -> Places] /\ pc' \in [Threads -> Places]
  BY NextMoves, PcStep DEF Inv, Typed, TypeOK
<1>m. me[t].back \in {"idle", "alloc", "rcvd"}
  BY DEF Inv, Typed, TypeOK
<1> DEFINE Out == {"admit", "online", "drop"}
<1>1. /\ pc[t] \in Out <=> pc'[t] \in Out => Holders' = Holders
      /\ pc'[t] \in Out => Holders' = Holders \cup {t}
      /\ pc'[t] \notin Out => Holders' = Holders \ {t}
      /\ t \in Holders <=> pc[t] \in Out
  BY <1>0 DEF Moves, Holders
<1>h. CASE HostCall(t)
  <2>1. pc[t] = "idle" /\ pc'[t] \notin Out /\ cached' = cached
    BY <1>0, <1>h DEF HostCall, AllocTokens, FreeTokens, Rcvd, NodeOnline, NodeOffline, NodeReset, SndMsg,
       Increase, Reduce, Begin, Call, Enter, Goto, UpdatePolicy
  <2>2. ~AdmitEnd(t)
    BY <2>1 DEF AdmitEnd, Enter
  <2> QED
    BY <1>1, <2>1, <2>2
<1>2. CASE GetNode(t)
  <2>1. pc[t] = "newnode" /\ ~AdmitEnd(t)
    BY <1>2 DEF GetNode, AdmitEnd, Enter
  <2>2. CASE cached < tokens.num_max
    <3>1. cached' = cached + 1 /\ pc'[t] = "admit"
      BY <1>0, <1>2, <2>2 DEF GetNode, Goto
    <3> QED
      BY <1>1, <1>2, <2>1, <2>2, <3>1
  <2>3. CASE ~(cached < tokens.num_max)
    <3>1. cached' = cached /\ pc'[t] \notin Out
      BY <1>0, <1>m, <1>2, <2>3 DEF GetNode, Back, Done, Goto
    <3> QED
      BY <1>1, <2>1, <3>1
  <2> QED
    BY <2>2, <2>3
<1>3. CASE AdmitBegin(t)
  <2>1. pc[t] \in Out /\ pc'[t] \in Out /\ cached' = cached /\ ~AdmitEnd(t)
    BY <1>0, <1>3 DEF AdmitBegin, AdmitEnd, Enter, Goto
  <2> QED
    BY <1>1, <2>1
<1>4. CASE AdmitEnd(t)
  <2>1. CASE UNCHANGED tab
    <3>1. UNCHANGED tokens \/ pc' = [pc EXCEPT ![t] = "clear"]
      BY <1>4 DEF AdmitEnd, UpdatePolicy, Goto
    <3>2. pc[t] = "online" /\ pc'[t] \in Out /\ cached' = cached
      <4>1. pc[t] = "online" /\ me[t].id \in Ids /\ ~Online(me[t].id)
        BY <1>4 DEF AdmitEnd, Enter, Inv, MeInv, MeOf, HasId
      <4>3. NewNode(me[t].fence, tokens.min) # NoNode
        BY NewNodeType, NoNodeAssumption
      <4>4. \A g \in Views(t) : g.min = tokens.min
        BY <4>1, ViewLimits DEF Viewing, SameLimits
      <4>5. \A g \in Views(t) : tab' # [tab EXCEPT ![me[t].id] = NewNode(me[t].fence, g.min)]
        BY <2>1, <4>1, <4>3, <4>4 DEF Online, Inv, Typed, TypeOK
      <4> QED
        BY <1>0, <1>4, <4>1, <4>5 DEF AdmitEnd, Goto
    <3> QED
      BY <1>1, <2>1, <3>2
  <2>2. CASE ~UNCHANGED tab
    <3>1. pc[t] = "online" /\ pc'[t] = "clear" /\ cached' = cached
      BY <1>0, <1>4, <2>2 DEF AdmitEnd, Enter, Goto, UpdatePolicy
    <3> QED
      BY <1>1, <1>4, <2>2, <3>1
  <2> QED
    BY <2>1, <2>2
<1>5. CASE DropNode(t)
  <2>1. pc[t] = "drop" /\ pc'[t] \notin Out /\ cached' = cached - 1
    BY <1>0, <1>m, <1>5 DEF DropNode, Enter, Back, Done, Goto
  <2> QED
    BY <1>1, <1>5, <2>1
<1>6. CASE Continue(t) /\ ~GetNode(t) /\ ~AdmitBegin(t) /\ ~AdmitEnd(t) /\ ~DropNode(t)
  <2>1. pc[t] \notin Out /\ pc'[t] \notin Out /\ cached' = cached
    BY <1>0, <1>m, <1>6 DEF Continue, CheckOnline, Alloc, IncreaseEnd,
       ReduceEnd, NodeRcvd, GFree, GFreeEnd, ClearCount, ReadCount, SwapCount, Execute, Collect,
       InitUpdateNode, AddToUpctx, UpdateBegin, DivideNext, ExecuteEnd, Wakeup, Serve, Take, SndMsgBuf, LeaveServe,
       Back, Done, Goto, UpdatePolicy, Enter
  <2> QED
    BY <1>1, <1>6, <2>1
<1> QED
  BY <1>h, <1>2, <1>3, <1>4, <1>5, <1>6

\* Steps leave who is online, admit one application, or end the program with offline.
LEMMA OnlineStep ==
  ASSUME Inv, NEW t \in Threads, HostCall(t) \/ Continue(t)
  PROVE  \/ OnlineIds' = OnlineIds /\ ~(AdmitEnd(t) /\ ~UNCHANGED tab)
         \/ /\ AdmitEnd(t) /\ ~UNCHANGED tab
            /\ me[t].id \notin OnlineIds /\ OnlineIds' = OnlineIds \cup {me[t].id}
         \/ /\ aborted' = "offline" /\ readers = {} /\ OnlineIds' \subseteq OnlineIds
            /\ ~(AdmitEnd(t) /\ ~UNCHANGED tab)
<1>0. tab \in [Ids -> Nodes \cup {NoNode}] /\ NoNode \notin Nodes
  BY NoNodeAssumption DEF Inv, Typed, TypeOK
<1>1. CASE tab' = tab
  BY <1>1 DEF OnlineIds, Online
<1>2. CASE /\ AdmitEnd(t) /\ me[t].id \in Ids /\ ~Online(me[t].id)
           /\ tab' = [tab EXCEPT ![me[t].id] = NewNode(me[t].fence, tokens.min)]
           /\ NewNode(me[t].fence, tokens.min) \in Nodes
  BY <1>0, <1>2 DEF OnlineIds, Online
<1>3. CASE \E i \in Ids : /\ Online(i) /\ aborted' = "offline" /\ tab' = [tab EXCEPT ![i] = NoNode]
                          /\ granted' = granted /\ readers = {}
  <2>1. OnlineIds' \subseteq OnlineIds
    BY <1>0, <1>3 DEF OnlineIds, Online
  <2>2. ~AdmitEnd(t)
    BY <1>3, Running1 DEF AdmitEnd
  <2> QED
    BY <1>3, <2>1, <2>2
<1>4. CASE \E i \in Ids, node \in Nodes : NodeStep(t, i, node)
  <2>1. OnlineIds' = OnlineIds
    BY <1>0, <1>4 DEF NodeStep, OnlineIds, Online
  <2>2. ~AdmitEnd(t) \/ UNCHANGED tab
    <3>1. PICK i \in Ids, node \in Nodes : Online(i) /\ tab' = [tab EXCEPT ![i] = node]
      BY <1>4 DEF NodeStep
    <3>2. tab'[i] # NoNode /\ tab[i] # NoNode /\ \A j \in Ids \ {i} : tab'[j] = tab[j]
      BY <1>0, <3>1 DEF Online
    <3>3. CASE AdmitEnd(t) /\ ~UNCHANGED tab
      <4>1. me[t].id \in Ids /\ tab[me[t].id] = NoNode /\ tab'[me[t].id] # NoNode
        BY <1>0, <3>3, NumCurStep, NewNodeType DEF Online
      <4> QED
        BY <3>2, <4>1
    <3> QED
      BY <3>3
  <2> QED
    BY <2>1, <2>2
<1> QED
  BY <1>1, <1>2, <1>3, <1>4, TabStep

\* Seats are counted alike, and a second one is never given.
LEMMA SeatsStep ==
  ASSUME Inv, NEW t \in Threads, HostCall(t) \/ Continue(t)
  PROVE  SeatsMatch' /\ EmptyUnlessOneSeat' /\ cached' \in Nat
<1>1. aborted # "offline"
  BY Running1
<1>2. /\ IsFiniteSet(OnlineIds) /\ IsFiniteSet(Holders)
      /\ Cardinality(OnlineIds) \in Nat /\ Cardinality(Holders) \in Nat
      /\ cached = Cardinality(OnlineIds) + Cardinality(Holders)
      /\ tokens.num_cur = Cardinality(OnlineIds)
      /\ cached <= tokens.num_max /\ tokens.num_max \in Tokens
  BY <1>1, Counted
<1>3. tokens'.num_max = tokens.num_max
  BY TokensStep DEF SameLimits
<1>4. t \in Holders => Cardinality(Holders) >= 1 /\ Cardinality(Holders \ {t}) = Cardinality(Holders) - 1
  <2>1. CASE t \in Holders
    <3>1. Cardinality(Holders \ {t}) = Cardinality(Holders) - 1 /\ IsFiniteSet(Holders \ {t})
      BY <1>2, <2>1, FS_RemoveElement
    <3>2. Cardinality(Holders \ {t}) \in Nat
      BY <3>1, FS_CardinalityType
    <3> QED
      BY <1>2, <3>1, <3>2
  <2> QED
    BY <2>1
<1>5. t \notin Holders => Cardinality(Holders \cup {t}) = Cardinality(Holders) + 1
  BY <1>2, FS_AddElement
<1> DEFINE Admitted == AdmitEnd(t) /\ ~UNCHANGED tab
<1>6. CASE Admitted
  <2>1. /\ me[t].id \notin OnlineIds /\ OnlineIds' = OnlineIds \cup {me[t].id}
        /\ t \in Holders /\ cached' = cached /\ Holders' = Holders \ {t}
        /\ tokens'.num_cur = Plus(tokens.num_cur, 1) /\ Plus(tokens.num_cur, 1) >= tokens.num_max
        /\ aborted' = aborted
    <3>1. me[t].id \notin OnlineIds /\ OnlineIds' = OnlineIds \cup {me[t].id}
      BY <1>6, OnlineStep
    <3>2. t \in Holders /\ cached' = cached /\ Holders' = Holders \ {t}
      <4>1. AdmitEnd(t) /\ pc[t] = "online"
        BY <1>6 DEF AdmitEnd, Enter
      <4>2. ~GetNode(t) /\ ~DropNode(t)
        BY <4>1 DEF GetNode, DropNode, Enter
      <4> QED
        BY <1>6, <4>2, HoldersStep
    <3>3. tokens'.num_cur = Plus(tokens.num_cur, 1) /\ Plus(tokens.num_cur, 1) >= tokens.num_max
      BY <1>6, NumCurStep
    <3> QED
      BY <1>6, <3>1, <3>2, <3>3 DEF AdmitEnd
  <2>2. Cardinality(OnlineIds') = Cardinality(OnlineIds) + 1
    BY <1>2, <2>1, FS_AddElement
  <2>3. Plus(tokens.num_cur, 1) = tokens.num_cur + 1
    BY <1>2, <1>4, <2>1, WordAssumption DEF Plus, Tokens
  <2>4. tokens'.num_max = 1
    <3>1. CASE OnlineIds = {}
      <4>1. Cardinality(OnlineIds) = 0
        BY <3>1, FS_EmptySet
      <4> QED
        BY <1>2, <1>3, <1>4, <2>1, <2>3, <4>1, TokensAre
    <3>2. CASE OnlineIds # {}
      BY <1>3, <3>2 DEF Inv, EmptyUnlessOneSeat
    <3> QED
      BY <3>1, <3>2
  <2>5. cached' = Cardinality(OnlineIds') + Cardinality(Holders') /\ cached' <= tokens'.num_max
        /\ cached' \in Nat /\ tokens'.num_cur = Cardinality(OnlineIds')
    BY <1>2, <1>3, <1>4, <2>1, <2>2, <2>3
  <2> QED
    BY <2>4, <2>5 DEF SeatsMatch, EmptyUnlessOneSeat, Holders
<1>7. CASE ~Admitted
  <2>1. tokens'.num_cur = tokens.num_cur
    BY <1>7, NumCurStep, NewNodeType, NoNodeAssumption DEF Online, Inv, Typed, TypeOK
  <2>2. OnlineIds' = OnlineIds \/ (aborted' = "offline" /\ OnlineIds' \subseteq OnlineIds)
    BY <1>7, OnlineStep
  <2>3. \/ cached' = cached /\ Holders' = Holders
        \/ cached < tokens.num_max /\ cached' = cached + 1 /\ t \notin Holders /\ Holders' = Holders \cup {t}
        \/ cached' = cached - 1 /\ t \in Holders /\ Holders' = Holders \ {t}
    BY <1>7, HoldersStep
  <2>4. cached' = Cardinality(OnlineIds) + Cardinality(Holders') /\ cached' <= tokens.num_max /\ cached' \in Nat
    <3>0. tokens.num_max \in Int
      BY <1>2, TokensAre
    <3>1. CASE cached' = cached /\ Holders' = Holders
      BY <1>2, <3>1
    <3>2. CASE cached < tokens.num_max /\ cached' = cached + 1 /\ t \notin Holders /\ Holders' = Holders \cup {t}
      BY <1>2, <1>5, <3>0, <3>2
    <3>3. CASE cached' = cached - 1 /\ t \in Holders /\ Holders' = Holders \ {t}
      BY <1>2, <1>4, <3>0, <3>3
    <3> QED
      BY <2>3, <3>1, <3>2, <3>3
  <2> QED
    BY <1>2, <1>3, <2>1, <2>2, <2>4 DEF SeatsMatch, EmptyUnlessOneSeat, Holders, Inv
<1> QED
  BY <1>6, <1>7

\* The operations of the wait list on the lists there are.
LEMMA WaitListIs ==
  ASSUME NEW i, NEW j
  PROVE  /\ Erased(<<>>, j) = <<>>
         /\ Erased(<<i>>, j) \in {<<>>, <<i>>}
         /\ Enqueued(<<>>, i) = <<i>>
<1>1. Erased(<<>>, j) = <<>> /\ Erased(<<>>, i) = <<>>
  BY DEF Erased, RemoveFirst
<1>2. Len(<<i>>) = 1 /\ <<i>>[1] = i /\ \A k \in 1..1 : k = 1
  OBVIOUS
<1>3. i # j => Erased(<<i>>, j) = <<i>>
  BY <1>2 DEF Erased, RemoveFirst
<1>4. Erased(<<i>>, i) = <<>>
  <2>1. SelectInSeq(<<i>>, LAMBDA v : v = i) = 1
    BY DEF SelectInSeq, Min
  <2>2. Erased(<<i>>, i) = RemoveAt(<<i>>, 1)
    BY <2>1 DEF Erased, RemoveFirst
  <2>3. RemoveAt(<<i>>, 1) = <<>>
    BY DEF RemoveAt
  <2> QED
    BY <2>2, <2>3
<1>5. Append(<<>>, i) = <<i>>
  OBVIOUS
<1> QED
  BY <1>1, <1>3, <1>4, <1>5 DEF Enqueued

\* A turn over the only node ends its loop.
LEMMA DivideIs ==
  ASSUME NEW c \in Contexts, NEW u \in UNodes, c.node = <<u>>, c.pos = 1, c.loop \in {1, 2},
         NEW q \in Tokens, q = NextQuota(c)
  PROVE  LET d == Divide(c)
         IN  /\ d \in Contexts /\ d.loop = c.loop + 1 /\ d.pos = 1
             /\ \E v \in UNodes : d.node = <<v>> /\ v.id = u.id /\ v.tmp = q
             /\ d.left = Minus(c.left, Minus(q, IF c.loop = 1 THEN u.base ELSE u.tmp))
<1>1. Current(c) = u /\ Len(c.node) = 1
  BY DEF Current
<1>2. PICK left : left = Minus(c.left, Minus(q, IF c.loop = 1 THEN u.base ELSE u.tmp))
  OBVIOUS
<1>3. left \in Tokens
  <2>1. c.left \in Int /\ q \in Int /\ u.base \in Int /\ u.tmp \in Int
    BY TokensAre DEF Contexts, UNodes
  <2>2. Minus(q, IF c.loop = 1 THEN u.base ELSE u.tmp) \in Int
    BY <2>1, PlusType, TokensAre
  <2> QED
    BY <1>2, <2>1, <2>2, PlusType
<1>4. Divide(c) = [c EXCEPT !.node[c.pos].tmp = q, !.left = left, !.loop = @ + 1, !.pos = 1]
  BY <1>1, <1>2 DEF Divide
<1>5. PICK v : v = [u EXCEPT !.tmp = q]
  OBVIOUS
<1>6. v \in UNodes /\ v.id = u.id /\ v.tmp = q
  BY <1>5 DEF UNodes
<1>7. PICK n : n = [c.node EXCEPT ![1].tmp = q]
  OBVIOUS
<1>8. n = <<v>>
  BY <1>5, <1>7
<1>9. n \in Seq(UNodes)
  BY <1>6, <1>8
<1>10. Divide(c) = [c EXCEPT !.node = n, !.left = left, !.loop = c.loop + 1, !.pos = 1]
  BY <1>4, <1>7 DEF Contexts
<1> HIDE DEF Divide
<1>11. PICK d : d = Divide(c)
  OBVIOUS
<1>12. d \in Contexts /\ d.node = n /\ d.left = left /\ d.loop = c.loop + 1 /\ d.pos = 1
  <2>1. c.loop + 1 \in 0..3 /\ 1 \in Nat
    OBVIOUS
  <2>2. PICK k \in 0..3 : k = c.loop + 1
    BY <2>1
  <2>3. d = [c EXCEPT !.node = n, !.left = left, !.loop = k, !.pos = 1]
    BY <1>10, <1>11, <2>2
  <2>4. d \in Contexts
    BY <1>3, <1>9, <2>1, <2>3 DEF Contexts
  <2>5. d.node = n /\ d.left = left /\ d.loop = k /\ d.pos = 1
    BY <2>3 DEF Contexts
  <2> QED
    BY <2>2, <2>4, <2>5
<1> QED
  BY <1>2, <1>6, <1>8, <1>11, <1>12

\* Unsigned differences and sums, without the remainder.
LEMMA Wrapped ==
  ASSUME NEW a \in Tokens, NEW b \in Tokens
  PROVE  /\ Minus(a, b) = IF a >= b THEN a - b ELSE a - b + Word
         /\ Plus(a, b) = IF a + b < Word THEN a + b ELSE a + b - Word
<1>1. /\ a >= b => (a - b) % Word = a - b
      /\ a < b => (a - b) % Word = a - b + Word
      /\ a + b < Word => (a + b) % Word = a + b
      /\ a + b >= Word => (a + b) % Word = a + b - Word
  BY WordAssumption DEF Tokens
<1>2. a \in Int /\ b \in Int /\ Word \in Int
  BY TokensAre, WordAssumption
<1>3. Minus(a, b) = (a - b) % Word /\ Plus(a, b) = (a + b) % Word
  BY DEF Minus, Plus
<1>4. (a < b <=> ~(a >= b)) /\ (a + b >= Word <=> ~(a + b < Word))
  BY <1>2
<1> QED
  BY ONLY <1>1, <1>3, <1>4, Zenon

\* What the first loop leaves is what its quota lacks of zero.
LEMMA NothingLeft ==
  ASSUME NEW a \in Tokens, NEW q \in Tokens
  PROVE  Plus(q, Minus(Minus(0, a), Minus(q, a))) = 0
<1>1. 0 \in Tokens /\ a \in Int /\ q \in Int /\ Word \in Int /\ 0 <= a /\ a < Word /\ 0 <= q /\ q < Word
  BY TokensAre, WordAssumption
<1>2. PICK x \in Tokens : x = Minus(0, a) /\ x = IF a = 0 THEN 0 ELSE Word - a
  <2>1. Minus(0, a) = IF 0 >= a THEN 0 - a ELSE 0 - a + Word
    BY <1>1, Wrapped
  <2> QED
    BY <1>1, <2>1, PlusType
<1>3. PICK y \in Tokens : y = Minus(q, a) /\ y = IF q >= a THEN q - a ELSE q - a + Word
  BY <1>1, Wrapped, PlusType
<1>4. PICK z \in Tokens : z = Minus(x, y) /\ z = IF x >= y THEN x - y ELSE x - y + Word
  <2>1. x \in Int /\ y \in Int
    BY TokensAre
  <2>2. Minus(x, y) \in Tokens
    BY <2>1, PlusType
  <2> QED
    BY <2>2, Wrapped
<1>5. Plus(q, z) = IF q + z < Word THEN q + z ELSE q + z - Word
  BY Wrapped
<1>6. x \in Int /\ y \in Int /\ z \in Int
  BY TokensAre
<1>7. Plus(q, z) = 0
  <2>1. z = IF q = 0 THEN 0 ELSE Word - q
    BY <1>1, <1>2, <1>3, <1>4, <1>6
  <2> QED
    BY <1>1, <1>5, <2>1
<1> QED
  BY <1>2, <1>3, <1>4, <1>7

\* A minimum of zero is all there is to give.
LEMMA NothingToGive ==
  ASSUME Inv, NEW t \in Threads, pc[t] = "divide", tokens.min = 0, ctx.loop = 1 => ctx.weight > 0
  PROVE  NextQuota(ctx) = 0
<1>1. CASE Rest
  BY <1>1 DEF Rest, NextQuota, Current
<1>2. CASE \E i \in Ids, w \in Tokens : Online(i) /\ ctx = Begun(Alone(i, w))
  <2>1. PICK i \in Ids, w \in Tokens : ctx = Begun(Alone(i, w))
    BY <1>2
  <2>2. Typed
    BY DEF Inv
  <2>3. /\ ctx.node = <<[id |-> i, base |-> tokens.min, tmp |-> 0, weight |-> w]>>
        /\ ctx.weight = w /\ ctx.total = 0 /\ ctx.static = tokens.min /\ ctx.loop = 1 /\ ctx.pos = 1
    BY <2>1, <2>2, AloneIs
  <2>4. Current(ctx).weight = w /\ Current(ctx).base = 0
    BY <2>3 DEF Current
  <2>5. w \in Nat /\ w > 0 /\ 0 \in Tokens
    BY <2>3, TokensAre, WordAssumption
  <2>6. LeftBase(ctx) = 0
    BY <2>3, <2>5, PlusIs DEF LeftBase
  <2>7. 0 * w = 0 /\ 0 % Word = 0 /\ 0 \div w = 0
    BY <2>5, WordAssumption
  <2>8. ((LeftBase(ctx) * Current(ctx).weight) % Word) \div ctx.weight = 0
    BY <2>3, <2>4, <2>6, <2>7
  <2>9. Plus(0, 0) = 0
    BY <2>5, PlusIs
  <2> QED
    BY <2>3, <2>4, <2>8, <2>9 DEF NextQuota
<1> QED
  BY <1>1, <1>2 DEF Inv, CtxInv, CtxOf

\* A turn that does not abort: after the first loop the node lacks what is left, and a
\* quota that was moved is about to fall below the minimum.
LEMMA TurnIs ==
  ASSUME Inv, NEW t \in Threads, DivideNext(t), aborted' = aborted
  PROVE  /\ ctx' \in Contexts
         /\ wait' \in Seq(Ids)
         /\ (Settled \/ Doomed)'
         /\ pc'[t] \in {"divide", "divided"}
         /\ pc'[t] = "divide" => Rest'
         /\ pc'[t] = "divided" => ctx'.loop = 3 /\ Gathered'
<1>0. /\ pc[t] = "divide" /\ aborted = "no" /\ tokens' = tokens /\ Typed /\ ctx \in Contexts
      /\ tokens.min \in Tokens /\ pc \in [Threads -> Places] /\ wait \in Seq(Ids)
      /\ tab \in [Ids -> Nodes \cup {NoNode}] /\ 0 \in Tokens /\ tokens.min \in Int
  <2>1. pc[t] = "divide" /\ aborted = "no" /\ tokens' = tokens
    BY DEF DivideNext, Enter
  <2>2. /\ Typed /\ ctx \in Contexts /\ tokens \in Account /\ pc \in [Threads -> Places]
        /\ wait \in Seq(Ids) /\ tab \in [Ids -> Nodes \cup {NoNode}]
    BY DEF Inv, Typed, TypeOK
  <2>3. tokens.min \in Tokens
    BY <2>2 DEF Account
  <2> QED
    BY <2>1, <2>2, <2>3, WordAssumption, TokensAre
<1>1. /\ ctx.loop = 1 => ctx.weight > 0
      /\ NextQuota(ctx) >= tokens.min
      /\ SetQuotaNew(Current(ctx).id, NextQuota(ctx))
      /\ ctx' = Divide(ctx)
      /\ pc' = [pc EXCEPT ![t] = IF Divide(ctx).loop = 3 THEN "divided" ELSE "divide"]
  BY <1>0 DEF DivideNext, Abort, Goto
<1>2. PICK u \in UNodes : u = Current(ctx)
  BY <1>0, Divided1
<1>3. /\ ctx.pos = 1 /\ ctx.loop \in {1, 2} /\ ctx.node = <<u>>
      /\ u.id \in Ids /\ Online(u.id) /\ tab[u.id] \in Nodes
  BY <1>0, <1>2, Divided1
<1>4. PICK q \in Tokens : q = NextQuota(ctx)
  BY <1>0, <1>1, NextQuotaType
<1>5. PICK d \in Contexts : d = Divide(ctx) /\ d.loop = ctx.loop + 1 /\ d.pos = 1
  BY <1>0, <1>3, <1>4, DivideIs
<1>6. PICK v \in UNodes : d.node = <<v>> /\ v.id = u.id /\ v.tmp = q
  BY <1>0, <1>3, <1>4, <1>5, DivideIs
<1>7. d.left = Minus(ctx.left, Minus(q, IF ctx.loop = 1 THEN u.base ELSE u.tmp))
  BY <1>0, <1>3, <1>4, <1>5, DivideIs
<1>8. ctx' = d /\ pc' = [pc EXCEPT ![t] = IF d.loop = 3 THEN "divided" ELSE "divide"]
  BY <1>1, <1>5
<1>9. /\ tab' = [tab EXCEPT ![u.id].quota_new = q,
                            ![u.id].version = IF q = tab[u.id].quota_new THEN @ ELSE @ + 1]
      /\ wait' = IF q > tab[u.id].quota_new THEN Enqueued(wait, u.id) ELSE wait
  BY <1>1, <1>2, <1>4 DEF SetQuotaNew
<1>10. CASE ctx.loop = 1
  <2>1. PICK i \in Ids, w \in Tokens : ctx = Begun(Alone(i, w))
    BY <1>0, <1>10 DEF Inv, CtxInv, CtxOf, Rest
  <2>2. /\ ctx.node = <<[id |-> i, base |-> tokens.min, tmp |-> 0, weight |-> w]>>
        /\ ctx.left = Minus(0, tokens.min)
    BY <1>0, <2>1, AloneIs
  <2>3. u.base = tokens.min
    BY <1>3, <2>2
  <2>4. Plus(v.tmp, d.left) = 0
    BY <1>0, <1>6, <1>7, <1>10, <2>2, <2>3, NothingLeft
  <2>5. d.loop = 2 /\ pc'[t] = "divide" /\ \E s \in Threads : pc'[s] = "divide"
    BY <1>0, <1>5, <1>8, <1>10
  <2>6. Rest'
    <3>1. Online(v.id)'
      <4>1. PICK k \in Nat : k = IF q = tab[u.id].quota_new THEN tab[u.id].version ELSE tab[u.id].version + 1
        BY <1>3 DEF Nodes
      <4>2. tab'[u.id] = [tab[u.id] EXCEPT !.quota_new = q, !.version = k]
        BY <1>0, <1>3, <1>9, <4>1
      <4>3. tab'[u.id] \in Nodes
        BY <1>3, <4>2 DEF Nodes
      <4> QED
        BY <1>6, <4>3, NoNodeAssumption DEF Online
    <3> QED
      BY <1>5, <1>6, <1>8, <2>4, <2>5, <3>1 DEF Rest
  <2>7. ~Doomed
    BY <1>10 DEF Doomed
  <2>8. wait = <<>> /\ \A j \in Ids : Online(j) =>
          tab[j].quota = tokens.min /\ tab[j].quota_new = tokens.min /\ tab[j].version = 0
    BY <2>7 DEF Inv, Settled
  <2>9. CASE tokens.min = 0
    <3>1. q = 0
      BY <1>0, <1>1, <1>4, <2>9, NothingToGive
    <3>2. wait' = wait /\ \A j \in Ids : tab'[j] = tab[j]
      BY <1>0, <1>3, <1>9, <2>8, <2>9, <3>1 DEF Nodes
    <3>3. Settled'
      BY <1>0, <2>8, <3>2 DEF Settled, Online
    <3> QED
      BY <1>0, <1>5, <1>8, <2>5, <2>6, <3>2, <3>3
  <2>10. CASE tokens.min # 0
    <3>1. tokens.min > 0
      BY <1>0, <2>10, TokensAre
    <3>2. Current(d).id = u.id
      BY <1>5, <1>6 DEF Current
    <3>3. wait' \in {<<>>, <<u.id>>}
      BY <1>9, <2>8, WaitListIs
    <3>4. Doomed'
      BY <1>0, <1>8, <2>5, <3>1, <3>2, <3>3 DEF Doomed
    <3>5. wait' \in Seq(Ids)
      <4>1. <<u.id>> \in Seq(Ids) /\ <<>> \in Seq(Ids)
        BY <1>3
      <4> QED
        BY <3>3, <4>1
    <3> QED
      BY <1>5, <1>8, <2>5, <2>6, <3>4, <3>5
  <2> QED
    BY <2>9, <2>10
<1>11. CASE ctx.loop = 2
  <2>1. Rest
    <3>1. CASE \E i \in Ids, w \in Tokens : Online(i) /\ ctx = Begun(Alone(i, w))
      <4>1. PICK i \in Ids, w \in Tokens : ctx = Begun(Alone(i, w))
        BY <3>1
      <4>2. ctx.loop = 1
        BY <1>0, <4>1, AloneIs
      <4> QED
        BY <1>11, <4>2
    <3> QED
      BY <1>0, <3>1 DEF Inv, CtxInv, CtxOf
  <2>2. q = 0
    BY <1>4, <2>1 DEF Rest, NextQuota, Current
  <2>3. tokens.min = 0
    BY <1>0, <1>1, <1>4, <2>2, TokensAre
  <2>4. Settled
    BY <1>0, <2>3 DEF Inv, Doomed
  <2>5. wait' = wait /\ \A j \in Ids : tab'[j] = tab[j]
    BY <1>0, <1>3, <1>9, <2>2, <2>3, <2>4 DEF Nodes, Settled
  <2>6. Settled'
    BY <1>0, <2>4, <2>5 DEF Settled, Online
  <2>7. d.loop = 3 /\ pc'[t] = "divided"
    BY <1>0, <1>5, <1>8, <1>11
  <2>8. Gathered'
    <3>1. Online(v.id)'
      BY <1>3, <1>6, <2>5 DEF Online
    <3> QED
      BY <1>6, <1>8, <3>1 DEF Gathered
  <2> QED
    BY <1>0, <1>8, <2>5, <2>6, <2>7, <2>8
<1> QED
  BY <1>3, <1>10, <1>11

\* The sum to divide, and the context when the division begins.
LEMMA BegunType ==
  ASSUME NEW c \in Contexts
  PROVE  /\ LeftBase(c) \in Tokens
         /\ Begun(c) \in Contexts /\ Begun(c).node = c.node
         /\ c.node = <<>> => Begun(c).loop = 3
<1>1. c.total \in Int /\ c.static \in Int
  BY TokensAre DEF Contexts
<1>2. PICK l \in Tokens : l = LeftBase(c)
  BY <1>1, PlusType DEF LeftBase
<1>3. PICK k \in 0..3 : k = IF c.node = <<>> THEN 3 ELSE 1
  OBVIOUS
<1>4. Begun(c) = [c EXCEPT !.left = l, !.loop = k]
  BY <1>2, <1>3 DEF Begun
<1> QED
  BY <1>2, <1>3, <1>4 DEF Contexts

\* A run that found nobody is over when it begins.
LEMMA EmptyContext ==
  NoContext \in Contexts /\ Begun(NoContext) \in Contexts /\ Begun(NoContext).loop = 3
  /\ Begun(NoContext).node = <<>>
<1>1. 0 \in Tokens /\ <<>> \in Seq(UNodes)
  BY TokensAre, WordAssumption
<1>2. NoContext \in Contexts /\ NoContext.node = <<>>
  BY <1>1 DEF NoContext, Contexts
<1> QED
  BY <1>2, BegunType

\* The contexts of a run with one node.
LEMMA ContextsOf ==
  ASSUME Typed, NEW i \in Ids, NEW w \in Tokens
  PROVE  /\ Alone(i, w) \in Contexts /\ Alone(i, w).loop = 0 /\ Alone(i, w).node # <<>>
         /\ Begun(Alone(i, w)) \in Contexts /\ Begun(Alone(i, w)).loop = 1
<1>1. tokens.min \in Tokens /\ 0 \in Tokens
  BY WordAssumption DEF Typed, TypeOK, Account, Tokens
<1>2. [id |-> i, base |-> tokens.min, tmp |-> 0, weight |-> w] \in UNodes
  BY <1>1 DEF UNodes
<1>3. <<[id |-> i, base |-> tokens.min, tmp |-> 0, weight |-> w]>> \in Seq(UNodes)
  BY <1>2
<1>4. PICK d : d = Alone(i, w)
  OBVIOUS
<1>5. /\ d = [node |-> <<[id |-> i, base |-> tokens.min, tmp |-> 0, weight |-> w]>>,
              weight |-> w, total |-> 0, static |-> tokens.min, left |-> 0, loop |-> 0, pos |-> 1]
      /\ Begun(d).loop = 1
  BY <1>4, AloneIs
<1>6. d \in Contexts /\ d.loop = 0 /\ d.node # <<>>
  BY <1>1, <1>3, <1>5 DEF Contexts
<1> QED
  BY <1>4, <1>5, <1>6, BegunType

\* The first node there is to gather is the only one.
LEMMA InitIs ==
  ASSUME Inv, NEW t \in Threads, InitUpdateNode(t)
  PROVE  /\ ctx = NoContext
         /\ \E i \in Ids : /\ Online(i) /\ tab[i] \in Nodes /\ tab[i].quota = tokens.min
                           /\ me' = [me EXCEPT ![t].first = i, ![t].snap = tab[i]]
<1>1. pc[t] = "gather" /\ Typed /\ aborted # "offline"
  BY DEF InitUpdateNode, Enter, Inv
<1>2. PICK i \in ToGather : me' = [me EXCEPT ![t].first = i, ![t].snap = tab[i]]
  BY DEF InitUpdateNode
<1>3. i \in Ids /\ Online(i)
  BY DEF ToGather
<1>4. ctx = NoContext
  <2>1. ASSUME NEW j \in Ids, NEW w \in Tokens, Online(j), ctx = Alone(j, w) PROVE FALSE
    <3>1. ctx.node = <<[id |-> j, base |-> tokens.min, tmp |-> 0, weight |-> w]>>
      BY <1>1, <2>1, AloneIs
    <3>2. 1 \in DOMAIN ctx.node /\ ctx.node[1].id = j
      BY <3>1
    <3>3. i # j
      BY <3>2 DEF ToGather
    <3> QED
      BY <1>1, <1>3, <2>1, <3>3, AtMostOne
  <2> QED
    BY <1>1, <2>1 DEF Inv, CtxInv, CtxOf
<1>5. Settled
  BY <1>4 DEF Inv, Doomed, NoContext
<1>6. tab[i] \in Nodes
  BY <1>1, <1>3 DEF Typed, TypeOK, Online
<1> QED
  BY <1>2, <1>3, <1>4, <1>5, <1>6 DEF Settled

\* A node joins an empty context, which its node then has to itself: whichever of the
\* two reads a report comes before, the quota is the minimum.
LEMMA GatherIs ==
  ASSUME Inv, NEW t \in Threads, AddToUpctx(t)
  PROVE  \E i \in Ids, w \in Tokens : Online(i) /\ ctx' = Alone(i, w)
<1>1. pc[t] = "weigh" /\ Typed
  BY DEF AddToUpctx, Enter, Inv
<1>2. PICK i : i = me[t].first
  OBVIOUS
<1>3. PICK snap : snap = me[t].snap
  OBVIOUS
<1>4. i \in Ids /\ Online(i) /\ snap \in Nodes /\ snap.quota = tokens.min /\ ctx = NoContext
  BY <1>1, <1>2, <1>3 DEF Inv, MeInv, MeOf, CtxInv, CtxOf
<1>5. Settled
  BY <1>4 DEF Inv, Doomed, NoContext
<1>6. tab[i] \in Nodes /\ tab[i].quota = tokens.min
  BY <1>1, <1>4, <1>5 DEF Typed, TypeOK, Online, Settled
<1>7. PICK n \in {snap, tab[i]}, m \in {snap, tab[i]} :
        ctx' = AddResource(ctx, UpdateNode(i, n.quota, tokens.min, m.press))
  BY <1>2, <1>3 DEF AddToUpctx
<1>8. n.quota = tokens.min /\ m.press \in Tokens
  BY <1>4, <1>6, <1>7 DEF Nodes
<1>9. ctx' = Alone(i, m.press)
  BY <1>4, <1>7, <1>8 DEF Alone
<1> QED
  BY <1>4, <1>8, <1>9

\* While a thread holds the read lock nobody comes or goes.
LEMMA StaysOnline ==
  ASSUME Inv, NEW t \in Threads, HostCall(t) \/ Continue(t), readers # {}, NEW i \in Ids
  PROVE  Online(i)' <=> Online(i)
<1>1. ~AdmitEnd(t)
  BY NullAssumption DEF AdmitEnd, Enter, Inv, LockInv, Typed, TypeOK
<1>2. OnlineIds' = OnlineIds
  BY <1>1, OnlineStep
<1> QED
  BY <1>2 DEF OnlineIds

\* A thread in a run, or serving the wait list, holds the read lock.
LEMMA Locked ==
  ASSUME Inv, NEW t \in Threads, pc[t] \in Reading
  PROVE  readers # {}
BY DEF Inv, LockInv

\* Where a thread comes to a run of the policy from.
LEMMA RunSteps ==
  ASSUME Inv, NEW t \in Threads, HostCall(t) \/ Continue(t)
  PROVE  /\ pc'[t] = "collect" => Execute(t) /\ ~is_exe
         /\ pc'[t] = "gather" => Collect(t) \/ AddToUpctx(t)
         /\ pc'[t] = "weigh" => InitUpdateNode(t)
         /\ pc'[t] = "divide" => UpdateBegin(t) \/ DivideNext(t)
         /\ pc'[t] = "divided" => UpdateBegin(t) \/ DivideNext(t)
<1>0. pc \in [Threads -> Places] /\ me[t].back \in {"idle", "alloc", "rcvd"}
  BY DEF Inv, Typed, TypeOK
<1>1. CASE HostCall(t)
  BY <1>0, <1>1 DEF HostCall, AllocTokens, FreeTokens, Rcvd, NodeOnline, NodeOffline, NodeReset, SndMsg,
     Increase, Reduce, Begin, Call, Enter, Goto, UpdatePolicy
<1>2. CASE Continue(t)
  <2>1. CASE UpdateBegin(t) \/ DivideNext(t)
    BY <1>0, <2>1 DEF UpdateBegin, DivideNext, Goto, Enter
  <2>2. CASE Execute(t) \/ Collect(t) \/ InitUpdateNode(t) \/ AddToUpctx(t)
    BY <1>0, <2>2 DEF Execute, Collect, InitUpdateNode, AddToUpctx, Goto, Enter
  <2>3. CASE ~(UpdateBegin(t) \/ DivideNext(t) \/ Execute(t) \/ Collect(t) \/ InitUpdateNode(t)
               \/ AddToUpctx(t))
    BY <1>0, <1>2, <2>3 DEF Continue, CheckOnline, GetNode, AdmitBegin, AdmitEnd, DropNode,
       Alloc, IncreaseEnd, ReduceEnd, NodeRcvd, GFree, GFreeEnd, ClearCount, ReadCount, SwapCount,
       ExecuteEnd, Wakeup, Serve, Take, SndMsgBuf, LeaveServe, Back, Done, Goto, UpdatePolicy, Enter
  <2> QED
    BY <2>1, <2>2, <2>3
<1> QED
  BY <1>1, <1>2

\* One thread runs the policy.
LEMMA RunStep ==
  ASSUME Inv, NEW t \in Threads, HostCall(t) \/ Continue(t)
  PROVE  RunInv'
<1>0. Moves(t)
  BY NextMoves DEF Inv
<1>1. is_exe' = is_exe \/ (Execute(t) /\ is_exe')
  BY WhoWrites DEF Execute
<1>2. ctx' = ctx \/ pc[t] \in RunPlaces
  BY WhoWrites DEF AddToUpctx, UpdateBegin, DivideNext, ExecuteEnd, Enter, RunPlaces
<1>3. pc'[t] \in RunPlaces => pc[t] \in RunPlaces \/ (Execute(t) /\ ~is_exe)
  BY RunSteps DEF Collect, InitUpdateNode, AddToUpctx, UpdateBegin, DivideNext, Enter, RunPlaces
<1>4. CASE Execute(t) /\ ~is_exe
  <2>1. is_exe' /\ \A u \in Threads : pc[u] \notin RunPlaces
    BY <1>4 DEF Execute, Inv, RunInv
  <2> QED
    BY <1>0, <2>1 DEF RunInv, Moves
<1>5. CASE ~(Execute(t) /\ ~is_exe)
  <2>1. \A u \in Threads : pc'[u] \in RunPlaces => pc[u] \in RunPlaces
    BY <1>0, <1>3, <1>5 DEF Moves
  <2>2. ~is_exe' => ~is_exe
    BY <1>1
  <2> QED
    BY <1>0, <1>1, <1>2, <2>1, <2>2 DEF RunInv, Moves, Inv
<1> QED
  BY <1>4, <1>5

\* What the thread of the run knows of its context stays true under the steps of others,
\* and becomes true by its own.
LEMMA CtxStep ==
  ASSUME Inv, NEW t \in Threads, HostCall(t) \/ Continue(t)
  PROVE  ctx' \in Contexts /\ CtxInv'
<1>0. Moves(t) /\ Typed /\ ctx \in Contexts /\ tokens'.min = tokens.min
  BY NextMoves, TokensStep DEF Inv, Typed, SameLimits
<1>1. ASSUME NEW u \in Threads, ctx' = ctx, pc'[u] = pc[u]
      PROVE  CtxOf(u)'
  <2>1. pc[u] \in {"gather", "divide", "divided"} => \A i \in Ids : Online(i)' <=> Online(i)
    BY Locked, StaysOnline DEF Reading
  <2>2. \A i \in Ids, w \in Tokens : Alone(i, w)' = Alone(i, w)
    BY <1>0 DEF Alone
  <2>3. pc[u] = "divide" /\ Rest => Rest'
    <3>1. \A x \in UNodes : x.id \in Ids
      BY DEF UNodes
    <3> QED
      BY <1>1, <2>1, <3>1 DEF Rest
  <2>4. pc[u] = "gather" =>
          (ctx = NoContext \/ \E i \in Ids, w \in Tokens : Online(i) /\ ctx = Alone(i, w))'
    BY <1>1, <2>1, <2>2 DEF Inv, CtxInv, CtxOf
  <2>5. pc[u] = "divide" =>
          ((\E i \in Ids, w \in Tokens : Online(i) /\ ctx = Begun(Alone(i, w))) \/ Rest)'
    BY <1>1, <2>1, <2>2, <2>3 DEF Inv, CtxInv, CtxOf
  <2>6. (pc[u] \in {"collect", "weigh"} => ctx = NoContext)'
    BY <1>1 DEF Inv, CtxInv, CtxOf
  <2>7. (pc[u] = "divided" => ctx.loop = 3 /\ Gathered)'
    <3>1. pc[u] = "divided" => OnlineIds' = OnlineIds
      BY <2>1 DEF OnlineIds
    <3>2. pc[u] = "divided" => Gathered'
      <4>1. \A x \in UNodes : x.id \in Ids
        BY DEF UNodes
      <4>2. pc[u] = "divided" => Gathered
        BY DEF Inv, CtxInv, CtxOf
      <4> QED
        BY <1>1, <2>1, <3>1, <4>1, <4>2 DEF Gathered
    <3> QED
      BY <1>1, <3>2 DEF Inv, CtxInv, CtxOf
  <2> QED
    BY <1>1, <2>4, <2>5, <2>6, <2>7 DEF CtxOf
<1>2. CASE ctx' = ctx /\ pc'[t] = pc[t]
  <2>1. \A u \in Threads : CtxOf(u)'
    BY <1>0, <1>1, <1>2 DEF Moves
  <2> QED
    BY <1>0, <1>2, <2>1 DEF CtxInv
<1>3. CASE ctx' = ctx /\ pc'[t] # pc[t] /\ ~AddToUpctx(t)
  <2>1. \A u \in Threads \ {t} : CtxOf(u)'
    BY <1>0, <1>1, <1>3 DEF Moves
  <2>2. CtxOf(t)'
    <3>1. CASE pc'[t] = "collect"
      <4>1. ctx = NoContext
        BY <3>1, RunSteps DEF Inv, RunInv
      <4> QED
        BY <1>3, <3>1, <4>1 DEF CtxOf
    <3>2. CASE pc'[t] = "gather"
      <4>1. pc[t] = "collect"
        BY <1>3, <3>2, RunSteps DEF Collect, Enter
      <4>2. ctx = NoContext
        BY <4>1 DEF Inv, CtxInv, CtxOf
      <4> QED
        BY <1>3, <3>2, <4>2 DEF CtxOf
    <3>3. CASE pc'[t] = "divide" \/ pc'[t] = "divided"
      <4>1. CASE UpdateBegin(t)
        <5>1. pc[t] = "gather" /\ ctx' = Begun(ctx)
          BY <4>1 DEF UpdateBegin, Enter
        <5>2. ctx = NoContext \/ \E i \in Ids, w \in Tokens : ctx = Alone(i, w)
          BY <5>1 DEF Inv, CtxInv, CtxOf
        <5>3. CASE ctx = NoContext
          <6>1. Begun(ctx).loop # ctx.loop
            BY <5>3 DEF Begun, NoContext
          <6> QED
            BY <1>3, <5>1, <6>1
        <5>4. CASE \E i \in Ids, w \in Tokens : ctx = Alone(i, w)
          <6>0. PICK i \in Ids, w \in Tokens : ctx = Alone(i, w)
            BY <5>4
          <6>1. Begun(ctx).loop # ctx.loop
            BY <1>0, <6>0, ContextsOf
          <6> QED
            BY <1>3, <5>1, <6>1
        <5> QED
          BY <5>2, <5>3, <5>4
      <4>2. CASE DivideNext(t)
        <5>1. aborted' = aborted
          BY <1>3, <4>2 DEF DivideNext
        <5>2. pc[t] = "divide"
          BY <4>2 DEF DivideNext, Enter
        <5> QED
          BY <4>2, <5>1, <3>3, TurnIs DEF CtxOf
      <4> QED
        BY <3>3, <4>1, <4>2, RunSteps
    <3>4. CASE pc'[t] \notin RunPlaces
      BY <3>4 DEF CtxOf, RunPlaces
    <3>5. CASE pc'[t] = "weigh"
      <4>1. ctx = NoContext
        BY <3>5, RunSteps, InitIs
      <4> QED
        BY <1>3, <3>5, <4>1 DEF CtxOf
    <3> QED
      BY <3>1, <3>2, <3>3, <3>4, <3>5 DEF RunPlaces
  <2> QED
    BY <1>0, <1>3, <2>1, <2>2 DEF CtxInv
<1>4. CASE ctx' # ctx \/ AddToUpctx(t)
  <2>0. pc[t] \in RunPlaces
    BY <1>4, WhoWrites DEF AddToUpctx, UpdateBegin, DivideNext, ExecuteEnd, Enter, RunPlaces
  <2>1. \A u \in Threads \ {t} : pc'[u] \notin RunPlaces
    BY <1>0, <2>0 DEF Inv, RunInv, Moves
  <2>2. \A u \in Threads \ {t} : CtxOf(u)'
    BY <2>1 DEF CtxOf, RunPlaces
  <2>3. CASE AddToUpctx(t)
    <3>1. pc'[t] = "gather"
      BY <2>3 DEF AddToUpctx, Enter, Goto, Inv, Typed, TypeOK
    <3>2. PICK i \in Ids, w \in Tokens : Online(i) /\ ctx' = Alone(i, w)
      BY <2>3, GatherIs
    <3>3. Online(i)' /\ Alone(i, w)' = Alone(i, w)
      BY <1>0, <2>3, <3>2 DEF AddToUpctx, Online, Alone
    <3>4. CtxOf(t)'
      BY <3>1, <3>2, <3>3 DEF CtxOf
    <3>5. ctx' \in Contexts
      BY <1>0, <3>2, ContextsOf
    <3> QED
      BY <2>2, <3>4, <3>5 DEF CtxInv
  <2>4. CASE UpdateBegin(t)
    <3>1. /\ pc[t] = "gather" /\ ctx' = Begun(ctx) /\ tab' = tab
          /\ pc'[t] = IF ctx.node = <<>> THEN "divided" ELSE "divide"
      BY <2>4 DEF UpdateBegin, Enter, Goto, Inv, Typed, TypeOK
    <3>2. CASE ctx = NoContext
      <4>1. ctx' \in Contexts /\ ctx'.loop = 3 /\ ctx'.node = <<>> /\ pc'[t] = "divided"
        BY <3>1, <3>2, EmptyContext DEF NoContext
      <4>2. OnlineIds' = {}
        <5>1. ToGather = {} /\ DOMAIN ctx.node = {}
          BY <2>4, <3>2 DEF UpdateBegin, NoContext
        <5> QED
          BY <3>1, <5>1 DEF ToGather, OnlineIds, Online
      <4> QED
        BY <2>2, <4>1, <4>2 DEF CtxInv, CtxOf, Gathered
    <3>3. CASE \E i \in Ids, w \in Tokens : Online(i) /\ ctx = Alone(i, w)
      <4>1. PICK i \in Ids, w \in Tokens : Online(i) /\ ctx = Alone(i, w)
        BY <3>3
      <4>2. Begun(Alone(i, w)) \in Contexts /\ Begun(Alone(i, w)).loop = 1
        BY <1>0, ContextsOf
      <4>3. ctx.node # <<>>
        BY <1>0, <4>1, ContextsOf
      <4>4. Online(i)' /\ Alone(i, w)' = Alone(i, w)
        BY <1>0, <3>1, <4>1 DEF Online, Alone
      <4>5. Begun(Alone(i, w))' = Begun(Alone(i, w))
        BY <4>4
      <4>6. CtxOf(t)'
        BY <3>1, <4>1, <4>3, <4>4, <4>5 DEF CtxOf
      <4> QED
        BY <2>2, <3>1, <4>1, <4>2, <4>6 DEF CtxInv
    <3> QED
      BY <3>1, <3>2, <3>3 DEF Inv, CtxInv, CtxOf
  <2>5. CASE DivideNext(t)
    <3>1. aborted' = aborted
      BY <1>4, <2>5 DEF DivideNext, AddToUpctx, Enter
    <3>2. /\ ctx' \in Contexts /\ pc'[t] \in {"divide", "divided"}
          /\ pc'[t] = "divide" => Rest'
          /\ pc'[t] = "divided" => ctx'.loop = 3 /\ Gathered'
      BY <2>5, <3>1, TurnIs
    <3>3. CtxOf(t)'
      BY <3>2 DEF CtxOf
    <3> QED
      BY <2>2, <3>2, <3>3 DEF CtxInv
  <2>6. CASE ExecuteEnd(t)
    <3>1. ctx' = NoContext /\ pc'[t] = "wakeup"
      BY <2>6 DEF ExecuteEnd, Goto, Enter, Inv, Typed, TypeOK
    <3> QED
      BY <2>2, <3>1, EmptyContext DEF CtxInv, CtxOf
  <2> QED
    BY <1>4, <2>3, <2>4, <2>5, <2>6, WhoWrites
<1> QED
  BY <1>2, <1>3, <1>4

\* The wait list changes by a turn of a run, or loses a node that was served.
LEMMA WaitStep ==
  ASSUME Inv, NEW t \in Threads, HostCall(t) \/ Continue(t), ~DivideNext(t)
  PROVE  wait' = wait \/ \E j : wait' = Erased(wait, j)
BY WhoWrites DEF Take

\* A report leaves a quota that has nothing to come.
LEMMA RaisedNot ==
  ASSUME NEW node \in Nodes, NEW c \in Tokens, node.quota = node.quota_new
  PROVE  Raised(node, c) = node.quota
<1>1. Raised(node, c) \in Tokens /\ Raised(node, c) >= node.quota /\ node.quota \in Tokens
      /\ (node.quota <= node.quota_new => Raised(node, c) <= node.quota_new)
  BY RaisedType DEF Nodes
<1>2. node.quota \in Int /\ Raised(node, c) \in Int
  BY <1>1, TokensAre
<1> QED
  BY <1>1, <1>2

\* No step but the aborting turn of a run moves a quota from the minimum.
LEMMA SettledStep ==
  ASSUME Inv, NEW t \in Threads, HostCall(t) \/ Continue(t)
  PROVE  (Settled \/ Doomed)' /\ wait' \in Seq(Ids)
<1>0. /\ Moves(t) /\ tokens'.min = tokens.min /\ wait \in Seq(Ids)
      /\ tab \in [Ids -> Nodes \cup {NoNode}] /\ NoNode \notin Nodes
  BY NextMoves, TokensStep, NoNodeAssumption DEF Inv, Typed, TypeOK, SameLimits
<1>1. CASE DivideNext(t)
  <2>1. CASE aborted' = aborted
    BY <1>1, <2>1, TurnIs
  <2>2. CASE aborted' # aborted
    <3>1. UNCHANGED <<tab, wait, ctx, pc, tokens>>
      BY <1>1, <2>2 DEF DivideNext
    <3> QED
      BY <1>0, <3>1 DEF Settled, Doomed, Online, Inv
  <2> QED
    BY <2>1, <2>2
<1>2. CASE ~DivideNext(t) /\ Doomed
  <2>1. PICK s \in Threads : pc[s] = "divide"
    BY <1>2 DEF Doomed
  <2>2. pc[t] \notin {"divide"}
    BY <1>2, <2>1, WhoWrites DEF Inv, RunInv, RunPlaces, HostCall, Continue,
       AllocTokens, FreeTokens, Rcvd, NodeOnline, NodeOffline, NodeReset, SndMsg, Increase, Reduce, Begin,
       Call, CheckOnline, GetNode, AdmitBegin, AdmitEnd, DropNode,
       Alloc, IncreaseEnd, ReduceEnd, NodeRcvd, GFree, GFreeEnd, ClearCount, ReadCount, SwapCount, Execute,
       Collect, InitUpdateNode, AddToUpctx, UpdateBegin,
       ExecuteEnd, Wakeup, Serve, Take, SndMsgBuf, Enter
  <2>3. s # t /\ pc'[s] = "divide" /\ pc[t] \notin RunPlaces
    BY <1>0, <2>1, <2>2 DEF Moves, Inv, RunInv, RunPlaces
  <2>4. ctx' = ctx
    BY <1>2, <2>3, WhoWrites DEF AddToUpctx, UpdateBegin, ExecuteEnd, Enter, RunPlaces
  <2>5. wait' \in {<<>>, <<Current(ctx).id>>}
    BY <1>2, WaitStep, WaitListIs DEF Doomed
  <2>6. Current(ctx).id \in Ids
    BY <2>1, Divided1
  <2>7. <<>> \in Seq(Ids) /\ <<Current(ctx).id>> \in Seq(Ids)
    BY <2>6
  <2> QED
    BY <1>0, <1>2, <2>3, <2>4, <2>5, <2>7 DEF Doomed
<1>3. CASE ~DivideNext(t) /\ Settled
  <2>1. wait' = <<>>
    BY <1>3, WaitStep, WaitListIs DEF Settled
  <2>2. ASSUME NEW i \in Ids, Online(i)'
        PROVE  tab'[i].quota = tokens.min /\ tab'[i].quota_new = tokens.min /\ tab'[i].version = 0
    <3>1. CASE tab' = tab
      BY <1>3, <2>2, <3>1 DEF Settled, Online
    <3>2. CASE /\ me[t].id \in Ids
               /\ tab' = [tab EXCEPT ![me[t].id] = NewNode(me[t].fence, tokens.min)]
      BY <1>0, <1>3, <2>2, <3>2 DEF Settled, Online, NewNode
    <3>3. CASE \E j \in Ids : tab' = [tab EXCEPT ![j] = NoNode]
      BY <1>0, <1>3, <2>2, <3>3 DEF Settled, Online
    <3>4. CASE \E j \in Ids, node \in Nodes : NodeStep(t, j, node)
      <4>1. PICK j \in Ids, node \in Nodes : NodeStep(t, j, node)
        BY <3>4
      <4>2. CASE i = j
        <5>1. Online(i) /\ tab'[i] = node /\ tab[i] \in Nodes
          BY <1>0, <4>1, <4>2 DEF NodeStep, Online
        <5>2. tab[i].quota = tokens.min /\ tab[i].quota_new = tokens.min /\ tab[i].version = 0
          BY <1>3, <5>1 DEF Settled
        <5>3. \A c \in Tokens : Raised(tab[i], c) = tab[i].quota
          BY <5>1, <5>2, RaisedNot
        <5> QED
          BY <1>3, <4>1, <4>2, <5>1, <5>2, <5>3 DEF NodeStep
      <4>3. CASE i # j
        BY <1>0, <1>3, <2>2, <4>1, <4>3 DEF NodeStep, Settled, Online
      <4> QED
        BY <4>2, <4>3
    <3> QED
      BY <3>1, <3>2, <3>3, <3>4, TabStep
  <2>3. Settled'
    BY <1>0, <2>1, <2>2 DEF Settled
  <2>4. <<>> \in Seq(Ids)
    OBVIOUS
  <2> QED
    BY <2>1, <2>3, <2>4
<1> QED
  BY <1>1, <1>2, <1>3 DEF Inv

\* A message is a quota and a version.
LEMMA ToldStep ==
  ASSUME Inv, NEW t \in Threads, HostCall(t) \/ Continue(t)
  PROVE  told' \in [Ids -> Messages \cup {<<>>}]
<1>0. told \in [Ids -> Messages \cup {<<>>}] /\ tab \in [Ids -> Nodes \cup {NoNode}]
  BY DEF Inv, Typed, TypeOK
<1>1. CASE SndMsgBuf(t) /\ told' # told
  <2>1. PICK i \in Ids : i = me[t].id
    BY <1>1 DEF SndMsgBuf, Enter, Inv, MeInv, MeOf, HasId
  <2>2. Online(i) /\ told' = [told EXCEPT ![i] = Protocol(tab[i])]
    BY <1>1, <2>1 DEF SndMsgBuf
  <2>3. tab[i] \in Nodes
    BY <1>0, <2>2 DEF Online
  <2>4. Protocol(tab[i]) \in Messages
    BY <2>3 DEF Protocol, Least, Messages, Nodes
  <2> QED
    BY <1>0, <2>2, <2>4
<1> QED
  BY <1>0, <1>1, WhoWrites

\* What ended the program: offline only when nobody was inside the rwlock.
LEMMA EndStep ==
  ASSUME Inv, NEW t \in Threads, HostCall(t) \/ Continue(t)
  PROVE  aborted' \in Aborts /\ (aborted' = "offline" => readers' = {})
<1>0. aborted \in Aborts /\ aborted = "no"
  BY Running1 DEF Inv, Typed, TypeOK
<1>1. CASE HostCall(t)
  <2>1. \/ aborted' = aborted \/ aborted' \in {"hash", "reset", "free"}
        \/ aborted' = "offline" /\ readers = {} /\ readers' = readers
    BY <1>1 DEF HostCall, AllocTokens, FreeTokens, Rcvd, NodeOnline, NodeOffline, NodeReset, SndMsg,
       Increase, Reduce, Begin, Abort, CanWrite, lock
  <2> QED
    BY <1>0, <2>1 DEF Aborts
<1>2. CASE Continue(t)
  <2>1. aborted' = aborted \/ aborted' \in {"hash", "weight", "floor"}
    BY <1>2 DEF Continue, CheckOnline, GetNode, AdmitBegin, AdmitEnd, DropNode, Alloc, IncreaseEnd,
       ReduceEnd, NodeRcvd, GFree, GFreeEnd, ClearCount, ReadCount, SwapCount, Execute, Collect,
       InitUpdateNode, AddToUpctx, UpdateBegin, DivideNext, ExecuteEnd, Wakeup, Serve, Take, SndMsgBuf, Abort
  <2> QED
    BY <1>0, <2>1 DEF Aborts
<1> QED
  BY <1>1, <1>2

\* Allocations are made to applications of the incarnation they are made to.
LEMMA GrantedStep ==
  ASSUME Inv, NEW t \in Threads, HostCall(t) \/ Continue(t)
  PROVE  granted' \subseteq Ids \X Nat \X Costs
<1>0. granted \subseteq Ids \X Nat \X Costs /\ tab \in [Ids -> Nodes \cup {NoNode}]
  BY DEF Inv, Typed, TypeOK
<1>1. CASE granted' = granted
  BY <1>0, <1>1
<1>2. CASE \E i \in Ids, node \in Nodes : NodeStep(t, i, node)
  <2>1. PICK i \in Ids, node \in Nodes : NodeStep(t, i, node)
    BY <1>2
  <2>2. Online(i) /\ tab[i] \in Nodes
    BY <1>0, <2>1 DEF NodeStep, Online
  <2>3. tab[i].fence \in Nat
    BY <2>2 DEF Nodes
  <2>4. granted' = granted \/ \E c \in Costs : granted' = granted \cup {<<i, tab[i].fence, c>>}
    BY <2>1 DEF NodeStep
  <2> QED
    BY <1>0, <2>3, <2>4
<1> QED
  BY <1>1, <1>2, TabStep

\* Every variable keeps its type.
LEMMA TypedStep ==
  ASSUME Inv, NEW t \in Threads, HostCall(t) \/ Continue(t)
  PROVE  Typed'
<1>1. UNCHANGED config /\ hashed \in BOOLEAN /\ interval \in Intervals /\ Intervals \subseteq Nat
  BY WhoWrites, ParamAssumption DEF Inv, Typed, TypeOK
<1>2. tab' \in [Ids -> Nodes \cup {NoNode}]
  <2>1. tab \in [Ids -> Nodes \cup {NoNode}]
    BY DEF Inv, Typed, TypeOK
  <2> QED
    BY <2>1, TabStep DEF NodeStep
<1>3. fence_id' \in Nat
  BY WhoWrites DEF GetNode, DropNode, Inv, Typed, TypeOK
<1>4. cnt' \in 0..interval
  <2>1. cnt \in 0..interval /\ 0 \in 0..interval
    BY <1>1 DEF Inv, Typed, TypeOK
  <2>2. SwapCount(t) => me[t].new \in 0..interval
    BY DEF SwapCount, Enter, Inv, MeInv, MeOf
  <2> QED
    BY <2>1, <2>2, WhoWrites DEF ClearCount, SwapCount
<1>5. is_exe' \in BOOLEAN
  BY WhoWrites DEF Execute, Inv, Typed, TypeOK
<1>6. me' \in [Threads -> Locals] /\ ctx' \in Contexts /\ told' \in [Ids -> Messages \cup {<<>>}]
  BY MeStep, CtxStep, ToldStep
<1>7. ctx'.loop \in 0..3
  BY <1>6 DEF Contexts
<1>8. \A u \in Threads : me'[u].id \in Ids \cup {NoNode} /\ me'[u].back \in {"idle", "alloc", "rcvd"}
  BY <1>6 DEF Locals
<1>9. tokens' \in Account /\ tokens'.min \in Mins
  BY TokensStep DEF SameLimits, Inv, Typed
<1>10. /\ cached' \in Nat /\ wait' \in Seq(Ids) /\ pc' \in [Threads -> Places]
       /\ readers' \subseteq Threads /\ writer' \in Threads \cup {NoThread}
       /\ readers' # {} => writer' = NoThread
       /\ aborted' \in Aborts
       /\ granted' \subseteq Ids \X Nat \X Costs
  BY SeatsStep, SettledStep, PcStep, ReadersStep, EndStep, GrantedStep
<1> QED
  BY <1>1, <1>2, <1>3, <1>4, <1>5, <1>6, <1>7, <1>8, <1>9, <1>10 DEF Typed, TypeOK, config

\* A thread that serves the list has the online node before it, whose quota is to rise.
LEMMA ServesOnline ==
  ASSUME Inv, wait # <<>>
  PROVE  Head(wait) \in Ids /\ Online(Head(wait))
<1>1. Doomed
  BY DEF Inv, Settled
<1>2. PICK s \in Threads : pc[s] = "divide" /\ wait = <<Current(ctx).id>>
  BY <1>1 DEF Doomed
<1>3. Current(ctx).id \in Ids /\ Online(Current(ctx).id)
  BY <1>2, Divided1
<1> QED
  BY <1>2, <1>3

\* What a thread knows stays true under the steps of others.
LEMMA OthersMe ==
  ASSUME Inv, NEW t \in Threads, HostCall(t) \/ Continue(t), NEW u \in Threads \ {t}
  PROVE  MeOf(u)'
<1>0. /\ Moves(t) /\ SameLimits(tokens', tokens) /\ interval' = interval
      /\ tab \in [Ids -> Nodes \cup {NoNode}] /\ NoNode \notin Nodes /\ MeOf(u)
  BY NextMoves, TokensStep, WhoWrites, NoNodeAssumption DEF Inv, Typed, TypeOK, config, MeInv
<1>1. pc'[u] = pc[u] /\ me'[u] = me[u]
  BY <1>0 DEF Moves
<1>2. pc[u] = "online" =>
        me[u].snap.num_cur = tokens'.num_cur /\ ~Online(me[u].id)'
  <2>1. HAVE pc[u] = "online"
  <2>2. writer = u /\ pc[t] # "online"
    BY <2>1 DEF Inv, LockInv
  <2>3. ~AdmitEnd(t)
    BY <2>2 DEF AdmitEnd, Enter
  <2>4. tokens'.num_cur = tokens.num_cur
    BY <2>3, NumCurStep
  <2>5. OnlineIds' \subseteq OnlineIds
    BY <2>3, OnlineStep
  <2>6. me[u].id \in Ids /\ me[u].snap.num_cur = tokens.num_cur /\ ~Online(me[u].id)
    BY <1>0, <2>1 DEF MeOf, HasId
  <2> QED
    BY <1>1, <2>4, <2>5, <2>6 DEF OnlineIds
<1>3. pc[u] = "take" => /\ me[u].first \in Ids /\ Online(me[u].first)'
                        /\ tab'[me[u].first].quota <= tab'[me[u].first].quota_new
  <2>1. HAVE pc[u] = "take"
  <2>2. PICK i \in Ids : i = me[u].first /\ Online(i) /\ tab[i].quota <= tab[i].quota_new
    BY <1>0, <2>1 DEF MeOf
  <2>3. Online(i)'
    BY <2>1, <2>2, Locked, StaysOnline DEF Reading
  <2>4. tab'[i] = tab[i]
    <3>1. CASE \E j \in Ids, node \in Nodes : NodeStep(t, j, node)
      <4>1. PICK j \in Ids, node \in Nodes : NodeFree(j) /\ tab' = [tab EXCEPT ![j] = node]
        BY <3>1 DEF NodeStep
      <4>2. i # j
        BY <2>1, <2>2, <4>1 DEF NodeFree
      <4> QED
        BY <1>0, <4>1, <4>2
    <3>2. CASE \E j \in Ids : tab' = [tab EXCEPT ![j] = NoNode]
      BY <1>0, <2>3, <3>2 DEF Online
    <3>3. CASE me[t].id \in Ids /\ ~Online(me[t].id)
               /\ tab' = [tab EXCEPT ![me[t].id] = NewNode(me[t].fence, tokens.min)]
      BY <1>0, <2>2, <3>3 DEF Online
    <3> QED
      BY <3>1, <3>2, <3>3, TabStep
  <2> QED
    BY <1>1, <2>2, <2>3, <2>4
<1>4. pc[u] = "weigh" => Online(me[u].first)'
  <2>1. HAVE pc[u] = "weigh"
  <2>2. me[u].first \in Ids /\ Online(me[u].first)
    BY <1>0, <2>1 DEF MeOf
  <2>3. PICK i \in Ids : i = me[u].first /\ Online(i)
    BY <2>2
  <2>4. Online(i)'
    BY <2>1, <2>3, Locked, StaysOnline DEF Reading
  <2> QED
    BY <1>1, <2>3, <2>4
<1> QED
  BY <1>0, <1>1, <1>2, <1>3, <1>4 DEF MeOf, SameLimits

\* A thread that is through with a call forgets, and one that goes on still knows.
LEMMA BackMe ==
  ASSUME Inv, NEW t \in Threads, Done(t) \/ Back(t), pc[t] \notin Viewing \/ pc[t] = "take"
  PROVE  MeOf(t)'
<1>0. pc \in [Threads -> Places] /\ me \in [Threads -> Locals] /\ MeOf(t)
  BY DEF Inv, Typed, TypeOK, MeInv
<1>1. CASE pc'[t] = "idle" /\ me'[t] = NoMe
  BY <1>1 DEF MeOf, NoMe, HasId, Viewing
<1>2. CASE pc'[t] = me[t].back /\ me[t].back # "idle" /\ me'[t] = me[t]
  <2>1. me[t].back \in {"alloc", "rcvd"}
    BY <1>2 DEF Inv, Typed, TypeOK
  <2> QED
    BY <1>0, <1>2, <2>1 DEF MeOf, HasId, Viewing
<1> QED
  BY <1>0, <1>1, <1>2 DEF Done, Back, Goto

\* What a thread knows after its own step.
LEMMA OwnMe ==
  ASSUME Inv, NEW t \in Threads, HostCall(t) \/ Continue(t)
  PROVE  MeOf(t)'
<1>0. /\ MeOf(t) /\ pc \in [Threads -> Places] /\ me \in [Threads -> Locals] /\ me[t] \in Locals
      /\ tokens \in Account /\ SameLimits(tokens, tokens)
      /\ me[t].back \in {"idle", "alloc", "rcvd"} /\ cnt \in 0..interval /\ interval \in Nat
      /\ interval' = interval
  BY WhoWrites, ParamAssumption DEF Inv, Typed, TypeOK, MeInv, SameLimits, config
<1> DEFINE Plain == {"idle", "drop", "clear", "count", "recount", "execute", "collect",
                     "gather", "divide", "divided", "wakeup", "serve"}
<1>p. ASSUME me'[t] = me[t], pc'[t] \in Plain PROVE MeOf(t)'
  BY <1>0, <1>p DEF MeOf, HasId, Viewing
<1>h. CASE HostCall(t)
  <2>1. ASSUME pc'[t] \in {"check", "newnode", "send"}, me'[t].id \in Ids,
               me'[t].back = "alloc" => me'[t].amount \in Costs
        PROVE  MeOf(t)'
    BY <2>1 DEF MeOf, HasId, Viewing
  <2>2. ASSUME pc'[t] \in {"increase", "reduce"}, me'[t].back = "idle", me'[t].snap = tokens, tokens' = tokens
        PROVE  MeOf(t)'
    BY <1>0, <2>2 DEF MeOf, HasId, Viewing
  <2>3. CASE me' = me /\ (pc' = pc \/ pc'[t] = "clear")
    <3>1. pc[t] = "idle"
      BY <1>h DEF HostCall, AllocTokens, FreeTokens, Rcvd, NodeOnline, NodeOffline, NodeReset, SndMsg,
       Increase, Reduce, Begin, Call, Enter
    <3> QED
      BY <1>p, <2>3, <3>1
  <2>4. ASSUME NEW i \in Ids, NEW c \in Costs, AllocTokens(t, i, c) PROVE MeOf(t)'
    <3>1. pc'[t] = "check" /\ me'[t].id = i /\ me'[t].amount = c
      BY <1>0, <2>4 DEF AllocTokens, Begin, Goto, NoMe
    <3> QED
      BY <2>1, <3>1
  <2>5. ASSUME NEW i \in Ids, Rcvd(t, i) \/ NodeOnline(t, i) \/ SndMsg(t, i) PROVE MeOf(t)'
    <3>1. pc'[t] \in {"check", "newnode", "send"} /\ me'[t].id = i /\ me'[t].back \in {"idle", "rcvd"}
      BY <1>0, <2>5 DEF Rcvd, NodeOnline, SndMsg, Begin, Goto, NoMe
    <3> QED
      BY <2>1, <3>1
  <2>6. ASSUME NEW u \in Units, Increase(t, u) \/ Reduce(t, u) PROVE MeOf(t)'
    <3>1. pc'[t] \in {"increase", "reduce"} /\ me'[t].back = "idle" /\ me'[t].snap = tokens /\ tokens' = tokens
      BY <1>0, <2>6 DEF Increase, Reduce, Goto, NoMe
    <3> QED
      BY <2>2, <3>1
  <2>7. ASSUME NEW i \in Ids, \/ NodeOffline(t, i) \/ NodeReset(t, i)
                              \/ \E c \in Costs, f \in 0..fence_id : FreeTokens(t, i, f, c)
        PROVE  MeOf(t)'
    BY <1>0, <2>3, <2>7 DEF NodeOffline, NodeReset, FreeTokens, UpdatePolicy, Goto
  <2> QED
    BY <1>h, <2>4, <2>5, <2>6, <2>7 DEF HostCall
<1>b. ASSUME Done(t) \/ Back(t), pc[t] \notin Viewing \/ pc[t] = "take" PROVE MeOf(t)'
  BY <1>b, BackMe
<1>1. CASE CheckOnline(t)
  BY <1>0, <1>1 DEF CheckOnline, Enter, Goto, MeOf, HasId, Viewing
<1>2. CASE GetNode(t)
  <2>1. CASE Back(t)
    BY <1>2, <1>b, <2>1 DEF GetNode, Enter, Viewing
  <2>2. CASE ~Back(t)
    <3>1. pc[t] = "newnode" /\ pc'[t] = "admit"
          /\ me'[t].id = me[t].id /\ me'[t].back = me[t].back /\ me'[t].amount = me[t].amount
      BY <1>0, <1>2, <2>2 DEF GetNode, Enter, Goto, Locals
    <3> QED
      BY <1>0, <3>1 DEF MeOf, HasId, Viewing
  <2> QED
    BY <2>1, <2>2
<1>3. CASE AdmitBegin(t)
  <2>1. pc[t] = "admit" /\ tab' = tab /\ tokens' = tokens
    BY <1>3 DEF AdmitBegin, Enter
  <2>2. CASE pc'[t] = "online"
    <3>1. Load(t) /\ ~Online(me[t].id)
      BY <1>0, <1>3, <2>1, <2>2 DEF AdmitBegin, Goto
    <3>2. /\ me'[t].id = me[t].id /\ me'[t].back = me[t].back /\ me'[t].amount = me[t].amount
          /\ me'[t].snap = tokens
      BY <1>0, <3>1 DEF Load, Locals
    <3> QED
      BY <1>0, <2>1, <2>2, <3>1, <3>2 DEF MeOf, HasId, Viewing, Online
  <2>3. CASE pc'[t] # "online"
    <3>1. me' = me /\ pc'[t] \in {"admit", "drop"}
      BY <1>0, <1>3, <2>1, <2>3 DEF AdmitBegin, Goto
    <3> QED
      BY <1>0, <2>1, <3>1 DEF MeOf, HasId, Viewing
  <2> QED
    BY <2>2, <2>3
<1>4. CASE AdmitEnd(t)
  <2>1. pc[t] = "online" /\ pc'[t] \in {"clear", "drop"}
        /\ me'[t].id = me[t].id /\ me'[t].back = me[t].back /\ me'[t].amount = me[t].amount
    BY <1>0, <1>4 DEF AdmitEnd, Enter, UpdatePolicy, Goto, Locals
  <2> QED
    BY <1>0, <2>1 DEF MeOf, HasId, Viewing
<1>5. CASE DropNode(t)
  BY <1>5, <1>b DEF DropNode, Enter, Viewing
<1>6. CASE Alloc(t)
  BY <1>6, <1>b DEF Alloc, Enter, Viewing
<1>f. ASSUME Forget(t), pc'[t] \in Plain, me[t].back = "idle" PROVE MeOf(t)'
  <2>1. me'[t].id = me[t].id /\ me'[t].back = "idle"
    BY <1>0, <1>f DEF Forget, Locals
  <2> QED
    BY <1>0, <1>f, <2>1 DEF MeOf, HasId, Viewing
<1>7. CASE IncreaseEnd(t)
  BY <1>0, <1>7, <1>f DEF IncreaseEnd, Enter, UpdatePolicy, Goto, MeOf
<1>8. CASE ReduceEnd(t)
  <2>1. CASE Done(t)
    BY <2>1 DEF Done, MeOf, NoMe, HasId, Viewing, Inv, Typed, TypeOK
  <2>2. CASE ~Done(t)
    BY <1>0, <1>8, <1>f, <2>2 DEF ReduceEnd, Enter, UpdatePolicy, Goto, MeOf
  <2> QED
    BY <2>1, <2>2
<1>9. CASE NodeRcvd(t)
  <2>1. CASE Done(t)
    BY <1>9, <1>b, <2>1 DEF NodeRcvd, Enter, Viewing
  <2>2. CASE ~Done(t)
    <3>0. /\ \/ me' = [me EXCEPT ![t].back = "idle"]
             \/ \E a : me' = [me EXCEPT ![t].amount = a, ![t].back = "idle"]
          /\ \E place \in {"count", "gfree"} : Goto(t, place)
      BY <1>9, <2>2 DEF NodeRcvd
    <3>1. pc'[t] \in {"count", "gfree"}
      BY <1>0, <3>0 DEF Goto
    <3>2. me'[t].back = "idle"
      <4>1. CASE me' = [me EXCEPT ![t].back = "idle"]
        BY <1>0, <4>1 DEF Locals
      <4>2. CASE \E a : me' = [me EXCEPT ![t].amount = a, ![t].back = "idle"]
        <5>1. PICK a : me' = [me EXCEPT ![t].amount = a, ![t].back = "idle"]
          BY <4>2
        <5>2. me'[t] = [me[t] EXCEPT !.amount = a, !.back = "idle"]
          BY <1>0, <5>1
        <5> QED
          BY <1>0, <5>2 DEF Locals
      <4> QED
        BY <3>0, <4>1, <4>2
    <3> QED
      BY <3>1, <3>2 DEF MeOf, HasId, Viewing
  <2> QED
    BY <2>1, <2>2
<1>10. CASE GFree(t)
  <2>1. pc[t] = "gfree" /\ pc'[t] = "gfreeend" /\ tokens' = tokens
        /\ me'[t].back = me[t].back /\ me'[t].snap = tokens
    BY <1>0, <1>10 DEF GFree, Enter, Load, Goto, Locals
  <2> QED
    BY <1>0, <2>1 DEF MeOf, HasId, Viewing
<1>11. CASE GFreeEnd(t)
  BY <1>0, <1>11, <1>f DEF GFreeEnd, Enter, Goto, MeOf
<1>12. CASE ReadCount(t)
  <2>1. CASE pc'[t] = "recount"
    <3>1. pc[t] = "count" /\ me'[t].id = me[t].id /\ me'[t].back = me[t].back /\ me'[t].amount = me[t].amount
      BY <1>0, <1>12, <2>1 DEF ReadCount, Enter, Goto, Locals
    <3> QED
      BY <1>0, <2>1, <3>1 DEF MeOf, HasId, Viewing
  <2>2. CASE pc'[t] # "recount"
    <3>1. /\ pc[t] = "recount" /\ pc'[t] = "swap"
          /\ me'[t].id = me[t].id /\ me'[t].back = me[t].back /\ me'[t].amount = me[t].amount
          /\ me'[t].new = UpCnt(cnt)
      BY <1>0, <1>12, <2>2 DEF ReadCount, Enter, Goto, Locals
    <3>2. UpCnt(cnt) \in 0..interval
      BY <1>0 DEF UpCnt
    <3> QED
      BY <1>0, <3>1, <3>2 DEF MeOf, HasId, Viewing
  <2> QED
    BY <2>1, <2>2
<1>13. CASE SwapCount(t)
  <2>1. CASE Done(t)
    BY <1>13, <1>b, <2>1 DEF SwapCount, Enter, Viewing
  <2>2. CASE ~Done(t)
    BY <1>0, <1>13, <1>p, <2>2 DEF SwapCount, Enter, Goto
  <2> QED
    BY <2>1, <2>2
<1>14. CASE ClearCount(t) \/ Execute(t) \/ Collect(t) \/ UpdateBegin(t) \/ DivideNext(t)
            \/ ExecuteEnd(t) \/ Wakeup(t)
  BY <1>0, <1>14, <1>p DEF ClearCount, Execute, Collect, UpdateBegin, DivideNext, ExecuteEnd,
     Wakeup, Enter, Goto
<1>15. CASE Serve(t)
  <2>1. CASE Back(t)
    BY <1>15, <1>b, <2>1 DEF Serve, Enter, Viewing
  <2>2. CASE ~Back(t)
    <3>1. wait # <<>> /\ tab[Head(wait)].quota < tab[Head(wait)].quota_new /\ tab' = tab /\ tokens' = tokens
          /\ pc[t] = "serve" /\ pc'[t] = "take"
          /\ me'[t].id = me[t].id /\ me'[t].back = me[t].back /\ me'[t].amount = me[t].amount
          /\ me'[t].first = Head(wait) /\ me'[t].snap = tokens
      BY <1>0, <1>15, <2>2 DEF Serve, LeaveServe, Enter, Goto, Locals
    <3>2. PICK i \in Ids : i = Head(wait) /\ Online(i) /\ tab[i] \in Nodes
      BY <3>1, ServesOnline DEF Inv, Typed, TypeOK, Online
    <3>3. tab[i].quota <= tab[i].quota_new
      BY <3>1, <3>2, TokensAre DEF Nodes
    <3> QED
      BY <1>0, <3>1, <3>2, <3>3 DEF MeOf, HasId, Viewing, Online
  <2> QED
    BY <2>1, <2>2
<1>16. CASE Take(t)
  <2>1. CASE Back(t)
    BY <1>16, <1>b, <2>1 DEF Take, Enter
  <2>2. CASE ~Back(t)
    <3>1. pc[t] = "take" /\ pc'[t] = "serve"
          /\ me'[t].id = me[t].id /\ me'[t].back = me[t].back /\ me'[t].amount = me[t].amount
      BY <1>0, <1>16, <2>2 DEF Take, LeaveServe, Enter, Goto, Locals
    <3> QED
      BY <1>0, <3>1 DEF MeOf, HasId, Viewing
  <2> QED
    BY <2>1, <2>2
<1>17. CASE SndMsgBuf(t)
  <2>1. CASE Done(t)
    BY <1>17, <1>b, <2>1 DEF SndMsgBuf, Enter, Viewing
  <2>2. CASE ~Done(t)
    BY <1>0, <1>17, <2>2 DEF SndMsgBuf, Enter, MeOf, HasId, Viewing
  <2> QED
    BY <2>1, <2>2
<1>18. CASE InitUpdateNode(t)
  <2>1. PICK i \in Ids : /\ Online(i) /\ tab[i] \in Nodes /\ tab[i].quota = tokens.min
                         /\ me' = [me EXCEPT ![t].first = i, ![t].snap = tab[i]]
    BY <1>18, InitIs
  <2>2. /\ pc[t] = "gather" /\ pc'[t] = "weigh" /\ tab' = tab /\ tokens' = tokens
        /\ me'[t].id = me[t].id /\ me'[t].back = me[t].back /\ me'[t].amount = me[t].amount
        /\ me'[t].first = i /\ me'[t].snap = tab[i]
    BY <1>0, <1>18, <2>1 DEF InitUpdateNode, Enter, Goto, Locals
  <2> QED
    BY <1>0, <2>1, <2>2 DEF MeOf, HasId, Viewing, Online
<1>19. CASE AddToUpctx(t)
  <2>1. /\ pc[t] = "weigh" /\ pc'[t] = "gather"
        /\ me'[t].id = me[t].id /\ me'[t].back = me[t].back /\ me'[t].amount = me[t].amount
    BY <1>0, <1>19 DEF AddToUpctx, Enter, Goto, Locals
  <2> QED
    BY <1>0, <2>1 DEF MeOf, HasId, Viewing
<1> QED
  BY <1>h, <1>1, <1>2, <1>3, <1>4, <1>5, <1>6, <1>7, <1>8, <1>9, <1>10, <1>11, <1>12, <1>13, <1>14,
     <1>15, <1>16, <1>17, <1>18, <1>19 DEF Continue

-------------------------------------------------------------------------------
\* The inductive invariant holds at first ...
LEMMA InvInit == Init => Inv
<1> SUFFICES ASSUME Init PROVE Inv
  OBVIOUS
<1>1. PICK m \in NumMaxs, l \in Mins : tokens = NewAccount(m, l)
  BY DEF Init
<1>2. m \in Tokens /\ l \in Tokens /\ 0 \in Tokens
  BY ParamAssumption, WordAssumption DEF Tokens
<1>3. tokens \in Account /\ tokens.min = l /\ tokens.num_max = m /\ tokens.num_cur = 0
  BY <1>1, <1>2, NewAccountType DEF NewAccount
<1>4. <<>> \in Seq(Ids) /\ NoMe \in Locals /\ NoContext.loop = 0
  BY <1>2 DEF NoMe, Locals, NoContext
<1>5. interval \in Nat
  BY ParamAssumption DEF Init
<1>6. Typed
  <2>0. hashed \in BOOLEAN /\ is_exe \in BOOLEAN
    BY DEF Init
  <2>1. /\ interval \in Intervals /\ cnt \in 0..interval
        /\ cached \in Nat /\ fence_id \in Nat /\ aborted \in Aborts
    BY <1>2, <1>5 DEF Init, Aborts
  <2>2. /\ tab \in [Ids -> Nodes \cup {NoNode}] /\ wait \in Seq(Ids)
        /\ readers \subseteq Threads /\ writer \in Threads \cup {NoThread}
        /\ readers # {} => writer = NoThread
        /\ granted \subseteq Ids \X Nat \X Costs
        /\ told \in [Ids -> Messages \cup {<<>>}]
    BY <1>4 DEF Init
  <2>3. /\ pc \in [Threads -> Places] /\ me \in [Threads -> Locals]
        /\ \A t \in Threads : me[t].id \in Ids \cup {NoNode} /\ me[t].back \in {"idle", "alloc", "rcvd"}
    BY <1>4 DEF Init, Places, NoMe
  <2>4. ctx \in Contexts /\ ctx.loop \in 0..3
    BY <1>4, EmptyContext DEF Init
  <2> QED
    BY <1>1, <1>3, <2>0, <2>1, <2>2, <2>3, <2>4 DEF Typed, TypeOK
<1>7. LockInv /\ MeInv
  BY NullAssumption DEF Init, LockInv, Reading, MeInv, MeOf, HasId, Viewing, NoMe
<1>8. OnlineIds = {} /\ {t \in Threads : pc[t] \in {"admit", "online", "drop"}} = {}
  BY DEF Init, OnlineIds, Online
<1>9. SeatsMatch /\ EmptyUnlessOneSeat
  <2>1. Cardinality({}) = 0
    BY FS_EmptySet
  <2>2. 0 <= tokens.num_max /\ 0 + 0 = 0
    BY <1>2, <1>3, TokensAre
  <2> QED
    BY <1>3, <1>8, <2>1, <2>2 DEF SeatsMatch, EmptyUnlessOneSeat, Init
<1>10. RunInv /\ CtxInv /\ Settled /\ aborted = "no"
  BY <1>4 DEF Init, RunInv, CtxInv, CtxOf, Settled, RunPlaces, Online
<1> QED
  BY <1>6, <1>7, <1>9, <1>10 DEF Inv

\* ... is kept by every step ...
LEMMA InvStep == Inv /\ [Next]_vars => Inv'
<1> SUFFICES ASSUME Inv, [Next]_vars PROVE Inv'
  OBVIOUS
<1>1. CASE UNCHANGED vars
  <2>1. Typed'
    BY <1>1 DEF vars, Inv, Typed, TypeOK
  <2>2. LockInv'
    BY <1>1 DEF vars, Inv, LockInv
  <2>3. MeInv'
    BY <1>1 DEF vars, Inv, MeInv, MeOf, Online
  <2>4. SeatsMatch' /\ EmptyUnlessOneSeat'
    BY <1>1 DEF vars, Inv, SeatsMatch, EmptyUnlessOneSeat, OnlineIds, Online
  <2>5. RunInv'
    BY <1>1 DEF vars, Inv, RunInv
  <2>6. CtxInv'
    BY <1>1 DEF vars, Inv, CtxInv, CtxOf, Rest, Gathered, Alone, Online, OnlineIds
  <2>7. (Settled \/ Doomed)' /\ (aborted = "offline" => readers = {})'
    BY <1>1 DEF vars, Inv, Settled, Doomed, Online
  <2> QED
    BY <2>1, <2>2, <2>3, <2>4, <2>5, <2>6, <2>7 DEF Inv
<1>2. CASE Next
  <2>1. PICK t \in Threads : HostCall(t) \/ Continue(t)
    BY <1>2 DEF Next
  <2>2. MeInv'
    BY <2>1, OthersMe, OwnMe DEF MeInv
  <2> QED
    BY <2>1, <2>2, TypedStep, LockStep, SeatsStep, RunStep, CtxStep, SettledStep, EndStep DEF Inv
<1> QED
  BY <1>1, <1>2

\* ... and so holds always.
LEMMA InvAlways == Spec => []Inv
<1>1. Inv /\ [Next]_vars => Inv'
  BY InvStep
<1> QED
  BY InvInit, <1>1, PTL DEF Spec

\* Every variable keeps its type: the account's fields stay words, the counter of reports
\* stays within its interval, no reader is beside a writer, in any interleaving.
THEOREM TypeCorrect == Spec => []TypeOK
<1>1. Inv => TypeOK
  BY DEF Inv, Typed
<1> QED
  BY <1>1, InvAlways, PTL

\* token_global's app_num_cur, the table and the node cache always agree, for any number
\* of applications, threads and seats: node_online gives back what it does not use.
THEOREM SeatsAgree == Spec => []SeatsMatch
<1>1. Inv => SeatsMatch
  BY DEF Inv
<1> QED
  BY <1>1, InvAlways, PTL

\* Of any number of threads that update the policy one is in the run, and while it divides
\* tokens its context has every online node once: execute's compare-and-swap and the read
\* lock that the run keeps protect the context, which has no lock of its own.
THEOREM RunsAlone == Spec => []PolicyRunsAlone
<1>1. Inv => PolicyRunsAlone
  <2> SUFFICES ASSUME Inv, NEW t \in Threads, pc[t] \in RunPlaces
               PROVE  /\ \A u \in Threads : pc[u] \in RunPlaces => u = t
                      /\ pc[t] \in {"divide", "divided"} =>
                           /\ {ctx.node[k].id : k \in DOMAIN ctx.node} = OnlineIds
                           /\ Len(ctx.node) = Cardinality(OnlineIds)
    BY DEF PolicyRunsAlone
  <2>1. \A u \in Threads : pc[u] \in RunPlaces => u = t
    BY DEF Inv, RunInv
  <2>2. ASSUME pc[t] \in {"divide", "divided"}
        PROVE  /\ {ctx.node[k].id : k \in DOMAIN ctx.node} = OnlineIds
               /\ Len(ctx.node) = Cardinality(OnlineIds)
    <3>1. aborted # "offline"
      BY <2>2, Locked DEF Inv, Reading
    <3>2. Gathered
      BY <2>2, Divided1 DEF Inv, CtxInv, CtxOf, Gathered
    <3>3. CASE ctx.node = <<>> /\ OnlineIds = {}
      <4>1. Len(<<>>) = 0 /\ DOMAIN <<>> = {}
        OBVIOUS
      <4> QED
        BY <3>3, <4>1, FS_EmptySet
    <3>4. CASE \E u \in UNodes : ctx.node = <<u>> /\ Online(u.id)
      <4>1. PICK u \in UNodes : ctx.node = <<u>> /\ Online(u.id)
        BY <3>4
      <4>2. u.id \in Ids
        BY DEF UNodes
      <4>3. OnlineIds = {u.id}
        BY <3>1, <4>1, <4>2, AtMostOne DEF OnlineIds
      <4>4. DOMAIN ctx.node = {1} /\ ctx.node[1] = u /\ Len(ctx.node) = 1
        BY <4>1
      <4>5. {ctx.node[k].id : k \in DOMAIN ctx.node} = {u.id}
        BY <4>4
      <4>6. Cardinality({u.id}) = 1
        BY FS_Singleton
      <4> QED
        BY <4>3, <4>4, <4>5, <4>6
    <3> QED
      BY <3>2, <3>3, <3>4 DEF Gathered
  <2> QED
    BY <2>1, <2>2
<1> QED
  BY <1>1, InvAlways, PTL

-------------------------------------------------------------------------------
(* Tokens in use.  That sums of small numbers do not wrap is assumed.          *)

CostsSmall == \A c \in Costs, m \in Mins : 2 * (c + m) <= Word

\* No quota is far above half a word, and what was granted is in use.
QuotaInv ==
  \A i \in Ids : Online(i) => /\ tab[i].inuse <= tab[i].quota
                              /\ tab[i].quota <= tab[i].quota_new
                              /\ 2 * tab[i].quota_new <= Word - 1 + 2 * tokens.min
GrantInv ==
  aborted # "offline" =>
    \A g \in granted : Online(g[1]) /\ tab[g[1]].fence = g[2] /\ g[3] <= tab[g[1]].inuse

\* A quotient by two or more is at most half.
LEMMA Halved ==
  ASSUME NEW x \in Nat, NEW w \in Nat, w >= 2
  PROVE  x \div w \in Nat /\ 2 * (x \div w) <= x
<1>1. PICK y \in Int : y = x \div w
  OBVIOUS
<1>2. PICK r \in Int : r = x % w
  OBVIOUS
<1>3. x = w * y + r /\ 0 <= r /\ r < w
  BY <1>1, <1>2
<1>4. y >= 0
  BY <1>1
<1>5. w * y >= 2 * y
  BY <1>4
<1> QED
  BY <1>1, <1>3, <1>4, <1>5

\* A share that is not below the minimum is at most half of what wrapped, and the base.
LEMMA ShareBound ==
  ASSUME Inv, NEW t \in Threads, DivideNext(t), aborted' = aborted
  PROVE  NextQuota(ctx) >= tokens.min /\ 2 * NextQuota(ctx) <= Word - 1 + 2 * tokens.min
<1>1. /\ pc[t] = "divide" /\ aborted = "no"
      /\ ctx.loop = 1 => ctx.weight > 0
      /\ NextQuota(ctx) >= tokens.min
  BY DEF DivideNext, Enter, Abort
<1>2. PICK m \in Tokens : m = tokens.min
  BY DEF Inv, Typed, TypeOK, Account
<1>3. m \in Int /\ 0 <= m /\ Word \in Int /\ m < Word /\ 0 \in Tokens
  BY TokensAre, WordAssumption
<1>4. CASE Rest
  <2>1. NextQuota(ctx) = 0
    BY <1>4 DEF Rest, NextQuota, Current
  <2> QED
    BY <1>1, <1>2, <1>3, <2>1
<1>5. CASE \E i \in Ids, w \in Tokens : Online(i) /\ ctx = Begun(Alone(i, w))
  <2>1. PICK i \in Ids, w \in Tokens : ctx = Begun(Alone(i, w))
    BY <1>5
  <2>2. /\ ctx.node = <<[id |-> i, base |-> m, tmp |-> 0, weight |-> w]>>
        /\ ctx.weight = w /\ ctx.total = 0 /\ ctx.static = m /\ ctx.loop = 1 /\ ctx.pos = 1
    BY <1>2, <2>1, AloneIs DEF Inv
  <2>3. Current(ctx).weight = w /\ Current(ctx).base = m
    BY <2>2 DEF Current
  <2>4. w \in Nat /\ w >= 1
    BY <1>1, <2>2, TokensAre
  <2>5. PICK l \in Tokens : l = LeftBase(ctx) /\ l = IF m = 0 THEN 0 ELSE Word - m
    <3>1. LeftBase(ctx) = Minus(0, m)
      BY <2>2 DEF LeftBase
    <3>2. Minus(0, m) = IF 0 >= m THEN 0 - m ELSE 0 - m + Word
      BY <1>3, Wrapped
    <3> QED
      BY <1>3, <3>1, <3>2, PlusType
  <2>6. l \in Nat /\ l < Word
    BY TokensAre
  <2>7. PICK x \in Nat : x = (l * w) % Word /\ x <= Word - 1
    BY <2>4, <2>6, WordAssumption
  <2>8. NextQuota(ctx) = Plus(x \div w, m)
    BY <2>2, <2>3, <2>5, <2>7 DEF NextQuota
  <2>9. CASE w = 1
    <3>1. x = l /\ x \div w = l
      BY <2>6, <2>7, <2>9, WordAssumption
    <3>2. Plus(l, m) = IF l + m < Word THEN l + m ELSE l + m - Word
      BY Wrapped
    <3>3. Plus(l, m) = 0
      BY <1>3, <2>5, <3>2
    <3> QED
      BY <1>1, <1>2, <1>3, <2>8, <3>1, <3>3
  <2>10. CASE w >= 2
    <3>1. PICK y \in Nat : y = x \div w /\ 2 * y <= x
      BY <2>4, <2>10, Halved
    <3>2. y \in Tokens
      BY <2>7, <3>1, TokensAre, <1>3
    <3>3. Plus(y, m) = IF y + m < Word THEN y + m ELSE y + m - Word
      BY <3>2, Wrapped
    <3>4. Plus(y, m) <= y + m
      BY <1>3, <3>1, <3>3
    <3>5. Plus(y, m) \in Int
      BY <1>3, <3>1, <3>3
    <3> QED
      BY <1>1, <1>2, <1>3, <2>7, <2>8, <3>1, <3>4, <3>5
  <2> QED
    BY <2>4, <2>9, <2>10
<1> QED
  BY <1>1, <1>4, <1>5 DEF Inv, CtxInv, CtxOf

\* An application in the table may be charged what it asks for, without a wrap.
LEMMA NoWrap ==
  ASSUME Inv, QuotaInv, CostsSmall, NEW i \in Ids, Online(i), NEW c \in Costs
  PROVE  Plus(tab[i].inuse, c) = tab[i].inuse + c /\ c \in Tokens
<1>1. tab[i] \in Nodes /\ tokens.min \in Mins
  BY DEF Online, Inv, Typed, TypeOK
<1>2. /\ tab[i].inuse \in Tokens /\ tab[i].quota \in Tokens /\ tab[i].quota_new \in Tokens
      /\ c \in Tokens /\ tokens.min \in Tokens
  BY <1>1, ParamAssumption DEF Nodes
<1>3. PICK a \in Int, q \in Int, n \in Int, d \in Int, m \in Int :
        a = tab[i].inuse /\ q = tab[i].quota /\ n = tab[i].quota_new /\ d = c /\ m = tokens.min
  BY <1>2, TokensAre
<1>4. a <= q /\ q <= n /\ 2 * n <= Word - 1 + 2 * m /\ 2 * (d + m) <= Word /\ Word \in Int
  BY <1>1, <1>3, WordAssumption DEF QuotaInv, CostsSmall
<1>5. a + d < Word
  BY <1>3, <1>4
<1> QED
  BY <1>2, <1>3, <1>5, Wrapped

\* A step lets no application pass its quota.
LEMMA InuseStep ==
  ASSUME Inv, QuotaInv, GrantInv, CostsSmall, NEW t \in Threads, HostCall(t) \/ Continue(t)
  PROVE  QuotaInv' /\ GrantInv'
<1>0. /\ tab \in [Ids -> Nodes \cup {NoNode}] /\ NoNode \notin Nodes /\ tokens'.min = tokens.min
      /\ granted \subseteq Ids \X Nat \X Costs /\ aborted # "offline" /\ tokens.min \in Tokens
      /\ Costs \subseteq Tokens
  <2>1. tokens \in Account
    BY DEF Inv, Typed, TypeOK
  <2> QED
    BY <2>1, NoNodeAssumption, ParamAssumption, TokensStep, Running1 DEF Inv, Typed, TypeOK, SameLimits, Account
<1>1. \A i \in Ids : Online(i) => tab[i].inuse \in Int /\ tab[i].quota \in Int /\ tab[i].quota_new \in Int
  BY <1>0, TokensAre DEF Online, Nodes
<1>2. CASE tab' = tab /\ granted' = granted
  BY <1>0, <1>1, <1>2 DEF QuotaInv, GrantInv, Online
<1>3. CASE /\ me[t].id \in Ids /\ ~Online(me[t].id) /\ granted' = granted
           /\ tab' = [tab EXCEPT ![me[t].id] = NewNode(me[t].fence, tokens.min)]
  <2>1. PICK j \in Ids : j = me[t].id /\ ~Online(j)
    BY <1>3
  <2>2. PICK n : n = NewNode(me[t].fence, tokens.min)
    OBVIOUS
  <2>3. n.inuse = 0 /\ n.quota = tokens.min /\ n.quota_new = tokens.min
    BY <2>2 DEF NewNode
  <2>4. tab' = [tab EXCEPT ![j] = n]
    BY <1>3, <2>1, <2>2
  <2>5. 0 <= tokens.min /\ tokens.min \in Int /\ Word \in Int /\ Word >= 1
    BY <1>0, TokensAre, WordAssumption
  <2>6. QuotaInv'
    BY <1>0, <2>3, <2>4, <2>5 DEF QuotaInv, Online
  <2>7. \A g \in granted : g[1] \in Ids /\ g[1] # j
    BY <1>0, <2>1 DEF GrantInv
  <2>8. GrantInv'
    BY <1>0, <1>3, <2>4, <2>7 DEF GrantInv, Online
  <2> QED
    BY <1>0, <1>1, <2>1, <2>4, <2>6, <2>8 DEF Online
<1>4. CASE \E i \in Ids : Online(i) /\ aborted' = "offline" /\ tab' = [tab EXCEPT ![i] = NoNode]
  BY <1>0, <1>1, <1>4 DEF QuotaInv, GrantInv, Online
<1>5. CASE (\E i \in Ids, node \in Nodes : NodeStep(t, i, node)) /\ ~(tab' = tab /\ granted' = granted)
  <2>1. PICK i \in Ids, node \in Nodes : NodeStep(t, i, node)
    BY <1>5
  <2>2. /\ Online(i) /\ tab[i] \in Nodes /\ node.fence = tab[i].fence
        /\ tab' = [tab EXCEPT ![i] = node]
    BY <1>0, <2>1 DEF NodeStep, Online
  <2>3. PICK a \in Int, q \in Int, n \in Int, a1 \in Int, q1 \in Int, n1 \in Int, m \in Int :
          /\ a = tab[i].inuse /\ q = tab[i].quota /\ n = tab[i].quota_new
          /\ a1 = node.inuse /\ q1 = node.quota /\ n1 = node.quota_new /\ m = tokens.min
    BY <1>0, <2>2, TokensAre DEF Nodes
  <2>4. a <= q /\ q <= n /\ 2 * n <= Word - 1 + 2 * m
    BY <2>2, <2>3 DEF QuotaInv
  <2>5. ASSUME a <= a1, a1 <= q1, q1 <= n1, 2 * n1 <= Word - 1 + 2 * m,
               \/ granted' = granted
               \/ \E c \in Costs : granted' = granted \cup {<<i, tab[i].fence, c>>} /\ c <= a1
        PROVE  QuotaInv' /\ GrantInv'
    <3>1. QuotaInv'
      BY <1>0, <2>2, <2>3, <2>5 DEF QuotaInv, Online
    <3>2. \A j \in Ids : Online(j) => tab'[j].inuse >= tab[j].inuse /\ Online(j)' /\ tab'[j].fence = tab[j].fence
      BY <1>0, <1>1, <2>2, <2>3, <2>5 DEF Online
    <3>3. \A g \in granted : g[1] \in Ids /\ g[3] \in Int /\ Online(g[1]) /\ tab[g[1]].fence = g[2]
                             /\ g[3] <= tab[g[1]].inuse /\ tab'[g[1]].inuse \in Int
      <4>1. \A j \in Ids : Online(j) => tab'[j].inuse \in Int
        BY <1>0, <1>1, <2>2, <2>3
      <4> QED
        BY <1>0, <4>1, TokensAre DEF GrantInv
    <3>4. \A g \in granted : Online(g[1])' /\ tab'[g[1]].fence = g[2] /\ g[3] <= tab'[g[1]].inuse
      <4>1. SUFFICES ASSUME NEW g \in granted
                     PROVE  Online(g[1])' /\ tab'[g[1]].fence = g[2] /\ g[3] <= tab'[g[1]].inuse
        OBVIOUS
      <4>2. /\ g[1] \in Ids /\ g[3] \in Int /\ Online(g[1]) /\ tab[g[1]].fence = g[2]
            /\ g[3] <= tab[g[1]].inuse /\ tab'[g[1]].inuse \in Int /\ tab[g[1]].inuse \in Int
        BY <1>1, <3>3
      <4> QED
        BY <3>2, <4>2
    <3>5. \A c : c <= a1 => LET g == <<i, tab[i].fence, c>>
                            IN  Online(g[1])' /\ tab'[g[1]].fence = g[2] /\ g[3] <= tab'[g[1]].inuse
      BY <1>0, <2>2, <2>3 DEF Online
    <3>6. GrantInv'
      BY <2>5, <3>4, <3>5 DEF GrantInv
    <3> QED
      BY <3>1, <3>2, <3>6
  <2>6. CASE \E c \in Costs : /\ Alloc(t) /\ CostFits(tab[i], c) /\ node.inuse = Plus(tab[i].inuse, c)
                              /\ granted' = granted \cup {<<i, tab[i].fence, c>>}
                              /\ node.quota = tab[i].quota /\ node.quota_new = tab[i].quota_new
    <3>1. PICK c \in Costs : /\ CostFits(tab[i], c) /\ node.inuse = Plus(tab[i].inuse, c)
                             /\ granted' = granted \cup {<<i, tab[i].fence, c>>}
                             /\ node.quota = tab[i].quota /\ node.quota_new = tab[i].quota_new
      BY <2>6
    <3>2. Plus(tab[i].inuse, c) = tab[i].inuse + c /\ c \in Tokens
      BY <2>2, NoWrap
    <3>3. c \in Int /\ 0 <= c
      BY <3>2, TokensAre
    <3>4. a1 = a + c /\ q1 = q /\ n1 = n /\ a1 <= q
      <4>1. tab[i].inuse \in Tokens /\ 0 <= tab[i].inuse
        BY <2>2, TokensAre DEF Nodes
      <4> QED
        BY <2>3, <3>1, <3>2 DEF CostFits
    <3>5. 0 <= a
      BY <2>2, <2>3, TokensAre DEF Nodes
    <3>6. c <= a1 /\ a <= a1
      BY <3>3, <3>4, <3>5
    <3> QED
      BY <2>4, <2>5, <3>1, <3>4, <3>6
  <2>7. CASE \E c \in Costs : FreeAssertion(tab[i], c) /\ <<i, tab[i].fence, c>> \in granted
    <3>1. PICK c \in Costs : tab[i].inuse < c /\ <<i, tab[i].fence, c>> \in granted
      BY <2>7 DEF FreeAssertion
    <3>2. c <= tab[i].inuse
      BY <1>0, <3>1 DEF GrantInv
    <3>3. c \in Int
      BY <1>0, TokensAre
    <3> QED
      BY <2>3, <3>1, <3>2, <3>3
  <2>8. CASE \E c \in Tokens : /\ node.quota = Raised(tab[i], c) /\ node.quota_new = tab[i].quota_new
                               /\ node.inuse = tab[i].inuse /\ granted' = granted
    <3>1. a1 = a /\ n1 = n /\ granted' = granted /\ q <= q1 /\ q1 <= n
      BY <2>2, <2>3, <2>4, <2>8, RaisedType
    <3>2. a <= a1 /\ a1 <= q1 /\ q1 <= n1 /\ 2 * n1 <= Word - 1 + 2 * m
      BY <2>4, <3>1, WordAssumption
    <3> QED
      BY <2>5, <3>1, <3>2
  <2>9. CASE /\ DivideNext(t) /\ node.quota = tab[i].quota /\ node.quota_new = NextQuota(ctx)
             /\ node.inuse = tab[i].inuse /\ granted' = granted
    <3>1. aborted' = aborted
      BY <1>5, <2>9 DEF DivideNext
    <3>2. n1 >= m /\ 2 * n1 <= Word - 1 + 2 * m
      BY <2>3, <2>9, <3>1, ShareBound
    <3>4. a1 = a /\ q1 = q
      BY <2>3, <2>9
    <3>5. q1 <= n1
      <4>2. CASE Doomed
        <5>1. ctx.loop = 2 /\ pc[t] = "divide"
          BY <2>9, <4>2 DEF Doomed, DivideNext, Enter
        <5>2. ~ \E j \in Ids, w \in Tokens : Online(j) /\ ctx = Begun(Alone(j, w))
          BY <5>1, ContextsOf DEF Inv
        <5>3. NextQuota(ctx) = 0
          BY <5>1, <5>2 DEF Inv, CtxInv, CtxOf, Rest, NextQuota, Current
        <5>4. m > 0
          BY <2>3, <4>2 DEF Doomed
        <5> QED
          BY <2>3, <2>9, <3>2, <5>3, <5>4
      <4>3. CASE Settled
        BY <2>2, <2>3, <3>2, <3>4, <4>3 DEF Settled
      <4> QED
        BY <4>2, <4>3 DEF Inv
    <3> QED
      BY <2>4, <2>5, <2>9, <3>2, <3>4, <3>5
  <2> QED
    BY <2>1, <2>6, <2>7, <2>8, <2>9 DEF NodeStep
<1> QED
  BY <1>2, <1>3, <1>4, <1>5, TabStep

\* Both parts hold always, if costs are small.
LEMMA InuseAlways == CostsSmall /\ Spec => [](QuotaInv /\ GrantInv)
<1>1. Init => QuotaInv /\ GrantInv
  BY DEF Init, QuotaInv, GrantInv, Online
<1>2. CostsSmall /\ Inv /\ QuotaInv /\ GrantInv /\ [Next]_vars => (QuotaInv /\ GrantInv)'
  <2> SUFFICES ASSUME CostsSmall, Inv, QuotaInv, GrantInv, [Next]_vars PROVE (QuotaInv /\ GrantInv)'
    OBVIOUS
  <2>1. CASE UNCHANGED vars
    BY <2>1 DEF vars, QuotaInv, GrantInv, Online
  <2>2. CASE Next
    BY <2>2, InuseStep DEF Next
  <2> QED
    BY <2>1, <2>2
<1>3. CostsSmall => []CostsSmall
  <2> SUFFICES ASSUME CostsSmall PROVE []CostsSmall
    OBVIOUS
  <2> QED
    BY PTL
<1> QED
  BY <1>1, <1>2, <1>3, InvAlways, PTL DEF Spec

\* While costs and minimum are small next to a word no application holds more than its
\* quota, whatever allocations, returns, reports and changes of its quota cross.
THEOREM HoldsItsQuota == CostsSmall /\ Spec => []InuseWithinQuota
<1>1. QuotaInv => InuseWithinQuota
  BY DEF QuotaInv, InuseWithinQuota, OnlineIds
<1> QED
  BY <1>1, InuseAlways, PTL
===============================================================================
