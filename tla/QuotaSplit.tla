------------------------------ MODULE QuotaSplit ------------------------------
(***************************************************************************)
(* src/sysqos_token_update.c and sysqos_update_node.c: how the dispatcher  *)
(* divides the tokens of its nodes among them anew, by their press.  The   *)
(* context is a record, and Divide one turn of either loop of update: the  *)
(* first gives every node its share, the second the rest to the first.     *)
(***************************************************************************)
EXTENDS TokenGlobal, Sequences, SequencesExt

\* update_node_init: the part of a quota that is not up for division, and the rest.
UpdateNode(id, quota, min, press) ==
  [id |-> id, base |-> Least(min, quota), tmp |-> quota - Least(min, quota), weight |-> press]

NoContext == [node |-> <<>>, weight |-> 0, total |-> 0, static |-> 0, left |-> 0, loop |-> 0, pos |-> 1]

\* add_resource and insert_by_weight.
AddResource(ctx, u) ==
  [node |-> <<u>> \o ctx.node, weight |-> Plus(ctx.weight, u.weight),
   total |-> Plus(ctx.total, u.tmp), static |-> Plus(ctx.static, u.base),
   left |-> 0, loop |-> 0, pos |-> 1]

\* for_each_do over the nodes, the last of the list first.
Summed(nodes) == FoldRight(LAMBDA u, ctx : AddResource(ctx, u), nodes, NoContext)

\* update_token_left_base.  The base of a node is subtracted, though its tmp was
\* counted without it.
LeftBase(ctx) == Minus(ctx.total, ctx.static)

\* The context when update begins.  Loop 3: update is over.
Begun(ctx) == [ctx EXCEPT !.left = LeftBase(ctx), !.loop = IF ctx.node = <<>> THEN 3 ELSE 1]

Current(ctx) == ctx.node[ctx.pos]

\* Mutant: a share is rounded up.
NextQuotaUp(ctx) ==
  IF ctx.loop = 1
  THEN Plus(((LeftBase(ctx) * Current(ctx).weight + ctx.weight - 1) % Word) \div ctx.weight,
            Current(ctx).base)
  ELSE Plus(Current(ctx).tmp, ctx.left)

\* The quota update_node_quota or update_node_quota_left asks for.
NextQuota(ctx) ==
  IF ctx.loop = 1
  THEN Plus(((LeftBase(ctx) * Current(ctx).weight) % Word) \div ctx.weight, Current(ctx).base)
  ELSE Plus(Current(ctx).tmp, ctx.left)

\* One turn of the loop: left is unsigned, so left <= 0 means it is zero.
Divide(ctx) ==
  LET u == Current(ctx)
      q == NextQuota(ctx)
      left == Minus(ctx.left, Minus(q, IF ctx.loop = 1 THEN u.base ELSE u.tmp))
      over == left = 0 \/ ctx.pos = Len(ctx.node)
  IN  [ctx EXCEPT !.node[ctx.pos].tmp = q,
                  !.left = left,
                  !.loop = IF over THEN @ + 1 ELSE @,
                  !.pos = IF over THEN 1 ELSE @ + 1]

\* The whole of update, for nodes with press.
Divided(nodes) ==
  LET after[k \in 0..(2 * Len(nodes))] ==
        IF k = 0 THEN Begun(Summed(nodes))
        ELSE IF after[k - 1].loop = 3 THEN after[k - 1] ELSE Divide(after[k - 1])
  IN  after[2 * Len(nodes)].node
-------------------------------------------------------------------------------
Shares(nodes) ==
  LET ctx == Summed(nodes)
  IN  [k \in DOMAIN nodes |-> (LeftBase(ctx) * nodes[k].weight) \div ctx.weight]
PlainSum(seq) == FoldLeft(LAMBDA a, b : a + b, 0, seq)

\* Every node has press, there is something to divide, and no sum or product wraps.
Divisible(nodes) ==
  LET total == PlainSum([k \in DOMAIN nodes |-> nodes[k].tmp])
      static == PlainSum([k \in DOMAIN nodes |-> nodes[k].base])
      weight == PlainSum([k \in DOMAIN nodes |-> nodes[k].weight])
  IN  /\ static < total /\ total < Word /\ weight < Word
      /\ \A k \in DOMAIN nodes :
           nodes[k].weight > 0 /\ (total - static) * nodes[k].weight < Word

\* Of nodes that are Divisible, update gives each its base and its proportional share of
\* what LeftBase leaves, and the first in the list all that rounding left over.  Tokens
\* get lost: LeftBase takes the bases off tmp, which was counted without them, so that
\* the new quotas together are less than the old by one base for each node.
GivesShares(nodes) ==
  LET news == Divided(nodes)
      rest == LeftBase(Summed(nodes)) - PlainSum(Shares(nodes))
  IN  /\ \A k \in DOMAIN nodes :
           news[k].tmp = nodes[k].base + Shares(nodes)[k] + IF k = 1 THEN rest ELSE 0
      /\ rest \in 0..(Len(nodes) - 1)
      /\ PlainSum([k \in DOMAIN nodes |-> news[k].tmp])
           = PlainSum([k \in DOMAIN nodes |-> nodes[k].base + nodes[k].tmp])
               - PlainSum([k \in DOMAIN nodes |-> nodes[k].base])
===============================================================================
