------------------------------ MODULE TokenGlobal ------------------------------
(***************************************************************************)
(* src/sysqos_token_global.c: the dispatcher's account of all its tokens,  *)
(* as operators on its record.  Field names drop the token_ and app_ of    *)
(* the source.  Nothing here is locked (FIXME lock): DispManager says how  *)
(* the loads and stores of two threads mix.                                *)
(*                                                                         *)
(* offline and set_max_rsvr are left out: no execution reaches them, so    *)
(* rsvr and max_rsvr stay zero.                                            *)
(***************************************************************************)
EXTENDS Integers

CONSTANT Word            \* 2^w, one more than the largest unsigned long

ASSUME WordAssumption == Word \in Nat \ {0}

Tokens == 0..(Word - 1)
Plus(a, b) == (a + b) % Word
Minus(a, b) == (a - b) % Word
Least(a, b) == IF a < b THEN a ELSE b

Account == [min : Tokens, num_max : Tokens, num_cur : Tokens, total : Tokens,
            free : Tokens, static : Tokens, dynamic : Tokens, dynamic_new : Tokens,
            rsvr : Tokens, max_rsvr : Tokens]

\* token_global_init_value.
NewAccount(max_node_nr, min_per_node) ==
  [min |-> min_per_node, num_max |-> max_node_nr, num_cur |-> 0, total |-> 0, free |-> 0,
   static |-> 0, dynamic |-> 0, dynamic_new |-> 0, rsvr |-> 0, max_rsvr |-> 0]

\* check_up_app_num: a node is refused while there is more than one seat left.
Admits(g) ==
  /\ Plus(g.num_cur, 1) >= g.num_max
  /\ g.total >= Plus(g.static, g.min)

\* online for a node without tokens, which leaves it with min of them: first from
\* the reserve, then from the free tokens, the rest on account of the dynamic ones.
OnlineAccount(g) ==
  LET r == Least(g.rsvr, g.min)
      f == Least(g.free, g.min - r)
  IN  [g EXCEPT !.num_cur = Plus(@, 1),
                !.rsvr = @ - r,
                !.free = @ - f,
                !.static = Plus(@, r + f),
                !.dynamic_new = Minus(@, g.min - r - f)]

Taken(g, cost) == Least(g.free, cost)          \* what try_alloc returns
TakenAccount(g, cost) == [g EXCEPT !.free = @ - Taken(g, cost)]

\* gfree: tokens that come back first make up for dynamic ones given away.
FreedAccount(g, cost) ==
  LET due == IF g.dynamic_new < g.dynamic THEN Least(g.dynamic - g.dynamic_new, cost) ELSE 0
  IN  [g EXCEPT !.dynamic = @ - due,
                !.static = Plus(@, due),
                !.free = Plus(@, cost - due)]

IncreasedAccount(g, units) ==
  [g EXCEPT !.free = Plus(@, units), !.total = Plus(@, units),
            !.dynamic = Plus(@, units), !.dynamic_new = Plus(@, units)]

\* could_decrease: the difference is unsigned, so a reduction by more than there
\* is wraps and is allowed.
CouldDecrease(g, units) ==
  Minus(Least(g.dynamic, g.dynamic_new), units) >= Minus(g.max_rsvr, g.rsvr)

\* The decrease of try_decrease: tokens that are not free any more are taken all the same.
DecreasedAccount(g, units) ==
  [g EXCEPT !.dynamic = Minus(@, units), !.dynamic_new = Minus(@, units),
            !.free = @ - Least(units, @), !.total = Minus(@, units)]
===============================================================================
