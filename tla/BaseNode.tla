------------------------------- MODULE BaseNode -------------------------------
(***************************************************************************)
(* src/sysqos_dispatch_base_node.c: the token account an application keeps *)
(* of one dispatcher node, as operators on its record.  DispatchNode says  *)
(* under which locks they are evaluated, and by how many threads at once.  *)
(*                                                                         *)
(* The token fields are unsigned long: sums and differences wrap at Word.  *)
(***************************************************************************)
EXTENDS Integers

CONSTANTS Word,          \* 2^w, one more than the largest unsigned long
          MinRs,         \* MIN_RS_NUM: the quota of a node nothing is known of
          RespondStep    \* MMAX_RESPOND_STEP: how fast a quota is lowered

ASSUME WordAssumption == Word \in Nat /\ MinRs \in 0..(Word - 1)
                         /\ RespondStep \in 1..(Word - 1)

Tokens == 0..(Word - 1)
Plus(a, b) == (a + b) % Word
\* Mutant: a signed count.
MinusSigned(a, b) == a - b
Minus(a, b) == (a + (Word - b)) % Word

Account == [inuse : Tokens, quota : Tokens, quota_new : Tokens, version : Nat]

\* dispatch_base_node_init.
Fresh == [inuse |-> 0, quota |-> MinRs, quota_new |-> MinRs, version |-> 0]

\* The test of check_alloc_from_desc, made again by try_alloc_from_desc.
Fits(b, cost) == Plus(cost, b.inuse) <= b.quota

\* Mutant: the step is not bounded by the target.
StepOnly(b, target) == Minus(b.quota, RespondStep)

\* max(target, token_quota - respond_step).
SteppedDown(b, target) ==
  IF target < Minus(b.quota, RespondStep) THEN Minus(b.quota, RespondStep) ELSE target

\* The write section of try_alloc_from_desc when the request fits: a quota that
\* is being lowered goes down one more step.
Charged(b, cost) ==
  [b EXCEPT !.inuse = Plus(@, cost),
            !.quota = IF b.quota_new < @ THEN SteppedDown(b, b.quota_new) ELSE @]

\* Mutant: freeing stops at zero.
FreedToZero(b, cost) ==
  [b EXCEPT !.inuse = IF @ < cost THEN 0 ELSE @ - cost]

\* free_to_desc.
Freed(b, cost) == [b EXCEPT !.inuse = Minus(@, cost)]

\* The three tests of check_update_total_version.
IsToReset(b, v) == v < b.version
IsSame(b, v) == v = b.version
Increases(b, q, v) == v > b.version /\ b.quota < q

\* Mutant: a lower quota counts at once.
UpdatedAtOnce(b, q, v) ==
  IF v <= b.version THEN b
  ELSE [b EXCEPT !.version = v, !.quota_new = q, !.quota = q]

\* Mutant: the write section relies on the tests made before it.
UpdatedUnseen(b, q, v) ==
  [b EXCEPT !.version = v, !.quota_new = q, !.quota = IF @ < q THEN q ELSE SteppedDown(b, q)]

\* Its write section: a higher quota counts at once, a lower one is approached
\* step by step, an equal one only moves the version.
Updated(b, q, v) ==
  IF v <= b.version THEN b
  ELSE [b EXCEPT !.version = v,
                 !.quota_new = IF b.quota = q THEN @ ELSE q,
                 !.quota = CASE @ < q -> q
                             [] @ > q -> SteppedDown(b, q)
                             [] OTHER -> @]

\* reset: the tokens in use stay.
ResetAccount(b) == [b EXCEPT !.quota = MinRs, !.quota_new = MinRs, !.version = 0]
===============================================================================
