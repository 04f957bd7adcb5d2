------------------------------ MODULE MapPromise ------------------------------
(***************************************************************************)
(* What the hash table promises the threads that use it: a map from ids to *)
(* values in which every insert, erase and find takes effect at one        *)
(* instant between its call and its return.  A traversal is promised less: *)
(* it passes every entry that stays in the map meanwhile and none that was *)
(* never in it.  HashTable keeps the promise with one lock per bucket.     *)
(***************************************************************************)
CONSTANTS Ids, Pris, Nothing,  \* Nothing: no id, no value
          Callers                \* threads that use the table

VARIABLES map,        \* the map, Nothing where there is no entry
          call,       \* what each caller has asked for, and the answer
          kept, met   \* entries there all through a traversal, or at any time of it

pvars == <<map, call, kept, met>>

NoCall == [op |-> "none", id |-> Nothing, pri |-> Nothing, ret |-> "none"]
Content(m) == {<<i, m[i]>> : i \in {i \in Ids : m[i] # Nothing}}

PInit == /\ map = [i \in Ids |-> Nothing]
         /\ call = [c \in Callers |-> NoCall]
         /\ kept = [c \in Callers |-> {}]
         /\ met = [c \in Callers |-> {}]

Ask(c, op, i, p) ==
  /\ call[c] = NoCall
  /\ call' = [call EXCEPT ![c] = [op |-> op, id |-> i, pri |-> p, ret |-> "none"]]
  /\ UNCHANGED <<map, kept, met>>

AskEach(c) ==
  /\ call[c] = NoCall
  /\ call' = [call EXCEPT ![c].op = "each"]
  /\ kept' = [kept EXCEPT ![c] = Content(map)]
  /\ met' = [met EXCEPT ![c] = Content(map)]
  /\ UNCHANGED map

Answer(c, r, p) == call' = [call EXCEPT ![c].ret = r, ![c].pri = p]

\* Traversals that are under way see the entries come and go.
Becomes(m) ==
  /\ map' = m
  /\ kept' = [c \in Callers |-> IF call[c].op = "each" THEN kept[c] \cap Content(m) ELSE kept[c]]
  /\ met' = [c \in Callers |-> IF call[c].op = "each" THEN met[c] \cup Content(m) ELSE met[c]]

TakeEffect(c) ==
  LET i == call[c].id
  IN  /\ call[c].ret = "none"
      /\ \/ /\ call[c].op = "insert" /\ map[i] = Nothing
            /\ Becomes([map EXCEPT ![i] = call[c].pri])
            /\ Answer(c, "ok", call[c].pri)
         \/ /\ call[c].op = "insert" /\ map[i] # Nothing
            /\ Answer(c, "exist", call[c].pri)
            /\ UNCHANGED <<map, kept, met>>
         \/ /\ call[c].op = "erase" /\ map[i] # Nothing
            /\ Becomes([map EXCEPT ![i] = Nothing])
            /\ Answer(c, "ok", map[i])
         \/ /\ call[c].op = "find" /\ map[i] # Nothing
            /\ Answer(c, "ok", map[i])
            /\ UNCHANGED <<map, kept, met>>
         \/ /\ call[c].op \in {"erase", "find"} /\ map[i] = Nothing
            /\ Answer(c, "notfound", Nothing)
            /\ UNCHANGED <<map, kept, met>>

\* A traversal may end at any time: what it passed is between kept and met.
Return(c) ==
  /\ call[c].ret # "none" \/ call[c].op = "each"
  /\ call' = [call EXCEPT ![c] = NoCall]
  /\ kept' = [kept EXCEPT ![c] = {}]
  /\ met' = [met EXCEPT ![c] = {}]
  /\ UNCHANGED map

\* The table is freed when nobody uses it.
Clear ==
  /\ \A c \in Callers : call[c] = NoCall
  /\ map' = [i \in Ids |-> Nothing]
  /\ UNCHANGED <<call, kept, met>>

PNext == \/ \E c \in Callers : \/ \E i \in Ids, p \in Pris : Ask(c, "insert", i, p)
                               \/ \E i \in Ids, op \in {"erase", "find"} : Ask(c, op, i, Nothing)
                               \/ AskEach(c)
                               \/ TakeEffect(c)
                               \/ Return(c)
         \/ Clear

PSpec == PInit /\ [][PNext]_pvars
===============================================================================
