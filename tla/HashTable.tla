------------------------------- MODULE HashTable -------------------------------
(***************************************************************************)
(* src/hash_table.c over safe_rw_list.c and memory_cache.c: a table whose  *)
(* buckets are lists with a rwlock each, and whose items come from one     *)
(* cache that counts them.  Both ends keep their nodes in one.             *)
(*                                                                         *)
(* A step is one section of a bucket's rwlock or of the cache's spin lock. *)
(* A bucket is the set of its (id, pri) pairs: their order in the list is  *)
(* told apart by nothing.                                                  *)
(***************************************************************************)
EXTENDS Integers, FiniteSets

CONSTANTS Ids, Pris, Nothing,
          Threads,
          TabLen,      \* tab_len: buckets are 0..TabLen-1
          Hash,        \* the host's hash function
          Unit,        \* cache_unit: items the cache may hand out
          Word         \* unsigned long holds 0..Word-1

ASSUME TableAssumption == TabLen \in Nat \ {0} /\ Hash \in [Ids -> 0..(TabLen - 1)]
ASSUME CacheAssumption == Word \in Nat /\ Unit \in Nat /\ Unit < Word
ASSUME NothingAssumption == Nothing \notin Ids \cup Pris

VARIABLES
  chain,                 \* the entries of each bucket
  alloc_cnt, free_cnt,   \* of memory_cache_t
  life,                  \* "up"; "aborted" by an assert; "freed"
  at,                    \* the section each thread is about to enter
  call,                  \* its call: operation, id, value, answer
  cursor, seen,          \* for_each_do: next bucket, entries passed so far
  kept, met              \* history: entries there all through it, or at any time

vars == <<chain, alloc_cnt, free_cnt, life, at, call, cursor, seen, kept, met>>
cache == <<alloc_cnt, free_cnt>>
scan == <<cursor, seen, kept, met>>

Buckets == 0..(TabLen - 1)
Entries == Ids \X Pris
NoCall == [op |-> "none", id |-> Nothing, pri |-> Nothing, ret |-> "none"]
Calls == [op : {"none", "insert", "erase", "find", "each"}, id : Ids \cup {Nothing},
          pri : Pris \cup {Nothing}, ret : {"none", "ok", "exist", "notfound"}]

TypeOK ==
  /\ chain \in [Buckets -> SUBSET Entries]
  /\ alloc_cnt \in 0..(Word - 1) /\ free_cnt \in 0..(Word - 1)
  /\ life \in {"up", "aborted", "freed"}
  /\ at \in [Threads -> {"idle", "count", "link", "unlink", "look", "giveback", "each", "return"}]
  /\ call \in [Threads -> Calls]
  /\ cursor \in [Threads -> 0..TabLen]
  /\ seen \in [Threads -> SUBSET Entries]
  /\ kept \in [Threads -> SUBSET Entries] /\ met \in [Threads -> SUBSET Entries]

Content == UNION {chain[b] : b \in Buckets}

Init ==
  /\ chain = [b \in Buckets |-> {}]
  /\ alloc_cnt = 0 /\ free_cnt = 0
  /\ life = "up"
  /\ at = [t \in Threads |-> "idle"]
  /\ call = [t \in Threads |-> NoCall]
  /\ cursor = [t \in Threads |-> 0]
  /\ seen = [t \in Threads |-> {}]
  /\ kept = [t \in Threads |-> {}] /\ met = [t \in Threads |-> {}]

Enter(t, place) == life = "up" /\ at[t] = place
Goto(t, place) == at' = [at EXCEPT ![t] = place]

\* Calls that wait in front of a lock cannot change what they were asked.
Ask(t, op, i, p, place) ==
  /\ Enter(t, "idle")
  /\ call' = [call EXCEPT ![t] = [op |-> op, id |-> i, pri |-> p, ret |-> "none"]]
  /\ Goto(t, place)
  /\ UNCHANGED <<chain, cache, life, scan>>

Insert(t, i, p) == Ask(t, "insert", i, p, "count")
Erase(t, i) == Ask(t, "erase", i, Nothing, "unlink")
Find(t, i) == Ask(t, "find", i, Nothing, "look")

Answer(t, r, p) == call' = [call EXCEPT ![t].ret = r, ![t].pri = p]

\* The entries of id i in its bucket, where rwfind_nolock looks for it.
Found(i) == {e \in chain[Hash[i]] : e[1] = i}
PriFound(i) == (CHOOSE e \in Found(i) : TRUE)[2]

\* Traversals that are under way see the entries come and go.
Becomes(b, entries) ==
  LET content == (UNION {chain[c] : c \in Buckets \ {b}}) \cup entries
      during(t) == call[t].op = "each"
  IN  /\ chain' = [chain EXCEPT ![b] = entries]
      /\ kept' = [t \in Threads |-> IF during(t) THEN kept[t] \cap content ELSE kept[t]]
      /\ met' = [t \in Threads |-> IF during(t) THEN met[t] \cup content ELSE met[t]]

-------------------------------------------------------------------------------
(* memory_cache.c                                                              *)

\* Mutant: unsigned, so never below zero.
SomeLeft == (free_cnt + Unit - alloc_cnt) % Word >= 0

\* Mutant: the last item is never handed out.
MoreThanOneLeft == (free_cnt + Unit - alloc_cnt) % Word > 1

CacheLeft == (free_cnt + Unit - alloc_cnt) % Word > 0

\* Mutant: a counter that does not wrap.
CountAllocWide(t) ==
  /\ Enter(t, "count") /\ alloc_cnt' = alloc_cnt + 1
  /\ Goto(t, "link")
  /\ UNCHANGED <<chain, free_cnt, call, life, scan>>

\* cache_alloc for rwinsert, before the bucket is looked at.  No item left, and
\* rwinsert's assert ends the program.
CountAlloc(t) ==
  /\ Enter(t, "count")
  /\ IF CacheLeft THEN /\ alloc_cnt' = (alloc_cnt + 1) % Word
                       /\ Goto(t, "link")
                       /\ UNCHANGED life
                  ELSE life' = "aborted" /\ UNCHANGED <<alloc_cnt, at>>
  /\ UNCHANGED <<chain, free_cnt, call, scan>>

\* cache_free, outside the bucket's lock.
CountFree(t) ==
  /\ Enter(t, "giveback")
  /\ free_cnt' = (free_cnt + 1) % Word
  /\ Goto(t, "return")
  /\ UNCHANGED <<chain, alloc_cnt, life, call, scan>>

-------------------------------------------------------------------------------
(* safe_rw_list.c                                                              *)

\* Mutant: an insert does not look for its id first.
LinkBlind(t) ==
  LET b == Hash[call[t].id]
  IN  /\ Enter(t, "link")
      /\ Becomes(b, chain[b] \cup {<<call[t].id, call[t].pri>>})
      /\ Answer(t, "ok", call[t].pri) /\ Goto(t, "return")
      /\ UNCHANGED <<cache, life, cursor, seen>>

\* Mutant: the entry that was there is replaced and ok answered.
LinkOver(t) ==
  LET i == call[t].id
      b == Hash[i]
  IN  /\ Enter(t, "link")
      /\ Becomes(b, (chain[b] \ Found(i)) \cup {<<i, call[t].pri>>})
      /\ Answer(t, "ok", call[t].pri)
      /\ Goto(t, IF Found(i) = {} THEN "return" ELSE "giveback")
      /\ UNCHANGED <<cache, life, cursor, seen>>

\* rwinsert's locked section.  An item that was not linked is given back.
Link(t) ==
  LET i == call[t].id
      b == Hash[i]
  IN  /\ Enter(t, "link")
      /\ \/ /\ Found(i) = {}
            /\ Becomes(b, chain[b] \cup {<<i, call[t].pri>>})
            /\ Answer(t, "ok", call[t].pri)
            /\ Goto(t, "return")
         \/ /\ Found(i) # {}
            /\ Answer(t, "exist", call[t].pri)
            /\ Goto(t, "giveback")
            /\ UNCHANGED <<chain, kept, met>>
      /\ UNCHANGED <<cache, life, cursor, seen>>

\* Mutant: the item of an erased entry is not given back.
UnlinkKeeps(t) ==
  LET i == call[t].id
      b == Hash[i]
  IN  /\ Enter(t, "unlink")
      /\ Becomes(b, chain[b] \ Found(i))
      /\ IF Found(i) = {} THEN Answer(t, "notfound", Nothing) ELSE Answer(t, "ok", PriFound(i))
      /\ Goto(t, "return")
      /\ UNCHANGED <<cache, life, cursor, seen>>

\* rwerase's locked section.  What it found is read from the item afterwards, when
\* no other thread can reach the item.
Unlink(t) ==
  LET i == call[t].id
      b == Hash[i]
  IN  /\ Enter(t, "unlink")
      /\ \/ /\ Found(i) # {}
            /\ Becomes(b, chain[b] \ {<<i, PriFound(i)>>})
            /\ Answer(t, "ok", PriFound(i))
            /\ Goto(t, "giveback")
         \/ /\ Found(i) = {}
            /\ Answer(t, "notfound", Nothing)
            /\ Goto(t, "return")
            /\ UNCHANGED <<chain, kept, met>>
      /\ UNCHANGED <<cache, life, cursor, seen>>

\* rwfind.
Look(t) ==
  LET i == call[t].id
  IN  /\ Enter(t, "look")
      /\ IF Found(i) # {} THEN Answer(t, "ok", PriFound(i)) ELSE Answer(t, "notfound", Nothing)
      /\ Goto(t, "return")
      /\ UNCHANGED <<chain, cache, life, scan>>

-------------------------------------------------------------------------------
(* hash_table.c                                                                *)

\* Mutant: the traversal starts behind the first bucket.
FirstBucketMissed == 1

FirstBucket == 0

\* for_each_do: the buckets in turn, each under its own lock.
Each(t) ==
  /\ Enter(t, "idle")
  /\ call' = [call EXCEPT ![t].op = "each"]
  /\ cursor' = [cursor EXCEPT ![t] = FirstBucket]
  /\ seen' = [seen EXCEPT ![t] = {}]
  /\ kept' = [kept EXCEPT ![t] = Content]
  /\ met' = [met EXCEPT ![t] = Content]
  /\ Goto(t, "each")
  /\ UNCHANGED <<chain, cache, life>>

EachBucket(t) ==
  /\ Enter(t, "each") /\ cursor[t] < TabLen
  /\ seen' = [seen EXCEPT ![t] = @ \cup chain[cursor[t]]]
  /\ cursor' = [cursor EXCEPT ![t] = @ + 1]
  /\ Goto(t, IF cursor[t] + 1 = TabLen THEN "return" ELSE "each")
  /\ UNCHANGED <<chain, cache, life, call, kept, met>>

Return(t) ==
  /\ Enter(t, "return")
  /\ Goto(t, "idle")
  /\ call' = [call EXCEPT ![t] = NoCall]
  /\ cursor' = [cursor EXCEPT ![t] = 0]
  /\ seen' = [seen EXCEPT ![t] = {}]
  /\ kept' = [kept EXCEPT ![t] = {}]
  /\ met' = [met EXCEPT ![t] = {}]
  /\ UNCHANGED <<chain, cache, life>>

\* rwclear of every bucket gives all items back.
ClearedCount == (free_cnt + Cardinality(Content)) % Word

\* free_hash_table: every bucket is cleared, by the one thread that is left.
Free ==
  /\ life = "up" /\ \A t \in Threads : at[t] = "idle"
  /\ life' = "freed"
  /\ free_cnt' = ClearedCount
  /\ chain' = [b \in Buckets |-> {}]
  /\ UNCHANGED <<alloc_cnt, at, call, scan>>

Next ==
  \/ \E t \in Threads : \/ \E i \in Ids, p \in Pris : Insert(t, i, p)
                        \/ \E i \in Ids : Erase(t, i) \/ Find(t, i)
                        \/ CountAlloc(t) \/ CountFree(t)
                        \/ Link(t) \/ Unlink(t) \/ Look(t)
                        \/ Each(t) \/ EachBucket(t) \/ Return(t)
  \/ Free

Spec == Init /\ [][Next]_vars
-------------------------------------------------------------------------------
\* Threads between an item's cache_alloc and its list_add, or between its list_del
\* (or its failed insert) and its cache_free.
Holding == {t \in Threads : at[t] \in {"link", "giveback"}}

\* An id is in one bucket, its own, with one value, whatever inserts and erases of
\* the same id meet: rwinsert looks and links in one section of the lock.
OneEntryPerId ==
  /\ \A b \in Buckets : \A e \in chain[b] : Hash[e[1]] = b
  /\ \A b \in Buckets : \A e, f \in chain[b] : e[1] = f[1] => e = f

\* The difference of the two counters, over any wrap of them, is the items in the
\* table and in the hands of threads: none is leaked and none is given back twice.
CacheExact == (alloc_cnt - free_cnt) % Word = Cardinality(Content) + Cardinality(Holding)

\* No more items are out than the cache was made for, though the allocation is not
\* under the lock of the bucket it is for.
CacheBound == Cardinality(Content) + Cardinality(Holding) <= Unit

\* rwinsert's assert fails only when every item of the cache is in the table or
\* with a thread: an insert of an id that exists may be what ends the program.
AbortOnlyFull == life = "aborted" => Cardinality(Content) + Cardinality(Holding) = Unit

\* A traversal is no snapshot, but it passes what stays in the table meanwhile,
\* nothing that was never in it, and no id twice.
TraversalSound ==
  \A t \in Threads : at[t] = "return" /\ call[t].op = "each" =>
     /\ kept[t] \subseteq seen[t] /\ seen[t] \subseteq met[t]
     /\ \A e, f \in seen[t] : e[1] = f[1] => e = f

\* Every insert, erase and find takes effect at one instant, as on a map: the
\* locks of the list and the answers given after them keep the promise.
Promise == INSTANCE MapPromise
             WITH Callers <- Threads,
                  map <- [i \in Ids |-> IF Found(i) = {} THEN Nothing ELSE PriFound(i)]
ImplementsMap == Promise!PSpec
===============================================================================
