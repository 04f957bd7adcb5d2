---------------------------- MODULE HashTableProofs ----------------------------
(***************************************************************************)
(* Proofs about HashTable, for every hash function, number of buckets,     *)
(* cache size, word size, and sets of ids, values and threads: its safety  *)
(* invariants, and that it implements MapPromise.                          *)
(***************************************************************************)
EXTENDS HashTable, FiniteSetTheorems, TLAPS

USE TableAssumption

\* What a thread's call is in each place of the code.
CallOf(t) ==
  /\ at[t] = "idle" => call[t] = NoCall
  /\ at[t] \in {"count", "link"} => /\ call[t].op = "insert" /\ call[t].ret = "none"
                                    /\ call[t].id \in Ids /\ call[t].pri \in Pris
  /\ at[t] = "unlink" => call[t].op = "erase" /\ call[t].ret = "none" /\ call[t].id \in Ids
  /\ at[t] = "look" => call[t].op = "find" /\ call[t].ret = "none" /\ call[t].id \in Ids
  /\ at[t] = "giveback" => call[t].op \in {"insert", "erase"} /\ call[t].ret # "none"
  /\ at[t] = "return" => call[t].ret # "none" \/ call[t].op = "each"
  /\ at[t] = "each" => call[t].op = "each"
  /\ call[t].op = "each" => at[t] \in {"each", "return"}
CallInv == \A t \in Threads : CallOf(t)

Inv == TypeOK /\ OneEntryPerId /\ CallInv

-------------------------------------------------------------------------------
(* The table's content, and how a section changes it.                          *)

\* The hash of an id is the number of a bucket.
LEMMA BucketOf ==
  ASSUME NEW i \in Ids
  PROVE  Hash[i] \in Buckets
BY DEF Buckets

\* An entry is in the table when it is in its own bucket.
LEMMA InContent ==
  ASSUME TypeOK, OneEntryPerId, NEW e
  PROVE  e \in Content <=> e \in Entries /\ e \in chain[Hash[e[1]]]
<1>1. ASSUME e \in Content PROVE e \in Entries /\ e \in chain[Hash[e[1]]]
  <2>1. PICK b \in Buckets : e \in chain[b]
    BY <1>1 DEF Content
  <2> QED
    BY <2>1 DEF OneEntryPerId, TypeOK
<1>2. ASSUME e \in Entries, e \in chain[Hash[e[1]]] PROVE e \in Content
  <2>1. e[1] \in Ids
    BY <1>2 DEF Entries
  <2> QED
    BY <1>2, <2>1, BucketOf DEF Content
<1> QED
  BY <1>1, <1>2

\* What is found of an id is its one entry, if there is one.
LEMMA FoundEntry ==
  ASSUME TypeOK, OneEntryPerId, NEW i \in Ids, Found(i) # {}
  PROVE  /\ PriFound(i) \in Pris
         /\ Found(i) = {<<i, PriFound(i)>>}
         /\ <<i, PriFound(i)>> \in Content
<1> DEFINE e == CHOOSE e \in Found(i) : TRUE
<1>1. e \in Found(i)
  OBVIOUS
<1> HIDE DEF e
<1>2. e \in chain[Hash[i]] /\ e[1] = i
  BY <1>1 DEF Found
<1>3. e \in Ids \X Pris
  BY <1>2, BucketOf DEF TypeOK, Entries
<1>4. e = <<i, e[2]>> /\ e[2] \in Pris
  BY <1>2, <1>3
<1>5. PriFound(i) = e[2]
  BY DEF PriFound, e
<1>6. \A f \in Found(i) : f = e
  BY <1>1, BucketOf DEF Found, OneEntryPerId
<1>7. Found(i) = {<<i, PriFound(i)>>}
  BY <1>1, <1>4, <1>5, <1>6
<1>8. <<i, PriFound(i)>> \in Content
  BY <1>2, <1>4, <1>5, BucketOf DEF Content
<1> QED
  BY <1>4, <1>5, <1>7, <1>8

\* A section that rewrites a bucket: the types stay, and traversals under way are
\* shown the new content.
LEMMA BecomesContent ==
  ASSUME TypeOK, NEW b \in Buckets, NEW entries \in SUBSET Entries, Becomes(b, entries)
  PROVE  /\ chain' \in [Buckets -> SUBSET Entries]
         /\ chain' = [chain EXCEPT ![b] = entries]
         /\ Content' = (UNION {chain[c] : c \in Buckets \ {b}}) \cup entries
         /\ kept' = [t \in Threads |-> IF call[t].op = "each" THEN kept[t] \cap Content' ELSE kept[t]]
         /\ met' = [t \in Threads |-> IF call[t].op = "each" THEN met[t] \cup Content' ELSE met[t]]
<1> DEFINE content == (UNION {chain[c] : c \in Buckets \ {b}}) \cup entries
<1>1. chain' = [chain EXCEPT ![b] = entries]
  BY DEF Becomes
<1>2. chain' \in [Buckets -> SUBSET Entries]
  BY <1>1 DEF TypeOK
<1>3. \A c \in Buckets : chain'[c] = IF c = b THEN entries ELSE chain[c]
  BY <1>1 DEF TypeOK
<1>4. Content' = content
  <2>1. ASSUME NEW e PROVE e \in Content' <=> e \in content
    <3>1. e \in Content' <=> \E c \in Buckets : e \in chain'[c]
      BY DEF Content, Buckets
    <3>2. e \in content <=> e \in entries \/ \E c \in Buckets \ {b} : e \in chain[c]
      OBVIOUS
    <3> QED
      BY <3>1, <3>2, <1>3
  <2> HIDE DEF content
  <2> QED
    BY <2>1
<1>5. kept' = [t \in Threads |-> IF call[t].op = "each" THEN kept[t] \cap content ELSE kept[t]]
  BY DEF Becomes
<1>6. met' = [t \in Threads |-> IF call[t].op = "each" THEN met[t] \cup content ELSE met[t]]
  BY DEF Becomes
<1> QED
  BY <1>1, <1>2, <1>4, <1>5, <1>6

\* Entries at any time are entries.
LEMMA ContentType ==
  ASSUME TypeOK
  PROVE  Content \subseteq Entries
BY DEF TypeOK, Content

-------------------------------------------------------------------------------
(* Type correctness, one entry per id, and what is called where: one lemma per *)
(* action.                                                                     *)

\* A thread that answers its call changes no other call.
LEMMA AnswerCall ==
  ASSUME TypeOK, NEW t \in Threads, NEW r \in {"ok", "exist", "notfound"},
         NEW p \in Pris \cup {Nothing}, Answer(t, r, p)
  PROVE  /\ call' \in [Threads -> Calls]
         /\ call'[t].op = call[t].op /\ call'[t].id = call[t].id
         /\ call'[t].ret = r /\ call'[t].pri = p
         /\ \A u \in Threads \ {t} : call'[u] = call[u]
<1>1. call[t] \in Calls
  BY DEF TypeOK
<1>2. call' = [call EXCEPT ![t] = [call[t] EXCEPT !.ret = r, !.pri = p]]
  BY DEF Answer, TypeOK
<1> DEFINE c == [call[t] EXCEPT !.ret = r, !.pri = p]
<1>3. c \in Calls /\ c.op = call[t].op /\ c.id = call[t].id /\ c.ret = r /\ c.pri = p
  BY <1>1 DEF Calls
<1> HIDE DEF c
<1> QED
  BY <1>2, <1>3 DEF TypeOK, c

\* When one thread moves, and only its call changes, the others' calls are as before.
LEMMA OthersCalls ==
  ASSUME TypeOK, CallInv, NEW t \in Threads, NEW place, Goto(t, place),
         \A u \in Threads \ {t} : call'[u] = call[u],
         CallOf(t)'
  PROVE  CallInv'
<1>1. \A u \in Threads \ {t} : at'[u] = at[u]
  BY DEF Goto, TypeOK
<1>2. ASSUME NEW u \in Threads \ {t} PROVE CallOf(u)'
  <2>1. CallOf(u)
    BY DEF CallInv
  <2> QED
    BY <2>1, <1>1 DEF CallOf
<1> QED
  BY <1>2 DEF CallInv

\* An empty table.
LEMMA InitInv == Init => Inv
<1> SUFFICES ASSUME Init PROVE Inv
  OBVIOUS
<1>1. TypeOK
  <2>1. NoCall \in Calls
    BY DEF NoCall, Calls
  <2>2. 0 \in 0..TabLen /\ 0 \in 0..(Word - 1)
    BY CacheAssumption
  <2> QED
    BY <2>1, <2>2 DEF Init, TypeOK
<1>2. OneEntryPerId
  BY DEF Init, OneEntryPerId
<1>3. CallInv
  BY DEF Init, CallInv, CallOf, NoCall
<1> QED
  BY <1>1, <1>2, <1>3 DEF Inv

\* insert, erase and find are called by a thread that is outside.
LEMMA AskStep ==
  ASSUME Inv, NEW t \in Threads, NEW i \in Ids, NEW p \in Pris \cup {Nothing}, NEW op, NEW place,
         \/ op = "insert" /\ place = "count" /\ p \in Pris
         \/ op = "erase" /\ place = "unlink"
         \/ op = "find" /\ place = "look",
         Ask(t, op, i, p, place)
  PROVE  Inv'
<1> DEFINE c == [op |-> op, id |-> i, pri |-> p, ret |-> "none"]
<1>1. c \in Calls
  BY DEF Calls
<1>2. call' = [call EXCEPT ![t] = c] /\ at' = [at EXCEPT ![t] = place]
  BY DEF Ask, Goto
<1>3. TypeOK'
  BY <1>1, <1>2 DEF Inv, TypeOK, Ask, cache, scan
<1>4. OneEntryPerId'
  BY DEF Inv, OneEntryPerId, Ask, Buckets
<1>5. call'[t] = c /\ at'[t] = place /\ \A u \in Threads \ {t} : call'[u] = call[u]
  BY <1>2 DEF Inv, TypeOK
<1>6. CallOf(t)'
  BY <1>5 DEF CallOf
<1>7. CallInv'
  BY <1>5, <1>6, OthersCalls DEF Inv, Ask
<1> QED
  BY <1>3, <1>4, <1>7 DEF Inv

\* An insert takes an item from the cache, or aborts.
LEMMA CountAllocStep ==
  ASSUME Inv, NEW t \in Threads, CountAlloc(t)
  PROVE  Inv'
<1>1. CASE CacheLeft
  <2>1. (alloc_cnt + 1) % Word \in 0..(Word - 1)
    BY CacheAssumption DEF Inv, TypeOK
  <2>2. TypeOK'
    BY <1>1, <2>1 DEF Inv, TypeOK, CountAlloc, Goto, scan
  <2>3. OneEntryPerId'
    BY DEF Inv, OneEntryPerId, CountAlloc, Buckets
  <2>4. CallOf(t)'
    BY <1>1 DEF Inv, TypeOK, CallInv, CallOf, CountAlloc, Enter, Goto
  <2>5. CallInv'
    BY <1>1, <2>4, OthersCalls DEF Inv, CountAlloc
  <2> QED
    BY <2>2, <2>3, <2>5 DEF Inv
<1>2. CASE ~CacheLeft
  <2>1. TypeOK'
    BY <1>2 DEF Inv, TypeOK, CountAlloc, scan
  <2>2. OneEntryPerId'
    BY DEF Inv, OneEntryPerId, CountAlloc, Buckets
  <2>3. CallInv'
    BY <1>2 DEF Inv, CallInv, CallOf, CountAlloc
  <2> QED
    BY <2>1, <2>2, <2>3 DEF Inv
<1> QED
  BY <1>1, <1>2

\* An item that was not linked, or was unlinked, goes back.
LEMMA CountFreeStep ==
  ASSUME Inv, NEW t \in Threads, CountFree(t)
  PROVE  Inv'
<1>1. (free_cnt + 1) % Word \in 0..(Word - 1)
  BY CacheAssumption DEF Inv, TypeOK
<1>2. TypeOK'
  BY <1>1 DEF Inv, TypeOK, CountFree, Goto, scan
<1>3. OneEntryPerId'
  BY DEF Inv, OneEntryPerId, CountFree, Buckets
<1>4. CallOf(t)'
  BY DEF Inv, TypeOK, CallInv, CallOf, CountFree, Enter, Goto
<1>5. CallInv'
  BY <1>4, OthersCalls DEF Inv, CountFree
<1> QED
  BY <1>2, <1>3, <1>5 DEF Inv

\* What an insert that finds no entry of its id does to the table.
LEMMA LinkedContent ==
  ASSUME Inv, NEW i \in Ids, NEW p \in Pris, Found(i) = {},
         Becomes(Hash[i], chain[Hash[i]] \cup {<<i, p>>})
  PROVE  /\ chain' \in [Buckets -> SUBSET Entries]
         /\ chain' = [chain EXCEPT ![Hash[i]] = chain[Hash[i]] \cup {<<i, p>>}]
         /\ Content' = Content \cup {<<i, p>>}
         /\ <<i, p>> \notin Content
         /\ OneEntryPerId'
<1> DEFINE b == Hash[i]
           entries == chain[b] \cup {<<i, p>>}
<1>1. b \in Buckets /\ entries \in SUBSET Entries
  BY BucketOf DEF Inv, TypeOK, Entries
<1>2. /\ chain' \in [Buckets -> SUBSET Entries]
      /\ chain' = [chain EXCEPT ![b] = entries]
      /\ Content' = (UNION {chain[c] : c \in Buckets \ {b}}) \cup entries
  BY <1>1, BecomesContent DEF Inv
<1>3. Content' = Content \cup {<<i, p>>}
  BY <1>1, <1>2 DEF Content
<1>4. <<i, p>> \notin Content
  <2>1. <<i, p>> \notin chain[b]
    BY DEF Found
  <2>2. TypeOK /\ OneEntryPerId
    BY DEF Inv
  <2> QED
    BY <2>1, <2>2, InContent
<1>5. OneEntryPerId'
  <2>1. \A c \in Buckets : chain'[c] = IF c = b THEN entries ELSE chain[c]
    BY <1>2 DEF Inv, TypeOK
  <2>2. \A e \in chain[b] : e[1] # i
    BY DEF Found
  <2>3. \A c \in Buckets : \A e \in chain'[c] : Hash[e[1]] = c
    BY <2>1 DEF Inv, OneEntryPerId
  <2>4. \A c \in Buckets : \A e, f \in chain'[c] : e[1] = f[1] => e = f
    BY <2>1, <2>2 DEF Inv, OneEntryPerId
  <2>5. Buckets' = Buckets
    BY DEF Buckets
  <2> QED
    BY <2>3, <2>4, <2>5 DEF OneEntryPerId
<1> QED
  BY <1>2, <1>3, <1>4, <1>5

\* What an erase that finds an entry of its id does to the table.
LEMMA UnlinkedContent ==
  ASSUME Inv, NEW i \in Ids, Found(i) # {},
         Becomes(Hash[i], chain[Hash[i]] \ {<<i, PriFound(i)>>})
  PROVE  /\ chain' \in [Buckets -> SUBSET Entries]
         /\ chain' = [chain EXCEPT ![Hash[i]] = chain[Hash[i]] \ {<<i, PriFound(i)>>}]
         /\ Content' = Content \ {<<i, PriFound(i)>>}
         /\ <<i, PriFound(i)>> \in Content
         /\ OneEntryPerId'
<1> DEFINE b == Hash[i]
           x == <<i, PriFound(i)>>
           entries == chain[b] \ {x}
<1>1. b \in Buckets /\ entries \in SUBSET Entries
  BY BucketOf DEF Inv, TypeOK
<1>2. /\ chain' \in [Buckets -> SUBSET Entries]
      /\ chain' = [chain EXCEPT ![b] = entries]
      /\ Content' = (UNION {chain[c] : c \in Buckets \ {b}}) \cup entries
  BY <1>1, BecomesContent DEF Inv
<1>3. x \in Content
  BY FoundEntry DEF Inv
<1>4. \A c \in Buckets \ {b} : x \notin chain[c]
  BY DEF Inv, OneEntryPerId
<1>5. Content' = Content \ {x}
  <2> HIDE DEF x
  <2> QED
    BY <1>1, <1>2, <1>4 DEF Content
<1>6. OneEntryPerId'
  <2>1. \A c \in Buckets : chain'[c] = IF c = b THEN entries ELSE chain[c]
    BY <1>2 DEF Inv, TypeOK
  <2>2. \A c \in Buckets : chain'[c] \subseteq chain[c]
    BY <2>1
  <2>3. Buckets' = Buckets
    BY DEF Buckets
  <2> QED
    BY <2>2, <2>3 DEF Inv, OneEntryPerId
<1> QED
  BY <1>2, <1>3, <1>5, <1>6

\* A change of the content leaves the traversals' histories sets of entries.
LEMMA HistoryType ==
  ASSUME TypeOK, NEW b \in Buckets, NEW entries \in SUBSET Entries, Becomes(b, entries)
  PROVE  kept' \in [Threads -> SUBSET Entries] /\ met' \in [Threads -> SUBSET Entries]
<1>1. Content' \subseteq Entries
  <2>1. chain' \in [Buckets -> SUBSET Entries]
    BY BecomesContent
  <2> QED
    BY <2>1 DEF Content, Buckets
<1> QED
  BY <1>1, BecomesContent DEF TypeOK

\* safe_rw_insert looks for the id and links the item in one write section.
LEMMA LinkStep ==
  ASSUME Inv, NEW t \in Threads, Link(t)
  PROVE  Inv'
<1> DEFINE i == call[t].id
           p == call[t].pri
<1>1. i \in Ids /\ p \in Pris /\ at[t] = "link" /\ call[t].op = "insert"
  BY DEF Inv, CallInv, CallOf, Link, Enter
<1>2. Hash[i] \in Buckets /\ chain[Hash[i]] \cup {<<i, p>>} \in SUBSET Entries
  BY <1>1, BucketOf DEF Inv, TypeOK, Entries
<1>3. CASE /\ Found(i) = {}
           /\ Becomes(Hash[i], chain[Hash[i]] \cup {<<i, p>>})
           /\ Answer(t, "ok", p) /\ Goto(t, "return")
  <2>1. chain' \in [Buckets -> SUBSET Entries] /\ OneEntryPerId'
    BY <1>1, <1>3, LinkedContent
  <2>2. kept' \in [Threads -> SUBSET Entries] /\ met' \in [Threads -> SUBSET Entries]
    BY <1>2, <1>3, HistoryType DEF Inv
  <2>3. /\ call' \in [Threads -> Calls] /\ call'[t].op = "insert" /\ call'[t].ret = "ok"
        /\ \A u \in Threads \ {t} : call'[u] = call[u]
    BY <1>1, <1>3, AnswerCall DEF Inv
  <2>4. TypeOK'
    BY <1>3, <2>1, <2>2, <2>3 DEF Inv, TypeOK, Link, Goto, cache, Buckets
  <2>5. at'[t] = "return"
    BY <1>3 DEF Goto, Inv, TypeOK
  <2>6. CallOf(t)'
    BY <2>3, <2>5 DEF CallOf
  <2>7. CallInv'
    BY <1>3, <2>3, <2>6, OthersCalls DEF Inv
  <2> QED
    BY <2>1, <2>4, <2>7 DEF Inv
<1>4. CASE /\ Answer(t, "exist", p) /\ Goto(t, "giveback")
           /\ UNCHANGED <<chain, kept, met>>
  <2>1. /\ call' \in [Threads -> Calls] /\ call'[t].op = "insert" /\ call'[t].ret = "exist"
        /\ \A u \in Threads \ {t} : call'[u] = call[u]
    BY <1>1, <1>4, AnswerCall DEF Inv
  <2>2. TypeOK'
    BY <1>4, <2>1 DEF Inv, TypeOK, Link, Goto, cache
  <2>3. OneEntryPerId'
    BY <1>4 DEF Inv, OneEntryPerId, Buckets
  <2>4. at'[t] = "giveback"
    BY <1>4 DEF Goto, Inv, TypeOK
  <2>5. CallOf(t)'
    BY <2>1, <2>4 DEF CallOf
  <2>6. CallInv'
    BY <1>4, <2>1, <2>5, OthersCalls DEF Inv
  <2> QED
    BY <2>2, <2>3, <2>6 DEF Inv
<1> QED
  BY <1>3, <1>4 DEF Link

\* erase looks for the id and unlinks it in one write section.
LEMMA UnlinkStep ==
  ASSUME Inv, NEW t \in Threads, Unlink(t)
  PROVE  Inv'
<1> DEFINE i == call[t].id
           p == PriFound(i)
<1>1. i \in Ids /\ at[t] = "unlink" /\ call[t].op = "erase"
  BY DEF Inv, CallInv, CallOf, Unlink, Enter
<1>2. Hash[i] \in Buckets /\ chain[Hash[i]] \ {<<i, p>>} \in SUBSET Entries
  BY <1>1, BucketOf DEF Inv, TypeOK
<1>3. CASE /\ Found(i) # {}
           /\ Becomes(Hash[i], chain[Hash[i]] \ {<<i, p>>})
           /\ Answer(t, "ok", p) /\ Goto(t, "giveback")
  <2>1. chain' \in [Buckets -> SUBSET Entries] /\ OneEntryPerId'
    BY <1>1, <1>3, UnlinkedContent
  <2>2. kept' \in [Threads -> SUBSET Entries] /\ met' \in [Threads -> SUBSET Entries]
    BY <1>2, <1>3, HistoryType DEF Inv
  <2>3. p \in Pris
    BY <1>1, <1>3, FoundEntry DEF Inv
  <2>4. /\ call' \in [Threads -> Calls] /\ call'[t].op = "erase" /\ call'[t].ret = "ok"
        /\ \A u \in Threads \ {t} : call'[u] = call[u]
    BY <1>1, <1>3, <2>3, AnswerCall DEF Inv
  <2>5. TypeOK'
    BY <1>3, <2>1, <2>2, <2>4 DEF Inv, TypeOK, Unlink, Goto, cache, Buckets
  <2>6. at'[t] = "giveback"
    BY <1>3 DEF Goto, Inv, TypeOK
  <2>7. CallOf(t)'
    BY <2>4, <2>6 DEF CallOf
  <2>8. CallInv'
    BY <1>3, <2>4, <2>7, OthersCalls DEF Inv
  <2> QED
    BY <2>1, <2>5, <2>8 DEF Inv
<1>4. CASE /\ Answer(t, "notfound", Nothing) /\ Goto(t, "return")
           /\ UNCHANGED <<chain, kept, met>>
  <2>1. /\ call' \in [Threads -> Calls] /\ call'[t].op = "erase" /\ call'[t].ret = "notfound"
        /\ \A u \in Threads \ {t} : call'[u] = call[u]
    BY <1>1, <1>4, AnswerCall DEF Inv
  <2>2. TypeOK'
    BY <1>4, <2>1 DEF Inv, TypeOK, Unlink, Goto, cache
  <2>3. OneEntryPerId'
    BY <1>4 DEF Inv, OneEntryPerId, Buckets
  <2>4. at'[t] = "return"
    BY <1>4 DEF Goto, Inv, TypeOK
  <2>5. CallOf(t)'
    BY <2>1, <2>4 DEF CallOf
  <2>6. CallInv'
    BY <1>4, <2>1, <2>5, OthersCalls DEF Inv
  <2> QED
    BY <2>2, <2>3, <2>6 DEF Inv
<1> QED
  BY <1>3, <1>4 DEF Unlink

\* find answers from one read section.
LEMMA LookStep ==
  ASSUME Inv, NEW t \in Threads, Look(t)
  PROVE  Inv'
<1>1. call[t].id \in Ids /\ at[t] = "look" /\ call[t].op = "find"
  BY DEF Inv, CallInv, CallOf, Look, Enter
<1>2. PICK r \in {"ok", "notfound"}, p \in Pris \cup {Nothing} : Answer(t, r, p)
  <2>1. CASE Found(call[t].id) # {}
    BY <1>1, <2>1, FoundEntry DEF Look, Inv
  <2>2. CASE Found(call[t].id) = {}
    BY <2>2 DEF Look
  <2> QED
    BY <2>1, <2>2
<1>3. /\ call' \in [Threads -> Calls] /\ call'[t].op = "find" /\ call'[t].ret # "none"
      /\ \A u \in Threads \ {t} : call'[u] = call[u]
  BY <1>1, <1>2, AnswerCall DEF Inv
<1>4. TypeOK'
  BY <1>3 DEF Inv, TypeOK, Look, Goto, cache, scan
<1>5. OneEntryPerId'
  BY DEF Inv, OneEntryPerId, Look, Buckets
<1>6. at'[t] = "return"
  BY DEF Look, Goto, Inv, TypeOK
<1>7. CallOf(t)'
  BY <1>3, <1>6 DEF CallOf
<1>8. CallInv'
  BY <1>3, <1>7, OthersCalls DEF Inv, Look
<1> QED
  BY <1>4, <1>5, <1>8 DEF Inv

\* A traversal starts.
LEMMA EachStep ==
  ASSUME Inv, NEW t \in Threads, Each(t)
  PROVE  Inv'
<1> DEFINE c == [call[t] EXCEPT !.op = "each"]
<1>1. call[t] \in Calls /\ call' = [call EXCEPT ![t] = c]
  BY DEF Inv, TypeOK, Each
<1>2. c \in Calls /\ c.op = "each"
  BY <1>1 DEF Calls
<1>3. call' \in [Threads -> Calls] /\ call'[t].op = "each" /\ \A u \in Threads \ {t} : call'[u] = call[u]
  <2> HIDE DEF c
  <2> QED
    BY <1>1, <1>2 DEF Inv, TypeOK
<1>4. FirstBucket \in 0..TabLen
  BY DEF FirstBucket
<1>5. TypeOK'
  BY <1>3, <1>4, ContentType DEF Inv, TypeOK, Each, Goto, cache
<1>6. OneEntryPerId'
  BY DEF Inv, OneEntryPerId, Each, Buckets
<1>7. at'[t] = "each"
  BY DEF Each, Goto, Inv, TypeOK
<1>8. CallOf(t)'
  BY <1>3, <1>7 DEF CallOf
<1>9. CallInv'
  BY <1>3, <1>8, OthersCalls DEF Inv, Each
<1> QED
  BY <1>5, <1>6, <1>9 DEF Inv

\* A traversal passes a bucket.
LEMMA EachBucketStep ==
  ASSUME Inv, NEW t \in Threads, EachBucket(t)
  PROVE  Inv'
<1>1. cursor[t] \in Buckets /\ cursor[t] + 1 \in 0..TabLen
  BY DEF Inv, TypeOK, EachBucket, Buckets
<1>2. chain[cursor[t]] \subseteq Entries
  BY <1>1 DEF Inv, TypeOK
<1>3. TypeOK'
  BY <1>1, <1>2 DEF Inv, TypeOK, EachBucket, Goto, cache
<1>4. OneEntryPerId'
  BY DEF Inv, OneEntryPerId, EachBucket, Buckets
<1>5. call'[t] = call[t] /\ at'[t] \in {"each", "return"} /\ call[t].op = "each"
  BY DEF Inv, TypeOK, CallInv, CallOf, EachBucket, Enter, Goto
<1>6. CallOf(t)'
  BY <1>5 DEF CallOf
<1>7. CallInv'
  BY <1>6, OthersCalls DEF Inv, EachBucket
<1> QED
  BY <1>3, <1>4, <1>7 DEF Inv

\* A call returns.
LEMMA ReturnStep ==
  ASSUME Inv, NEW t \in Threads, Return(t)
  PROVE  Inv'
<1>1. NoCall \in Calls /\ NoCall.op = "none"
  BY DEF NoCall, Calls
<1>2. call'[t] = NoCall /\ at'[t] = "idle" /\ \A u \in Threads \ {t} : call'[u] = call[u]
  BY DEF Inv, TypeOK, Return, Goto
<1>3. TypeOK'
  BY <1>1 DEF Inv, TypeOK, Return, Goto, cache
<1>4. OneEntryPerId'
  BY DEF Inv, OneEntryPerId, Return, Buckets
<1>5. CallOf(t)'
  BY <1>1, <1>2 DEF CallOf
<1>6. CallInv'
  BY <1>2, <1>5, OthersCalls DEF Inv, Return
<1> QED
  BY <1>3, <1>4, <1>6 DEF Inv

\* The word is that of an unsigned count: ClearedCount wraps.
LEMMA FreeStep ==
  ASSUME Inv, IsFiniteSet(Content), Free
  PROVE  Inv'
<1>1. ClearedCount \in 0..(Word - 1)
  <2>1. Cardinality(Content) \in Nat
    BY FS_CardinalityType
  <2> QED
    BY <2>1, CacheAssumption DEF Inv, TypeOK, ClearedCount
<1>2. TypeOK'
  BY <1>1 DEF Inv, TypeOK, Free, scan
<1>3. OneEntryPerId'
  BY DEF Free, OneEntryPerId, Buckets
<1>4. CallInv'
  BY DEF Inv, CallInv, CallOf, Free
<1> QED
  BY <1>2, <1>3, <1>4 DEF Inv
-------------------------------------------------------------------------------
(* The two counters of the cache, against the items that are out.              *)

\* A difference of unsigned counts, written without the remainder.
LEMMA Difference ==
  ASSUME NEW w \in Nat, NEW a \in 0..(w - 1), NEW f \in 0..(w - 1)
  PROVE  (a - f) % w = IF a >= f THEN a - f ELSE a - f + w
<1>1. CASE a >= f
  BY <1>1
<1>2. CASE a < f
  BY <1>2
<1> QED
  BY <1>1, <1>2

\* One more item is counted as out.
LEMMA DifferenceUp ==
  ASSUME NEW w \in Nat, NEW a \in 0..(w - 1), NEW f \in 0..(w - 1),
         (a - f) % w < w - 1
  PROVE  (((a + 1) % w) - f) % w = ((a - f) % w) + 1
<1> DEFINE d == (a - f) % w
           up == (a + 1) % w
<1>1. up = IF a = w - 1 THEN 0 ELSE a + 1
  OBVIOUS
<1>2. up \in 0..(w - 1)
  BY <1>1
<1>3. d = IF a >= f THEN a - f ELSE a - f + w
  BY Difference
<1>4. d < w - 1
  OBVIOUS
<1> HIDE DEF d, up
<1>5. (up - f) % w = IF up >= f THEN up - f ELSE up - f + w
  BY <1>2, Difference
<1>6. (up - f) % w = d + 1
  BY <1>1, <1>3, <1>4, <1>5
<1> QED
  BY <1>6 DEF d, up

\* Some items are counted as back.
LEMMA DifferenceDown ==
  ASSUME NEW w \in Nat, NEW a \in 0..(w - 1), NEW f \in 0..(w - 1),
         NEW n \in Nat, n <= (a - f) % w
  PROVE  (a - ((f + n) % w)) % w = ((a - f) % w) - n
<1> DEFINE d == (a - f) % w
           g == (f + n) % w
<1>1. d = IF a >= f THEN a - f ELSE a - f + w
  BY Difference
<1>2. n <= d
  OBVIOUS
<1>3. g = IF f + n >= w THEN f + n - w ELSE f + n
  <2> HIDE DEF d
  <2>1. f + n < w + w
    BY <1>1, <1>2
  <2>2. CASE f + n >= w
    BY <2>1, <2>2
  <2>3. CASE f + n < w
    BY <2>3
  <2> QED
    BY <2>2, <2>3
<1> HIDE DEF d, g
<1>4. g \in 0..(w - 1)
  BY <1>1, <1>2, <1>3
<1>5. (a - g) % w = IF a >= g THEN a - g ELSE a - g + w
  BY <1>4, Difference
<1>6. (a - g) % w = d - n
  BY <1>1, <1>2, <1>3, <1>4, <1>5
<1> QED
  BY <1>6 DEF d, g

\* Items in the table or with a thread.
Out == Cardinality(Content) + Cardinality(Holding)

CountInv ==
  /\ IsFiniteSet(Content) /\ IsFiniteSet(Holding)
  /\ CacheExact /\ CacheBound

\* The number of items out is the wrapped difference of the two counters.
LEMMA OutType ==
  ASSUME CountInv
  PROVE  /\ Cardinality(Content) \in Nat /\ Cardinality(Holding) \in Nat
         /\ Out \in Nat /\ Out <= Unit /\ (alloc_cnt - free_cnt) % Word = Out
BY FS_CardinalityType DEF CountInv, Out, CacheExact, CacheBound

\* The cache's unsigned test says whether an item is left of Unit.
LEMMA LeftIsRoom ==
  ASSUME TypeOK, CountInv
  PROVE  CacheLeft <=> Out < Unit
<1>1. /\ alloc_cnt \in 0..(Word - 1) /\ free_cnt \in 0..(Word - 1)
      /\ Word \in Nat /\ Unit \in Nat /\ Unit < Word
  BY CacheAssumption DEF TypeOK
<1>2. Out \in Nat /\ Out <= Unit
  BY OutType
<1>3. Out = IF alloc_cnt >= free_cnt THEN alloc_cnt - free_cnt ELSE alloc_cnt - free_cnt + Word
  BY <1>1, OutType, Difference
<1>4. (free_cnt + Unit - alloc_cnt) % Word = Unit - Out
  <2>1. CASE alloc_cnt >= free_cnt
    <3>1. free_cnt + Unit - alloc_cnt = Unit - Out
      BY <1>1, <1>2, <1>3, <2>1
    <3>2. Unit - Out \in 0..(Word - 1)
      BY <1>1, <1>2
    <3> QED
      BY <1>1, <3>1, <3>2
  <2>2. CASE alloc_cnt < free_cnt
    <3>1. free_cnt + Unit - alloc_cnt = Unit - Out + Word
      BY <1>1, <1>2, <1>3, <2>2
    <3>2. Unit - Out \in 0..(Word - 1)
      BY <1>1, <1>2
    <3> HIDE DEF Out
    <3> DEFINE u == Unit - Out
    <3>3. (u + Word) % Word = u
      <4> HIDE DEF u
      <4>1. u \in 0..(Word - 1)
        BY <3>2 DEF u
      <4> QED
        BY <1>1, <4>1
    <3> QED
      BY <3>1, <3>3
  <2> QED
    BY <1>1, <2>1, <2>2
<1> QED
  BY <1>1, <1>2, <1>4 DEF CacheLeft

(* A thread that comes to hold an item, or holds one no more, or neither.      *)
Held == {"link", "giveback"}

\* One more thread holds an item,
LEMMA HoldingUp ==
  ASSUME TypeOK, IsFiniteSet(Holding), NEW t \in Threads, NEW place \in Held,
         at[t] \notin Held, Goto(t, place)
  PROVE  IsFiniteSet(Holding') /\ Cardinality(Holding') = Cardinality(Holding) + 1
<1>1. Holding' = Holding \cup {t} /\ t \notin Holding
  BY DEF TypeOK, Goto, Holding, Held
<1> QED
  BY <1>1, FS_AddElement

\* one fewer,
LEMMA HoldingDown ==
  ASSUME TypeOK, IsFiniteSet(Holding), NEW t \in Threads, NEW place,
         at[t] \in Held, place \notin Held, Goto(t, place)
  PROVE  IsFiniteSet(Holding') /\ Cardinality(Holding') = Cardinality(Holding) - 1
<1>1. Holding' = Holding \ {t} /\ t \in Holding
  BY DEF TypeOK, Goto, Holding, Held
<1> QED
  BY <1>1, FS_RemoveElement

\* or as many as before.
LEMMA HoldingSame ==
  ASSUME TypeOK, NEW t \in Threads, NEW place, at[t] \in Held <=> place \in Held, Goto(t, place)
  PROVE  Holding' = Holding
BY DEF TypeOK, Goto, Holding, Held

\* Where neither the counters, the chains nor the holders change, nothing is out
\* that was not.
LEMMA CountUnchanged ==
  ASSUME CountInv, UNCHANGED <<chain, alloc_cnt, free_cnt>>, Holding' = Holding
  PROVE  CountInv'
<1>1. Content' = Content
  BY DEF Content, Buckets
<1> QED
  BY <1>1 DEF CountInv, CacheExact, CacheBound

\* An item goes out to the thread that counted it.
LEMMA CountAllocCount ==
  ASSUME Inv, CountInv, NEW t \in Threads, CountAlloc(t)
  PROVE  CountInv'
<1>1. CASE ~CacheLeft
  <2>1. Holding' = Holding
    BY <1>1 DEF CountAlloc, Holding
  <2> QED
    BY <1>1, <2>1, CountUnchanged DEF CountAlloc
<1>2. CASE CacheLeft
  <2>1. Content' = Content
    BY DEF CountAlloc, Content, Buckets
  <2>2. IsFiniteSet(Holding') /\ Cardinality(Holding') = Cardinality(Holding) + 1
    BY <1>2, HoldingUp DEF Inv, CountInv, CountAlloc, Enter, Held
  <2>3. Out < Unit
    BY <1>2, LeftIsRoom DEF Inv
  <2>4. Out' = Out + 1
    BY <2>1, <2>2, OutType DEF Out
  <2>5. (alloc_cnt' - free_cnt') % Word = Out + 1
    <3>1. /\ alloc_cnt \in 0..(Word - 1) /\ free_cnt \in 0..(Word - 1) /\ Word \in Nat
      BY CacheAssumption DEF Inv, TypeOK
    <3>2. (alloc_cnt - free_cnt) % Word < Word - 1
      BY <2>3, OutType, CacheAssumption
    <3>3. alloc_cnt' = (alloc_cnt + 1) % Word /\ free_cnt' = free_cnt
      BY <1>2 DEF CountAlloc
    <3> QED
      BY <3>1, <3>2, <3>3, DifferenceUp, OutType
  <2>6. Out + 1 <= Unit
    BY <2>3, OutType, CacheAssumption
  <2> QED
    BY <2>1, <2>2, <2>4, <2>5, <2>6 DEF CountInv, CacheExact, CacheBound, Out
<1> QED
  BY <1>1, <1>2

\* An item comes back from the thread that held it.
LEMMA CountFreeCount ==
  ASSUME Inv, CountInv, NEW t \in Threads, CountFree(t)
  PROVE  CountInv'
<1>1. Content' = Content
  BY DEF CountFree, Content, Buckets
<1>2. IsFiniteSet(Holding') /\ Cardinality(Holding') = Cardinality(Holding) - 1
  BY HoldingDown DEF Inv, CountInv, CountFree, Enter, Held
<1>3. Out' = Out - 1
  BY <1>1, <1>2, OutType DEF Out
<1>4. Cardinality(Holding') \in Nat
  BY <1>2, FS_CardinalityType
<1>5. 1 <= Out
  BY <1>2, <1>4, OutType DEF Out
<1>6. (alloc_cnt' - free_cnt') % Word = Out - 1
  <2>1. /\ alloc_cnt \in 0..(Word - 1) /\ free_cnt \in 0..(Word - 1) /\ Word \in Nat
    BY CacheAssumption DEF Inv, TypeOK
  <2>2. alloc_cnt' = alloc_cnt /\ free_cnt' = (free_cnt + 1) % Word
    BY DEF CountFree
  <2>3. 1 <= (alloc_cnt - free_cnt) % Word /\ 1 \in Nat
    BY <1>5, OutType
  <2>4. (alloc_cnt - ((free_cnt + 1) % Word)) % Word = ((alloc_cnt - free_cnt) % Word) - 1
    BY <2>1, <2>3, DifferenceDown, Zenon
  <2> QED
    BY <2>2, <2>4, OutType
<1>7. Out - 1 <= Unit
  BY OutType, CacheAssumption
<1> QED
  BY <1>1, <1>2, <1>3, <1>6, <1>7 DEF CountInv, CacheExact, CacheBound, Out

\* A link moves the item from the thread to the table; a duplicate leaves it with the thread.
LEMMA LinkCount ==
  ASSUME Inv, CountInv, NEW t \in Threads, Link(t)
  PROVE  CountInv'
<1> DEFINE i == call[t].id
           p == call[t].pri
<1>1. i \in Ids /\ p \in Pris /\ at[t] = "link"
  BY DEF Inv, CallInv, CallOf, Link, Enter
<1>2. CASE /\ Found(i) = {}
           /\ Becomes(Hash[i], chain[Hash[i]] \cup {<<i, p>>})
           /\ Goto(t, "return")
  <2>1. Content' = Content \cup {<<i, p>>} /\ <<i, p>> \notin Content
    BY <1>1, <1>2, LinkedContent
  <2>2. IsFiniteSet(Content') /\ Cardinality(Content') = Cardinality(Content) + 1
    <3> HIDE DEF i, p
    <3> QED
      BY <2>1, FS_AddElement DEF CountInv
  <2>3. IsFiniteSet(Holding') /\ Cardinality(Holding') = Cardinality(Holding) - 1
    BY <1>1, <1>2, HoldingDown DEF Inv, CountInv, Held
  <2>4. Cardinality(Content') + Cardinality(Holding') = Cardinality(Content) + Cardinality(Holding)
    BY <2>2, <2>3, OutType
  <2>5. alloc_cnt' = alloc_cnt /\ free_cnt' = free_cnt
    BY DEF Link, cache
  <2> QED
    BY <2>2, <2>3, <2>4, <2>5 DEF CountInv, CacheExact, CacheBound
<1>3. CASE Goto(t, "giveback") /\ UNCHANGED <<chain, kept, met>>
  <2>1. Holding' = Holding
    BY <1>1, <1>3, HoldingSame DEF Inv, Held
  <2> QED
    BY <1>3, <2>1, CountUnchanged DEF Link, cache
<1> QED
  BY <1>2, <1>3 DEF Link

\* An unlink moves the item from the table to the thread.
LEMMA UnlinkCount ==
  ASSUME Inv, CountInv, NEW t \in Threads, Unlink(t)
  PROVE  CountInv'
<1> DEFINE i == call[t].id
           x == <<i, PriFound(i)>>
<1>1. i \in Ids /\ at[t] = "unlink"
  BY DEF Inv, CallInv, CallOf, Unlink, Enter
<1>2. CASE /\ Found(i) # {}
           /\ Becomes(Hash[i], chain[Hash[i]] \ {x})
           /\ Goto(t, "giveback")
  <2>1. Content' = Content \ {x} /\ x \in Content
    BY <1>1, <1>2, UnlinkedContent
  <2>2. IsFiniteSet(Content') /\ Cardinality(Content') = Cardinality(Content) - 1
    <3> HIDE DEF x
    <3> QED
      BY <2>1, FS_RemoveElement DEF CountInv
  <2>3. IsFiniteSet(Holding') /\ Cardinality(Holding') = Cardinality(Holding) + 1
    BY <1>1, <1>2, HoldingUp DEF Inv, CountInv, Held
  <2>4. Cardinality(Content') + Cardinality(Holding') = Cardinality(Content) + Cardinality(Holding)
    BY <2>2, <2>3, OutType
  <2>5. alloc_cnt' = alloc_cnt /\ free_cnt' = free_cnt
    BY DEF Unlink, cache
  <2> QED
    BY <2>2, <2>3, <2>4, <2>5 DEF CountInv, CacheExact, CacheBound
<1>3. CASE Goto(t, "return") /\ UNCHANGED <<chain, kept, met>>
  <2>1. Holding' = Holding
    BY <1>1, <1>3, HoldingSame DEF Inv, Held
  <2> QED
    BY <1>3, <2>1, CountUnchanged DEF Unlink, cache
<1> QED
  BY <1>2, <1>3 DEF Unlink

\* hash_free gives back what is in the table when no thread holds an item.
LEMMA FreeCount ==
  ASSUME Inv, CountInv, Free
  PROVE  CountInv'
<1>1. Content' = {}
  BY DEF Free, Content, Buckets
<1>2. Holding = {} /\ Holding' = {}
  BY DEF Free, Holding
<1>3. Cardinality(Content') = 0 /\ Cardinality(Holding') = 0 /\ Cardinality(Holding) = 0
      /\ IsFiniteSet(Content') /\ IsFiniteSet(Holding')
  BY <1>1, <1>2, FS_EmptySet
<1>4. Out = Cardinality(Content)
  BY <1>3, OutType DEF Out
<1>5. (alloc_cnt' - free_cnt') % Word = 0
  <2>1. /\ alloc_cnt \in 0..(Word - 1) /\ free_cnt \in 0..(Word - 1) /\ Word \in Nat
    BY CacheAssumption DEF Inv, TypeOK
  <2>2. alloc_cnt' = alloc_cnt /\ free_cnt' = (free_cnt + Out) % Word
    BY <1>4 DEF Free, ClearedCount
  <2>3. Out <= (alloc_cnt - free_cnt) % Word /\ Out \in Nat
    BY OutType
  <2>4. (alloc_cnt - ((free_cnt + Out) % Word)) % Word = ((alloc_cnt - free_cnt) % Word) - Out
    BY <2>1, <2>3, DifferenceDown, Zenon
  <2> QED
    BY <2>2, <2>4, OutType
<1> QED
  BY <1>3, <1>5, CacheAssumption DEF CountInv, CacheExact, CacheBound

-------------------------------------------------------------------------------
\* A step that is none of the counting ones leaves the counters and the table, and
\* holds no item before or after.
LEMMA OtherStepsCount ==
  ASSUME Inv, CountInv, NEW t \in Threads,
         \/ \E i \in Ids, p \in Pris : Insert(t, i, p)
         \/ \E i \in Ids : Erase(t, i) \/ Find(t, i)
         \/ Look(t) \/ Each(t) \/ EachBucket(t) \/ Return(t)
  PROVE  CountInv'
<1>1. PICK place : /\ Goto(t, place) /\ place \notin Held /\ at[t] \notin Held
                   /\ UNCHANGED <<chain, alloc_cnt, free_cnt>>
  BY DEF Insert, Erase, Find, Ask, Look, Each, EachBucket, Return, Enter, Held, cache
<1> QED
  BY <1>1, HoldingSame, CountUnchanged DEF Inv

\* Nothing is out at first.
LEMMA InitCount == Init => CountInv
<1> SUFFICES ASSUME Init PROVE CountInv
  OBVIOUS
<1>1. Content = {} /\ Holding = {}
  BY DEF Init, Content, Holding
<1>2. (alloc_cnt - free_cnt) % Word = 0
  BY CacheAssumption DEF Init
<1> QED
  BY <1>1, <1>2, FS_EmptySet, CacheAssumption DEF CountInv, CacheExact, CacheBound

IInv == Inv /\ CountInv

\* Each step keeps both parts.
LEMMA NextIInv == IInv /\ [Next]_vars => IInv'
<1> SUFFICES ASSUME Inv, CountInv, [Next]_vars PROVE Inv' /\ CountInv'
  BY DEF IInv
<1>1. ASSUME NEW t \in Threads, NEW i \in Ids, NEW p \in Pris, Insert(t, i, p) PROVE Inv'
  BY <1>1, AskStep DEF Insert
<1>2. ASSUME NEW t \in Threads, NEW i \in Ids, Erase(t, i) \/ Find(t, i) PROVE Inv'
  BY <1>2, AskStep DEF Erase, Find
<1>3. ASSUME NEW t \in Threads, CountAlloc(t) PROVE Inv' /\ CountInv'
  BY <1>3, CountAllocStep, CountAllocCount
<1>4. ASSUME NEW t \in Threads, CountFree(t) PROVE Inv' /\ CountInv'
  BY <1>4, CountFreeStep, CountFreeCount
<1>5. ASSUME NEW t \in Threads, Link(t) PROVE Inv' /\ CountInv'
  BY <1>5, LinkStep, LinkCount
<1>6. ASSUME NEW t \in Threads, Unlink(t) PROVE Inv' /\ CountInv'
  BY <1>6, UnlinkStep, UnlinkCount
<1>7. ASSUME NEW t \in Threads, Look(t) PROVE Inv'
  BY <1>7, LookStep
<1>8. ASSUME NEW t \in Threads, Each(t) PROVE Inv'
  BY <1>8, EachStep
<1>9. ASSUME NEW t \in Threads, EachBucket(t) PROVE Inv'
  BY <1>9, EachBucketStep
<1>10. ASSUME NEW t \in Threads, Return(t) PROVE Inv'
  BY <1>10, ReturnStep
<1>11. ASSUME Free PROVE Inv' /\ CountInv'
  BY <1>11, FreeStep, FreeCount DEF CountInv
<1>12. ASSUME UNCHANGED vars PROVE Inv' /\ CountInv'
  <2>1. Inv'
    BY <1>12 DEF vars, Inv, TypeOK, OneEntryPerId, CallInv, CallOf, Buckets
  <2>2. Holding' = Holding
    BY <1>12 DEF vars, Holding
  <2> QED
    BY <1>12, <2>1, <2>2, CountUnchanged DEF vars
<1> QED
  BY <1>1, <1>2, <1>3, <1>4, <1>5, <1>6, <1>7, <1>8, <1>9, <1>10, <1>11, <1>12,
     OtherStepsCount DEF Next

\* So both hold always.
LEMMA AlwaysIInv == Spec => []IInv
<1>1. Init => IInv
  BY InitInv, InitCount DEF IInv
<1>2. IInv /\ [Next]_vars => IInv'
  BY NextIInv
<1> QED
  BY <1>1, <1>2, PTL DEF Spec

\* The table, its cache and its callers are what the types say.
THEOREM TypeCorrect == Spec => []TypeOK
<1>1. IInv => TypeOK
  BY DEF IInv, Inv
<1> QED
  BY <1>1, AlwaysIInv, PTL

\* No interleaving of inserts and erases leaves two entries of one id, or an entry
\* in a bucket that is not its own: the look and the link are in one section.
THEOREM UniqueEntries == Spec => []OneEntryPerId
<1>1. IInv => OneEntryPerId
  BY DEF IInv, Inv
<1> QED
  BY <1>1, AlwaysIInv, PTL

\* The counters of memory_cache.c say exactly how many items are out, though they
\* wrap: no item is leaked and none is given back twice.
THEOREM ItemsCounted == Spec => []CacheExact
<1>1. IInv => CacheExact
  BY DEF IInv, CountInv
<1> QED
  BY <1>1, AlwaysIInv, PTL

\* cache_unit is never exceeded, though the allocation is outside the bucket's lock.
THEOREM ItemsBounded == Spec => []CacheBound
<1>1. IInv => CacheBound
  BY DEF IInv, CountInv
<1> QED
  BY <1>1, AlwaysIInv, PTL

\* rwinsert's assert fails only for want of items: all of them are out.
THEOREM AbortsOnlyFull == Spec => []AbortOnlyFull
<1>1. Init => AbortOnlyFull
  BY DEF Init, AbortOnlyFull
<1>2. IInv /\ AbortOnlyFull /\ [Next]_vars => AbortOnlyFull'
  <2> SUFFICES ASSUME IInv, AbortOnlyFull, [Next]_vars, life' = "aborted"
               PROVE  (Cardinality(Content) + Cardinality(Holding) = Unit)'
    BY DEF AbortOnlyFull
  <2>1. CASE life = "aborted"
    <3>1. UNCHANGED vars
      BY <2>1 DEF Next, Insert, Erase, Find, Ask, CountAlloc, CountFree, Link, Unlink, Look,
                  Each, EachBucket, Return, Free, Enter
    <3>2. Content' = Content /\ Holding' = Holding
      BY <3>1 DEF vars, Content, Holding, Buckets
    <3> QED
      BY <2>1, <3>2 DEF AbortOnlyFull
  <2>2. CASE life # "aborted"
    <3>1. PICK t \in Threads : CountAlloc(t) /\ ~CacheLeft
      BY <2>2 DEF Next, vars, Insert, Erase, Find, Ask, CountAlloc, CountFree, Link, Unlink, Look,
                  Each, EachBucket, Return, Free
    <3>2. Out = Unit
      BY <3>1, LeftIsRoom, OutType, CacheAssumption DEF IInv, Inv
    <3>3. Content' = Content /\ Holding' = Holding
      BY <3>1 DEF CountAlloc, Content, Holding, Buckets
    <3> QED
      BY <3>2, <3>3 DEF Out
  <2> QED
    BY <2>1, <2>2
<1> QED
  BY <1>1, <1>2, AlwaysIInv, PTL DEF Spec

-------------------------------------------------------------------------------
(* A traversal: what it has passed of the buckets behind its cursor.           *)

ScanOf(t) ==
  call[t].op = "each" =>
    /\ kept[t] \subseteq Content /\ Content \subseteq met[t]
    /\ seen[t] \subseteq met[t]
    /\ \A e \in kept[t] : Hash[e[1]] < cursor[t] => e \in seen[t]
    /\ \A e \in seen[t] : e[1] \in Ids /\ Hash[e[1]] < cursor[t]
    /\ \A e, f \in seen[t] : e[1] = f[1] => e = f
    /\ at[t] = "return" => cursor[t] = TabLen
ScanInv == \A t \in Threads : ScanOf(t)

\* A step of another thread keeps a traversal as it is, or shows it a new content.
LEMMA ScanKept ==
  ASSUME ScanInv,
         \A t \in Threads : call'[t].op = "each" =>
           /\ call[t].op = "each" /\ at'[t] = at[t]
           /\ cursor'[t] = cursor[t] /\ seen'[t] = seen[t]
           /\ \/ kept'[t] = kept[t] /\ met'[t] = met[t] /\ Content' = Content
              \/ kept'[t] = kept[t] \cap Content' /\ met'[t] = met[t] \cup Content'
  PROVE  ScanInv'
<1> SUFFICES ASSUME NEW t \in Threads, call'[t].op = "each" PROVE ScanOf(t)'
  BY DEF ScanInv, ScanOf
<1>1. ScanOf(t) /\ call[t].op = "each"
  BY DEF ScanInv
<1>2. /\ at'[t] = at[t] /\ cursor'[t] = cursor[t] /\ seen'[t] = seen[t]
      /\ kept'[t] \subseteq kept[t] /\ met[t] \subseteq met'[t]
      /\ kept'[t] \subseteq Content' /\ Content' \subseteq met'[t]
  BY <1>1 DEF ScanOf
<1> QED
  BY <1>1, <1>2 DEF ScanOf

\* What is linked or unlinked meanwhile leaves a traversal's bounds right.
LEMMA LinkScan ==
  ASSUME Inv, ScanInv, NEW t \in Threads, Link(t) \/ Unlink(t)
  PROVE  ScanInv'
<1>1. cursor' = cursor /\ seen' = seen
  BY DEF Link, Unlink
<1>2. \A u \in Threads : call'[u].op = "each" => call[u].op = "each" /\ at'[u] = at[u]
  <2>1. call'[t].op # "each" /\ \A u \in Threads \ {t} : call'[u] = call[u] /\ at'[u] = at[u]
    <3>1. call[t].op \in {"insert", "erase"} /\ call[t].id \in Ids
      BY DEF Inv, CallInv, CallOf, Link, Unlink, Enter
    <3>2. PICK r \in {"ok", "exist", "notfound"}, p \in Pris \cup {Nothing} : Answer(t, r, p)
      <4>1. CASE Link(t)
        BY <4>1 DEF Link, Inv, CallInv, CallOf, Enter
      <4>2. CASE Unlink(t)
        BY <4>2, <3>1, FoundEntry DEF Unlink, Inv
      <4> QED
        BY <4>1, <4>2
    <3>3. \A u \in Threads \ {t} : at'[u] = at[u]
      BY DEF Link, Unlink, Goto, Inv, TypeOK
    <3> QED
      BY <3>1, <3>2, <3>3, AnswerCall DEF Inv
  <2> QED
    BY <2>1
<1>3. CASE UNCHANGED <<chain, kept, met>>
  <2>1. Content' = Content
    BY <1>3 DEF Content, Buckets
  <2> QED
    BY <1>1, <1>2, <1>3, <2>1, ScanKept
<1>4. CASE ~UNCHANGED <<chain, kept, met>>
  <2>1. PICK b \in Buckets, entries \in SUBSET Entries : Becomes(b, entries)
    <3>1. CASE Link(t)
      <4>1. call[t].id \in Ids /\ call[t].pri \in Pris
        BY <3>1 DEF Inv, CallInv, CallOf, Link, Enter
      <4>2. chain[Hash[call[t].id]] \cup {<<call[t].id, call[t].pri>>} \in SUBSET Entries
        BY <4>1, BucketOf DEF Inv, TypeOK, Entries
      <4> QED
        BY <1>4, <3>1, <4>1, <4>2, BucketOf DEF Link
    <3>2. CASE Unlink(t)
      <4>1. call[t].id \in Ids
        BY <3>2 DEF Inv, CallInv, CallOf, Unlink, Enter
      <4>2. chain[Hash[call[t].id]] \ {<<call[t].id, PriFound(call[t].id)>>} \in SUBSET Entries
        BY <4>1, BucketOf DEF Inv, TypeOK
      <4> QED
        BY <1>4, <3>2, <4>1, <4>2, BucketOf DEF Unlink
    <3> QED
      BY <3>1, <3>2
  <2>2. \A u \in Threads : call[u].op = "each" =>
          kept'[u] = kept[u] \cap Content' /\ met'[u] = met[u] \cup Content'
    BY <2>1, BecomesContent DEF Inv
  <2> QED
    BY <1>1, <1>2, <2>2, ScanKept
<1> QED
  BY <1>3, <1>4

\* A traversal that starts has passed nothing.
LEMMA EachScan ==
  ASSUME Inv, ScanInv, NEW t \in Threads, Each(t)
  PROVE  ScanInv'
<1>1. Content' = Content
  BY DEF Each, Content, Buckets
<1>2. ASSUME NEW u \in Threads \ {t} PROVE ScanOf(u)'
  <2>1. /\ call'[u] = call[u] /\ at'[u] = at[u] /\ cursor'[u] = cursor[u]
        /\ seen'[u] = seen[u] /\ kept'[u] = kept[u] /\ met'[u] = met[u]
    BY DEF Each, Goto, Inv, TypeOK
  <2> QED
    BY <1>1, <2>1 DEF ScanInv, ScanOf
<1>3. ScanOf(t)'
  <2>1. /\ at'[t] = "each" /\ cursor'[t] = 0 /\ seen'[t] = {}
        /\ kept'[t] = Content /\ met'[t] = Content
    BY DEF Each, Goto, Inv, TypeOK, FirstBucket
  <2>2. \A e \in Content : Hash[e[1]] \in Nat
    <3>1. \A e \in Content : e[1] \in Ids
      BY ContentType DEF Inv, Entries
    <3> QED
      BY <3>1
  <2> QED
    BY <1>1, <2>1, <2>2 DEF ScanOf
<1> QED
  BY <1>2, <1>3 DEF ScanInv

\* A bucket is passed as it is at that moment.
LEMMA EachBucketScan ==
  ASSUME Inv, ScanInv, NEW t \in Threads, EachBucket(t)
  PROVE  ScanInv'
<1>1. Content' = Content
  BY DEF EachBucket, Content, Buckets
<1>2. ASSUME NEW u \in Threads \ {t} PROVE ScanOf(u)'
  <2>1. /\ call'[u] = call[u] /\ at'[u] = at[u] /\ cursor'[u] = cursor[u]
        /\ seen'[u] = seen[u] /\ kept'[u] = kept[u] /\ met'[u] = met[u]
    BY DEF EachBucket, Goto, Inv, TypeOK
  <2> QED
    BY <1>1, <2>1 DEF ScanInv, ScanOf
<1>3. ScanOf(t)'
  <2> DEFINE c == cursor[t]
  <2>1. c \in Buckets /\ c \in Nat /\ chain[c] \subseteq Entries
    BY DEF Inv, TypeOK, EachBucket, Buckets
  <2>2. /\ cursor'[t] = c + 1 /\ seen'[t] = seen[t] \cup chain[c]
        /\ kept'[t] = kept[t] /\ met'[t] = met[t]
        /\ at'[t] = IF c + 1 = TabLen THEN "return" ELSE "each"
    BY DEF EachBucket, Goto, Inv, TypeOK
  <2>3. ScanOf(t) /\ call[t].op = "each"
    BY DEF ScanInv, EachBucket, Enter, Inv, CallInv, CallOf
  <2>4. \A e \in chain[c] : e[1] \in Ids /\ Hash[e[1]] = c /\ e \in Content
    BY <2>1 DEF Inv, OneEntryPerId, Entries, Content
  <2>5. \A e \in chain[c], f \in chain[c] : e[1] = f[1] => e = f
    BY <2>1 DEF Inv, OneEntryPerId
  <2>6. \A e \in kept[t] : e[1] \in Ids /\ Hash[e[1]] \in Nat /\ e \in chain[Hash[e[1]]]
    <3>1. \A e \in kept[t] : e \in Content
      BY <2>3 DEF ScanOf
    <3>2. \A e \in kept[t] : e \in Entries /\ e \in chain[Hash[e[1]]]
      BY <3>1, InContent DEF Inv
    <3>3. \A e \in kept[t] : e[1] \in Ids
      BY <3>2 DEF Entries
    <3> QED
      BY <3>2, <3>3
  <2>7. \A e \in seen[t] : e[1] \in Ids /\ Hash[e[1]] < c /\ Hash[e[1]] \in Nat
    BY <2>3 DEF ScanOf
  <2> HIDE DEF c
  <2>8. \A e \in kept'[t] : Hash[e[1]] < cursor'[t] => e \in seen'[t]
    <3> SUFFICES ASSUME NEW e \in kept[t], Hash[e[1]] < c + 1 PROVE e \in seen[t] \cup chain[c]
      BY <2>2
    <3>1. Hash[e[1]] < c \/ Hash[e[1]] = c
      BY <2>1, <2>6
    <3> QED
      BY <2>3, <2>6, <3>1 DEF ScanOf, c
  <2>9. \A e \in seen'[t] : e[1] \in Ids /\ Hash[e[1]] < cursor'[t]
    BY <2>1, <2>2, <2>4, <2>7
  <2>10. \A e, f \in seen'[t] : e[1] = f[1] => e = f
    <3>1. \A e, f \in seen[t] : e[1] = f[1] => e = f
      BY <2>3 DEF ScanOf
    <3>2. \A e \in seen[t], f \in chain[c] : e[1] # f[1]
      BY <2>1, <2>4, <2>7
    <3> QED
      BY <2>2, <2>5, <3>1, <3>2
  <2>11. /\ kept'[t] \subseteq Content' /\ Content' \subseteq met'[t] /\ seen'[t] \subseteq met'[t]
    BY <1>1, <2>2, <2>3, <2>4 DEF ScanOf
  <2> QED
    BY <2>2, <2>8, <2>9, <2>10, <2>11 DEF ScanOf
<1> QED
  BY <1>2, <1>3 DEF ScanInv

\* Each step keeps what is known of every traversal.
LEMMA NextScan == IInv /\ ScanInv /\ [Next]_vars => ScanInv'
<1> SUFFICES ASSUME Inv, ScanInv, [Next]_vars PROVE ScanInv'
  BY DEF IInv
<1>1. ASSUME NEW t \in Threads, NEW i \in Ids, NEW p \in Pris \cup {Nothing},
             NEW op \in {"insert", "erase", "find"}, NEW place, Ask(t, op, i, p, place)
      PROVE  ScanInv'
  <2>1. Content' = Content
    BY <1>1 DEF Ask, Content, Buckets
  <2>2. call'[t].op # "each"
    BY <1>1 DEF Ask, Inv, TypeOK
  <2>3. \A u \in Threads \ {t} : call'[u] = call[u] /\ at'[u] = at[u]
    BY <1>1 DEF Ask, Goto, Inv, TypeOK
  <2> QED
    BY <1>1, <2>1, <2>2, <2>3, ScanKept DEF Ask, scan
<1>2. ASSUME NEW t \in Threads, CountAlloc(t) \/ CountFree(t) PROVE ScanInv'
  <2>1. Content' = Content
    BY <1>2 DEF CountAlloc, CountFree, Content, Buckets
  <2>2. call[t].op # "each"
    BY <1>2 DEF CountAlloc, CountFree, Enter, Inv, CallInv, CallOf
  <2>3. \A u \in Threads \ {t} : at'[u] = at[u]
    BY <1>2 DEF CountAlloc, CountFree, Goto, Inv, TypeOK
  <2> QED
    BY <1>2, <2>1, <2>2, <2>3, ScanKept DEF CountAlloc, CountFree, scan
<1>3. ASSUME NEW t \in Threads, Look(t) PROVE ScanInv'
  <2>1. Content' = Content
    BY <1>3 DEF Look, Content, Buckets
  <2>2. call[t].op = "find" /\ call[t].id \in Ids
    BY <1>3 DEF Look, Enter, Inv, CallInv, CallOf
  <2>3. call'[t].op = "find" /\ \A u \in Threads \ {t} : call'[u] = call[u] /\ at'[u] = at[u]
    <3>1. CASE Found(call[t].id) # {}
      BY <1>3, <2>2, <3>1, FoundEntry, AnswerCall DEF Look, Inv, Goto, TypeOK
    <3>2. CASE Found(call[t].id) = {}
      BY <1>3, <2>2, <3>2, AnswerCall DEF Look, Inv, Goto, TypeOK
    <3> QED
      BY <3>1, <3>2
  <2> QED
    BY <1>3, <2>1, <2>2, <2>3, ScanKept DEF Look, scan
<1>4. ASSUME NEW t \in Threads, Return(t) PROVE ScanInv'
  <2>1. Content' = Content
    BY <1>4 DEF Return, Content, Buckets
  <2>2. call'[t].op # "each"
    BY <1>4 DEF Return, Inv, TypeOK, NoCall
  <2>3. \A u \in Threads \ {t} : /\ call'[u] = call[u] /\ at'[u] = at[u] /\ cursor'[u] = cursor[u]
                                 /\ seen'[u] = seen[u] /\ kept'[u] = kept[u] /\ met'[u] = met[u]
    BY <1>4 DEF Return, Goto, Inv, TypeOK
  <2> QED
    BY <2>1, <2>2, <2>3, ScanKept
<1>5. ASSUME Free PROVE ScanInv'
  <2>1. \A u \in Threads : call'[u].op # "each"
    BY <1>5 DEF Free, Inv, CallInv, CallOf, NoCall
  <2> QED
    BY <2>1, ScanKept
<1>6. ASSUME UNCHANGED vars PROVE ScanInv'
  <2>1. Content' = Content
    BY <1>6 DEF vars, Content, Buckets
  <2> QED
    BY <1>6, <2>1 DEF vars, ScanInv, ScanOf
<1> QED
  BY <1>1, <1>2, <1>3, <1>4, <1>5, <1>6, LinkScan, EachScan, EachBucketScan
     DEF Next, Insert, Erase, Find

\* A traversal passes every entry that stays meanwhile, none that never was there, and
\* no id twice, whatever changes in buckets before and behind it.
THEOREM TraversalsAreSound == Spec => []TraversalSound
<1>1. Init => ScanInv
  BY DEF Init, ScanInv, ScanOf, NoCall
<1>2. IInv /\ ScanInv => TraversalSound
  <2> SUFFICES ASSUME IInv, ScanInv, NEW t \in Threads, at[t] = "return", call[t].op = "each"
               PROVE  /\ kept[t] \subseteq seen[t] /\ seen[t] \subseteq met[t]
                      /\ \A e, f \in seen[t] : e[1] = f[1] => e = f
    BY DEF TraversalSound
  <2>1. ScanOf(t) /\ cursor[t] = TabLen
    BY DEF ScanInv, ScanOf
  <2>2. \A e \in kept[t] : e[1] \in Ids
    BY <2>1, ContentType DEF ScanOf, IInv, Inv, Entries
  <2>3. \A e \in kept[t] : Hash[e[1]] < TabLen
    BY <2>2
  <2> QED
    BY <2>1, <2>3 DEF ScanOf
<1> QED
  BY <1>1, <1>2, NextScan, AlwaysIInv, PTL DEF Spec

-------------------------------------------------------------------------------
(* The refinement of MapPromise.                                               *)

MapOf == [i \in Ids |-> IF Found(i) = {} THEN Nothing ELSE PriFound(i)]

\* The table's content is the map's.
LEMMA MapContent ==
  ASSUME Inv
  PROVE  Promise!Content(MapOf) = Content
<1>1. ASSUME NEW e \in Content PROVE e \in Promise!Content(MapOf)
  <2>1. e \in Entries /\ e \in chain[Hash[e[1]]]
    BY <1>1, InContent DEF Inv
  <2> DEFINE i == e[1]
  <2>2. i \in Ids /\ e = <<i, e[2]>>
    BY <2>1 DEF Entries
  <2>3. e \in Found(i)
    BY <2>1 DEF Found
  <2>4. Found(i) = {<<i, PriFound(i)>>} /\ PriFound(i) \in Pris
    BY <2>2, <2>3, FoundEntry DEF Inv
  <2>5. MapOf[i] = PriFound(i) /\ MapOf[i] # Nothing /\ e = <<i, MapOf[i]>>
    BY <2>2, <2>3, <2>4, NothingAssumption DEF MapOf
  <2> QED
    BY <2>2, <2>5 DEF Promise!Content
<1>2. ASSUME NEW e \in Promise!Content(MapOf) PROVE e \in Content
  <2>1. PICK i \in Ids : MapOf[i] # Nothing /\ e = <<i, MapOf[i]>>
    BY <1>2 DEF Promise!Content
  <2>2. Found(i) # {} /\ MapOf[i] = PriFound(i)
    BY <2>1 DEF MapOf
  <2> QED
    BY <2>1, <2>2, FoundEntry DEF Inv
<1> QED
  BY <1>1, <1>2

\* The same in the next state.
ContentIsMap == Promise!Content(MapOf) = Content

\* The map's entries are the table's after the step too.
LEMMA MapContentNext == Inv' => Promise!Content(MapOf)' = Content'
<1>1. Inv => ContentIsMap
  BY MapContent DEF ContentIsMap
<1>2. Inv' => ContentIsMap'
  BY <1>1, PTL
<1> QED
  BY <1>2 DEF ContentIsMap

\* A section that does not write a chain leaves the map.
LEMMA MapUnchanged ==
  ASSUME UNCHANGED chain
  PROVE  MapOf' = MapOf
BY DEF MapOf, Found, PriFound

\* A section that rewrites id i's bucket, and of it only i's entry, changes the map at i.
LEMMA MapChanged ==
  ASSUME Inv, NEW i \in Ids, NEW entries \in SUBSET Entries,
         chain' = [chain EXCEPT ![Hash[i]] = entries],
         \A e \in Entries : e[1] # i => (e \in entries <=> e \in chain[Hash[i]])
  PROVE  \A j \in Ids \ {i} : MapOf'[j] = MapOf[j]
<1> SUFFICES ASSUME NEW j \in Ids \ {i} PROVE MapOf'[j] = MapOf[j]
  OBVIOUS
<1>1. Found(j)' = Found(j)
  <2>1. CASE Hash[j] # Hash[i]
    BY <2>1, BucketOf DEF Found, Inv, TypeOK
  <2>2. CASE Hash[j] = Hash[i]
    <3>1. Found(j)' = {e \in entries : e[1] = j}
      BY <2>2, BucketOf DEF Found, Inv, TypeOK
    <3>2. chain[Hash[i]] \subseteq Entries
      BY BucketOf DEF Inv, TypeOK
    <3> QED
      BY <2>2, <3>1, <3>2 DEF Found
  <2> QED
    BY <2>1, <2>2
<1> QED
  BY <1>1 DEF MapOf, PriFound

\* The choice from one entry.
LEMMA ChooseOnly ==
  ASSUME NEW S, NEW i, NEW p, S = {<<i, p>>}
  PROVE  (CHOOSE e \in S : TRUE)[2] = p
<1>1. (CHOOSE e \in S : TRUE) = <<i, p>>
  OBVIOUS
<1> QED
  BY <1>1

\* The traversals under way take the table's next content, which is the map's.
LEMMA MapBecomes ==
  ASSUME NEW m, MapOf' = m, Content' = Promise!Content(MapOf)',
         kept' = [u \in Threads |-> IF call[u].op = "each" THEN kept[u] \cap Content' ELSE kept[u]],
         met' = [u \in Threads |-> IF call[u].op = "each" THEN met[u] \cup Content' ELSE met[u]]
  PROVE  Promise!Becomes(m)
<1>1. Promise!Content(MapOf)' = Promise!Content(m)
  BY DEF Promise!Content
<1>2. Content' = Promise!Content(m)
  BY <1>1
<1>3. MapOf' = [i \in Ids |-> IF Found(i) = {} THEN Nothing ELSE PriFound(i)]'
  BY DEF MapOf
<1> HIDE DEF MapOf
<1> QED
  BY <1>2, <1>3 DEF Promise!Becomes

\* A link is the moment at which an insert takes effect;
LEMMA LinkRefines ==
  ASSUME Inv, Inv', NEW t \in Threads, Link(t)
  PROVE  Promise!TakeEffect(t)
<1>0. /\ call[t].id \in Ids /\ call[t].pri \in Pris
      /\ call[t].op = "insert" /\ call[t].ret = "none"
  BY DEF Inv, CallInv, CallOf, Link, Enter
<1>1. PICK i \in Ids, p \in Pris : i = call[t].id /\ p = call[t].pri
  BY <1>0
<1>2. CASE /\ Found(i) = {}
           /\ Becomes(Hash[i], chain[Hash[i]] \cup {<<i, p>>})
           /\ Answer(t, "ok", p)
  <2> DEFINE entries == chain[Hash[i]] \cup {<<i, p>>}
  <2>1. entries \in SUBSET Entries /\ Hash[i] \in Buckets
    BY <1>1, BucketOf DEF Inv, TypeOK, Entries
  <2>2. /\ chain' = [chain EXCEPT ![Hash[i]] = entries]
        /\ kept' = [u \in Threads |-> IF call[u].op = "each" THEN kept[u] \cap Content' ELSE kept[u]]
        /\ met' = [u \in Threads |-> IF call[u].op = "each" THEN met[u] \cup Content' ELSE met[u]]
    BY <1>2, <2>1, BecomesContent DEF Inv
  <2>3. MapOf[i] = Nothing
    BY <1>1, <1>2 DEF MapOf
  <2>4. MapOf'[i] = p
    <3>1. Found(i)' = {<<i, p>>}
      <4>1. chain'[Hash[i]] = entries
        BY <2>1, <2>2 DEF Inv, TypeOK
      <4>2. {e \in entries : e[1] = i} = {<<i, p>>}
        BY <1>2 DEF Found
      <4> QED
        BY <4>1, <4>2 DEF Found
    <3>2. PriFound(i)' = (CHOOSE e \in Found(i)' : TRUE)[2]
      BY DEF PriFound
    <3>3. PriFound(i)' = p
      BY <3>1, <3>2, ChooseOnly
    <3> QED
      BY <1>1, <3>1, <3>3 DEF MapOf
  <2>5. MapOf' = [MapOf EXCEPT ![i] = p]
    <3>1. \A j \in Ids \ {i} : MapOf'[j] = MapOf[j]
      <4>1. \A e \in Entries : e[1] # i => (e \in entries <=> e \in chain[Hash[i]])
        OBVIOUS
      <4> QED
        BY <1>1, <2>1, <2>2, <4>1, MapChanged
    <3> QED
      BY <1>1, <2>4, <3>1 DEF MapOf
  <2>6. Content' = Promise!Content(MapOf)'
    BY MapContentNext
  <2>7. Promise!Becomes([MapOf EXCEPT ![i] = p])
    BY <2>2, <2>5, <2>6, MapBecomes
  <2>8. Promise!Answer(t, "ok", p)
    BY <1>1, <1>2 DEF Promise!Answer, Answer
  <2> QED
    BY <1>0, <1>1, <2>3, <2>7, <2>8 DEF Promise!TakeEffect, MapOf
<1>3. CASE /\ Found(i) # {}
           /\ Answer(t, "exist", p)
           /\ UNCHANGED <<chain, kept, met>>
  <2>1. MapOf[i] # Nothing
    BY <1>1, <1>3, FoundEntry, NothingAssumption DEF MapOf, Inv
  <2>2. MapOf' = MapOf
    BY <1>3, MapUnchanged
  <2>3. Promise!Answer(t, "exist", p)
    BY <1>1, <1>3 DEF Promise!Answer, Answer
  <2> QED
    BY <1>0, <1>1, <1>3, <2>1, <2>2, <2>3 DEF Promise!TakeEffect, MapOf
<1> QED
  BY <1>1, <1>2, <1>3 DEF Link

\* an unlink, that of an erase;
LEMMA UnlinkRefines ==
  ASSUME Inv, Inv', NEW t \in Threads, Unlink(t)
  PROVE  Promise!TakeEffect(t)
<1>0. call[t].id \in Ids /\ call[t].op = "erase" /\ call[t].ret = "none"
  BY DEF Inv, CallInv, CallOf, Unlink, Enter
<1>1. PICK i \in Ids : i = call[t].id
  BY <1>0
<1>p. PICK p : p = PriFound(i)
  OBVIOUS
<1>2. CASE /\ Found(i) # {}
           /\ Becomes(Hash[i], chain[Hash[i]] \ {<<i, p>>})
           /\ Answer(t, "ok", p)
  <2> DEFINE entries == chain[Hash[i]] \ {<<i, p>>}
  <2>1. entries \in SUBSET Entries /\ Hash[i] \in Buckets
    BY <1>1, BucketOf DEF Inv, TypeOK
  <2>2. /\ chain' = [chain EXCEPT ![Hash[i]] = entries]
        /\ kept' = [u \in Threads |-> IF call[u].op = "each" THEN kept[u] \cap Content' ELSE kept[u]]
        /\ met' = [u \in Threads |-> IF call[u].op = "each" THEN met[u] \cup Content' ELSE met[u]]
    BY <1>2, <2>1, BecomesContent DEF Inv
  <2>3. MapOf[i] = p /\ MapOf[i] # Nothing /\ Found(i) = {<<i, p>>}
    BY <1>1, <1>p, <1>2, FoundEntry, NothingAssumption DEF MapOf, Inv
  <2>4. MapOf'[i] = Nothing
    <3>1. chain'[Hash[i]] = entries
      BY <2>1, <2>2 DEF Inv, TypeOK
    <3>2. {e \in entries : e[1] = i} = {}
      BY <2>3 DEF Found
    <3>3. Found(i)' = {}
      BY <3>1, <3>2 DEF Found
    <3> QED
      BY <1>1, <3>3 DEF MapOf
  <2>5. MapOf' = [MapOf EXCEPT ![i] = Nothing]
    <3>1. \A j \in Ids \ {i} : MapOf'[j] = MapOf[j]
      <4>1. \A e \in Entries : e[1] # i => (e \in entries <=> e \in chain[Hash[i]])
        OBVIOUS
      <4> QED
        BY <1>1, <2>1, <2>2, <4>1, MapChanged
    <3> QED
      BY <1>1, <2>4, <3>1 DEF MapOf
  <2>6. Content' = Promise!Content(MapOf)'
    BY MapContentNext
  <2>7. Promise!Becomes([MapOf EXCEPT ![i] = Nothing])
    BY <2>2, <2>5, <2>6, MapBecomes
  <2>8. Promise!Answer(t, "ok", MapOf[i])
    BY <1>1, <1>2, <2>3 DEF Promise!Answer, Answer
  <2> QED
    BY <1>0, <1>1, <2>3, <2>7, <2>8 DEF Promise!TakeEffect, MapOf
<1>3. CASE /\ Found(i) = {}
           /\ Answer(t, "notfound", Nothing)
           /\ UNCHANGED <<chain, kept, met>>
  <2>1. MapOf[i] = Nothing
    BY <1>1, <1>3 DEF MapOf
  <2>2. MapOf' = MapOf
    BY <1>3, MapUnchanged
  <2>3. Promise!Answer(t, "notfound", Nothing)
    BY <1>1, <1>3 DEF Promise!Answer, Answer
  <2> QED
    BY <1>0, <1>1, <1>3, <2>1, <2>2, <2>3 DEF Promise!TakeEffect, MapOf
<1> QED
  BY <1>1, <1>p, <1>2, <1>3 DEF Unlink

\* a look, that of a find.
LEMMA LookRefines ==
  ASSUME Inv, NEW t \in Threads, Look(t)
  PROVE  Promise!TakeEffect(t)
<1> DEFINE i == call[t].id
<1>1. i \in Ids /\ call[t].op = "find" /\ call[t].ret = "none"
  BY DEF Inv, CallInv, CallOf, Look, Enter
<1>2. MapOf' = MapOf /\ kept' = kept /\ met' = met
  BY MapUnchanged DEF Look, scan
<1>3. CASE Found(i) # {}
  <2>1. MapOf[i] # Nothing /\ MapOf[i] = PriFound(i)
    BY <1>1, <1>3, FoundEntry, NothingAssumption DEF MapOf, Inv
  <2>2. Promise!Answer(t, "ok", MapOf[i])
    BY <1>3, <2>1 DEF Promise!Answer, Answer, Look
  <2> QED
    BY <1>1, <1>2, <2>1, <2>2 DEF Promise!TakeEffect, MapOf
<1>4. CASE Found(i) = {}
  <2>1. MapOf[i] = Nothing
    BY <1>1, <1>4 DEF MapOf
  <2>2. Promise!Answer(t, "notfound", Nothing)
    BY <1>4 DEF Promise!Answer, Answer, Look
  <2> QED
    BY <1>1, <1>2, <2>1, <2>2 DEF Promise!TakeEffect, MapOf
<1> QED
  BY <1>3, <1>4

\* A call of the table is a request to the map,
LEMMA AskRefines ==
  ASSUME Inv, NEW t \in Threads, NEW i \in Ids, NEW p \in Pris \cup {Nothing}, NEW op, NEW place,
         Ask(t, op, i, p, place)
  PROVE  Promise!Ask(t, op, i, p)
<1>1. call[t] = NoCall
  BY DEF Ask, Enter, Inv, CallInv, CallOf
<1>2. MapOf' = MapOf
  BY MapUnchanged DEF Ask
<1> QED
  BY <1>1, <1>2 DEF Ask, scan, Promise!Ask, Promise!NoCall, NoCall, MapOf

\* a traversal one of its traversals,
LEMMA EachRefines ==
  ASSUME Inv, NEW t \in Threads, Each(t)
  PROVE  Promise!AskEach(t)
<1>1. call[t] = NoCall
  BY DEF Each, Enter, Inv, CallInv, CallOf
<1>2. MapOf' = MapOf
  BY MapUnchanged DEF Each
<1>3. Promise!Content(MapOf) = Content
  BY MapContent
<1> QED
  BY <1>1, <1>2, <1>3 DEF Each, Promise!AskEach, Promise!NoCall, NoCall, MapOf

\* a return an answer,
LEMMA ReturnRefines ==
  ASSUME Inv, NEW t \in Threads, Return(t)
  PROVE  Promise!Return(t)
<1>1. call[t].ret # "none" \/ call[t].op = "each"
  BY DEF Return, Enter, Inv, CallInv, CallOf
<1>2. MapOf' = MapOf
  BY MapUnchanged DEF Return
<1> QED
  BY <1>1, <1>2 DEF Return, Promise!Return, Promise!NoCall, NoCall, MapOf

\* and hash_free empties the map.
LEMMA FreeRefines ==
  ASSUME Inv, Free
  PROVE  Promise!Clear
<1>1. \A t \in Threads : call[t] = NoCall
  BY DEF Free, Inv, CallInv, CallOf
<1>2. \A i \in Ids : Found(i)' = {}
  BY BucketOf DEF Free, Found
<1>3. MapOf' = [i \in Ids |-> Nothing]
  BY <1>2 DEF MapOf
<1> QED
  BY <1>1, <1>3 DEF Free, scan, Promise!Clear, Promise!NoCall, NoCall, MapOf

\* The lists' locks, the items taken and given back outside them and the answers given
\* after them keep the promise of a map in which every operation takes effect at one
\* instant between its call and its return.
THEOREM RefinesPromise == Spec => ImplementsMap
<1>1. Init => Promise!PInit
  <2> SUFFICES ASSUME Init PROVE Promise!PInit
    OBVIOUS
  <2>1. \A i \in Ids : Found(i) = {}
    BY BucketOf DEF Init, Found
  <2>2. MapOf = [i \in Ids |-> Nothing]
    BY <2>1 DEF MapOf
  <2> QED
    BY <2>2 DEF Init, Promise!PInit, Promise!NoCall, NoCall, MapOf
<1>2. IInv /\ IInv' /\ [Next]_vars => [Promise!PNext]_(Promise!pvars)
  <2> SUFFICES ASSUME Inv, Inv', [Next]_vars PROVE [Promise!PNext]_(Promise!pvars)
    BY DEF IInv
  <2>1. ASSUME NEW t \in Threads, NEW i \in Ids, NEW p \in Pris, Insert(t, i, p)
        PROVE  Promise!Ask(t, "insert", i, p)
    BY <2>1, AskRefines DEF Insert
  <2>2. ASSUME NEW t \in Threads, NEW i \in Ids, Erase(t, i) \/ Find(t, i)
        PROVE  \E op \in {"erase", "find"} : Promise!Ask(t, op, i, Nothing)
    BY <2>2, AskRefines DEF Erase, Find
  <2>3. ASSUME NEW t \in Threads, CountAlloc(t) \/ CountFree(t) \/ EachBucket(t)
        PROVE  UNCHANGED Promise!pvars
    <3>1. MapOf' = MapOf
      BY <2>3, MapUnchanged DEF CountAlloc, CountFree, EachBucket
    <3> QED
      BY <2>3, <3>1 DEF CountAlloc, CountFree, EachBucket, scan, Promise!pvars, MapOf
  <2>4. ASSUME UNCHANGED vars PROVE UNCHANGED Promise!pvars
    <3>1. MapOf' = MapOf
      BY <2>4, MapUnchanged DEF vars
    <3> QED
      BY <2>4, <3>1 DEF vars, Promise!pvars, MapOf
  <2> QED
    BY <2>1, <2>2, <2>3, <2>4, LinkRefines, UnlinkRefines, LookRefines, EachRefines,
       ReturnRefines, FreeRefines DEF Next, Promise!PNext
<1> QED
  BY <1>1, <1>2, AlwaysIInv, PTL DEF Spec, ImplementsMap, Promise!PSpec
===============================================================================
