--------------------------- MODULE TokenReqGrpProofs ---------------------------
(***************************************************************************)
(* Proofs about TokenReqGrp, for every group and every number of threads:  *)
(* type correctness, the single verdict, its soundness, no use of a group  *)
(* after its owner freed it, and the refinement of GroupPromise.           *)
(***************************************************************************)
EXTENDS TokenReqGrp, FiniteSetTheorems, TLAPS

Concluded == Judging # {} \/ finals > 0

\* A group that is not live is not being worked on.
PhaseInv ==
  /\ phase # "live" => \A t \in Threads : pc[t] = "idle"
  /\ phase = "new" => /\ Unsettled = Rips /\ finals = 0 /\ err = "PENDING"
                      /\ failed_exist = FALSE
  /\ Concluded => phase # "new"

\* A verdict is being given, or was: nothing is left to settle or to count.
ConcludedInv ==
  /\ Concluded => Unsettled = {} /\ Counting = {} /\ req_pending_nr = 0
  /\ \A s, t \in Judging : s = t
  /\ finals > 0 => Judging = {}
  /\ finals <= 1
  /\ err = "PENDING" <=> finals = 0

\* Where failures show, and what a verdict about to be published rests on.
FailureInv ==
  /\ \A r \in Rips : stat[r] = "failed" => failed_exist
  /\ \A t \in Threads : pc[t] = "mark" => kind[t] = "failed"
  /\ \A t \in Threads : pc[t] = "cas" /\ kind[t] = "failed" => failed_exist
  /\ \A t \in Threads : pc[t] = "publish" =>
       /\ ret[t] = "OK" => \A r \in Rips : stat[r] # "failed"
       /\ ret[t] = "FAILEDNODE" => failed_exist
       /\ ret[t] # "PENDING"
  /\ \A t \in Threads : pc[t] = "dec" /\ kind[t] = "failed" => failed_exist
  /\ err = "OK" => \A r \in Rips : stat[r] # "failed"
  /\ err = "FAILEDNODE" => failed_exist

Attempting == {t \in Threads : pc[t] \in {"mark", "cas"}}

\* Every call is one of the plan, made once.
CallInv ==
  /\ \A r \in Rips : calls[r] \subseteq plan[r]
  /\ \A t \in Attempting : kind[t] \in plan[rip[t]] \ calls[rip[t]]

\* With one call per request, an attempt is the only one ever made on its request.
OnceInv ==
  SettledOnce =>
    /\ \A r \in Rips : calls[r] # {} =>
         stat[r] = "init" /\ \A t \in Attempting : rip[t] # r
    /\ \A t \in Attempting : stat[rip[t]] = "init"
    /\ \A s, t \in Attempting : rip[s] = rip[t] => s = t
    /\ failed_exist => \/ \E r \in Rips : stat[r] = "failed"
                       \/ \E t \in Attempting : pc[t] = "cas" /\ kind[t] = "failed"

\* After a racing group is freed no call is left either.
GoneInv == phase = "gone" /\ finals > 0 => \A r \in Rips : calls[r] = {}

IndInv ==
  /\ TypeOK /\ PhaseInv /\ PendingCounts /\ ConcludedInv /\ FailureInv
  /\ CallInv /\ OnceInv /\ GoneInv
-------------------------------------------------------------------------------
\* The sets that are counted are finite, so their cardinalities are numbers.
LEMMA CountsAreNumbers ==
  /\ IsFiniteSet(Unsettled) /\ Cardinality(Unsettled) \in Nat
  /\ IsFiniteSet(Counting) /\ Cardinality(Counting) \in Nat
  /\ Cardinality(Rips) \in Nat
<1>1. Unsettled \subseteq Rips /\ Counting \subseteq Threads
  BY DEF Unsettled, Counting
<1>2. IsFiniteSet(Unsettled) /\ IsFiniteSet(Counting)
  BY <1>1, FS_Subset, RipsAssumption, ThreadsAssumption
<1> QED
  BY <1>2, FS_CardinalityType, RipsAssumption

\* The initial state: nothing is counted, no thread runs.
LEMMA InitIndInv == Init => IndInv
<1> SUFFICES ASSUME Init PROVE IndInv
  OBVIOUS
<1>1. (CHOOSE r \in Rips : TRUE) \in Rips
  BY RipsAssumption
<1>2. TypeOK
  <2>1. plan \in [Rips -> SUBSET Kinds] /\ calls \in [Rips -> SUBSET Kinds]
    BY DEF Init
  <2>2. req_pending_nr \in 0..Cardinality(Rips)
    BY CountsAreNumbers DEF Init
  <2>3. rip \in [Threads -> Rips]
    BY <1>1 DEF Init
  <2> QED
    BY <2>1, <2>2, <2>3 DEF Init, TypeOK, Kinds, Places, Verdicts
<1>3. Judging = {} /\ Attempting = {} /\ Unsettled = Rips
  BY DEF Init, Judging, Attempting, Unsettled
<1>4. PhaseInv /\ PendingCounts /\ ConcludedInv /\ GoneInv
  BY <1>3 DEF Init, PhaseInv, PendingCounts, ConcludedInv, Concluded, GoneInv
<1>5. FailureInv /\ CallInv /\ OnceInv
  BY <1>2, <1>3 DEF Init, FailureInv, CallInv, OnceInv, TypeOK
<1> QED
  BY <1>2, <1>4, <1>5 DEF IndInv

\* token_reqgrp_init counts every request as pending.
LEMMA ReqgrpInitStep == IndInv /\ ReqgrpInit => IndInv'
<1> SUFFICES ASSUME IndInv, ReqgrpInit PROVE IndInv'
  OBVIOUS
<1>1. /\ Unsettled' = Unsettled /\ Counting' = Counting
      /\ Judging' = Judging /\ Attempting' = Attempting
      /\ Counting = {} /\ Unsettled = Rips
  BY DEF ReqgrpInit, Unsettled, Counting, Judging, Attempting, IndInv, PhaseInv
<1>2. TypeOK'
  BY CountsAreNumbers DEF IndInv, TypeOK, ReqgrpInit
<1>3. PendingCounts'
  BY <1>1, CountsAreNumbers, FS_EmptySet DEF ReqgrpInit, PendingCounts
<1>4. PhaseInv' /\ ConcludedInv' /\ GoneInv'
  BY <1>1 DEF IndInv, ReqgrpInit, PhaseInv, ConcludedInv, Concluded, GoneInv
<1>5. FailureInv' /\ CallInv' /\ OnceInv'
  BY <1>1 DEF IndInv, ReqgrpInit, FailureInv, CallInv, OnceInv, SettledOnce
<1> QED
  BY <1>2, <1>3, <1>4, <1>5 DEF IndInv

\* A new call is the only attempt on its request if it is the only one planned.
LEMMA CallStep ==
  ASSUME IndInv, NEW t \in Threads, NEW r \in Rips, NEW k \in Kinds, Call(t, r, k)
  PROVE  IndInv'
<1>1. /\ Unsettled' = Unsettled /\ Counting' = Counting /\ Judging' = Judging
      /\ Attempting' = Attempting \cup {t} /\ t \notin Attempting
  BY DEF IndInv, TypeOK, Call, shared, Unsettled, Counting, Judging, Attempting, Kinds
<1>2. TypeOK'
  BY DEF IndInv, TypeOK, Call, shared, Kinds, Places
<1>3. PhaseInv' /\ PendingCounts' /\ ConcludedInv' /\ GoneInv'
  BY <1>1 DEF IndInv, Call, shared, PhaseInv, PendingCounts, ConcludedInv, Concluded, GoneInv
<1>4. FailureInv'
  BY DEF IndInv, TypeOK, Call, shared, FailureInv, Kinds
<1>5. CallInv'
  BY <1>1 DEF IndInv, TypeOK, Call, shared, CallInv
<1>6. OnceInv'
  <2> SUFFICES ASSUME SettledOnce PROVE OnceInv'
    BY DEF OnceInv, SettledOnce, Call
  <2>1. calls'[r] = {}
    BY DEF IndInv, TypeOK, CallInv, SettledOnce, Call, Kinds
  <2>2. stat[r] = "init" /\ \A s \in Attempting : rip[s] # r
    BY DEF IndInv, OnceInv, Call
  <2>3. rip'[t] = r /\ \A s \in Attempting : rip'[s] = rip[s] /\ kind'[s] = kind[s] /\ pc'[s] = pc[s]
    BY <1>1 DEF IndInv, TypeOK, Call, Attempting
  <2>4. \A q \in Rips : q # r => calls'[q] = calls[q]
    BY DEF IndInv, TypeOK, Call
  <2> QED
    BY <1>1, <2>1, <2>2, <2>3, <2>4 DEF IndInv, OnceInv, Call, shared
<1> QED
  BY <1>2, <1>3, <1>4, <1>5, <1>6 DEF IndInv

\* Marking the group puts its own thread forward as the failure's witness.
LEMMA MarkFailedStep ==
  ASSUME IndInv, NEW t \in Threads, MarkFailed(t)
  PROVE  IndInv'
<1>1. /\ Unsettled' = Unsettled /\ Counting' = Counting /\ Judging' = Judging
      /\ Attempting' = Attempting /\ t \in Attempting
  BY DEF IndInv, TypeOK, MarkFailed, Unsettled, Counting, Judging, Attempting
<1>2. TypeOK'
  BY DEF IndInv, TypeOK, MarkFailed, Places
<1>3. PhaseInv'
  BY <1>1 DEF IndInv, TypeOK, MarkFailed, PhaseInv, Concluded
<1>4. PendingCounts' /\ ConcludedInv' /\ GoneInv'
  BY <1>1 DEF IndInv, MarkFailed, PendingCounts, ConcludedInv, Concluded, GoneInv
<1>5. FailureInv' /\ CallInv'
  BY <1>1 DEF IndInv, TypeOK, MarkFailed, FailureInv, CallInv
<1>6. OnceInv'
  BY <1>1 DEF IndInv, TypeOK, MarkFailed, FailureInv, OnceInv, SettledOnce
<1> QED
  BY <1>2, <1>3, <1>4, <1>5, <1>6 DEF IndInv

\* The winner of the CAS moves its request from the unsettled to the counted.
LEMMA CasWonStep ==
  ASSUME IndInv, NEW t \in Threads, CasWon(t)
  PROVE  IndInv'
<1>1. /\ rip[t] \in Unsettled /\ Unsettled' = Unsettled \ {rip[t]}
      /\ t \notin Counting /\ Counting' = Counting \cup {t}
      /\ Judging' = Judging
      /\ t \in Attempting /\ Attempting' = Attempting \ {t}
  BY DEF IndInv, TypeOK, CasWon, Unsettled, Counting, Judging, Attempting, Kinds
<1>2. ~Concluded /\ ~Concluded' /\ phase = "live" /\ err = "PENDING"
  <2>1. ~Concluded /\ phase = "live"
    BY <1>1 DEF IndInv, ConcludedInv, PhaseInv, CasWon
  <2>2. finals = 0
    BY <2>1 DEF IndInv, TypeOK, Concluded
  <2> QED
    BY <1>1, <2>1, <2>2 DEF IndInv, ConcludedInv, Concluded, CasWon
<1>3. TypeOK'
  BY DEF IndInv, TypeOK, CasWon, Places
<1>4. PendingCounts'
  <2>1. Cardinality(Unsettled') = Cardinality(Unsettled) - 1
    BY <1>1, CountsAreNumbers, FS_RemoveElement
  <2>2. Cardinality(Counting') = Cardinality(Counting) + 1
    BY <1>1, CountsAreNumbers, FS_AddElement
  <2>3. phase = "live" => req_pending_nr = Cardinality(Unsettled) + Cardinality(Counting)
    BY DEF IndInv, PendingCounts
  <2> QED
    BY <2>1, <2>2, <2>3, CountsAreNumbers DEF CasWon, PendingCounts
<1>5. PhaseInv' /\ ConcludedInv' /\ GoneInv'
  BY <1>1, <1>2 DEF IndInv, CasWon, PhaseInv, ConcludedInv, Concluded, GoneInv
<1>6. FailureInv'
  BY <1>1, <1>2 DEF IndInv, TypeOK, CasWon, FailureInv, Concluded, Judging
<1>7. CallInv'
  BY <1>1 DEF IndInv, TypeOK, CasWon, CallInv
<1>8. OnceInv'
  BY <1>1 DEF IndInv, TypeOK, CasWon, OnceInv, SettledOnce
<1> QED
  BY <1>3, <1>4, <1>5, <1>6, <1>7, <1>8 DEF IndInv

\* The loser of the CAS leaves: only a raced request has a loser.
LEMMA CasLostStep ==
  ASSUME IndInv, NEW t \in Threads, CasLost(t)
  PROVE  IndInv'
<1>1. /\ Unsettled' = Unsettled /\ Counting' = Counting /\ Judging' = Judging
      /\ t \in Attempting /\ Attempting' = Attempting \ {t}
  BY DEF IndInv, TypeOK, CasLost, shared, Unsettled, Counting, Judging, Attempting
<1>2. TypeOK'
  BY DEF IndInv, TypeOK, CasLost, shared, Places
<1>3. PhaseInv'
  BY <1>1 DEF IndInv, TypeOK, CasLost, shared, PhaseInv, Concluded
<1>4. PendingCounts' /\ ConcludedInv' /\ GoneInv'
  BY <1>1 DEF IndInv, CasLost, shared, PendingCounts, ConcludedInv, Concluded, GoneInv
<1>5. FailureInv' /\ CallInv'
  BY <1>1 DEF IndInv, TypeOK, CasLost, shared, FailureInv, CallInv
<1>6. OnceInv'
  BY <1>1 DEF IndInv, TypeOK, CasLost, shared, OnceInv, SettledOnce
<1> QED
  BY <1>2, <1>3, <1>4, <1>5, <1>6 DEF IndInv

\* A decrement to zero leaves nothing unsettled and nobody else counting.
LEMMA DecrementStep ==
  ASSUME IndInv, NEW t \in Threads, Decrement(t)
  PROVE  IndInv'
<1> USE DEF Decrement, CountDown, AfterDecrement
<1>1. /\ Unsettled' = Unsettled /\ t \in Counting /\ Counting' = Counting \ {t}
      /\ Attempting' = Attempting /\ t \notin Judging
      /\ Judging' = IF req_pending_nr' = 0 THEN Judging \cup {t} ELSE Judging
  BY DEF IndInv, TypeOK, Unsettled, Counting, Judging, Attempting, Kinds
<1>2. phase = "live" /\ ~Concluded /\ Judging = {} /\ finals = 0
  BY <1>1 DEF IndInv, TypeOK, PhaseInv, ConcludedInv, Concluded, Counting
<1>3. Cardinality(Counting') = Cardinality(Counting) - 1
  BY <1>1, CountsAreNumbers, FS_RemoveElement
<1>4. /\ Cardinality(Counting') \in Nat /\ Cardinality(Unsettled) \in Nat
      /\ req_pending_nr' = Cardinality(Unsettled) + Cardinality(Counting')
      /\ IsFiniteSet(Counting')
  BY <1>1, <1>2, <1>3, CountsAreNumbers, FS_RemoveElement, FS_CardinalityType
     DEF IndInv, TypeOK, PendingCounts
<1>5. req_pending_nr' = 0 => Unsettled = {} /\ Counting' = {}
  BY <1>4, CountsAreNumbers, FS_EmptySet
<1>6. TypeOK'
  BY <1>4, CountsAreNumbers DEF IndInv, TypeOK, Places, Verdicts
<1>7. PhaseInv'
  BY <1>1, <1>2 DEF IndInv, TypeOK, PhaseInv, Concluded
<1>8. PendingCounts'
  BY <1>1, <1>4 DEF PendingCounts
<1>9. ConcludedInv' /\ GoneInv'
  BY <1>1, <1>2, <1>5 DEF IndInv, ConcludedInv, Concluded, GoneInv
<1>10. FailureInv'
  BY DEF IndInv, TypeOK, FailureInv, Kinds
<1>11. CallInv' /\ OnceInv'
  BY <1>1 DEF IndInv, TypeOK, CallInv, OnceInv, SettledOnce, Attempting
<1> QED
  BY <1>6, <1>7, <1>8, <1>9, <1>10, <1>11 DEF IndInv

\* The verdict chosen agrees with failed_exist, and every failure has set it.
LEMMA JudgeStep ==
  ASSUME IndInv, NEW t \in Threads, Judge(t)
  PROVE  IndInv'
<1>1. /\ Unsettled' = Unsettled /\ Counting' = Counting /\ Judging' = Judging
      /\ Attempting' = Attempting
  BY DEF IndInv, TypeOK, Judge, shared, Unsettled, Counting, Judging, Attempting
<1>2. TypeOK'
  BY DEF IndInv, TypeOK, Judge, shared, Places, Verdicts
<1>3. PhaseInv'
  BY <1>1 DEF IndInv, TypeOK, Judge, shared, PhaseInv, Concluded
<1>4. PendingCounts' /\ ConcludedInv' /\ GoneInv'
  BY <1>1 DEF IndInv, Judge, shared, PendingCounts, ConcludedInv, Concluded, GoneInv
<1>5. FailureInv'
  BY DEF IndInv, TypeOK, Judge, shared, FailureInv
<1>6. CallInv' /\ OnceInv'
  BY <1>1 DEF IndInv, TypeOK, Judge, shared, CallInv, OnceInv, SettledOnce, Attempting
<1> QED
  BY <1>2, <1>3, <1>4, <1>5, <1>6 DEF IndInv

\* The one thread that judges publishes, and nobody judges after it.
LEMMA PublishStep ==
  ASSUME IndInv, NEW t \in Threads, Publish(t)
  PROVE  IndInv'
<1>1. /\ Unsettled' = Unsettled /\ Counting' = Counting /\ Attempting' = Attempting
      /\ t \in Judging /\ Judging' = Judging \ {t}
  BY DEF IndInv, TypeOK, Publish, Unsettled, Counting, Judging, Attempting
<1>2. Judging' = {} /\ finals = 0 /\ finals' = 1 /\ err' # "PENDING" /\ phase # "new"
  BY <1>1 DEF IndInv, TypeOK, Publish, ConcludedInv, FailureInv, PhaseInv, Concluded
<1>3. TypeOK'
  BY DEF IndInv, TypeOK, Publish, Places
<1>4. PhaseInv'
  BY <1>1, <1>2 DEF IndInv, TypeOK, Publish, PhaseInv, Concluded
<1>5. PendingCounts' /\ ConcludedInv'
  BY <1>1, <1>2 DEF IndInv, Publish, PendingCounts, ConcludedInv, Concluded
<1>6. GoneInv'
  BY DEF IndInv, Publish, PhaseInv, GoneInv
<1>7. FailureInv'
  BY DEF IndInv, TypeOK, Publish, FailureInv
<1>8. CallInv' /\ OnceInv'
  BY <1>1 DEF IndInv, TypeOK, Publish, CallInv, OnceInv, SettledOnce, Attempting
<1> QED
  BY <1>3, <1>4, <1>5, <1>6, <1>7, <1>8 DEF IndInv

\* When the owner frees a group whose requests are settled once, no thread can
\* be trying to settle one, none is counting and none is judging.
LEMMA ReqgrpExitStep == IndInv /\ ReqgrpExit => IndInv'
<1> SUFFICES ASSUME IndInv, ReqgrpExit PROVE IndInv'
  OBVIOUS
<1> USE DEF ReqgrpExit, shared, locals
<1>1. /\ Unsettled' = Unsettled /\ Counting' = Counting /\ Judging' = Judging
      /\ Attempting' = Attempting
  BY DEF Unsettled, Counting, Judging, Attempting
<1>2. Unsettled = {} /\ Counting = {} /\ Judging = {}
  BY DEF IndInv, ConcludedInv, Concluded
<1>3. /\ \A r \in Rips : calls[r] = {}
      /\ \A t \in Threads : pc[t] = "idle"
  <2>1. CASE SettledOnce
    <3>1. \A r \in Rips : stat[r] # "init"
      BY <1>2 DEF Unsettled
    <3>2. Attempting = {}
      BY <2>1, <3>1 DEF IndInv, OnceInv, TypeOK, Attempting
    <3> QED
      BY <1>2, <2>1, <3>1, <3>2
         DEF IndInv, OnceInv, TypeOK, Places, Attempting, Counting, Judging
  <2>2. CASE ~SettledOnce
    BY <2>2
  <2> QED
    BY <2>1, <2>2
<1>4. TypeOK'
  BY DEF IndInv, TypeOK
<1>5. PhaseInv' /\ PendingCounts' /\ ConcludedInv' /\ GoneInv'
  BY <1>1, <1>3 DEF IndInv, PhaseInv, PendingCounts, ConcludedInv, Concluded, GoneInv
<1>6. FailureInv' /\ CallInv' /\ OnceInv'
  BY <1>1 DEF IndInv, FailureInv, CallInv, OnceInv, SettledOnce
<1> QED
  BY <1>4, <1>5, <1>6 DEF IndInv

\* Every step of Next, and every stutter, keeps the invariant.
LEMMA NextIndInv == IndInv /\ [Next]_vars => IndInv'
<1> SUFFICES ASSUME IndInv, [Next]_vars PROVE IndInv'
  OBVIOUS
<1>1. CASE Next
  BY <1>1, ReqgrpInitStep, CallStep, MarkFailedStep, CasWonStep, CasLostStep,
     DecrementStep, JudgeStep, PublishStep, ReqgrpExitStep DEF Next, Step
<1>2. CASE UNCHANGED vars
  <2>1. /\ Unsettled' = Unsettled /\ Counting' = Counting /\ Judging' = Judging
        /\ Attempting' = Attempting
    BY <1>2 DEF vars, Unsettled, Counting, Judging, Attempting
  <2> QED
    BY <1>2, <2>1 DEF vars, IndInv, TypeOK, PhaseInv, PendingCounts, ConcludedInv,
       Concluded, FailureInv, CallInv, OnceInv, SettledOnce, GoneInv
<1> QED
  BY <1>1, <1>2

\* IndInv holds of every reachable state.
LEMMA Invariance == Spec => []IndInv
BY InitIndInv, NextIndInv, PTL DEF Spec
-------------------------------------------------------------------------------
\* Every variable keeps its type; in particular req_pending_nr never goes below 0.
THEOREM TypeCorrect == Spec => []TypeOK
<1>1. IndInv => TypeOK
  BY DEF IndInv
<1> QED
  BY <1>1, Invariance, PTL

\* The pending counter of a live group counts the unsettled requests and the
\* threads between their CAS and their decrement.
THEOREM PendingIsExact == Spec => []PendingCounts
<1>1. IndInv => PendingCounts
  BY DEF IndInv
<1> QED
  BY <1>1, Invariance, PTL

\* At most one call of to_got and to_failed returns a verdict.
THEOREM AtMostOneVerdict == Spec => []OneVerdict
<1>1. IndInv => OneVerdict
  BY DEF IndInv, TypeOK, ConcludedInv, OneVerdict
<1> QED
  BY <1>1, Invariance, PTL

\* The verdict is right: OK when all requests are granted, FAILEDNODE when one failed.
THEOREM VerdictIsSound == Spec => []VerdictSound
<1>1. ASSUME IndInv PROVE VerdictSound
  <2>1. err = "OK" => \A r \in Rips : stat[r] = "got"
    BY <1>1 DEF IndInv, TypeOK, ConcludedInv, Concluded, FailureInv, Unsettled, Kinds
  <2>2. err = "FAILEDNODE" /\ SettledOnce => \E r \in Rips : stat[r] = "failed"
    <3> SUFFICES ASSUME err = "FAILEDNODE", SettledOnce
                 PROVE  \E r \in Rips : stat[r] = "failed"
      OBVIOUS
    <3>1. failed_exist /\ \A r \in Rips : stat[r] # "init"
      BY <1>1 DEF IndInv, TypeOK, ConcludedInv, Concluded, FailureInv, Unsettled
    <3>2. \A t \in Attempting : stat[rip[t]] = "init" /\ rip[t] \in Rips
      BY <1>1 DEF IndInv, TypeOK, OnceInv, Attempting
    <3> QED
      BY <1>1, <3>1, <3>2 DEF IndInv, OnceInv
  <2> QED
    BY <2>1, <2>2 DEF VerdictSound
<1> QED
  BY <1>1, Invariance, PTL

\* Once the owner has freed the group no thread is inside it or enters it.
THEOREM FreedIsLeftAlone == Spec => []NoUseAfterExit
<1>1. IndInv => NoUseAfterExit
  BY DEF IndInv, PhaseInv, GoneInv, NoUseAfterExit
<1> QED
  BY <1>1, Invariance, PTL

\* The CAS, the counter and failed_exist implement GroupPromise: a step of a
\* thread is a step of the promise, or invisible to the group's owner.
THEOREM RefinesPromise == Spec => ImplementsPromise
<1>1. Init => Promise!PInit
  BY DEF Init, Promise!PInit
<1>2. ASSUME IndInv, [Next]_vars PROVE [Promise!PNext]_<<stat, failed_exist, err>>
  <2> USE DEF Promise!PNext, Promise!Blame, Promise!Settle, Promise!Conclude, Promise!Settled
  <2>1. CASE ReqgrpInit
    BY <2>1 DEF ReqgrpInit
  <2>2. ASSUME NEW t \in Threads, Step(t)
        PROVE  [Promise!PNext]_<<stat, failed_exist, err>>
    <3>1. CASE \E r \in Rips, k \in Kinds : Call(t, r, k)
      BY <3>1 DEF Call, shared
    <3>2. CASE MarkFailed(t)
      BY <3>2 DEF MarkFailed
    <3>3. CASE CasWon(t)
      <4>1. rip[t] \in Rips /\ kind[t] \in {"got", "failed"}
        BY <1>2 DEF IndInv, TypeOK, Kinds
      <4>2. kind[t] = "failed" => failed_exist
        BY <1>2, <3>3 DEF IndInv, FailureInv, CasWon
      <4>3. Promise!Settle(rip[t], kind[t])
        BY <3>3, <4>2 DEF CasWon
      <4> QED
        BY <4>1, <4>3
    <3>4. CASE CasLost(t)
      BY <3>4 DEF CasLost, shared
    <3>5. CASE Decrement(t)
      BY <3>5 DEF Decrement, CountDown
    <3>6. CASE Judge(t)
      BY <3>6 DEF Judge, shared
    <3>7. CASE Publish(t)
      <4>1. t \in Judging
        BY <3>7 DEF Judging, Publish
      <4>2. Unsettled = {} /\ err = "PENDING"
        BY <1>2, <4>1 DEF IndInv, TypeOK, ConcludedInv, Concluded
      <4>3. ret[t] \in {"OK", "FAILEDNODE"}
        BY <1>2, <3>7 DEF IndInv, TypeOK, FailureInv, Publish, Verdicts
      <4>4. \A r \in Rips : stat[r] # "init" /\ (ret[t] = "OK" => stat[r] = "got")
        BY <1>2, <3>7, <4>2 DEF IndInv, TypeOK, FailureInv, Publish, Unsettled, Kinds
      <4>5. ret[t] = "FAILEDNODE" => failed_exist
        BY <1>2, <3>7 DEF IndInv, FailureInv, Publish
      <4>6. Promise!Conclude(ret[t])
        BY <3>7, <4>2, <4>4, <4>5 DEF Publish
      <4> QED
        BY <4>3, <4>6
    <3> QED
      BY <2>2, <3>1, <3>2, <3>3, <3>4, <3>5, <3>6, <3>7 DEF Step
  <2>3. CASE ReqgrpExit
    BY <2>3 DEF ReqgrpExit, shared
  <2>4. CASE UNCHANGED vars
    BY <2>4 DEF vars
  <2> QED
    BY <1>2, <2>1, <2>2, <2>3, <2>4 DEF Next
<1> QED
  BY <1>1, <1>2, Invariance, PTL DEF Spec, ImplementsPromise, Promise!PSpec, Promise!pvars
===============================================================================
