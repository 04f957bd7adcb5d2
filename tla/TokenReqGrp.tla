------------------------------ MODULE TokenReqGrp ------------------------------
(***************************************************************************)
(* src/sysqos_token_reqgrp.c: a group of token requests (token_reqgrp_t,   *)
(* one token_req_t per node asked) that several threads settle at the same *)
(* time: the getter that found tokens free or a node missing, the receiver *)
(* that wakes queued requests, the thread that takes a node offline.       *)
(*                                                                         *)
(* Each access to memory that another thread can touch is one step, so a   *)
(* thread can be stopped between the CAS on a request's stat, the atomic   *)
(* decrement of req_pending_nr, the read of failed_exist and the write of  *)
(* the group's err.                                                        *)
(***************************************************************************)
EXTENDS Integers, FiniteSets

CONSTANTS Rips,      \* the requests of the group
          Threads    \* threads that call to_got and to_failed

ASSUME RipsAssumption == IsFiniteSet(Rips) /\ Rips # {}
ASSUME ThreadsAssumption == IsFiniteSet(Threads)

VARIABLES
  phase,         \* "new", "live" between token_reqgrp_init and _exit, "gone"
  plan,          \* the calls the group will see: which of to_got and to_failed
                 \* are made on each request; fixed
  calls,         \* those not made yet
  stat,          \* token_req_t.stat
  req_pending_nr,
  failed_exist,
  err,           \* token_reqgrp_t.err
  pc, rip, kind, \* where each thread is, the request and the call it is in
  ret,           \* the local err of the call
  finals         \* history: calls that returned a verdict (not PENDING)

shared == <<stat, req_pending_nr, failed_exist, err>>
locals == <<pc, rip, kind, ret>>
vars == <<phase, plan, calls, stat, req_pending_nr, failed_exist, err,
          pc, rip, kind, ret, finals>>

Kinds == {"got", "failed"}
Verdicts == {"OK", "FAILEDNODE"}
Places == {"idle", "mark", "cas", "dec", "judge", "publish"}

TypeOK ==
  /\ phase \in {"new", "live", "gone"}
  /\ plan \in [Rips -> SUBSET Kinds]
  /\ calls \in [Rips -> SUBSET Kinds]
  /\ stat \in [Rips -> {"init"} \cup Kinds]
  /\ req_pending_nr \in 0..Cardinality(Rips)
  /\ failed_exist \in BOOLEAN
  /\ err \in {"PENDING"} \cup Verdicts
  /\ pc \in [Threads -> Places]
  /\ rip \in [Threads -> Rips]
  /\ kind \in [Threads -> Kinds]
  /\ ret \in [Threads -> {"PENDING"} \cup Verdicts]
  /\ finals \in Nat

\* Every request is settled by one call, as the manager does it: a request is
\* granted by its getter, or sits in one node's queue and is taken from it once.
SettledOnce == \A r \in Rips : plan[r] # Kinds

Unsettled == {r \in Rips : stat[r] = "init"}
Counting == {t \in Threads : pc[t] = "dec"}
Judging == {t \in Threads : pc[t] \in {"judge", "publish"}}
-------------------------------------------------------------------------------
Init ==
  /\ phase = "new"
  /\ plan \in [Rips -> (SUBSET Kinds) \ {{}}]
  /\ calls = plan
  /\ stat = [r \in Rips |-> "init"]
  /\ req_pending_nr = 0
  /\ failed_exist = FALSE
  /\ err = "PENDING"
  /\ pc = [t \in Threads |-> "idle"]
  /\ rip = [t \in Threads |-> CHOOSE r \in Rips : TRUE]
  /\ kind = [t \in Threads |-> "got"]
  /\ ret = [t \in Threads |-> "PENDING"]
  /\ finals = 0

\* token_reqgrp_init: one token_req_t per resource, counted as pending.  When
\* the cache has no memory for one of them those made so far are given back and
\* the group never lives.
ReqgrpInit ==
  /\ phase = "new"
  /\ \/ phase' = "live" /\ req_pending_nr' = Cardinality(Rips)
     \/ phase' = "gone" /\ req_pending_nr' = 0
  /\ UNCHANGED <<plan, calls, stat, failed_exist, err, pc, rip, kind, ret, finals>>

\* A thread enters to_got(grp, r) or to_failed(grp, r).
Call(t, r, k) ==
  /\ phase = "live"
  /\ pc[t] = "idle"
  /\ k \in calls[r]
  /\ calls' = [calls EXCEPT ![r] = @ \ {k}]
  /\ pc' = [pc EXCEPT ![t] = IF k = "failed" THEN "mark" ELSE "cas"]
  /\ rip' = [rip EXCEPT ![t] = r]
  /\ kind' = [kind EXCEPT ![t] = k]
  /\ ret' = [ret EXCEPT ![t] = "PENDING"]
  /\ UNCHANGED <<phase, plan, finals>> /\ UNCHANGED shared

\* Mutant: to_failed forgets to set failed_exist.
MarkNothing(t) ==
  /\ pc[t] = "mark"
  /\ pc' = [pc EXCEPT ![t] = "cas"]
  /\ UNCHANGED <<phase, plan, calls, rip, kind, ret, finals>> /\ UNCHANGED shared

\* to_failed sets failed_exist before it knows whether its CAS will win.
MarkFailed(t) ==
  /\ pc[t] = "mark"
  /\ failed_exist' = TRUE
  /\ pc' = [pc EXCEPT ![t] = "cas"]
  /\ UNCHANGED <<phase, plan, calls, stat, req_pending_nr, err, rip, kind, ret, finals>>

\* _to_got and _to_fail.
CasWon(t) ==
  /\ pc[t] = "cas"
  /\ stat[rip[t]] = "init"
  /\ stat' = [stat EXCEPT ![rip[t]] = kind[t]]
  /\ pc' = [pc EXCEPT ![t] = "dec"]
  /\ UNCHANGED <<phase, plan, calls, req_pending_nr, failed_exist, err, rip, kind, ret, finals>>

\* Mutant: the result of the CAS is not looked at.
CasLostCounts(t) ==
  /\ pc[t] = "cas"
  /\ stat[rip[t]] # "init"
  /\ pc' = [pc EXCEPT ![t] = "dec"]
  /\ UNCHANGED <<phase, plan, calls, rip, kind, ret, finals>> /\ UNCHANGED shared

CasLost(t) ==
  /\ pc[t] = "cas"
  /\ stat[rip[t]] # "init"
  /\ pc' = [pc EXCEPT ![t] = "idle"]
  /\ UNCHANGED <<phase, plan, calls, rip, kind, ret, finals>> /\ UNCHANGED shared

\* Where a thread goes when its decrement did, or did not, end the count.
AfterDecrement(t, last) ==
  \/ /\ ~last
     /\ pc' = [pc EXCEPT ![t] = "idle"]
     /\ UNCHANGED ret
  \/ /\ last /\ kind[t] = "got"
     /\ pc' = [pc EXCEPT ![t] = "judge"]
     /\ UNCHANGED ret
  \/ /\ last /\ kind[t] = "failed"
     /\ pc' = [pc EXCEPT ![t] = "publish"]
     /\ ret' = [ret EXCEPT ![t] = "FAILEDNODE"]

CountDown(t) ==
  /\ pc[t] = "dec"
  /\ req_pending_nr' = req_pending_nr - 1
  /\ UNCHANGED <<phase, plan, calls, stat, failed_exist, err, rip, kind, finals>>

\* Mutants: the end is seen by looking at the requests instead of the counter's
\* own result; the test is off by one; only to_got ends the group.
DecrementThenScan(t) == CountDown(t) /\ AfterDecrement(t, Unsettled = {})
DecrementOffByOne(t) == CountDown(t) /\ AfterDecrement(t, req_pending_nr' <= 1)
DecrementGotOnly(t) ==
  CountDown(t) /\ AfterDecrement(t, req_pending_nr' = 0 /\ kind[t] = "got")

\* __sync_sub_and_fetch: whoever brings the counter to 0 gives the verdict.
Decrement(t) == CountDown(t) /\ AfterDecrement(t, req_pending_nr' = 0)

\* Mutant: to_got answers OK whatever failed.
JudgeOK(t) ==
  /\ pc[t] = "judge"
  /\ ret' = [ret EXCEPT ![t] = "OK"]
  /\ pc' = [pc EXCEPT ![t] = "publish"]
  /\ UNCHANGED <<phase, plan, calls, rip, kind, finals>> /\ UNCHANGED shared

\* to_got reads failed_exist to choose the verdict.
Judge(t) ==
  /\ pc[t] = "judge"
  /\ ret' = [ret EXCEPT ![t] = IF failed_exist THEN "FAILEDNODE" ELSE "OK"]
  /\ pc' = [pc EXCEPT ![t] = "publish"]
  /\ UNCHANGED <<phase, plan, calls, rip, kind, finals>> /\ UNCHANGED shared

\* grp->err = err, and the verdict is returned to the caller, who ends the group.
Publish(t) ==
  /\ pc[t] = "publish"
  /\ err' = ret[t]
  /\ finals' = finals + 1
  /\ pc' = [pc EXCEPT ![t] = "idle"]
  /\ UNCHANGED <<phase, plan, calls, stat, req_pending_nr, failed_exist, rip, kind, ret>>

\* token_reqgrp_exit.  The manager's owner calls it as soon as one call returned
\* a verdict; whoever settles a request twice waits for all calls to be over.
ReqgrpExit ==
  /\ phase = "live"
  /\ finals > 0
  /\ \/ SettledOnce
     \/ /\ \A r \in Rips : calls[r] = {}
        /\ \A t \in Threads : pc[t] = "idle"
  /\ phase' = "gone"
  /\ UNCHANGED <<plan, calls, finals>> /\ UNCHANGED <<shared, locals>>

Step(t) == \/ \E r \in Rips, k \in Kinds : Call(t, r, k)
           \/ MarkFailed(t) \/ CasWon(t) \/ CasLost(t)
           \/ Decrement(t) \/ Judge(t) \/ Publish(t)

Next == \/ ReqgrpInit
        \/ \E t \in Threads : Step(t)
        \/ ReqgrpExit

Spec == Init /\ [][Next]_vars

\* The code spins on nothing: a thread inside a call, or with a call to make,
\* is scheduled again.
FairSpec == Spec /\ \A t \in Threads : WF_vars(Step(t))
-------------------------------------------------------------------------------
\* The counter is the number of requests nobody settled yet plus the threads
\* stopped between their CAS and their decrement: the fact that makes the zero
\* of __sync_sub_and_fetch mean that the whole group is settled.
PendingCounts ==
  phase = "live" =>
    req_pending_nr = Cardinality(Unsettled) + Cardinality(Counting)

\* However to_got and to_failed race, at most one call returns a verdict, the
\* group's err is that verdict, and no thread is still about to give another.
OneVerdict ==
  /\ finals <= 1
  /\ err = "PENDING" <=> finals = 0
  /\ finals = 1 => Judging = {}
  /\ \A s, t \in Judging : s = t

\* An OK group holds every token it asked for.  A FAILEDNODE group has a failed
\* request, unless two calls raced on one request: the losing to_failed has
\* marked the group although the request was granted.
VerdictSound ==
  /\ err = "OK" => \A r \in Rips : stat[r] = "got"
  /\ err = "FAILEDNODE" /\ SettledOnce => \E r \in Rips : stat[r] = "failed"

\* The owner frees the group when one call returned its verdict, while others may
\* be running: no thread is inside to_got or to_failed then, or enters it later.
NoUseAfterExit ==
  phase = "gone" /\ finals > 0 =>
    /\ \A t \in Threads : pc[t] = "idle"
    /\ \A r \in Rips : calls[r] = {}

\* A group that lives is given its verdict: the last decrement always reports.
VerdictDelivered == phase = "live" ~> finals = 1

\* The counter and the CAS implement the one-verdict promise of GroupPromise.
Promise == INSTANCE GroupPromise WITH outcome <- stat, blamed <- failed_exist,
                                      verdict <- err
ImplementsPromise == Promise!PSpec
===============================================================================
