----------------------------- MODULE GroupPromise -----------------------------
(***************************************************************************)
(* What a token request group promises its owner, with the counting left   *)
(* out: every request of the group is settled once, and when the last one  *)
(* is, the group is given one verdict.  TokenReqGrp shows how the code     *)
(* keeps the promise with a compare-and-swap and an atomic counter.        *)
(***************************************************************************)
CONSTANT Rips            \* the requests (token_req_t) of the group

VARIABLES outcome,       \* how each request was settled, if it was
          blamed,        \* some caller has reported a failure
          verdict        \* what the group's owner is told

pvars == <<outcome, blamed, verdict>>

Settled == \A r \in Rips : outcome[r] # "init"

PInit == /\ outcome = [r \in Rips |-> "init"]
         /\ blamed = FALSE
         /\ verdict = "PENDING"

Blame == /\ blamed' = TRUE
         /\ UNCHANGED <<outcome, verdict>>

Settle(r, how) ==
  /\ outcome[r] = "init"
  /\ how = "failed" => blamed
  /\ outcome' = [outcome EXCEPT ![r] = how]
  /\ UNCHANGED <<blamed, verdict>>

\* The verdict is given once, after the last request was settled.  OK needs
\* every request granted; FAILEDNODE needs somebody to have reported a failure.
Conclude(v) ==
  /\ verdict = "PENDING"
  /\ Settled
  /\ v = "OK" => \A r \in Rips : outcome[r] = "got"
  /\ v = "FAILEDNODE" => blamed
  /\ verdict' = v
  /\ UNCHANGED <<outcome, blamed>>

PNext == \/ Blame
         \/ \E r \in Rips, how \in {"got", "failed"} : Settle(r, how)
         \/ \E v \in {"OK", "FAILEDNODE"} : Conclude(v)

PSpec == PInit /\ [][PNext]_pvars
===============================================================================
