---------------------------- MODULE JobLifecycle ----------------------------
(***************************************************************************)
(* What the jobs table promises about one job, each operation in one step: *)
(* a queued job is leased, a lease is lost or ends with a result, a cancel *)
(* ends a queued job or flags a leased one.  A lost lease puts the job     *)
(* back only if nobody cancelled it and it has attempts left, and a        *)
(* finished job never changes.  JobQueue implements this with sweeps,      *)
(* scans and retries made of several statements.                           *)
(***************************************************************************)
EXTENDS Naturals

CONSTANTS Jobs, MaxAttempts

VARIABLES status, attempts, leases, cancel_requested

vars == <<status, attempts, leases, cancel_requested>>

Init ==
  /\ status = [j \in Jobs |-> "absent"]
  /\ attempts = [j \in Jobs |-> 0]
  /\ leases = [j \in Jobs |-> 0]
  /\ cancel_requested = [j \in Jobs |-> FALSE]

Moves(j, from, to) == status[j] = from /\ status' = [status EXCEPT ![j] = to]

Enqueue(j) ==
  Moves(j, "absent", "queued") /\ UNCHANGED <<attempts, leases, cancel_requested>>

Lease(j) ==
  /\ Moves(j, "queued", "leased")
  /\ leases' = [leases EXCEPT ![j] = @ + 1]
  /\ UNCHANGED <<attempts, cancel_requested>>

AfterLoss(j) ==
  IF cancel_requested[j] THEN "cancelled"
  ELSE IF attempts[j] + 1 >= MaxAttempts THEN "failed" ELSE "queued"

Lose(j) ==
  /\ Moves(j, "leased", AfterLoss(j))
  /\ attempts' = [attempts EXCEPT ![j] = @ + 1]
  /\ UNCHANGED <<leases, cancel_requested>>

Finish(j) ==
  /\ \E outcome \in {"done", "failed", "cancelled"} : Moves(j, "leased", outcome)
  /\ UNCHANGED <<attempts, leases, cancel_requested>>

CancelQueued(j) ==
  Moves(j, "queued", "cancelled") /\ UNCHANGED <<attempts, leases, cancel_requested>>

FlagLeased(j) ==
  /\ status[j] = "leased"
  /\ cancel_requested' = [cancel_requested EXCEPT ![j] = TRUE]
  /\ UNCHANGED <<status, attempts, leases>>

JobNext(j) ==
  \/ Enqueue(j) \/ Lease(j) \/ Lose(j) \/ Finish(j)
  \/ CancelQueued(j) \/ FlagLeased(j)

Next == \E j \in Jobs : JobNext(j)

Spec == Init /\ [][Next]_vars
=============================================================================
