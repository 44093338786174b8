------------------------------ MODULE JobQueue ------------------------------
(***************************************************************************)
(* The `jobs` table of the hosted `serve` backend and the server requests  *)
(* that write it: enqueue, the lease poll (a reclaim sweep, then a scan,   *)
(* then one conditional claim per candidate), the worker's heartbeat and   *)
(* result, the cancel with its bounded retry, and the handoff columns of a *)
(* paused `record`.                                                        *)
(*                                                                         *)
(* Requests run on the server's threads and on several replicas, so every  *)
(* SQL statement is a step of its own and any two requests interleave      *)
(* between statements.  A conditional UPDATE is one step: it tests and     *)
(* writes the row at once.  Row locks only take interleavings away, so     *)
(* this is the weakest isolation the statements are written for.           *)
(*                                                                         *)
(* A worker is any caller of the worker routes: here it may send any of    *)
(* them for any job at any time (module WorkerPool gives it a program).    *)
(***************************************************************************)
EXTENDS Naturals, FiniteSets

CONSTANTS
  Jobs,            \* job ids, numbered in `created_at` order
  Workers,         \* worker ids
  Polls,           \* server threads that answer a worker's lease poll
  Cancels,         \* server threads that answer a cancel
  Tokens,          \* encrypted handoff answers
  Servable,        \* <<w, j>>: worker w advertises what job j requires
  MaxAttempts,     \* DEFAULT_LEASE_MAX_ATTEMPTS
  CancelAttempts,  \* _CANCEL_ATTEMPTS
  SkipLocked,      \* the dialect is not SQLite: a locked row is skipped
  ClockSkew,       \* two replicas' clocks may differ by more than a lease
  None             \* a NULL column

ASSUME JobsAssumption == Jobs \subseteq Nat
ASSUME BoundsAssumption ==
  /\ MaxAttempts \in Nat \ {0}
  /\ CancelAttempts \in Nat \ {0}
\* 3 attempts and 5 rounds in the code, which relates the two nowhere.
ASSUME RetryAssumption == MaxAttempts <= CancelAttempts
ASSUME SkewAssumption == ClockSkew \in BOOLEAN /\ SkipLocked \in BOOLEAN
ASSUME NoneAssumption == None \notin Workers /\ None \notin Tokens

VARIABLES
  status,            \* the row's status; "absent" before the INSERT
  attempts,          \* how many times the job was leased and lost
  leased_by,         \* the worker that holds (or last held) the lease
  lapsed,            \* leased_at lies further back than the lease timeout
  cancel_requested,  \* a cancel reached the leased job
  handoff_pending,   \* a handoff request waits for a person
  handoff_response,  \* a person's answer waits for the worker
  poll,              \* per lease request: its locals
  cancel,            \* per cancel request: its locals
  leases             \* history: how many times the job was leased

row == <<status, attempts, leased_by, lapsed, cancel_requested,
         handoff_pending, handoff_response, leases>>
vars == <<row, poll, cancel>>

----------------------------------------------------------------------------
Terminal == {"done", "failed", "cancelled"}
Status == {"absent", "queued", "leased"} \union Terminal

\* `due` is what the sweep's SELECT returned and is still to update, with the
\* attempts and the cancel flag it read; `old` are the rows whose leased_at is
\* below the sweep's cutoff; `candidates` is what the lease's SELECT returned
\* and is still to try; `got` is the job claimed.
Poll == [pc : {"idle", "sweep", "claim", "respond"},
         worker : Workers \union {None},
         due : SUBSET Jobs, old : SUBSET Jobs,
         attempts : [Jobs -> Nat], cancelling : SUBSET Jobs,
         candidates : SUBSET Jobs, got : Jobs \union {None}]

Idle == [pc |-> "idle", worker |-> None, due |-> {}, old |-> {},
         attempts |-> [j \in Jobs |-> 0], cancelling |-> {},
         candidates |-> {}, got |-> None]

\* `tries` counts finished rounds of the retry loop; `status` and `applied`
\* are the answer once pc is "answered".
NoCancel == [pc |-> "idle", job |-> None, tries |-> 0,
             status |-> None, applied |-> FALSE]

Cancel == {NoCancel} \union
          [pc : {"queued", "leased", "read", "answered"}, job : Jobs, tries : Nat,
           status : Status \union {None}, applied : BOOLEAN]

TypeOK ==
  /\ status \in [Jobs -> Status]
  /\ attempts \in [Jobs -> 0..MaxAttempts]
  /\ leased_by \in [Jobs -> Workers \union {None}]
  /\ lapsed \in [Jobs -> BOOLEAN]
  /\ cancel_requested \in [Jobs -> BOOLEAN]
  /\ handoff_pending \in [Jobs -> BOOLEAN]
  /\ handoff_response \in [Jobs -> Tokens \union {None}]
  /\ poll \in [Polls -> Poll]
  /\ cancel \in [Cancels -> Cancel]
  /\ leases \in [Jobs -> 0..MaxAttempts]

Init ==
  /\ status = [j \in Jobs |-> "absent"]
  /\ attempts = [j \in Jobs |-> 0]
  /\ leased_by = [j \in Jobs |-> None]
  /\ lapsed = [j \in Jobs |-> FALSE]
  /\ cancel_requested = [j \in Jobs |-> FALSE]
  /\ handoff_pending = [j \in Jobs |-> FALSE]
  /\ handoff_response = [j \in Jobs |-> None]
  /\ poll = [p \in Polls |-> Idle]
  /\ cancel = [c \in Cancels |-> NoCancel]
  /\ leases = [j \in Jobs |-> 0]

----------------------------------------------------------------------------
\* Mutants: the owner tests forget the status, or the owner.
HoldsOnceOwned(j, w) == leased_by[j] = w
HoldsAnyOwner(j, w) == status[j] = "leased"

\* The row as the conditional UPDATEs test it.
Holds(j, w) == status[j] = "leased" /\ leased_by[j] = w

\* Writing leased_at = now moves the row past every earlier cutoff, except
\* the cutoffs of sweeps on a replica whose clock runs ahead.
Stamped(polls, j, ahead) ==
  [q \in Polls |-> IF q \in ahead THEN polls[q]
                   ELSE [polls[q] EXCEPT !.old = @ \ {j}]]

SkewedPolls == IF ClockSkew THEN SUBSET Polls ELSE {{}}

ClearHandoff(j) ==
  /\ handoff_pending' = [handoff_pending EXCEPT ![j] = FALSE]
  /\ handoff_response' = [handoff_response EXCEPT ![j] = None]

----------------------------------------------------------------------------
(* Dispatch *)

EnqueueJob(j) ==
  /\ status[j] = "absent"
  /\ \A i \in Jobs : i < j => status[i] # "absent"
  /\ status' = [status EXCEPT ![j] = "queued"]
  /\ UNCHANGED <<attempts, leased_by, lapsed, cancel_requested,
                 handoff_pending, handoff_response, leases, poll, cancel>>

----------------------------------------------------------------------------
(* The lease poll *)

\* The sweep's SELECT: the leased rows whose leased_at is below the cutoff.
\* On a dialect with row locks, a row some other statement holds is skipped.
SweepScan(p, w) ==
  /\ poll[p].pc = "idle"
  /\ LET old == {j \in Jobs : status[j] = "leased" /\ lapsed[j]} IN
     \E due \in (IF SkipLocked THEN SUBSET old ELSE {old}) :
       poll' = [poll EXCEPT ![p] =
                  [Idle EXCEPT !.pc = "sweep", !.worker = w,
                     !.due = due, !.old = old,
                     !.attempts = [j \in Jobs |-> IF j \in due THEN attempts[j] ELSE 0],
                     !.cancelling = {j \in due : cancel_requested[j]}]]
  /\ UNCHANGED <<row, cancel>>

\* Mutants: the UPDATE forgets one of its re-checks.
ReclaimableAtAnyCount(p, j) ==
  /\ status[j] = "leased" /\ j \in poll[p].old
  /\ cancel_requested[j] = (j \in poll[p].cancelling)
ReclaimableDespiteCancel(p, j) ==
  /\ status[j] = "leased" /\ j \in poll[p].old
  /\ attempts[j] = poll[p].attempts[j]
ReclaimableOnceScanned(p, j) ==
  /\ status[j] = "leased"
  /\ attempts[j] = poll[p].attempts[j]
  /\ cancel_requested[j] = (j \in poll[p].cancelling)

\* What the sweep's UPDATE re-checks, against what its SELECT saw.
StillReclaimable(p, j) ==
  /\ status[j] = "leased"
  /\ j \in poll[p].old
  /\ attempts[j] = poll[p].attempts[j]
  /\ cancel_requested[j] = (j \in poll[p].cancelling)

\* Mutant: a cancelled job is run again.
OutcomeDespiteCancel(p, j) ==
  IF poll[p].attempts[j] + 1 >= MaxAttempts THEN "failed" ELSE "queued"

ReclaimedOutcome(p, j) ==
  IF j \in poll[p].cancelling THEN "cancelled"
  ELSE IF poll[p].attempts[j] + 1 >= MaxAttempts THEN "failed"
  ELSE "queued"

Passed(p, j) == [poll EXCEPT ![p].due = @ \ {j}]

\* The sweep's UPDATE of one expired row, which matches or does not.
ReclaimRow(p, j) ==
  /\ poll[p].pc = "sweep" /\ j \in poll[p].due
  /\ StillReclaimable(p, j)
  /\ status' = [status EXCEPT ![j] = ReclaimedOutcome(p, j)]
  /\ attempts' = [attempts EXCEPT ![j] = poll[p].attempts[j] + 1]
  /\ leased_by' = [leased_by EXCEPT ![j] = None]
  /\ lapsed' = [lapsed EXCEPT ![j] = FALSE]
  /\ ClearHandoff(j)
  /\ poll' = Passed(p, j)
  /\ UNCHANGED <<cancel_requested, leases, cancel>>

SpareRow(p, j) ==
  /\ poll[p].pc = "sweep" /\ j \in poll[p].due
  /\ ~StillReclaimable(p, j)
  /\ poll' = Passed(p, j)
  /\ UNCHANGED <<row, cancel>>

\* The sweep over, the lease's own SELECT reads the queued rows.
QueueScan(p) ==
  /\ poll[p].pc = "sweep" /\ poll[p].due = {}
  /\ poll' = [poll EXCEPT ![p] =
                [Idle EXCEPT !.pc = "claim", !.worker = poll[p].worker,
                   !.candidates = {j \in Jobs : status[j] = "queued"}]]
  /\ UNCHANGED <<row, cancel>>

\* The oldest candidate the poll has not tried yet.
Oldest(p, j) == j \in poll[p].candidates /\ \A i \in poll[p].candidates : j <= i

Claimable(p, j) == <<poll[p].worker, j>> \in Servable /\ status[j] = "queued"

\* The conditional UPDATE that claims the candidate for this worker.
ClaimJob(p, j) ==
  /\ poll[p].pc = "claim" /\ Oldest(p, j)
  /\ Claimable(p, j)
  /\ status' = [status EXCEPT ![j] = "leased"]
  /\ leased_by' = [leased_by EXCEPT ![j] = poll[p].worker]
  /\ lapsed' = [lapsed EXCEPT ![j] = FALSE]
  /\ leases' = [leases EXCEPT ![j] = @ + 1]
  /\ \E ahead \in SkewedPolls :
       poll' = [Stamped(poll, j, ahead) EXCEPT
                  ![p] = [Idle EXCEPT !.pc = "respond", !.worker = poll[p].worker, !.got = j]]
  /\ UNCHANGED <<attempts, cancel_requested, handoff_pending, handoff_response, cancel>>

\* The candidate needs what this worker lacks, was taken since the scan, or
\* is locked by another transaction: the next one is tried.
NextCandidate(p, j) ==
  /\ poll[p].pc = "claim" /\ Oldest(p, j)
  /\ ~Claimable(p, j) \/ SkipLocked
  /\ poll' = [poll EXCEPT ![p].candidates = @ \ {j}]
  /\ UNCHANGED <<row, cancel>>

\* Nothing left to try: 204.
NothingToLease(p) ==
  /\ poll[p].pc = "claim" /\ poll[p].candidates = {}
  /\ poll' = [poll EXCEPT ![p] = Idle]
  /\ UNCHANGED <<row, cancel>>

\* The lease response leaves the server.
RespondLease(p) ==
  /\ poll[p].pc = "respond"
  /\ poll' = [poll EXCEPT ![p] = Idle]
  /\ UNCHANGED <<row, cancel>>

----------------------------------------------------------------------------
(* The worker's calls *)

\* One conditional UPDATE to a terminal status, only for the lease's owner.
FinishJob(j, w, outcome) ==
  /\ Holds(j, w)
  /\ status' = [status EXCEPT ![j] = outcome]
  /\ ClearHandoff(j)
  /\ UNCHANGED <<attempts, leased_by, lapsed, cancel_requested, leases>>

\* The org's stored secrets could not be read: the job just leased is failed
\* by the server, unless the lease is no longer this worker's.
FailUnreadSecrets(p) ==
  /\ poll[p].pc = "respond"
  /\ \/ FinishJob(poll[p].got, poll[p].worker, "failed")
     \/ ~Holds(poll[p].got, poll[p].worker) /\ UNCHANGED row
  /\ poll' = [poll EXCEPT ![p] = Idle]
  /\ UNCHANGED cancel

WorkerResult(j, w, outcome) ==
  FinishJob(j, w, outcome) /\ UNCHANGED <<poll, cancel>>

HeartbeatJob(j, w) ==
  /\ Holds(j, w)
  /\ lapsed' = [lapsed EXCEPT ![j] = FALSE]
  /\ \E ahead \in SkewedPolls : poll' = Stamped(poll, j, ahead)
  /\ UNCHANGED <<status, attempts, leased_by, cancel_requested,
                 handoff_pending, handoff_response, leases, cancel>>

OpenHandoff(j, w) ==
  /\ Holds(j, w) /\ ~handoff_pending[j]
  /\ handoff_pending' = [handoff_pending EXCEPT ![j] = TRUE]
  /\ handoff_response' = [handoff_response EXCEPT ![j] = None]
  /\ UNCHANGED <<status, attempts, leased_by, lapsed, cancel_requested, leases, poll, cancel>>

\* The SELECT and the UPDATE on the value it read act as one step: whatever
\* changed the answer in between leaves the UPDATE matching no row.
TakeHandoffResponse(j, w) ==
  /\ Holds(j, w) /\ handoff_response[j] # None
  /\ handoff_response' = [handoff_response EXCEPT ![j] = None]
  /\ UNCHANGED <<status, attempts, leased_by, lapsed, cancel_requested,
                 handoff_pending, leases, poll, cancel>>

----------------------------------------------------------------------------
(* The person's calls *)

AnswerHandoff(j, t) ==
  /\ status[j] = "leased" /\ handoff_pending[j] /\ ~cancel_requested[j]
  /\ handoff_pending' = [handoff_pending EXCEPT ![j] = FALSE]
  /\ handoff_response' = [handoff_response EXCEPT ![j] = t]
  /\ UNCHANGED <<status, attempts, leased_by, lapsed, cancel_requested, leases, poll, cancel>>

CancelJob(c, j) ==
  /\ cancel[c].pc \in {"idle", "answered"}
  /\ status[j] # "absent"
  /\ cancel' = [cancel EXCEPT ![c] = [NoCancel EXCEPT !.pc = "queued", !.job = j]]
  /\ UNCHANGED <<row, poll>>

Answered(c, s, applied) ==
  [cancel EXCEPT ![c].pc = "answered", ![c].status = s, ![c].applied = applied]

\* First UPDATE of a round: a queued job ends here.
CancelQueued(c) ==
  LET j == cancel[c].job IN
  /\ cancel[c].pc = "queued"
  /\ IF status[j] = "queued"
     THEN /\ status' = [status EXCEPT ![j] = "cancelled"]
          /\ cancel' = Answered(c, "cancelled", TRUE)
     ELSE /\ cancel' = [cancel EXCEPT ![c].pc = "leased"]
          /\ UNCHANGED status
  /\ UNCHANGED <<attempts, leased_by, lapsed, cancel_requested,
                 handoff_pending, handoff_response, leases, poll>>

\* Second UPDATE: a leased job is flagged for its worker.
CancelLeased(c) ==
  LET j == cancel[c].job IN
  /\ cancel[c].pc = "leased"
  /\ IF status[j] = "leased"
     THEN /\ cancel_requested' = [cancel_requested EXCEPT ![j] = TRUE]
          /\ cancel' = Answered(c, "leased", TRUE)
     ELSE /\ cancel' = [cancel EXCEPT ![c].pc = "read"]
          /\ UNCHANGED cancel_requested
  /\ UNCHANGED <<status, attempts, leased_by, lapsed,
                 handoff_pending, handoff_response, leases, poll>>

\* Mutant: one round only.
CancelReadOnce(c) ==
  /\ cancel[c].pc = "read"
  /\ cancel' = Answered(c, status[cancel[c].job], FALSE)
  /\ UNCHANGED <<row, poll>>

\* Neither matched: a terminal row ends the loop, else another round while
\* the rounds last.
CancelRead(c) ==
  LET s == status[cancel[c].job]
      round == cancel[c].tries + 1 IN
  /\ cancel[c].pc = "read"
  /\ cancel' = IF s \in Terminal \/ round >= CancelAttempts
               THEN Answered(c, s, FALSE)
               ELSE [cancel EXCEPT ![c].pc = "queued", ![c].tries = round]
  /\ UNCHANGED <<row, poll>>

----------------------------------------------------------------------------
\* The lease timeout passes with no heartbeat.
LeaseLapses(j) ==
  /\ status[j] = "leased" /\ ~lapsed[j]
  /\ lapsed' = [lapsed EXCEPT ![j] = TRUE]
  /\ UNCHANGED <<status, attempts, leased_by, cancel_requested,
                 handoff_pending, handoff_response, leases, poll, cancel>>

PollStep(p) ==
  \/ \E w \in Workers : SweepScan(p, w)
  \/ \E j \in Jobs : \/ ReclaimRow(p, j) \/ SpareRow(p, j)
                     \/ ClaimJob(p, j) \/ NextCandidate(p, j)
  \/ QueueScan(p) \/ NothingToLease(p) \/ RespondLease(p) \/ FailUnreadSecrets(p)

CancelStep(c) ==
  \/ \E j \in Jobs : CancelJob(c, j)
  \/ CancelQueued(c) \/ CancelLeased(c) \/ CancelRead(c)

WorkerCall(j, w) ==
  \/ \E outcome \in Terminal : WorkerResult(j, w, outcome)
  \/ HeartbeatJob(j, w) \/ OpenHandoff(j, w) \/ TakeHandoffResponse(j, w)

Next ==
  \/ \E j \in Jobs : EnqueueJob(j) \/ LeaseLapses(j)
  \/ \E p \in Polls : PollStep(p)
  \/ \E c \in Cancels : CancelStep(c)
  \/ \E j \in Jobs, w \in Workers : WorkerCall(j, w)
  \/ \E j \in Jobs, t \in Tokens : AnswerHandoff(j, t)

Spec == Init /\ [][Next]_vars

----------------------------------------------------------------------------
(* Properties *)

\* A job is leased at most MaxAttempts times, however the sweeps of several
\* replicas interleave: each lost lease is counted once and only once
\* (reclaim_expired_leases' attempts re-check).
LeaseBudget ==
  \A j \in Jobs :
    /\ leases[j] <= MaxAttempts
    /\ status[j] = "queued" => leases[j] = attempts[j]
    /\ status[j] = "leased" => leases[j] = attempts[j] + 1

\* A queued row carries nothing of a lost lease: no owner, no cancel flag (a
\* cancel landing between the sweep's SELECT and its UPDATE is never re-queued
\* with the flag still set), and no handoff.  An answer, which may be a
\* one-time password, exists only while the job is leased.
NothingOutlivesTheLease ==
  \A j \in Jobs :
    /\ status[j] \in {"absent", "queued"} => leased_by[j] = None /\ ~cancel_requested[j]
    /\ status[j] # "leased" => ~handoff_pending[j] /\ handoff_response[j] = None

\* cancel_job answers "not applied" only for a job that is over: its bounded
\* retry never runs out on a live job, because each wasted round costs the job
\* one of its attempts.
CancelIsNeverRefusedToALiveJob ==
  \A c \in Cancels :
    cancel[c].pc = "answered" /\ ~cancel[c].applied => status[cancel[c].job] \in Terminal

\* Once a cancel was answered "applied", the job is over or its worker is
\* flagged: no reclaim and no lease after that ever drops the cancel.
AppliedCancelHolds ==
  \A c \in Cancels :
    cancel[c].pc = "answered" /\ cancel[c].applied =>
      LET j == cancel[c].job IN
        status[j] \in Terminal \/ (status[j] = "leased" /\ cancel_requested[j])

\* The result a job ended with is never replaced: _finish_job, cancel_job and
\* the sweep all leave a finished row alone, its outcome and its count.
FinishedStaysFinished ==
  [][\A j \in Jobs : status[j] \in Terminal =>
       UNCHANGED <<status[j], attempts[j], leases[j], cancel_requested[j],
                   handoff_response[j]>>]_vars

\* A lease its worker renewed is never reclaimed by a sweep that scanned the
\* row before the renewal (one clock; SkewAssumption's ClockSkew is FALSE).
RenewedLeaseIsSpared ==
  [][\A j \in Jobs : status[j] = "leased" /\ ~lapsed[j] => attempts'[j] = attempts[j]]_vars

\* The statements together do what JobLifecycle does in one step each: a
\* sweep's SELECT and UPDATE are one atomic loss of the lease, whatever other
\* requests did in between.
Lifecycle == INSTANCE JobLifecycle
ImplementsLifecycle == Lifecycle!Spec
=============================================================================
