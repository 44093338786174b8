--------------------------- MODULE BatchCheckpoint --------------------------
(***************************************************************************)
(* One cloud-batch job: each attempt (a lease of the job by a worker's     *)
(* slot) schedules a run on the device cloud, stores the run's ARN on the  *)
(* server through the lease and polls the run; an attempt whose lease      *)
(* carries an ARN resumes that run instead.  The save's request or its     *)
(* answer may be lost or late, the lease may be lost or given up, the job  *)
(* cancelled, the worker may crash.  Run n is the run attempt n scheduled. *)
(***************************************************************************)
EXTENDS Naturals

CONSTANTS
  MaxAttempts,  \* leases of the job before it fails
  MaxLost,      \* HTTP exchanges that fail (bounds the state space)
  MaxCrashes,
  MaxTries,     \* failed posts before _CHECKPOINT_DEADLINE is over
  SameWorker    \* the attempts are slots of one worker, under one worker id

ASSUME BatchAssumption ==
  /\ MaxAttempts \in Nat /\ MaxLost \in Nat /\ MaxCrashes \in Nat /\ MaxTries \in Nat
  /\ SameWorker \in BOOLEAN

Attempts == 1..MaxAttempts
None == 0

VARIABLES
  row,      \* the job's row: status, the attempt that holds the lease, cancel flag, run ARN
  attempt,  \* per attempt: where it is, the run it works on, and its two flags
  request,  \* per attempt: its save at the server
  late,     \* per attempt: a save the worker gave up on is still on its way
  cloud,    \* per run: its state on the device cloud
  left,     \* history: runs nobody follows, by a crash, a refused stop or a failed poll
  lost,     \* history: failed exchanges
  crashes   \* history

vars == <<row, attempt, request, late, cloud, left, lost, crashes>>

TypeOK ==
  /\ row \in [status : {"queued", "leased", "over"}, holder : 0..MaxAttempts,
              leases : 0..MaxAttempts, cancel : BOOLEAN, arn : 0..MaxAttempts]
  /\ attempt \in [Attempts -> [pc : {"none", "upload", "save", "answer", "poll", "result", "over", "dead"},
                               run : 0..MaxAttempts, lost : BOOLEAN, cancelled : BOOLEAN,
                               tries : 0..MaxTries]]
  /\ request \in [Attempts -> {"none", "sent", "new", "stored", "refused"}]
  /\ late \in [Attempts -> BOOLEAN]
  /\ cloud \in [Attempts -> {"none", "running", "completed", "stopped"}]
  /\ left \subseteq Attempts /\ lost \in 0..MaxLost /\ crashes \in 0..MaxCrashes
  /\ row.arn # None => cloud[row.arn] # "none"

Init ==
  /\ row = [status |-> "queued", holder |-> None, leases |-> 0, cancel |-> FALSE, arn |-> None]
  /\ attempt = [a \in Attempts |-> [pc |-> "none", run |-> None, lost |-> FALSE,
                               cancelled |-> FALSE, tries |-> 0]]
  /\ request = [a \in Attempts |-> "none"] /\ late = [a \in Attempts |-> FALSE]
  /\ cloud = [a \in Attempts |-> "none"]
  /\ left = {} /\ lost = 0 /\ crashes = 0

----------------------------------------------------------------------------
(* The job's row, as the server moves it (module JobQueue) *)

\* The owner test knows workers, not attempts.
Holds(a) == row.status = "leased" /\ (row.holder = a \/ SameWorker)

\* The lease carries the stored ARN.
Lease ==
  LET a == row.leases + 1 IN
  /\ row.status = "queued" /\ row.leases < MaxAttempts
  /\ row' = [row EXCEPT !.status = "leased", !.holder = a, !.leases = a]
  /\ attempt' = [attempt EXCEPT ![a].pc = IF row.arn = None THEN "upload" ELSE "poll",
                                ![a].run = row.arn]
  /\ UNCHANGED <<request, late, cloud, left, lost, crashes>>

Reclaim ==
  /\ row.status = "leased"
  /\ row' = [row EXCEPT !.status = IF row.cancel \/ row.leases = MaxAttempts THEN "over" ELSE "queued",
                        !.holder = None]
  /\ UNCHANGED <<attempt, request, late, cloud, left, lost, crashes>>

Cancel ==
  /\ row.status # "over" /\ ~row.cancel
  /\ row' = [row EXCEPT !.cancel = TRUE, !.status = IF @ = "queued" THEN "over" ELSE @]
  /\ UNCHANGED <<attempt, request, late, cloud, left, lost, crashes>>

----------------------------------------------------------------------------
(* The worker *)

Live(a) == attempt[a].pc \notin {"none", "over", "dead"}

\* A heartbeat's 409, or the slot worker's shutdown, which gives the lease up.
LoseLease(a) ==
  /\ Live(a) /\ ~attempt[a].lost
  /\ attempt' = [attempt EXCEPT ![a].lost = TRUE]
  /\ UNCHANGED <<row, request, late, cloud, left, lost, crashes>>

HearCancel(a) ==
  /\ Live(a) /\ Holds(a) /\ row.cancel /\ ~attempt[a].cancelled
  /\ attempt' = [attempt EXCEPT ![a].cancelled = TRUE]
  /\ UNCHANGED <<row, request, late, cloud, left, lost, crashes>>

\* stop_run, best effort: a refusal is logged and the run goes on.
Stopped(r) ==
  \/ /\ cloud' = [cloud EXCEPT ![r] = IF @ = "running" THEN "stopped" ELSE @]
     /\ UNCHANGED <<left, lost>>
  \/ /\ lost < MaxLost /\ lost' = lost + 1
     /\ left' = left \union {r} /\ UNCHANGED cloud

\* The uploads are done: one more look at the interrupt, then ScheduleRun.
Schedule(a) ==
  /\ attempt[a].pc = "upload"
  /\ IF attempt[a].cancelled \/ attempt[a].lost
     THEN attempt' = [attempt EXCEPT ![a].pc = "result"] /\ UNCHANGED cloud
     ELSE /\ attempt' = [attempt EXCEPT ![a].pc = "save", ![a].run = a]
          /\ cloud' = [cloud EXCEPT ![a] = "running"]
  /\ UNCHANGED <<row, request, late, left, lost, crashes>>

\* _LeaseCheckpoint.save: a cancel ends it before the next post.
Save(a) ==
  /\ attempt[a].pc = "save" /\ ~attempt[a].cancelled
  /\ attempt' = [attempt EXCEPT ![a].pc = "answer"]
  /\ request' = [request EXCEPT ![a] = "sent"]
  /\ UNCHANGED <<row, late, cloud, left, lost, crashes>>

SaveCancelled(a) ==
  /\ attempt[a].pc = "save" /\ attempt[a].cancelled
  /\ Stopped(a)
  /\ attempt' = [attempt EXCEPT ![a].pc = "result"]
  /\ UNCHANGED <<row, request, late, crashes>>

SaveStored(a) ==
  /\ attempt[a].pc = "answer" /\ request[a] = "stored"
  /\ attempt' = [attempt EXCEPT ![a].pc = "poll"]
  /\ request' = [request EXCEPT ![a] = "none"]
  /\ UNCHANGED <<row, late, cloud, left, lost, crashes>>

\* Mutant: the run is left running.
RefusedLeaves(a) ==
  /\ attempt[a].pc = "answer" /\ request[a] = "refused"
  /\ attempt' = [attempt EXCEPT ![a].pc = "result"]
  /\ request' = [request EXCEPT ![a] = "none"]
  /\ UNCHANGED <<row, late, cloud, left, lost, crashes>>

\* Mutant: a 409 is tried again.
RefusedRetries(a) ==
  /\ attempt[a].pc = "answer" /\ request[a] = "refused"
  /\ attempt' = [attempt EXCEPT ![a].pc = "save"]
  /\ request' = [request EXCEPT ![a] = "none"]
  /\ UNCHANGED <<row, late, cloud, left, lost, crashes>>

\* A 409: the provider stops the run and the error propagates.
SaveRefused(a) ==
  /\ attempt[a].pc = "answer" /\ request[a] = "refused"
  /\ Stopped(a)
  /\ attempt' = [attempt EXCEPT ![a].pc = "result"]
  /\ request' = [request EXCEPT ![a] = "none"]
  /\ UNCHANGED <<row, late, crashes>>

\* Mutant: the deadline is not looked at.
SaveForever(a) ==
  /\ attempt[a].pc = "answer" /\ lost < MaxLost
  /\ request' = [request EXCEPT ![a] = "none"]
  /\ lost' = lost + 1
  /\ attempt' = [attempt EXCEPT ![a].pc = "save", ![a].tries = @ + 1]
  /\ UNCHANGED <<row, late, cloud, left, crashes>>

\* No answer or a 5xx: a lost lease or the deadline ends the save, otherwise it
\* is tried again.  A request without an answer may still reach the server.
SaveFails(a) ==
  /\ attempt[a].pc = "answer" /\ lost < MaxLost
  /\ late' = [late EXCEPT ![a] = @ \/ request[a] \in {"sent", "new"}]
  /\ request' = [request EXCEPT ![a] = "none"]
  /\ lost' = lost + 1 /\ UNCHANGED left
  /\ IF attempt[a].lost \/ attempt[a].tries = MaxTries
     THEN /\ attempt' = [attempt EXCEPT ![a].pc = "result"]
          /\ cloud' = [cloud EXCEPT ![a] = IF @ = "running" THEN "stopped" ELSE @]
     ELSE /\ attempt' = [attempt EXCEPT ![a].pc = "save", ![a].tries = @ + 1]
          /\ UNCHANGED cloud
  /\ UNCHANGED <<row, crashes>>

\* A 4xx other than 409: no retry changes it.
SaveRejected(a) ==
  /\ attempt[a].pc = "answer" /\ request[a] = "sent" /\ lost < MaxLost
  /\ attempt' = [attempt EXCEPT ![a].pc = "result"]
  /\ request' = [request EXCEPT ![a] = "none"]
  /\ cloud' = [cloud EXCEPT ![a] = IF @ = "running" THEN "stopped" ELSE @]
  /\ lost' = lost + 1
  /\ UNCHANGED <<row, late, left, crashes>>

\* Mutant: a lost lease stops the run that is polled.
PollStops(a) ==
  /\ attempt[a].pc = "poll" /\ (attempt[a].cancelled \/ attempt[a].lost)
  /\ attempt' = [attempt EXCEPT ![a].pc = "result"]
  /\ Stopped(attempt[a].run)
  /\ UNCHANGED <<row, request, late, crashes>>

\* _check_interrupt: stop on a cancel, leave on a lost lease.
PollInterrupted(a) ==
  /\ attempt[a].pc = "poll" /\ (attempt[a].cancelled \/ attempt[a].lost)
  /\ attempt' = [attempt EXCEPT ![a].pc = "result"]
  /\ IF attempt[a].cancelled THEN Stopped(attempt[a].run) ELSE UNCHANGED <<cloud, left, lost>>
  /\ UNCHANGED <<row, request, late, crashes>>

\* The run is COMPLETED, which a stopped one is too: its verdict is collected.
Collect(a) ==
  /\ attempt[a].pc = "poll" /\ cloud[attempt[a].run] # "running"
  /\ attempt' = [attempt EXCEPT ![a].pc = "result"]
  /\ UNCHANGED <<row, request, late, cloud, left, lost, crashes>>

\* get_run raises, or the 150 minutes are over: the job fails, the run is left.
PollFails(a) ==
  /\ attempt[a].pc = "poll" /\ lost < MaxLost /\ lost' = lost + 1
  /\ attempt' = [attempt EXCEPT ![a].pc = "result"]
  /\ left' = left \union {attempt[a].run}
  /\ UNCHANGED <<row, request, late, cloud, crashes>>

\* The result, unless the lease was lost; the server tests the lease again.
PostResult(a) ==
  /\ attempt[a].pc = "result"
  /\ attempt' = [attempt EXCEPT ![a].pc = "over"]
  /\ row' = IF ~attempt[a].lost /\ Holds(a) THEN [row EXCEPT !.status = "over", !.holder = None] ELSE row
  /\ UNCHANGED <<request, late, cloud, left, lost, crashes>>

Crash(a) ==
  /\ Live(a) /\ crashes < MaxCrashes /\ crashes' = crashes + 1
  /\ attempt' = [attempt EXCEPT ![a].pc = "dead"]
  /\ request' = [request EXCEPT ![a] = "none"]
  /\ late' = [late EXCEPT ![a] = @ \/ request[a] \in {"sent", "new"}]
  /\ left' = IF attempt[a].pc \in {"save", "answer"} THEN left \union {a} ELSE left
  /\ UNCHANGED <<row, cloud, lost>>

----------------------------------------------------------------------------
(* worker_batch_run *)

\* A repeat of the ARN the row holds answers 200 whoever sends it.
LoadArn(a) ==
  /\ request[a] = "sent"
  /\ request' = [request EXCEPT ![a] = IF row.arn = a THEN "stored" ELSE "new"]
  /\ UNCHANGED <<row, attempt, late, cloud, left, lost, crashes>>

\* Mutant: the UPDATE does not test the owner.
SaveAnyArn(a) ==
  /\ request[a] = "new"
  /\ row' = [row EXCEPT !.arn = a] /\ request' = [request EXCEPT ![a] = "stored"]
  /\ UNCHANGED <<attempt, late, cloud, left, lost, crashes>>

SaveArn(a) ==
  /\ request[a] = "new"
  /\ IF Holds(a) THEN row' = [row EXCEPT !.arn = a] /\ request' = [request EXCEPT ![a] = "stored"]
     ELSE request' = [request EXCEPT ![a] = "refused"] /\ UNCHANGED row
  /\ UNCHANGED <<attempt, late, cloud, left, lost, crashes>>

\* A save its worker no longer waits for.
SaveArrivesLate(a) ==
  /\ late[a] /\ late' = [late EXCEPT ![a] = FALSE]
  /\ row' = IF Holds(a) THEN [row EXCEPT !.arn = a] ELSE row
  /\ UNCHANGED <<attempt, request, cloud, left, lost, crashes>>

----------------------------------------------------------------------------
Complete(r) ==
  /\ cloud[r] = "running"
  /\ cloud' = [cloud EXCEPT ![r] = "completed"]
  /\ UNCHANGED <<row, attempt, request, late, left, lost, crashes>>

WorkerStep(a) ==
  \/ Schedule(a) \/ Save(a) \/ SaveCancelled(a) \/ SaveStored(a) \/ SaveRefused(a)
  \/ PollInterrupted(a) \/ Collect(a) \/ PostResult(a)
ServerStep(a) == LoadArn(a) \/ SaveArn(a)

Next ==
  \/ Lease \/ Reclaim \/ Cancel
  \/ \E a \in Attempts :
       \/ WorkerStep(a) \/ ServerStep(a) \/ LoseLease(a) \/ HearCancel(a) \/ SaveFails(a) \/ SaveRejected(a)
       \/ PollFails(a) \/ Crash(a) \/ SaveArrivesLate(a) \/ Complete(a)

Fairness == \A a \in Attempts : WF_vars(WorkerStep(a)) /\ WF_vars(ServerStep(a))

Spec == Init /\ [][Next]_vars
FairSpec == Spec /\ Fairness

----------------------------------------------------------------------------
(* Properties *)

\* "The lease is lost after the server stored the ARN: the run continues, and
\* the next worker to lease the job resumes it": while every exchange was
\* answered, only a cancel stops a run the row of a live job names.  (When the
\* save's only answer is lost together with the lease, the worker stops it.)
RecordedRunContinues ==
  lost = 0 /\ row.arn # None /\ row.status # "over" /\ cloud[row.arn] = "stopped" => row.cancel

\* "A worker whose lease was reclaimed cannot overwrite the run the job's next
\* attempt resumes": the row's ARN is written once.
ArnIsKept == [][row.arn # None => row'.arn = row.arn]_vars

\* No run keeps a device that nobody follows: the row names it, or the attempt
\* that scheduled it is still to store or stop it, or nobody could (a crash
\* before the store, a stop the cloud refused, a poll that failed).
RunIsFollowed == \A r \in Attempts :
  cloud[r] = "running" =>
    row.arn = r \/ r \in left \/ attempt[r].pc \in {"save", "answer"}

\* A run whose ARN the server does not hold does not keep its device.
UnrecordedRunEnds == \A r \in Attempts :
  cloud[r] = "running" ~> cloud[r] # "running" \/ row.arn = r \/ r \in left

\* A cloud run is neither stopped while the server counts on it nor left to
\* run while nobody does.
RunsAreKept == TypeOK /\ RecordedRunContinues /\ RunIsFollowed

\* What the row says of the cloud run stays true: its ARN is never replaced,
\* and a run it does not name ends.
RecordHolds == ArnIsKept /\ UnrecordedRunEnds
=============================================================================
