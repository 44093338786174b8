--------------------------- MODULE JobQueueProofs ---------------------------
(* Safety of JobQueue, for any set of jobs, workers and requests, and of   *)
(* WorkerPool, which runs the worker's program against it.                 *)
EXTENDS WorkerPool, TLAPS

\* A lease request starts with empty locals (worker_lease).
LEMMA IdleIsPoll == Idle \in Poll
  BY DEF Idle, Poll

\* What the requests write into their locals keeps them in their type.
LEMMA PollUpdates ==
  ASSUME NEW r \in Poll, NEW S \in SUBSET Jobs
  PROVE  /\ [r EXCEPT !.due = S] \in Poll
         /\ [r EXCEPT !.old = S] \in Poll
         /\ [r EXCEPT !.candidates = S] \in Poll
<1>1. [r EXCEPT !.due = S] \in Poll
  BY DEF Poll
<1>2. [r EXCEPT !.old = S] \in Poll
  BY DEF Poll
<1>3. [r EXCEPT !.candidates = S] \in Poll
  BY DEF Poll
<1> QED
  BY <1>1, <1>2, <1>3

\* The locals reclaim_expired_leases builds from its SELECT.
LEMMA SweepIsPoll ==
  ASSUME NEW w \in Workers \union {None}, NEW due \in SUBSET Jobs, NEW old \in SUBSET Jobs,
         NEW seen \in [Jobs -> Nat], NEW flagged \in SUBSET Jobs
  PROVE  [Idle EXCEPT !.pc = "sweep", !.worker = w, !.due = due, !.old = old,
                      !.attempts = seen, !.cancelling = flagged] \in Poll
  BY DEF Idle, Poll

\* The locals lease_job builds from its scan of the queued rows.
LEMMA ClaimIsPoll ==
  ASSUME NEW w \in Workers \union {None}, NEW S \in SUBSET Jobs
  PROVE  [Idle EXCEPT !.pc = "claim", !.worker = w, !.candidates = S] \in Poll
  BY DEF Idle, Poll

\* The locals once lease_job's conditional UPDATE claimed a row.
LEMMA RespondIsPoll ==
  ASSUME NEW w \in Workers \union {None}, NEW j \in Jobs
  PROVE  [Idle EXCEPT !.pc = "respond", !.worker = w, !.got = j] \in Poll
  BY DEF Idle, Poll

\* cancel_job's answer is a legal state of its request.
LEMMA AnsweredIsCancel ==
  ASSUME NEW r \in Cancel, r.job \in Jobs, NEW s \in Status, NEW applied \in BOOLEAN
  PROVE  [r EXCEPT !.pc = "answered", !.status = s, !.applied = applied] \in Cancel
<1>1. CASE r = NoCancel
  BY <1>1 DEF NoCancel, Cancel
<1>2. CASE r \in [pc : {"queued", "leased", "read", "answered"}, job : Jobs, tries : Nat,
                  status : Status \union {None}, applied : BOOLEAN]
  BY <1>2 DEF Cancel
<1> QED
  BY <1>1, <1>2 DEF Cancel

\* The sweep goes on to its next row (reclaim_expired_leases' loop).
LEMMA PassedIsPoll ==
  ASSUME poll \in [Polls -> Poll], NEW p \in Polls, NEW j
  PROVE  Passed(p, j) \in [Polls -> Poll]
<1>1. poll[p] \in Poll /\ poll[p].due \ {j} \in SUBSET Jobs
  BY DEF Poll
<1>2. [poll[p] EXCEPT !.due = poll[p].due \ {j}] \in Poll
  BY <1>1, PollUpdates
<1> QED
  BY <1>2 DEF Passed

\* Writing leased_at moves rows past the cutoffs, and changes nothing else.
LEMMA StampedIsPoll ==
  ASSUME poll \in [Polls -> Poll], NEW j, NEW ahead
  PROVE  Stamped(poll, j, ahead) \in [Polls -> Poll]
<1> SUFFICES ASSUME NEW q \in Polls
             PROVE  (IF q \in ahead THEN poll[q]
                     ELSE [poll[q] EXCEPT !.old = poll[q].old \ {j}]) \in Poll
  BY DEF Stamped
<1>1. poll[q] \in Poll /\ poll[q].old \ {j} \in SUBSET Jobs
  BY DEF Poll
<1>2. [poll[q] EXCEPT !.old = poll[q].old \ {j}] \in Poll
  BY <1>1, PollUpdates
<1> QED
  BY <1>1, <1>2

\* TypeOK is proved together with the count it depends on: a reclaim adds an
\* attempt only to a leased row, which has one to spare.
Counted ==
  \A j \in Jobs :
    /\ status[j] = "absent" => attempts[j] = 0 /\ leases[j] = 0
    /\ status[j] \in {"absent", "queued", "leased"} => attempts[j] < MaxAttempts
    /\ status[j] = "queued" => leases[j] = attempts[j]
    /\ status[j] = "leased" => leases[j] = attempts[j] + 1

\* The empty table has the types and the counts.
LEMMA TypeInit == Init => TypeOK /\ Counted
<1> SUFFICES ASSUME Init PROVE TypeOK /\ Counted
  OBVIOUS
<1>1. poll \in [Polls -> Poll]
  BY IdleIsPoll DEF Init
<1>2. cancel \in [Cancels -> Cancel]
  BY DEF Init, NoCancel, Cancel
<1> QED
  BY <1>1, <1>2, BoundsAssumption DEF Init, TypeOK, Counted, Status

\* Every write of a row's outcome keeps the count within its bounds.
LEMMA TypeNext == TypeOK /\ Counted /\ [Next]_vars => TypeOK' /\ Counted'
<1> SUFFICES ASSUME TypeOK, Counted, [Next]_vars PROVE TypeOK' /\ Counted'
  OBVIOUS
<1> USE BoundsAssumption
<1>enqueue. ASSUME NEW j \in Jobs, EnqueueJob(j) PROVE TypeOK' /\ Counted'
  BY <1>enqueue DEF EnqueueJob, TypeOK, Counted, Status, Terminal
<1>lapse. ASSUME NEW j \in Jobs, LeaseLapses(j) PROVE TypeOK' /\ Counted'
  BY <1>lapse DEF LeaseLapses, TypeOK, Counted
<1>scan. ASSUME NEW p \in Polls, NEW w \in Workers, SweepScan(p, w) PROVE TypeOK' /\ Counted'
  <2>1. poll' \in [Polls -> Poll]
    <3> DEFINE old == {j \in Jobs : status[j] = "leased" /\ lapsed[j]}
               Seen(due) == [j \in Jobs |-> IF j \in due THEN attempts[j] ELSE 0]
               Flagged(due) == {j \in due : cancel_requested[j]}
    <3>1. PICK due \in SUBSET old :
            poll' = [poll EXCEPT ![p] =
                       [Idle EXCEPT !.pc = "sweep", !.worker = w, !.due = due, !.old = old,
                          !.attempts = Seen(due), !.cancelling = Flagged(due)]]
      BY <1>scan DEF SweepScan
    <3>2. Seen(due) \in [Jobs -> Nat] /\ Flagged(due) \in SUBSET Jobs
      BY DEF TypeOK
    <3>3. [Idle EXCEPT !.pc = "sweep", !.worker = w, !.due = due, !.old = old,
             !.attempts = Seen(due), !.cancelling = Flagged(due)] \in Poll
      <4>1. due \in SUBSET Jobs /\ old \in SUBSET Jobs
        OBVIOUS
      <4> HIDE DEF old, Seen, Flagged
      <4> QED
        BY <3>2, <4>1, SweepIsPoll
    <3> HIDE DEF old, Seen, Flagged
    <3> QED
      BY <3>1, <3>3 DEF TypeOK
  <2> QED
    BY <2>1, <1>scan DEF SweepScan, row, TypeOK, Counted
<1>reclaim. ASSUME NEW p \in Polls, NEW j \in Jobs, ReclaimRow(p, j) PROVE TypeOK' /\ Counted'
  <2>1. poll' \in [Polls -> Poll]
    BY <1>reclaim, PassedIsPoll DEF ReclaimRow, TypeOK
  <2>2. attempts[j] + 1 \in 0..MaxAttempts /\ attempts'[j] = attempts[j] + 1
    BY <1>reclaim DEF ReclaimRow, StillReclaimable, Counted, TypeOK
  <2>3. /\ ReclaimedOutcome(p, j) \in {"queued", "failed", "cancelled"}
        /\ ReclaimedOutcome(p, j) = "queued" => attempts[j] + 1 < MaxAttempts
    BY <1>reclaim DEF ReclaimRow, StillReclaimable, ReclaimedOutcome, TypeOK
  <2> QED
    BY <2>1, <2>2, <2>3, <1>reclaim
    DEF ReclaimRow, StillReclaimable, ClearHandoff, TypeOK, Counted, Status, Terminal
<1>spare. ASSUME NEW p \in Polls, NEW j \in Jobs, SpareRow(p, j) PROVE TypeOK' /\ Counted'
  BY <1>spare, PassedIsPoll DEF SpareRow, row, TypeOK, Counted
<1>queue. ASSUME NEW p \in Polls, QueueScan(p) PROVE TypeOK' /\ Counted'
  <2>1. poll' \in [Polls -> Poll]
    <3>1. poll[p].worker \in Workers \union {None}
      BY DEF Poll, TypeOK
    <3> DEFINE queued == {j \in Jobs : status[j] = "queued"}
    <3>2. [Idle EXCEPT !.pc = "claim", !.worker = poll[p].worker, !.candidates = queued] \in Poll
      <4>1. queued \in SUBSET Jobs
        OBVIOUS
      <4> HIDE DEF queued
      <4> QED
        BY <3>1, <4>1, ClaimIsPoll
    <3> HIDE DEF queued
    <3> QED
      BY <3>2, <1>queue DEF QueueScan, TypeOK, queued
  <2> QED
    BY <2>1, <1>queue DEF QueueScan, row, TypeOK, Counted
<1>claim. ASSUME NEW p \in Polls, NEW j \in Jobs, ClaimJob(p, j) PROVE TypeOK' /\ Counted'
  <2>1. poll' \in [Polls -> Poll]
    <3>1. PICK ahead \in SkewedPolls :
            poll' = [Stamped(poll, j, ahead) EXCEPT
                       ![p] = [Idle EXCEPT !.pc = "respond", !.worker = poll[p].worker, !.got = j]]
      BY <1>claim DEF ClaimJob
    <3>2. Stamped(poll, j, ahead) \in [Polls -> Poll]
      BY StampedIsPoll DEF TypeOK
    <3>3. [Idle EXCEPT !.pc = "respond", !.worker = poll[p].worker, !.got = j] \in Poll
      <4>1. poll[p].worker \in Workers \union {None}
        BY DEF Poll, TypeOK
      <4> QED
        BY <4>1, RespondIsPoll
    <3> QED
      BY <3>1, <3>2, <3>3
  <2>2. poll[p].worker \in Workers \union {None}
    BY DEF TypeOK, Poll
  <2> QED
    BY <2>1, <2>2, <1>claim DEF ClaimJob, Claimable, TypeOK, Counted, Status, Terminal
<1>next. ASSUME NEW p \in Polls, NEW j \in Jobs, NextCandidate(p, j) PROVE TypeOK' /\ Counted'
  <2>1. poll[p] \in Poll /\ poll[p].candidates \ {j} \in SUBSET Jobs
    BY DEF Poll, TypeOK
  <2>2. [poll[p] EXCEPT !.candidates = poll[p].candidates \ {j}] \in Poll
    BY <2>1, PollUpdates
  <2> QED
    BY <2>2, <1>next DEF NextCandidate, row, TypeOK, Counted
<1>idle. ASSUME NEW p \in Polls, NothingToLease(p) \/ RespondLease(p) PROVE TypeOK' /\ Counted'
  BY <1>idle, IdleIsPoll DEF NothingToLease, RespondLease, row, TypeOK, Counted
<1>finish. ASSUME NEW j \in Jobs, NEW w, NEW outcome \in Terminal, FinishJob(j, w, outcome),
                  poll' \in [Polls -> Poll], UNCHANGED cancel
           PROVE TypeOK' /\ Counted'
  BY <1>finish DEF FinishJob, Holds, ClearHandoff, TypeOK, Counted, Status, Terminal
<1>unread. ASSUME NEW p \in Polls, FailUnreadSecrets(p) PROVE TypeOK' /\ Counted'
  <2>1. poll' \in [Polls -> Poll] /\ UNCHANGED cancel
    BY <1>unread, IdleIsPoll DEF FailUnreadSecrets, TypeOK
  <2>2. CASE UNCHANGED row
    BY <2>1, <2>2 DEF row, TypeOK, Counted
  <2>3. CASE FinishJob(poll[p].got, poll[p].worker, "failed")
    <3>1. CASE poll[p].got \in Jobs
      BY <2>1, <2>3, <3>1, <1>finish DEF Terminal
    <3>2. CASE poll[p].got \notin Jobs
      BY <2>1, <2>3, <3>2 DEF FinishJob, ClearHandoff, TypeOK, Counted
    <3> QED
      BY <3>1, <3>2
  <2> QED
    BY <2>2, <2>3, <1>unread DEF FailUnreadSecrets
<1>worker. ASSUME NEW j \in Jobs, NEW w \in Workers, WorkerCall(j, w) PROVE TypeOK' /\ Counted'
  <2>1. ASSUME NEW outcome \in Terminal, WorkerResult(j, w, outcome) PROVE TypeOK' /\ Counted'
    BY <2>1, <1>finish DEF WorkerResult, TypeOK
  <2>2. CASE HeartbeatJob(j, w)
    <3>1. poll' \in [Polls -> Poll]
      BY <2>2, StampedIsPoll DEF HeartbeatJob, TypeOK
    <3> QED
      BY <2>2, <3>1 DEF HeartbeatJob, TypeOK, Counted
  <2>3. CASE OpenHandoff(j, w)
    BY <2>3 DEF OpenHandoff, TypeOK, Counted
  <2>4. CASE TakeHandoffResponse(j, w)
    BY <2>4 DEF TakeHandoffResponse, TypeOK, Counted
  <2> QED
    BY <2>1, <2>2, <2>3, <2>4, <1>worker DEF WorkerCall
<1>answer. ASSUME NEW j \in Jobs, NEW t \in Tokens, AnswerHandoff(j, t) PROVE TypeOK' /\ Counted'
  BY <1>answer DEF AnswerHandoff, TypeOK, Counted
<1>cancel. ASSUME NEW c \in Cancels, CancelStep(c) PROVE TypeOK' /\ Counted'
  <2>1. ASSUME NEW j \in Jobs, CancelJob(c, j) PROVE TypeOK' /\ Counted'
    BY <2>1 DEF CancelJob, NoCancel, Cancel, row, TypeOK, Counted
  <2>2. CASE CancelQueued(c)
    <3>1. cancel' \in [Cancels -> Cancel]
      BY <2>2 DEF CancelQueued, Answered, NoCancel, Cancel, Status, Terminal, TypeOK
    <3> QED
      BY <2>2, <3>1 DEF CancelQueued, TypeOK, Counted, Status, Terminal
  <2>3. CASE CancelLeased(c)
    <3>1. cancel' \in [Cancels -> Cancel]
      BY <2>3 DEF CancelLeased, Answered, NoCancel, Cancel, Status, Terminal, TypeOK
    <3> QED
      BY <2>3, <3>1 DEF CancelLeased, TypeOK, Counted
  <2>4. CASE CancelRead(c)
    <3> DEFINE s == status[cancel[c].job]
               round == cancel[c].tries + 1
    <3>1. CASE cancel' = Answered(c, s, FALSE)
      <4>1. cancel[c].job \in Jobs /\ s \in Status
        BY <2>4 DEF CancelRead, NoCancel, Cancel, TypeOK
      <4>2. [cancel[c] EXCEPT !.pc = "answered", !.status = s, !.applied = FALSE] \in Cancel
        BY <4>1, AnsweredIsCancel DEF TypeOK
      <4> QED
        <5>1. cancel' = [cancel EXCEPT ![c] = [cancel[c] EXCEPT !.pc = "answered", !.status = s,
                                                              !.applied = FALSE]]
          BY <3>1 DEF Answered, TypeOK
        <5>2. cancel' \in [Cancels -> Cancel]
          BY <5>1, <4>2 DEF TypeOK
        <5> QED
          BY <2>4, <5>2 DEF CancelRead, row, TypeOK, Counted
    <3>2. CASE cancel' = [cancel EXCEPT ![c].pc = "queued", ![c].tries = round]
      BY <2>4, <3>2 DEF CancelRead, NoCancel, Cancel, row, TypeOK, Counted
    <3> QED
      BY <2>4, <3>1, <3>2 DEF CancelRead
  <2> QED
    BY <2>1, <2>2, <2>3, <2>4, <1>cancel DEF CancelStep
<1>stutter. CASE UNCHANGED vars
  BY <1>stutter DEF vars, row, TypeOK, Counted
<1>poll. ASSUME NEW p \in Polls, PollStep(p) PROVE TypeOK' /\ Counted'
  BY <1>scan, <1>reclaim, <1>spare, <1>queue, <1>claim, <1>next, <1>idle, <1>unread, <1>poll
  DEF PollStep
<1> QED
  BY <1>enqueue, <1>lapse, <1>poll, <1>worker, <1>answer, <1>cancel, <1>stutter DEF Next

\* The columns, the requests and the counts stay in their types: in
\* particular no job is ever lost or leased more than MaxAttempts times.
THEOREM TypeCorrect == Spec => [](TypeOK /\ Counted)
  BY TypeInit, TypeNext, PTL DEF Spec

\* Each lease of the job is counted once and there are at most MaxAttempts.
THEOREM LeaseBudgetHolds == Spec => []LeaseBudget
<1>1. TypeOK /\ Counted => LeaseBudget
  BY BoundsAssumption DEF TypeOK, Counted, LeaseBudget
<1> QED
  BY <1>1, TypeCorrect, PTL

----------------------------------------------------------------------------
\* Whatever a statement does to a row is one step of the abstract lifecycle.
\* The sweep is the case in point: its re-checks make what it read before the
\* UPDATE true again at the UPDATE.
LEMMA LifecycleStep ==
  TypeOK /\ Counted /\ [Next]_vars => [Lifecycle!Next]_(Lifecycle!vars)
<1> SUFFICES ASSUME TypeOK, Counted, [Next]_vars PROVE [Lifecycle!Next]_(Lifecycle!vars)
  OBVIOUS
<1> DEFINE Same == UNCHANGED <<status, attempts, leases, cancel_requested>>
           Goal == Same \/ \E j \in Jobs : Lifecycle!JobNext(j)
<1> SUFFICES Goal
  BY DEF Lifecycle!Next, Lifecycle!vars
<1>enqueue. ASSUME NEW j \in Jobs, EnqueueJob(j) PROVE Goal
  BY <1>enqueue DEF EnqueueJob, Lifecycle!JobNext, Lifecycle!Enqueue, Lifecycle!Moves
<1>lapse. ASSUME NEW j \in Jobs, LeaseLapses(j) PROVE Goal
  BY <1>lapse DEF LeaseLapses
<1>reclaim. ASSUME NEW p \in Polls, NEW j \in Jobs, ReclaimRow(p, j) PROVE Goal
  <2>1. ReclaimedOutcome(p, j) = Lifecycle!AfterLoss(j)
    BY <1>reclaim DEF ReclaimRow, StillReclaimable, ReclaimedOutcome, Lifecycle!AfterLoss
  <2>2. attempts' = [attempts EXCEPT ![j] = attempts[j] + 1]
    BY <1>reclaim DEF ReclaimRow, StillReclaimable
  <2> QED
    BY <1>reclaim, <2>1, <2>2
    DEF ReclaimRow, StillReclaimable, Lifecycle!JobNext, Lifecycle!Lose, Lifecycle!Moves
<1>claim. ASSUME NEW p \in Polls, NEW j \in Jobs, ClaimJob(p, j) PROVE Goal
  BY <1>claim DEF ClaimJob, Claimable, Lifecycle!JobNext, Lifecycle!Lease, Lifecycle!Moves
<1>reads. ASSUME UNCHANGED row PROVE Goal
  BY <1>reads DEF row
<1>finish. ASSUME NEW j, NEW w, NEW outcome \in Terminal, FinishJob(j, w, outcome) PROVE Goal
  <2>1. CASE j \in Jobs
    BY <2>1, <1>finish
    DEF FinishJob, Holds, Terminal, Lifecycle!JobNext, Lifecycle!Finish, Lifecycle!Moves
  <2>2. CASE j \notin Jobs
    BY <2>2, <1>finish DEF FinishJob, TypeOK
  <2> QED
    BY <2>1, <2>2
<1>worker. ASSUME NEW j \in Jobs, NEW w \in Workers, WorkerCall(j, w) PROVE Goal
  <2>1. ASSUME NEW outcome \in Terminal, WorkerResult(j, w, outcome) PROVE Goal
    BY <2>1, <1>finish DEF WorkerResult
  <2>2. CASE HeartbeatJob(j, w) \/ OpenHandoff(j, w) \/ TakeHandoffResponse(j, w)
    BY <2>2 DEF HeartbeatJob, OpenHandoff, TakeHandoffResponse
  <2> QED
    BY <2>1, <2>2, <1>worker DEF WorkerCall
<1>poll. ASSUME NEW p \in Polls, PollStep(p) PROVE Goal
  <2>1. CASE FailUnreadSecrets(p)
    BY <2>1, <1>finish, <1>reads DEF FailUnreadSecrets, Terminal
  <2>2. CASE \/ \E w \in Workers : SweepScan(p, w)
             \/ \E j \in Jobs : SpareRow(p, j) \/ NextCandidate(p, j)
             \/ QueueScan(p) \/ NothingToLease(p) \/ RespondLease(p)
    BY <2>2, <1>reads
    DEF SweepScan, SpareRow, NextCandidate, QueueScan, NothingToLease, RespondLease
  <2> QED
    BY <2>1, <2>2, <1>reclaim, <1>claim, <1>poll DEF PollStep
<1>cancel. ASSUME NEW c \in Cancels, CancelStep(c) PROVE Goal
  <2>1. CASE CancelQueued(c)
    <3>1. cancel[c].job \in Jobs
      BY <2>1 DEF CancelQueued, NoCancel, Cancel, TypeOK
    <3> QED
      BY <2>1, <3>1
      DEF CancelQueued, Lifecycle!JobNext, Lifecycle!CancelQueued, Lifecycle!Moves
  <2>2. CASE CancelLeased(c)
    <3>1. cancel[c].job \in Jobs
      BY <2>2 DEF CancelLeased, NoCancel, Cancel, TypeOK
    <3> QED
      BY <2>2, <3>1 DEF CancelLeased, Lifecycle!JobNext, Lifecycle!FlagLeased
  <2>3. CASE CancelRead(c) \/ \E j \in Jobs : CancelJob(c, j)
    BY <2>3, <1>reads DEF CancelRead, CancelJob
  <2> QED
    BY <2>1, <2>2, <2>3, <1>cancel DEF CancelStep
<1>answer. ASSUME NEW j \in Jobs, NEW t \in Tokens, AnswerHandoff(j, t) PROVE Goal
  BY <1>answer DEF AnswerHandoff
<1>stutter. CASE UNCHANGED vars
  BY <1>stutter, <1>reads DEF vars
<1> HIDE DEF Goal
<1> QED
  BY <1>enqueue, <1>lapse, <1>poll, <1>worker, <1>answer, <1>cancel, <1>stutter DEF Next

\* The jobs table implements the job lifecycle.
THEOREM JobQueueImplementsLifecycle == Spec => ImplementsLifecycle
<1>1. Init => Lifecycle!Init
  BY DEF Init, Lifecycle!Init
<1>2. TypeOK /\ Counted /\ [Next]_vars => [Lifecycle!Next]_(Lifecycle!vars)
  BY LifecycleStep
<1> QED
  BY <1>1, <1>2, TypeCorrect, PTL DEF Spec, ImplementsLifecycle, Lifecycle!Spec

----------------------------------------------------------------------------
\* The owner, the cancel flag and the handoff of a lease are gone when it is.
LEMMA OutlivesNext ==
  TypeOK /\ Counted /\ NothingOutlivesTheLease /\ [Next]_vars => NothingOutlivesTheLease'
<1> SUFFICES ASSUME TypeOK, Counted, NothingOutlivesTheLease, [Next]_vars
             PROVE  NothingOutlivesTheLease'
  OBVIOUS
<1> USE DEF NothingOutlivesTheLease
<1>enqueue. ASSUME NEW j \in Jobs, EnqueueJob(j) \/ LeaseLapses(j) PROVE NothingOutlivesTheLease'
  BY <1>enqueue DEF EnqueueJob, LeaseLapses, TypeOK
<1>reclaim. ASSUME NEW p \in Polls, NEW j \in Jobs, ReclaimRow(p, j)
            PROVE  NothingOutlivesTheLease'
  <2>1. ReclaimedOutcome(p, j) = "queued" => ~cancel_requested[j]
    BY <1>reclaim DEF ReclaimRow, StillReclaimable, ReclaimedOutcome
  <2>2. ReclaimedOutcome(p, j) # "absent"
    BY DEF ReclaimedOutcome
  <2> QED
    BY <1>reclaim, <2>1, <2>2 DEF ReclaimRow, ClearHandoff, TypeOK
<1>claim. ASSUME NEW p \in Polls, NEW j \in Jobs, ClaimJob(p, j) PROVE NothingOutlivesTheLease'
  BY <1>claim DEF ClaimJob, TypeOK
<1>reads. ASSUME UNCHANGED row PROVE NothingOutlivesTheLease'
  BY <1>reads DEF row
<1>finish. ASSUME NEW j, NEW w, NEW outcome \in Terminal, FinishJob(j, w, outcome)
           PROVE  NothingOutlivesTheLease'
  BY <1>finish DEF FinishJob, Holds, ClearHandoff, Terminal, TypeOK
<1>worker. ASSUME NEW j \in Jobs, NEW w \in Workers, WorkerCall(j, w)
           PROVE  NothingOutlivesTheLease'
  <2>1. ASSUME NEW outcome \in Terminal, WorkerResult(j, w, outcome)
        PROVE  NothingOutlivesTheLease'
    BY <2>1, <1>finish DEF WorkerResult
  <2>2. CASE HeartbeatJob(j, w)
    BY <2>2 DEF HeartbeatJob
  <2>3. CASE OpenHandoff(j, w) \/ TakeHandoffResponse(j, w)
    BY <2>3 DEF OpenHandoff, TakeHandoffResponse, Holds, TypeOK
  <2> QED
    BY <2>1, <2>2, <2>3, <1>worker DEF WorkerCall
<1>poll. ASSUME NEW p \in Polls, PollStep(p) PROVE NothingOutlivesTheLease'
  <2>1. CASE FailUnreadSecrets(p)
    BY <2>1, <1>finish, <1>reads DEF FailUnreadSecrets, Terminal
  <2>2. CASE \/ \E w \in Workers : SweepScan(p, w)
             \/ \E j \in Jobs : SpareRow(p, j) \/ NextCandidate(p, j)
             \/ QueueScan(p) \/ NothingToLease(p) \/ RespondLease(p)
    BY <2>2, <1>reads
    DEF SweepScan, SpareRow, NextCandidate, QueueScan, NothingToLease, RespondLease
  <2> QED
    BY <2>1, <2>2, <1>reclaim, <1>claim, <1>poll DEF PollStep
<1>cancel. ASSUME NEW c \in Cancels, CancelStep(c) PROVE NothingOutlivesTheLease'
  <2>1. CASE CancelQueued(c)
    BY <2>1 DEF CancelQueued, TypeOK
  <2>2. CASE CancelLeased(c)
    BY <2>2 DEF CancelLeased, TypeOK
  <2>3. CASE CancelRead(c) \/ \E j \in Jobs : CancelJob(c, j)
    BY <2>3, <1>reads DEF CancelRead, CancelJob
  <2> QED
    BY <2>1, <2>2, <2>3, <1>cancel DEF CancelStep
<1>answer. ASSUME NEW j \in Jobs, NEW t \in Tokens, AnswerHandoff(j, t)
           PROVE  NothingOutlivesTheLease'
  BY <1>answer DEF AnswerHandoff, TypeOK
<1>stutter. CASE UNCHANGED vars
  BY <1>stutter, <1>reads DEF vars
<1> QED
  BY <1>enqueue, <1>poll, <1>worker, <1>answer, <1>cancel, <1>stutter DEF Next

\* No cancel flag, owner or one-time password survives the lease it was for.
THEOREM NothingOutlivesHolds == Spec => []NothingOutlivesTheLease
<1>1. Init => NothingOutlivesTheLease
  BY DEF Init, NothingOutlivesTheLease
<1> QED
  BY <1>1, OutlivesNext, TypeCorrect, PTL DEF Spec

----------------------------------------------------------------------------
\* A finished row is left alone by every statement.
LEMMA FinishedStep ==
  ASSUME TypeOK, Counted, NothingOutlivesTheLease, [Next]_vars,
         NEW j \in Jobs, status[j] \in Terminal
  PROVE  UNCHANGED <<status[j], attempts[j], leases[j], cancel_requested[j], handoff_response[j]>>
<1>1. UNCHANGED <<status[j], attempts[j], leases[j], cancel_requested[j]>>
  <2>1. CASE UNCHANGED Lifecycle!vars
    BY <2>1 DEF Lifecycle!vars
  <2>2. ASSUME NEW i \in Jobs, Lifecycle!JobNext(i)
        PROVE  UNCHANGED <<status[j], attempts[j], leases[j], cancel_requested[j]>>
    <3>1. i # j
      BY <2>2 DEF Lifecycle!JobNext, Lifecycle!Enqueue, Lifecycle!Lease, Lifecycle!Lose,
                  Lifecycle!Finish, Lifecycle!CancelQueued, Lifecycle!FlagLeased,
                  Lifecycle!Moves, Terminal
    <3> QED
      BY <2>2, <3>1 DEF Lifecycle!JobNext, Lifecycle!Enqueue, Lifecycle!Lease, Lifecycle!Lose,
                  Lifecycle!Finish, Lifecycle!CancelQueued, Lifecycle!FlagLeased,
                  Lifecycle!Moves, TypeOK
  <2> QED
    BY <2>1, <2>2, LifecycleStep DEF Lifecycle!Next
<1>2. status'[j] \in Terminal
  BY <1>1
<1>3. handoff_response[j] = None
  BY DEF NothingOutlivesTheLease, Terminal
<1> QED
  BY <1>1, <1>2, <1>3, OutlivesNext DEF NothingOutlivesTheLease, Terminal

\* A finished job's outcome and counts are final.
THEOREM FinishedStaysFinishedHolds == Spec => FinishedStaysFinished
<1>1. TypeOK /\ Counted /\ NothingOutlivesTheLease /\ [Next]_vars =>
        [\A j \in Jobs : status[j] \in Terminal =>
           UNCHANGED <<status[j], attempts[j], leases[j], cancel_requested[j],
                       handoff_response[j]>>]_vars
  BY FinishedStep
<1> QED
  BY <1>1, TypeCorrect, NothingOutlivesHolds, PTL DEF Spec, FinishedStaysFinished

----------------------------------------------------------------------------
(* The cancel's retry loop.  A round that misses twice saw the row leased    *)
(* at its first UPDATE and queued at its second: a lease was lost in         *)
(* between, so every finished round has cost the job an attempt.             *)

Live(j) == status[j] \notin Terminal

RoundsCostAttempts(c) ==
  LET j == cancel[c].job IN
  /\ cancel[c].pc \in {"queued", "leased", "read"} =>
       status[j] # "absent" /\ cancel[c].tries <= attempts[j]
  /\ cancel[c].pc = "leased" => status[j] # "queued" \/ cancel[c].tries + 1 <= attempts[j]
  /\ cancel[c].pc = "read" /\ Live(j) => cancel[c].tries + 1 <= attempts[j]

AnswerHolds(c) ==
  LET j == cancel[c].job IN
  cancel[c].pc = "answered" =>
    IF cancel[c].applied
    THEN ~Live(j) \/ (status[j] = "leased" /\ cancel_requested[j])
    ELSE ~Live(j)

CancelInv == \A c \in Cancels : RoundsCostAttempts(c) /\ AnswerHolds(c)

\* How one row moves, whatever the statement: what the cancel's rounds need.
RowMoves(j) ==
  /\ attempts'[j] \in Nat /\ attempts[j] <= attempts'[j]
  /\ status[j] # "absent" => status'[j] # "absent"
  /\ status[j] \in Terminal => status'[j] \in Terminal
  /\ status[j] \notin {"absent", "queued"} /\ status'[j] = "queued" => attempts'[j] = attempts[j] + 1
  /\ status[j] = "leased" /\ cancel_requested[j] =>
       status'[j] \in Terminal \/ (status'[j] = "leased" /\ cancel_requested'[j])

\* No statement moves a row in any other way: from the lifecycle refinement.
LEMMA EveryRowMoves ==
  ASSUME TypeOK, Counted, [Next]_vars, NEW j \in Jobs
  PROVE  RowMoves(j)
<1>0. attempts[j] \in Nat
  BY BoundsAssumption DEF TypeOK
<1>1. CASE UNCHANGED Lifecycle!vars
  BY <1>0, <1>1 DEF Lifecycle!vars, RowMoves, Terminal
<1>2. ASSUME NEW i \in Jobs, Lifecycle!JobNext(i) PROVE RowMoves(j)
  <2> USE <1>0 DEF Lifecycle!Moves, TypeOK, RowMoves, Terminal
  <2>1. CASE Lifecycle!Enqueue(i) \/ Lifecycle!Lease(i)
    BY <2>1 DEF Lifecycle!Enqueue, Lifecycle!Lease
  <2>2. CASE Lifecycle!Lose(i)
    BY <2>2 DEF Lifecycle!Lose, Lifecycle!AfterLoss
  <2>3. CASE Lifecycle!Finish(i) \/ Lifecycle!CancelQueued(i)
    BY <2>3 DEF Lifecycle!Finish, Lifecycle!CancelQueued
  <2>4. CASE Lifecycle!FlagLeased(i)
    BY <2>4 DEF Lifecycle!FlagLeased
  <2> QED
    BY <1>2, <2>1, <2>2, <2>3, <2>4 DEF Lifecycle!JobNext
<1> QED
  BY <1>1, <1>2, LifecycleStep DEF Lifecycle!Next

\* A request that started names a job and has a count of rounds.
LEMMA CancelIdle ==
  ASSUME TypeOK, NEW c \in Cancels, cancel[c].pc # "idle"
  PROVE  /\ cancel[c].job \in Jobs /\ cancel[c].tries \in Nat
         /\ attempts[cancel[c].job] \in Nat
  BY BoundsAssumption DEF TypeOK, Cancel, NoCancel

\* A step that is not the request's own leaves its claims true.
LEMMA OthersKeepTheCancel ==
  ASSUME TypeOK, Counted, CancelInv, [Next]_vars, NEW c \in Cancels, cancel'[c] = cancel[c]
  PROVE  (RoundsCostAttempts(c) /\ AnswerHolds(c))'
<1>1. CASE cancel[c].pc = "idle"
  BY <1>1 DEF RoundsCostAttempts, AnswerHolds
<1>2. CASE cancel[c].pc # "idle"
  <2> DEFINE j == cancel[c].job
  <2>1. j \in Jobs /\ cancel[c].tries \in Nat /\ attempts[j] \in Nat
    BY <1>2, CancelIdle
  <2>2. RowMoves(j)
    BY <2>1, EveryRowMoves
  <2>3. status[j] \in Status
    BY <2>1 DEF TypeOK
  <2>4. RoundsCostAttempts(c)'
    BY <2>1, <2>2, <2>3 DEF CancelInv, RoundsCostAttempts, RowMoves, Live, Terminal, Status
  <2>5. AnswerHolds(c)'
    BY <2>1, <2>2, <2>3 DEF CancelInv, AnswerHolds, RowMoves, Live, Terminal, Status
  <2> QED
    BY <2>4, <2>5
<1> QED
  BY <1>1, <1>2

\* What cancel_job's return writes into the request.
LEMMA AnsweredFields ==
  ASSUME TypeOK, NEW c \in Cancels, NEW s, NEW applied \in BOOLEAN, cancel' = Answered(c, s, applied)
  PROVE  /\ cancel'[c].pc = "answered" /\ cancel'[c].job = cancel[c].job
         /\ cancel'[c].applied = applied
<1>1. cancel'[c] = [cancel[c] EXCEPT !.pc = "answered", !.status = s, !.applied = applied]
  BY DEF Answered, TypeOK
<1>2. DOMAIN cancel[c] = {"pc", "job", "tries", "status", "applied"}
  BY DEF TypeOK, Cancel, NoCancel
<1> QED
  BY <1>1, <1>2

\* What an answer has to say of the row, to be true.
LEMMA AnsweredGoal ==
  ASSUME NEW c \in Cancels, NEW j, cancel'[c].pc = "answered", cancel'[c].job = j,
         \/ status'[j] \in Terminal
         \/ cancel'[c].applied /\ status'[j] = "leased" /\ cancel_requested'[j]
  PROVE  (RoundsCostAttempts(c) /\ AnswerHolds(c))'
  BY DEF RoundsCostAttempts, AnswerHolds, Live

\* The retry loop keeps its accounting, its own rounds included.
LEMMA CancelNext == TypeOK /\ Counted /\ CancelInv /\ [Next]_vars => CancelInv'
<1> SUFFICES ASSUME TypeOK, Counted, CancelInv, [Next]_vars, NEW c \in Cancels
             PROVE  (RoundsCostAttempts(c) /\ AnswerHolds(c))'
  BY DEF CancelInv
<1> DEFINE Goal == (RoundsCostAttempts(c) /\ AnswerHolds(c))'
           j == cancel[c].job
<1>start. ASSUME NEW i \in Jobs, CancelJob(c, i) PROVE Goal
  <2>1. cancel'[c] = [NoCancel EXCEPT !.pc = "queued", !.job = i]
    BY <1>start DEF CancelJob, TypeOK
  <2>2. cancel'[c].pc = "queued" /\ cancel'[c].job = i /\ cancel'[c].tries = 0
    BY <2>1 DEF NoCancel
  <2>3. attempts[i] \in Nat
    BY BoundsAssumption DEF TypeOK
  <2> QED
    BY <1>start, <2>2, <2>3 DEF CancelJob, row, RoundsCostAttempts, AnswerHolds
<1>queued. ASSUME CancelQueued(c) PROVE Goal
  <2>1. j \in Jobs /\ cancel[c].tries \in Nat /\ attempts[j] \in Nat /\ status[j] \in Status
    BY <1>queued, CancelIdle DEF CancelQueued, TypeOK
  <2>2. CASE status[j] = "queued"
    <3>1. status'[j] = "cancelled"
      BY <1>queued, <2>1, <2>2 DEF CancelQueued, TypeOK
    <3>2. cancel'[c].pc = "answered" /\ cancel'[c].job = j /\ cancel'[c].applied
      BY <1>queued, <2>2, AnsweredFields DEF CancelQueued
    <3> QED
      BY <3>1, <3>2, AnsweredGoal DEF Terminal
  <2>3. CASE status[j] # "queued"
    <3>1. UNCHANGED <<status, attempts>>
      BY <1>queued, <2>3 DEF CancelQueued
    <3>2. cancel'[c].pc = "leased" /\ cancel'[c].job = j /\ cancel'[c].tries = cancel[c].tries
      BY <1>queued, <2>3 DEF CancelQueued, Cancel, NoCancel, TypeOK
    <3> QED
      BY <1>queued, <2>1, <2>3, <3>1, <3>2
      DEF CancelQueued, RoundsCostAttempts, AnswerHolds, CancelInv
  <2> QED
    BY <2>2, <2>3
<1>leased. ASSUME CancelLeased(c) PROVE Goal
  <2>1. j \in Jobs /\ cancel[c].tries \in Nat /\ attempts[j] \in Nat /\ status[j] \in Status
    BY <1>leased, CancelIdle DEF CancelLeased, TypeOK
  <2>2. CASE status[j] = "leased"
    <3>1. status'[j] = "leased" /\ cancel_requested'[j]
      BY <1>leased, <2>1, <2>2 DEF CancelLeased, TypeOK
    <3>2. cancel'[c].pc = "answered" /\ cancel'[c].job = j /\ cancel'[c].applied
      BY <1>leased, <2>2, AnsweredFields DEF CancelLeased
    <3> QED
      BY <3>1, <3>2, AnsweredGoal
  <2>3. CASE status[j] # "leased"
    <3>1. UNCHANGED <<status, attempts>>
      BY <1>leased, <2>3 DEF CancelLeased
    <3>2. cancel'[c].pc = "read" /\ cancel'[c].job = j /\ cancel'[c].tries = cancel[c].tries
      BY <1>leased, <2>3 DEF CancelLeased, Cancel, NoCancel, TypeOK
    <3> QED
      BY <1>leased, <2>1, <2>3, <3>1, <3>2
      DEF CancelLeased, RoundsCostAttempts, AnswerHolds, Live, Terminal, Status, CancelInv
  <2> QED
    BY <2>2, <2>3
<1>read. ASSUME CancelRead(c) PROVE Goal
  <2>1. j \in Jobs /\ cancel[c].tries \in Nat /\ attempts[j] \in Nat /\ status[j] \in Status
    BY <1>read, CancelIdle DEF CancelRead, TypeOK
  <2>2. UNCHANGED <<status, attempts>>
    BY <1>read DEF CancelRead, row
  <2>3. CASE status[j] \in Terminal
    <3>1. cancel'[c].pc = "answered" /\ cancel'[c].job = j
      BY <1>read, <2>3, AnsweredFields DEF CancelRead
    <3> QED
      BY <2>2, <2>3, <3>1, AnsweredGoal
  <2>4. CASE status[j] \notin Terminal
    <3>1. /\ status[j] # "absent"
          /\ cancel[c].tries + 1 <= attempts[j] /\ attempts[j] < MaxAttempts
      BY <1>read, <2>1, <2>4
      DEF CancelRead, CancelInv, RoundsCostAttempts, Live, Counted, Status
    <3>2. ~(cancel[c].tries + 1 >= CancelAttempts)
      BY <2>1, <3>1, BoundsAssumption, RetryAssumption
    <3>3. cancel' = [cancel EXCEPT ![c].pc = "queued", ![c].tries = cancel[c].tries + 1]
      BY <1>read, <2>4, <3>2 DEF CancelRead
    <3>4. /\ cancel'[c].pc = "queued" /\ cancel'[c].job = j
          /\ cancel'[c].tries = cancel[c].tries + 1
      BY <3>3 DEF Cancel, NoCancel, TypeOK
    <3> QED
      BY <2>2, <3>1, <3>4 DEF RoundsCostAttempts, AnswerHolds
  <2> QED
    BY <2>3, <2>4
<1>other. ASSUME cancel'[c] = cancel[c] PROVE Goal
  BY <1>other, OthersKeepTheCancel
<1> HIDE DEF Goal
<1>steps. ASSUME NEW d \in Cancels, CancelStep(d) PROVE Goal
  <2>1. CASE d = c
    BY <2>1, <1>steps, <1>start, <1>queued, <1>leased, <1>read DEF CancelStep
  <2>2. CASE d # c
    <3>1. cancel'[c] = cancel[c]
      BY <2>2, <1>steps DEF CancelStep, CancelJob, CancelQueued, CancelLeased, CancelRead,
                            Answered, TypeOK
    <3> QED
      BY <3>1, <1>other
  <2> QED
    BY <2>1, <2>2
<1>rest. ASSUME UNCHANGED cancel PROVE Goal
  BY <1>rest, <1>other
<1>poll. ASSUME NEW p \in Polls, PollStep(p) PROVE UNCHANGED cancel
  BY <1>poll DEF PollStep, SweepScan, ReclaimRow, SpareRow, ClaimJob, NextCandidate,
                 QueueScan, NothingToLease, RespondLease, FailUnreadSecrets
<1>call. ASSUME NEW i \in Jobs, NEW w \in Workers, WorkerCall(i, w) PROVE UNCHANGED cancel
  BY <1>call DEF WorkerCall, WorkerResult, HeartbeatJob, OpenHandoff, TakeHandoffResponse
<1>row. ASSUME NEW i \in Jobs, EnqueueJob(i) \/ LeaseLapses(i) PROVE UNCHANGED cancel
  BY <1>row DEF EnqueueJob, LeaseLapses
<1>answer. ASSUME NEW i \in Jobs, NEW t \in Tokens, AnswerHandoff(i, t) PROVE UNCHANGED cancel
  BY <1>answer DEF AnswerHandoff
<1> QED
  BY <1>steps, <1>rest, <1>poll, <1>call, <1>row, <1>answer DEF Next, vars, Goal

\* The accounting of cancel_job's rounds is an invariant.
LEMMA CancelAlways == Spec => []CancelInv
<1>1. Init => CancelInv
  BY DEF Init, CancelInv, RoundsCostAttempts, AnswerHolds, NoCancel
<1> QED
  BY <1>1, CancelNext, TypeCorrect, PTL DEF Spec

\* A cancel is answered "not applied" only for a job that is already over:
\* the retry loop cannot run dry while the job still has attempts to lose.
THEOREM CancelNeverRefusedToALiveJob == Spec => []CancelIsNeverRefusedToALiveJob
<1>1. CancelInv => CancelIsNeverRefusedToALiveJob
  BY DEF CancelInv, AnswerHolds, Live, CancelIsNeverRefusedToALiveJob
<1> QED
  BY <1>1, CancelAlways, PTL

\* An applied cancel is never dropped by a later reclaim or lease.
THEOREM AppliedCancelAlwaysHolds == Spec => []AppliedCancelHolds
<1>1. CancelInv => AppliedCancelHolds
  BY DEF CancelInv, AnswerHolds, Live, AppliedCancelHolds
<1> QED
  BY <1>1, CancelAlways, PTL

----------------------------------------------------------------------------
(* A renewed lease and the sweeps that scanned the row before.               *)

\* Rows a sweep took for expired are expired as long as they are leased: a
\* claim or a heartbeat takes the row out of every sweep's reach.
OldHasLapsed ==
  \A p \in Polls : \A j \in poll[p].old : status[j] = "leased" => lapsed[j]

\* Without clock skew a stamp moves the row past every cutoff.
LEMMA StampedOld ==
  ASSUME poll \in [Polls -> Poll], NEW j, ~ClockSkew, NEW ahead \in SkewedPolls, NEW q \in Polls
  PROVE  Stamped(poll, j, ahead)[q].old = poll[q].old \ {j}
<1>1. ahead = {}
  BY DEF SkewedPolls
<1>2. Stamped(poll, j, ahead)[q] = [poll[q] EXCEPT !.old = poll[q].old \ {j}]
  BY <1>1 DEF Stamped
<1> QED
  BY <1>2 DEF Poll

\* The sweep's SELECT returns expired rows, and every statement that renews
\* or grants a lease stamps it.
LEMMA OldNext ==
  ASSUME ~ClockSkew, TypeOK, OldHasLapsed, [Next]_vars
  PROVE  OldHasLapsed'
<1> DEFINE Same == \A p \in Polls : poll'[p].old \subseteq poll[p].old
           Rows == \A j \in Jobs : status'[j] = "leased" =>
                     status[j] = "leased" /\ (lapsed[j] => lapsed'[j])
<1> USE DEF TypeOK
<1>0. \A p \in Polls : poll[p].old \subseteq Jobs
  BY DEF Poll
<1>same. ASSUME Same, Rows PROVE OldHasLapsed'
  BY <1>0, <1>same DEF OldHasLapsed
<1>enqueue. ASSUME NEW j \in Jobs, EnqueueJob(j) PROVE OldHasLapsed'
  <2>1. Same /\ Rows
    BY <1>enqueue DEF EnqueueJob
  <2> QED
    BY <2>1, <1>same
<1>lapse. ASSUME NEW j \in Jobs, LeaseLapses(j) PROVE OldHasLapsed'
  <2>1. Same /\ Rows
    BY <1>lapse DEF LeaseLapses
  <2> QED
    BY <2>1, <1>same
<1>scan. ASSUME NEW p \in Polls, NEW w \in Workers, SweepScan(p, w) PROVE OldHasLapsed'
  <2> DEFINE old == {j \in Jobs : status[j] = "leased" /\ lapsed[j]}
  <2>1. poll'[p].old = old /\ \A q \in Polls : q # p => poll'[q] = poll[q]
    <3>1. PICK due :
            poll' = [poll EXCEPT ![p] =
                       [Idle EXCEPT !.pc = "sweep", !.worker = w, !.due = due, !.old = old,
                          !.attempts = [j \in Jobs |-> IF j \in due THEN attempts[j] ELSE 0],
                          !.cancelling = {j \in due : cancel_requested[j]}]]
      BY <1>scan DEF SweepScan
    <3> HIDE DEF old
    <3> QED
      BY <3>1 DEF Idle
  <2>2. UNCHANGED <<status, lapsed>>
    BY <1>scan DEF SweepScan, row
  <2> QED
    BY <2>1, <2>2 DEF OldHasLapsed
<1>reclaim. ASSUME NEW p \in Polls, NEW j \in Jobs, ReclaimRow(p, j) PROVE OldHasLapsed'
  <2>1. Same
    BY <1>reclaim DEF ReclaimRow, Passed, Poll
  <2>2. status'[j] # "leased"
    BY <1>reclaim DEF ReclaimRow, ReclaimedOutcome
  <2>3. Rows
    BY <1>reclaim, <2>2 DEF ReclaimRow
  <2> QED
    BY <2>1, <2>3, <1>same
<1>spare. ASSUME NEW p \in Polls, NEW j \in Jobs, SpareRow(p, j) \/ NextCandidate(p, j)
          PROVE OldHasLapsed'
  <2>1. Same
    <3>1. CASE poll' = [poll EXCEPT ![p] = [poll[p] EXCEPT !.due = poll[p].due \ {j}]]
      BY <3>1 DEF Poll
    <3>2. CASE poll' = [poll EXCEPT ![p] = [poll[p] EXCEPT !.candidates = poll[p].candidates \ {j}]]
      BY <3>2 DEF Poll
    <3> HIDE DEF Same, Rows
    <3> QED
      BY <3>1, <3>2, <1>spare DEF SpareRow, NextCandidate, Passed
  <2>2. Rows
    BY <1>spare DEF SpareRow, NextCandidate, row
  <2> QED
    BY <2>1, <2>2, <1>same
<1>queue. ASSUME NEW p \in Polls,
                 QueueScan(p) \/ NothingToLease(p) \/ RespondLease(p)
          PROVE OldHasLapsed'
  <2>1. poll'[p].old = {}
    <3>1. CASE QueueScan(p)
      BY <3>1 DEF QueueScan, Idle
    <3> QED
      BY <3>1, <1>queue DEF NothingToLease, RespondLease, Idle
  <2>2. \A q \in Polls : q # p => poll'[q] = poll[q]
    <3> HIDE DEF Same, Rows
    <3> QED
      BY <1>queue DEF QueueScan, NothingToLease, RespondLease
  <2>3. Rows
    BY <1>queue DEF QueueScan, NothingToLease, RespondLease, row
  <2> QED
    BY <2>1, <2>2, <2>3, <1>same
<1>claim. ASSUME NEW p \in Polls, NEW j \in Jobs, ClaimJob(p, j) PROVE OldHasLapsed'
  <2>1. PICK ahead \in SkewedPolls :
          poll' = [Stamped(poll, j, ahead) EXCEPT
                     ![p] = [Idle EXCEPT !.pc = "respond", !.worker = poll[p].worker, !.got = j]]
    BY <1>claim DEF ClaimJob
  <2>2. Stamped(poll, j, ahead) \in [Polls -> Poll]
    BY StampedIsPoll
  <2>3. poll'[p].old = {}
    BY <2>1, <2>2 DEF Idle
  <2>4. \A q \in Polls : q # p => poll'[q].old = poll[q].old \ {j}
    BY <2>1, <2>2, StampedOld
  <2>5. \A i \in Jobs : i # j => status'[i] = status[i] /\ lapsed'[i] = lapsed[i]
    BY <1>claim DEF ClaimJob
  <2> QED
    BY <2>3, <2>4, <2>5, <1>0 DEF OldHasLapsed
<1>finish. ASSUME NEW j, NEW w, NEW outcome \in Terminal, FinishJob(j, w, outcome), Same
           PROVE OldHasLapsed'
  <2>1. Rows
    BY <1>finish DEF FinishJob, Terminal
  <2> QED
    BY <2>1, <1>finish, <1>same
<1>unread. ASSUME NEW p \in Polls, FailUnreadSecrets(p) PROVE OldHasLapsed'
  <2>1. Same
    BY <1>unread DEF FailUnreadSecrets, Idle
  <2>2. CASE UNCHANGED row
    BY <2>1, <2>2, <1>same DEF row
  <2>3. CASE FinishJob(poll[p].got, poll[p].worker, "failed")
    BY <2>1, <2>3, <1>finish DEF Terminal
  <2> QED
    BY <2>2, <2>3, <1>unread DEF FailUnreadSecrets
<1>worker. ASSUME NEW j \in Jobs, NEW w \in Workers, WorkerCall(j, w) PROVE OldHasLapsed'
  <2>1. ASSUME NEW outcome \in Terminal, WorkerResult(j, w, outcome) PROVE OldHasLapsed'
    BY <2>1, <1>finish DEF WorkerResult
  <2>2. CASE HeartbeatJob(j, w)
    <3>1. \A q \in Polls : poll'[q].old = poll[q].old \ {j}
      BY <2>2, StampedOld DEF HeartbeatJob
    <3>2. \A i \in Jobs : i # j => status'[i] = status[i] /\ lapsed'[i] = lapsed[i]
      BY <2>2 DEF HeartbeatJob
    <3> QED
      BY <3>1, <3>2, <1>0 DEF OldHasLapsed
  <2>3. CASE OpenHandoff(j, w) \/ TakeHandoffResponse(j, w)
    <3>1. Same /\ Rows
      BY <2>3 DEF OpenHandoff, TakeHandoffResponse
    <3> QED
      BY <3>1, <1>same
  <2> QED
    BY <2>1, <2>2, <2>3, <1>worker DEF WorkerCall
<1>answer. ASSUME NEW j \in Jobs, NEW t \in Tokens, AnswerHandoff(j, t) PROVE OldHasLapsed'
  <2>1. Same /\ Rows
    BY <1>answer DEF AnswerHandoff
  <2> QED
    BY <2>1, <1>same
<1>cancel. ASSUME NEW c \in Cancels, CancelStep(c) PROVE OldHasLapsed'
  <2>1. Same
    BY <1>cancel DEF CancelStep, CancelJob, CancelQueued, CancelLeased, CancelRead
  <2>2. Rows
    BY <1>cancel DEF CancelStep, CancelJob, CancelQueued, CancelLeased, CancelRead, row
  <2> QED
    BY <2>1, <2>2, <1>same
<1>stutter. CASE UNCHANGED vars
  BY <1>stutter DEF vars, row, OldHasLapsed
<1>poll. ASSUME NEW p \in Polls, PollStep(p) PROVE OldHasLapsed'
  BY <1>scan, <1>reclaim, <1>spare, <1>queue, <1>claim, <1>unread, <1>poll DEF PollStep
<1> QED
  BY <1>enqueue, <1>lapse, <1>poll, <1>worker, <1>answer, <1>cancel, <1>stutter DEF Next

\* Only the sweep's UPDATE counts an attempt, on a row it took for expired.
LEMMA OnlySweepsCount ==
  ASSUME TypeOK, Counted, OldHasLapsed, [Next]_vars, NEW j \in Jobs,
         status[j] = "leased", ~lapsed[j]
  PROVE  attempts'[j] = attempts[j]
<1>1. ASSUME NEW p \in Polls, NEW i \in Jobs, ReclaimRow(p, i) PROVE attempts'[j] = attempts[j]
  <2>1. i \in poll[p].old /\ status[i] = "leased"
    BY <1>1 DEF ReclaimRow, StillReclaimable
  <2>2. i # j
    BY <2>1 DEF OldHasLapsed
  <2> QED
    BY <1>1, <2>2 DEF ReclaimRow, TypeOK
<1>2. CASE UNCHANGED attempts
  BY <1>2
<1>3. (\E p \in Polls, i \in Jobs : ReclaimRow(p, i)) \/ UNCHANGED attempts
  <2>1. ASSUME NEW p \in Polls, PollStep(p), ~\E i \in Jobs : ReclaimRow(p, i)
        PROVE  UNCHANGED attempts
    BY <2>1 DEF PollStep, SweepScan, SpareRow, ClaimJob, NextCandidate, QueueScan, NothingToLease,
                RespondLease, FailUnreadSecrets, FinishJob, row
  <2>2. ASSUME NEW c \in Cancels, CancelStep(c) PROVE UNCHANGED attempts
    BY <2>2 DEF CancelStep, CancelJob, CancelQueued, CancelLeased, CancelRead, row
  <2>3. ASSUME NEW i \in Jobs, NEW w \in Workers, WorkerCall(i, w) PROVE UNCHANGED attempts
    BY <2>3 DEF WorkerCall, WorkerResult, FinishJob, HeartbeatJob, OpenHandoff, TakeHandoffResponse
  <2> QED
    BY <2>1, <2>2, <2>3 DEF Next, EnqueueJob, LeaseLapses, AnswerHandoff, vars, row
<1> QED
  BY <1>1, <1>3

\* On one clock, a lease its worker renewed in time is not taken by a sweep
\* that saw the row expired before (reclaim_expired_leases' leased_at
\* re-check), whatever callers send.
THEOREM RenewedLeaseIsSparedHolds ==
  ASSUME ~ClockSkew
  PROVE  Spec => RenewedLeaseIsSpared
<1>1. Init => OldHasLapsed
  BY DEF Init, OldHasLapsed, Idle
<1>2. TypeOK /\ OldHasLapsed /\ [Next]_vars => OldHasLapsed'
  BY OldNext
<1>3. TypeOK /\ Counted /\ OldHasLapsed /\ [Next]_vars =>
        [\A j \in Jobs : status[j] = "leased" /\ ~lapsed[j] => attempts'[j] = attempts[j]]_vars
  BY OnlySweepsCount
<1>4. Spec => [](TypeOK /\ Counted)
  BY TypeCorrect
<1> QED
  BY <1>1, <1>2, <1>3, <1>4, PTL DEF Spec, RenewedLeaseIsSpared
----------------------------------------------------------------------------
(* The worker program: every call it makes is one the table allows, and the  *)
(* run whose result ends a job is its current lease's.                       *)

\* A serial worker has one slot; see the README on a device-cloud worker's.
OneSlotEach == \A s, t \in Slots : SlotWorker[s] = SlotWorker[t] => s = t

\* What a request or a slot holds once it is under way.
PollIsWhole(p) ==
  /\ poll[p].pc # "idle" => poll[p].worker \in Workers
  /\ poll[p].pc = "respond" => poll[p].got \in Jobs

SlotIsWhole(s) ==
  /\ slot[s].pc # "free" => slot[s].job \in Jobs
  /\ slot[s].pc = "posting" => slot[s].result \in Terminal

\* The request a worker waits for is its own, and it keeps a place for the
\* answer.
WaitsFor(w) ==
  asked[w] # None =>
    /\ poll[asked[w]].pc # "idle" /\ poll[asked[w]].worker = w
    /\ \A s \in Slots : SlotWorker[s] = w => slot[s].pc = "free"

\* While nobody crashed: every request is waited for; a request and a slot
\* know which lease is theirs; a recorded job is over.
AskedFor(p) == poll[p].pc # "idle" => asked[poll[p].worker] = p
GrantIsCurrent(p) ==
  poll[p].pc = "respond" /\ Holds(poll[p].got, poll[p].worker) =>
    granted[p] = leases[poll[p].got]
RunIsCurrent(s) ==
  slot[s].pc # "free" /\ Holds(slot[s].job, SlotWorker[s]) =>
    slot[s].lease = leases[slot[s].job]
RecordIsFinal(j) ==
  recorded[j] # 0 => status[j] \in Terminal /\ recorded[j] = leases[j]

Whole == (\A p \in Polls : PollIsWhole(p)) /\ (\A s \in Slots : SlotIsWhole(s))
Current ==
  crashes = 0 =>
    /\ \A p \in Polls : AskedFor(p) /\ GrantIsCurrent(p)
    /\ \A s \in Slots : RunIsCurrent(s)
    /\ \A j \in Jobs : RecordIsFinal(j)

PoolInv == PoolTypeOK /\ Counted /\ Whole
PoolRuns == (\A w \in Workers : WaitsFor(w)) /\ Current
\* How rows, requests and slots move when no lease is granted: nobody becomes
\* a job's owner, a finished row stays finished, and a request or a run goes
\* on under what it had.
RowKept(j) ==
  /\ leases'[j] = leases[j]
  /\ status'[j] = "leased" => status[j] = "leased" /\ leased_by'[j] = leased_by[j]
  /\ status[j] \in Terminal => status'[j] \in Terminal

PollKept(p) ==
  /\ (poll'[p].pc = "idle") = (poll[p].pc = "idle")
  /\ (poll'[p].pc = "respond") = (poll[p].pc = "respond")
  /\ poll'[p].worker = poll[p].worker
  /\ poll[p].pc = "respond" => poll'[p].got = poll[p].got

SlotKept(s) ==
  slot'[s].pc # "free" =>
    slot[s].pc # "free" /\ slot'[s].job = slot[s].job /\ slot'[s].lease = slot[s].lease

RowsKept == \A j \in Jobs : RowKept(j)
PollsKept(except) == \A p \in Polls \ except : PollKept(p)
SlotsKept == \A s \in Slots : SlotKept(s)

\* Rewriting a sweep's cutoffs leaves the rest of every request alone.
LEMMA StampedKeeps ==
  ASSUME poll \in [Polls -> Poll], NEW j, NEW ahead, NEW q \in Polls
  PROVE  LET new == Stamped(poll, j, ahead)[q] IN
         new.pc = poll[q].pc /\ new.worker = poll[q].worker /\ new.got = poll[q].got
<1>1. Stamped(poll, j, ahead)[q] =
        IF q \in ahead THEN poll[q] ELSE [poll[q] EXCEPT !.old = poll[q].old \ {j}]
  BY DEF Stamped
<1> QED
  BY <1>1 DEF Poll

\* No statement other than the claim makes anybody a job's owner.
LEMMA FinishKeepsRows ==
  ASSUME TypeOK, NEW j, NEW w, NEW outcome \in Terminal, FinishJob(j, w, outcome)
  PROVE  RowsKept
  BY DEF FinishJob, Holds, RowsKept, RowKept, TypeOK, Terminal

\* Enqueue, the passing of time, cancels and the sweep grant no lease.
LEMMA ServerKeeps ==
  ASSUME TypeOK, ServerStep
  PROVE  RowsKept /\ PollsKept({}) /\ UNCHANGED poolVars
<1> USE DEF TypeOK, RowsKept, RowKept, PollsKept, PollKept
<1>0. UNCHANGED poolVars
  BY DEF ServerStep
<1>1. ASSUME NEW j \in Jobs, EnqueueJob(j) \/ LeaseLapses(j) PROVE RowsKept /\ PollsKept({})
  BY <1>1 DEF EnqueueJob, LeaseLapses, Terminal
<1>2. ASSUME NEW c \in Cancels, CancelStep(c) PROVE RowsKept /\ PollsKept({})
  <2>1. UNCHANGED poll
    BY <1>2 DEF CancelStep, CancelJob, CancelQueued, CancelLeased, CancelRead
  <2>2. RowsKept
    BY <1>2 DEF CancelStep, CancelJob, CancelQueued, CancelLeased, CancelRead, row, Terminal
  <2> QED
    BY <2>1, <2>2
<1>3. ASSUME NEW p \in Polls, QueueScan(p) PROVE RowsKept /\ PollsKept({})
  <2>1. poll'[p].pc = "claim" /\ poll'[p].worker = poll[p].worker /\ poll[p].pc = "sweep"
    BY <1>3 DEF QueueScan, Idle
  <2>2. \A q \in Polls : q # p => poll'[q] = poll[q]
    BY <1>3 DEF QueueScan
  <2>3. RowsKept
    BY <1>3 DEF QueueScan, row
  <2> QED
    BY <2>1, <2>2, <2>3
<1>4. ASSUME NEW p \in Polls, NEW j \in Jobs, ReclaimRow(p, j) \/ SpareRow(p, j)
      PROVE  RowsKept /\ PollsKept({})
  <2>1. poll' = [poll EXCEPT ![p] = [poll[p] EXCEPT !.due = poll[p].due \ {j}]]
    BY <1>4 DEF ReclaimRow, SpareRow, Passed
  <2>2. \A q \in Polls : PollKept(q)
    BY <2>1 DEF Poll
  <2>3. CASE ReclaimRow(p, j)
    <3>1. status[j] = "leased" /\ status'[j] \in {"queued", "cancelled", "failed"}
      BY <2>3 DEF ReclaimRow, StillReclaimable, ReclaimedOutcome
    <3> QED
      BY <2>2, <2>3, <3>1 DEF ReclaimRow, Terminal
  <2>4. CASE SpareRow(p, j)
    BY <2>2, <2>4 DEF SpareRow, row
  <2> QED
    BY <2>3, <2>4, <1>4
<1>5. ASSUME NEW p \in Polls, NEW j \in Jobs, NextCandidate(p, j) PROVE RowsKept /\ PollsKept({})
  <2>1. poll' = [poll EXCEPT ![p] = [poll[p] EXCEPT !.candidates = poll[p].candidates \ {j}]]
    BY <1>5 DEF NextCandidate
  <2>2. \A q \in Polls : PollKept(q)
    BY <2>1 DEF Poll
  <2> QED
    BY <2>2, <1>5 DEF NextCandidate, row
<1> QED
  BY <1>0, <1>1, <1>2, <1>3, <1>4, <1>5 DEF ServerStep

\* A heartbeat renews the lease and grants nothing.
LEMMA BeatKeeps ==
  ASSUME TypeOK, NEW j, NEW w, HeartbeatJob(j, w)
  PROVE  RowsKept /\ PollsKept({})
<1>1. PICK ahead \in SkewedPolls : poll' = Stamped(poll, j, ahead)
  BY DEF HeartbeatJob
<1>2. PollsKept({})
  BY <1>1, StampedKeeps DEF PollsKept, PollKept, TypeOK
<1> QED
  BY <1>2 DEF HeartbeatJob, RowsKept, RowKept

\* A request that ends leaves the rows to their owners: worker_lease's 204,
\* its answer, and the job failed for unreadable secrets.
LEMMA AnswerKeeps ==
  ASSUME TypeOK, NEW p \in Polls,
         NothingToLease(p) \/ RespondLease(p) \/ FailUnreadSecrets(p)
  PROVE  RowsKept /\ PollsKept({p}) /\ poll'[p].pc = "idle"
<1>1. poll' = [poll EXCEPT ![p] = Idle]
  BY DEF NothingToLease, RespondLease, FailUnreadSecrets
<1>2. PollsKept({p}) /\ poll'[p].pc = "idle"
  BY <1>1 DEF PollsKept, PollKept, Idle, TypeOK
<1>3. CASE UNCHANGED row
  BY <1>2, <1>3 DEF row, RowsKept, RowKept
<1>4. CASE FinishJob(poll[p].got, poll[p].worker, "failed")
  BY <1>2, <1>4, FinishKeepsRows DEF Terminal
<1> QED
  BY <1>3, <1>4 DEF NothingToLease, RespondLease, FailUnreadSecrets

\* What the claim writes (lease_job's conditional UPDATE).
LEMMA ClaimEffect ==
  ASSUME TypeOK, NEW p \in Polls, NEW j \in Jobs, ClaimJob(p, j)
  PROVE  /\ poll[p].pc = "claim" /\ poll'[p].pc = "respond"
         /\ poll'[p].worker = poll[p].worker /\ poll'[p].got = j
         /\ PollsKept({p})
         /\ status[j] = "queued" /\ status'[j] = "leased"
         /\ leased_by'[j] = poll[p].worker /\ leases'[j] = leases[j] + 1
         /\ \A i \in Jobs \ {j} : RowKept(i)
<1>1. PICK ahead \in SkewedPolls :
        poll' = [Stamped(poll, j, ahead) EXCEPT
                   ![p] = [Idle EXCEPT !.pc = "respond", !.worker = poll[p].worker, !.got = j]]
  BY DEF ClaimJob
<1>2. Stamped(poll, j, ahead) \in [Polls -> Poll]
  BY StampedIsPoll DEF TypeOK
<1>3. poll'[p] = [Idle EXCEPT !.pc = "respond", !.worker = poll[p].worker, !.got = j]
  BY <1>1, <1>2
<1>4. \A q \in Polls \ {p} : poll'[q] = Stamped(poll, j, ahead)[q]
  BY <1>1, <1>2
<1>5. PollsKept({p})
  BY <1>4, StampedKeeps DEF PollsKept, PollKept, TypeOK
<1>6. /\ poll'[p].pc = "respond" /\ poll'[p].worker = poll[p].worker /\ poll'[p].got = j
  BY <1>3 DEF Idle
<1>7. /\ status[j] = "queued" /\ status'[j] = "leased"
      /\ leased_by'[j] = poll[p].worker /\ leases'[j] = leases[j] + 1
  BY DEF ClaimJob, Claimable, TypeOK
<1>8. \A i \in Jobs \ {j} : RowKept(i)
  BY DEF ClaimJob, RowKept
<1> QED
  BY <1>5, <1>6, <1>7, <1>8 DEF ClaimJob
\* Every step of the worker program makes a call the table allows: it posts
\* an outcome, for a job it was given, under its own id.
LEMMA PoolStepIsNext ==
  ASSUME PoolInv, [PoolNext]_allVars
  PROVE  [Next]_vars
<1> USE DEF PoolInv, PoolTypeOK, Whole
<1>server. CASE ServerStep
  BY <1>server DEF ServerStep, Next, PollStep
<1>ask. ASSUME NEW w \in Workers, NEW p \in Polls, AskLease(w, p) PROVE Next
  BY <1>ask DEF AskLease, Next, PollStep
<1>loop. ASSUME NEW p \in Polls, LoopStep(p) PROVE Next
  BY <1>loop DEF LoopStep, Claimed, NoLease, LeaseArrives, LeaseResponseLost, Next, PollStep
<1>slot. ASSUME NEW s \in Slots, SlotStep(s) PROVE [Next]_vars
  <2>1. SlotWorker[s] \in Workers /\ SlotIsWhole(s)
    BY PoolAssumption
  <2>2. CASE Beat(s)
    BY <2>1, <2>2 DEF Beat, SlotIsWhole, Next, WorkerCall
  <2>3. CASE PostResult(s)
    BY <2>1, <2>3 DEF PostResult, SlotIsWhole, Next, WorkerCall
  <2> QED
    BY <2>2, <2>3, <1>slot DEF SlotStep, BeatAnswered, BeatRefused, RunEnds, RunGivenUp, PostLost
<1>crash. ASSUME NEW w \in Workers, Crash(w) PROVE UNCHANGED vars
  BY <1>crash DEF Crash
<1> QED
  BY <1>server, <1>ask, <1>loop, <1>slot, <1>crash DEF PoolNext, allVars

\* What one slot's step may write: its place, on the same run, or its end.
SlotMoves(s) ==
  /\ slot' = [slot EXCEPT ![s] = slot'[s]] /\ slot'[s] \in Slot
  /\ slot'[s].renewed => slot'[s].pc # "free"
  /\ slot'[s].pc = "posting" => slot'[s].result \in Terminal
  /\ SlotKept(s)

\* A free slot takes part in nothing: the heartbeat's pending answer belongs
\* to a run.
RenewedRuns == \A s \in Slots : slot[s].renewed => slot[s].pc # "free"

\* The heartbeat and the run of a slot change its own place only.
LEMMA SlotEffect ==
  ASSUME PoolInv, RenewedRuns, NEW s \in Slots, SlotStep(s)
  PROVE  SlotMoves(s)
<1> DEFINE r == slot[s]
<1>0. r \in Slot /\ slot \in [Slots -> Slot] /\ SlotIsWhole(s) /\ (r.renewed => r.pc # "free")
  BY DEF PoolInv, PoolTypeOK, Whole, RenewedRuns
<1>keep. ASSUME NEW new \in Slot, slot' = [slot EXCEPT ![s] = new],
                new.pc # "free" => r.pc # "free" /\ new.job = r.job /\ new.lease = r.lease,
                new.renewed => new.pc # "free", new.pc = "posting" => new.result \in Terminal
         PROVE  SlotMoves(s)
  <2>1. slot'[s] = new
    BY <1>0, <1>keep
  <2> QED
    BY <1>keep, <2>1 DEF SlotMoves, SlotKept
<1>1. CASE Beat(s)
  <2> DEFINE new == [r EXCEPT !.renewed = TRUE]
  <2>1. slot' = [slot EXCEPT ![s] = new]
    BY <1>1 DEF Beat
  <2>2. new \in Slot /\ new.pc = r.pc /\ new.job = r.job /\ new.lease = r.lease
    BY <1>0 DEF Slot
  <2>3. r.pc = "running"
    BY <1>1 DEF Beat
  <2> HIDE DEF new
  <2> QED
    BY <2>1, <2>2, <2>3, <1>keep
<1>2. CASE BeatAnswered(s)
  <2> DEFINE flagged == Holds(r.job, SlotWorker[s]) /\ cancel_requested[r.job]
  <2>1. PICK heard \in BOOLEAN :
          slot' = [slot EXCEPT ![s].renewed = FALSE, ![s].cancel = @ \/ (heard /\ flagged)]
    BY <1>2 DEF BeatAnswered
  <2> DEFINE c == r.cancel \/ (heard /\ flagged)
             new == [r EXCEPT !.renewed = FALSE, !.cancel = c]
  <2>2. slot' = [slot EXCEPT ![s] = new]
    BY <2>1
  <2>3. c \in BOOLEAN
    OBVIOUS
  <2>4. r.pc # "free"
    BY <1>0, <1>2 DEF BeatAnswered
  <2> HIDE DEF c
  <2>5. new \in Slot /\ new.pc = r.pc /\ new.job = r.job /\ new.lease = r.lease
        /\ new.result = r.result
    BY <1>0, <2>3 DEF Slot
  <2>6. new.pc = "posting" => new.result \in Terminal
    BY <2>5, <1>0 DEF SlotIsWhole
  <2> HIDE DEF new
  <2> QED
    BY <2>2, <2>4, <2>5, <2>6, <1>keep
<1>3. CASE BeatRefused(s)
  <2> DEFINE new == [r EXCEPT !.lost = TRUE]
  <2>1. slot' = [slot EXCEPT ![s] = new]
    BY <1>3 DEF BeatRefused
  <2>2. new \in Slot /\ new.pc = r.pc /\ new.job = r.job /\ new.lease = r.lease
    BY <1>0 DEF Slot
  <2>3. r.pc = "running"
    BY <1>3 DEF BeatRefused
  <2> HIDE DEF new
  <2> QED
    BY <2>1, <2>2, <2>3, <1>keep
<1>4. CASE RunEnds(s)
  <2>1. PICK result \in Terminal :
          slot' = [slot EXCEPT ![s].pc = "posting", ![s].result = result]
    BY <1>4 DEF RunEnds, Terminal
  <2> DEFINE new == [r EXCEPT !.pc = "posting", !.result = result]
  <2>2. slot' = [slot EXCEPT ![s] = new]
    BY <2>1
  <2>3. new \in Slot /\ new.pc = "posting" /\ new.job = r.job /\ new.lease = r.lease
        /\ new.result \in Terminal
    BY <1>0 DEF Slot
  <2>4. r.pc = "running"
    BY <1>4 DEF RunEnds
  <2> HIDE DEF new
  <2> QED
    BY <2>2, <2>3, <2>4, <1>keep
<1>5. CASE RunGivenUp(s) \/ PostResult(s) \/ PostLost(s)
  <2>1. slot' = [slot EXCEPT ![s] = Free]
    BY <1>5 DEF RunGivenUp, PostResult, PostLost
  <2>2. Free \in Slot /\ Free.pc = "free" /\ ~Free.renewed
    BY DEF Free, Slot
  <2> QED
    BY <2>1, <2>2, <1>keep
<1> QED
  BY <1>1, <1>2, <1>3, <1>4, <1>5 DEF SlotStep

\* The types stay, and each run stays the same run or ends.
LEMMA SlotMovesKeeps ==
  ASSUME PoolInv, RenewedRuns, NEW s \in Slots, SlotMoves(s)
  PROVE  /\ slot' \in [Slots -> Slot] /\ RenewedRuns'
         /\ \A t \in Slots : SlotIsWhole(t)' /\ SlotKept(t)
<1> USE DEF PoolInv, PoolTypeOK, Whole
<1>1. slot' \in [Slots -> Slot]
  BY DEF SlotMoves
<1>2. \A t \in Slots \ {s} : slot'[t] = slot[t]
  BY DEF SlotMoves
<1>3. SlotIsWhole(s)' /\ SlotKept(s)
  BY DEF SlotMoves, SlotIsWhole, SlotKept
<1>4. \A t \in Slots \ {s} : SlotIsWhole(t)' /\ SlotKept(t)
  BY <1>2 DEF SlotIsWhole, SlotKept
<1>5. RenewedRuns'
  BY <1>2 DEF SlotMoves, RenewedRuns
<1> QED
  BY <1>1, <1>3, <1>4, <1>5
\* What an ended request writes into the lease loop's own variables, and the
\* slot a lease that arrived starts in.
LEMMA LoopEffect ==
  ASSUME PoolInv, NEW p \in Polls, NoLease(p) \/ LeaseArrives(p) \/ LeaseResponseLost(p)
  PROVE  /\ poll[p].pc # "idle" /\ poll'[p].pc = "idle"
         /\ RowsKept /\ PollsKept({p})
         /\ asked' = Resumed(p) /\ granted' = [granted EXCEPT ![p] = 0]
         /\ UNCHANGED <<crashes, recorded>>
         /\ \/ UNCHANGED slot
            \/ /\ poll[p].pc = "respond" /\ asked[poll[p].worker] = p
               /\ \E s \in FreeSlots(poll[p].worker) :
                    slot' = [slot EXCEPT ![s] = [Free EXCEPT !.pc = "running",
                                                   !.job = poll[p].got, !.lease = granted[p]]]
<1>0. TypeOK
  BY DEF PoolInv, PoolTypeOK
<1>1. NothingToLease(p) \/ RespondLease(p) \/ FailUnreadSecrets(p)
  BY DEF NoLease, LeaseArrives, LeaseResponseLost
<1>2. RowsKept /\ PollsKept({p}) /\ poll'[p].pc = "idle"
  BY <1>0, <1>1, AnswerKeeps
<1>3. poll[p].pc # "idle"
  BY <1>1 DEF NothingToLease, RespondLease, FailUnreadSecrets
<1>4. CASE NoLease(p) \/ LeaseResponseLost(p)
  BY <1>2, <1>3, <1>4 DEF NoLease, LeaseResponseLost
<1>5. CASE LeaseArrives(p)
  <2>1. poll[p].pc = "respond"
    BY <1>5 DEF LeaseArrives, RespondLease
  <2> QED
    BY <1>2, <1>3, <1>5, <2>1 DEF LeaseArrives
<1> QED
  BY <1>4, <1>5

\* The slot a leased job starts in (_serve_slots, run_worker).
LEMMA StartedSlot ==
  ASSUME PoolInv, NEW p \in Polls, poll[p].pc = "respond", NEW s \in Slots,
         slot' = [slot EXCEPT ![s] = [Free EXCEPT !.pc = "running",
                                        !.job = poll[p].got, !.lease = granted[p]]]
  PROVE  /\ slot' \in [Slots -> Slot]
         /\ slot'[s].pc = "running" /\ slot'[s].job = poll[p].got
         /\ slot'[s].lease = granted[p] /\ ~slot'[s].renewed
         /\ \A t \in Slots \ {s} : slot'[t] = slot[t]
<1> DEFINE new == [Free EXCEPT !.pc = "running", !.job = poll[p].got, !.lease = granted[p]]
<1>1. poll[p].got \in Jobs /\ granted[p] \in Nat /\ slot \in [Slots -> Slot]
  BY DEF PoolInv, PoolTypeOK, Whole, PollIsWhole
<1>2. /\ new \in Slot /\ new.pc = "running" /\ new.job = poll[p].got
      /\ new.lease = granted[p] /\ ~new.renewed
  BY <1>1 DEF Free, Slot
<1>3. slot' = [slot EXCEPT ![s] = new]
  OBVIOUS
<1> HIDE DEF new
<1> QED
  BY <1>1, <1>2, <1>3

\* The worker that asks has a place, and its request is a new one.
LEMMA AskEffect ==
  ASSUME PoolInv, NEW w \in Workers, NEW p \in Polls, AskLease(w, p)
  PROVE  /\ poll[p].pc = "idle" /\ poll'[p].pc = "sweep" /\ poll'[p].worker = w
         /\ RowsKept /\ PollsKept({p}) /\ p # None
         /\ asked[w] = None /\ asked' = [asked EXCEPT ![w] = p]
         /\ UNCHANGED <<slot, crashes, granted, recorded>>
<1>0. poll \in [Polls -> Poll] /\ p # None
  BY PoolAssumption DEF PoolInv, PoolTypeOK, TypeOK
<1>1. SweepScan(p, w)
  BY DEF AskLease
<1> DEFINE old == {j \in Jobs : status[j] = "leased" /\ lapsed[j]}
<1>2. PICK due :
        poll' = [poll EXCEPT ![p] =
                   [Idle EXCEPT !.pc = "sweep", !.worker = w, !.due = due, !.old = old,
                      !.attempts = [j \in Jobs |-> IF j \in due THEN attempts[j] ELSE 0],
                      !.cancelling = {j \in due : cancel_requested[j]}]]
  BY <1>1 DEF SweepScan
<1> HIDE DEF old
<1>3. poll'[p].pc = "sweep" /\ poll'[p].worker = w
  BY <1>0, <1>2 DEF Idle
<1>4. PollsKept({p})
  BY <1>0, <1>2 DEF PollsKept, PollKept
<1>5. RowsKept
  BY <1>1 DEF SweepScan, row, RowsKept, RowKept
<1> QED
  BY <1>0, <1>1, <1>3, <1>4, <1>5 DEF AskLease, SweepScan

\* The variables of the workers keep their types, and requests and slots
\* under way keep what they need.
LEMMA PoolInvNext ==
  ASSUME PoolInv, RenewedRuns, [PoolNext]_allVars
  PROVE  PoolInv' /\ RenewedRuns'
<1>0. TypeOK' /\ Counted'
  <2>1. [Next]_vars
    BY PoolStepIsNext
  <2> QED
    BY <2>1, TypeNext DEF PoolInv, PoolTypeOK
<1> USE DEF PoolInv, PoolTypeOK, Whole
<1>polls. ASSUME NEW p \in Polls, PollsKept({p}), PollIsWhole(p)' PROVE \A q \in Polls : PollIsWhole(q)'
  BY <1>polls DEF PollsKept, PollKept, PollIsWhole
<1>kept. ASSUME PollsKept({}) PROVE \A q \in Polls : PollIsWhole(q)'
  BY <1>kept DEF PollsKept, PollKept, PollIsWhole
<1>slots. ASSUME UNCHANGED slot PROVE (\A s \in Slots : SlotIsWhole(s)') /\ RenewedRuns'
  BY <1>slots DEF SlotIsWhole, RenewedRuns
<1>server. CASE ServerStep
  <2>1. PollsKept({}) /\ UNCHANGED poolVars
    BY <1>server, ServerKeeps
  <2> QED
    BY <2>1, <1>0, <1>kept, <1>slots DEF poolVars
<1>ask. ASSUME NEW w \in Workers, NEW p \in Polls, AskLease(w, p) PROVE PoolInv' /\ RenewedRuns'
  <2>0. /\ poll'[p].pc = "sweep" /\ poll'[p].worker = w /\ PollsKept({p})
        /\ asked' = [asked EXCEPT ![w] = p]
        /\ UNCHANGED <<slot, crashes, granted, recorded>>
    <3> HIDE DEF PoolInv
    <3> QED
      BY <1>ask, AskEffect
  <2>1. PollIsWhole(p)' /\ PollsKept({p}) /\ UNCHANGED slot
    BY <2>0 DEF PollIsWhole
  <2>2. /\ asked' \in [Workers -> Polls \union {None}]
        /\ UNCHANGED <<slot, crashes, granted, recorded>>
    BY <2>0
  <2> QED
    BY <2>1, <2>2, <1>0, <1>polls, <1>slots
<1>claimed. ASSUME NEW p \in Polls, Claimed(p) PROVE PoolInv' /\ RenewedRuns'
  <2>1. PICK j \in Jobs : ClaimJob(p, j) /\ granted' = [granted EXCEPT ![p] = leases[j] + 1]
    BY <1>claimed DEF Claimed
  <2>2. PollIsWhole(p)' /\ PollsKept({p})
    <3>1. /\ poll[p].pc = "claim" /\ poll'[p].pc = "respond" /\ PollsKept({p})
          /\ poll'[p].worker = poll[p].worker /\ poll'[p].got = j
      <4>1. TypeOK
        BY DEF PoolInv, PoolTypeOK
      <4> HIDE DEF PoolInv
      <4> QED
        BY <2>1, <4>1, ClaimEffect
    <3>2. poll[p].worker \in Workers
      BY <3>1 DEF PollIsWhole
    <3> QED
      BY <3>1, <3>2 DEF PollIsWhole
  <2>3. leases[j] + 1 \in Nat
    BY BoundsAssumption DEF TypeOK
  <2>4. granted' \in [Polls -> Nat] /\ UNCHANGED <<asked, slot, crashes, recorded>>
    BY <2>1, <2>3, <1>claimed DEF Claimed
  <2> QED
    BY <2>2, <2>4, <1>0, <1>polls, <1>slots
<1>answer. ASSUME NEW p \in Polls, NoLease(p) \/ LeaseArrives(p) \/ LeaseResponseLost(p)
           PROVE PoolInv' /\ RenewedRuns'
  <2>0. /\ poll[p].pc # "idle" /\ poll'[p].pc = "idle" /\ PollsKept({p})
        /\ asked' = Resumed(p) /\ granted' = [granted EXCEPT ![p] = 0]
        /\ UNCHANGED <<crashes, recorded>>
        /\ \/ UNCHANGED slot
           \/ /\ poll[p].pc = "respond"
              /\ \E s \in FreeSlots(poll[p].worker) :
                   slot' = [slot EXCEPT ![s] = [Free EXCEPT !.pc = "running",
                                                  !.job = poll[p].got, !.lease = granted[p]]]
    <3> HIDE DEF PoolInv
    <3> QED
      BY <1>answer, LoopEffect
  <2>1. PollIsWhole(p)' /\ PollsKept({p})
    BY <2>0 DEF PollIsWhole
  <2>2. poll[p].worker \in Workers
    BY <2>0 DEF PollIsWhole
  <2>3. /\ asked' \in [Workers -> Polls \union {None}] /\ granted' \in [Polls -> Nat]
        /\ UNCHANGED <<crashes, recorded>>
    BY <2>0, <2>2 DEF Resumed
  <2>4. CASE UNCHANGED slot
    BY <2>1, <2>3, <2>4, <1>0, <1>polls, <1>slots
  <2>5. CASE ~UNCHANGED slot
    <3>1. poll[p].pc = "respond"
      BY <2>0, <2>5
    <3>2. PICK s \in Slots :
            slot' = [slot EXCEPT ![s] = [Free EXCEPT !.pc = "running",
                                           !.job = poll[p].got, !.lease = granted[p]]]
      BY <2>0, <2>5 DEF FreeSlots, SlotsOf
    <3>3. /\ slot' \in [Slots -> Slot]
          /\ slot'[s].pc = "running" /\ slot'[s].job = poll[p].got /\ ~slot'[s].renewed
          /\ \A t \in Slots \ {s} : slot'[t] = slot[t]
      BY <3>1, <3>2, StartedSlot
    <3>4. SlotIsWhole(s)'
      BY <3>1, <3>3 DEF SlotIsWhole, PollIsWhole
    <3>5. (\A t \in Slots : SlotIsWhole(t)') /\ RenewedRuns'
      BY <3>3, <3>4 DEF SlotIsWhole, RenewedRuns
    <3> QED
      BY <2>1, <2>3, <3>3, <3>5, <1>0, <1>polls
  <2> QED
    BY <2>4, <2>5
<1>slot. ASSUME NEW s \in Slots, SlotStep(s) PROVE PoolInv' /\ RenewedRuns'
  <2>1. /\ slot' \in [Slots -> Slot] /\ RenewedRuns'
        /\ \A t \in Slots : SlotIsWhole(t)'
    BY <1>slot, SlotEffect, SlotMovesKeeps
  <2>2. PollsKept({})
    <3>1. CASE Beat(s)
      BY <3>1, BeatKeeps DEF Beat
    <3>2. CASE UNCHANGED poll
      BY <3>2 DEF PollsKept, PollKept
    <3> QED
      BY <3>1, <3>2, <1>slot DEF SlotStep, BeatAnswered, BeatRefused, RunEnds, RunGivenUp,
                                 PostResult, PostLost, WorkerResult, vars
  <2>3. UNCHANGED <<asked, crashes, granted>>
    BY <1>slot DEF SlotStep, Beat, BeatAnswered, BeatRefused, RunEnds, RunGivenUp, PostResult, PostLost
  <2>4. recorded' \in [Jobs -> Nat]
    <3>1. slot[s].lease \in Nat
      BY DEF Slot
    <3>2. CASE PostResult(s)
      BY <3>1, <3>2 DEF PostResult
    <3> QED
      BY <3>2, <1>slot DEF SlotStep, Beat, BeatAnswered, BeatRefused, RunEnds, RunGivenUp, PostLost
  <2> QED
    BY <2>1, <2>2, <2>3, <2>4, <1>0, <1>kept
<1>crash. ASSUME NEW w \in Workers, Crash(w) PROVE PoolInv' /\ RenewedRuns'
  <2>1. Free \in Slot /\ Free.pc = "free" /\ ~Free.renewed
    BY DEF Free, Slot
  <2>2. slot' = [s \in Slots |-> IF SlotWorker[s] = w THEN Free ELSE slot[s]]
    BY <1>crash DEF Crash
  <2>3. /\ slot' \in [Slots -> Slot] /\ RenewedRuns'
        /\ \A t \in Slots : SlotIsWhole(t)'
    BY <2>1, <2>2 DEF SlotIsWhole, RenewedRuns
  <2>4. PollsKept({})
    BY <1>crash DEF Crash, vars, PollsKept, PollKept
  <2>5. /\ asked' \in [Workers -> Polls \union {None}] /\ UNCHANGED <<granted, recorded>>
        /\ crashes' \in 0..MaxCrashes
    BY <1>crash, PoolAssumption DEF Crash
  <2> QED
    BY <2>3, <2>4, <2>5, <1>0, <1>kept
<1>stutter. CASE UNCHANGED allVars
  BY <1>stutter, <1>0, <1>slots DEF allVars, poolVars, vars, PollIsWhole
<1>loop. ASSUME NEW p \in Polls, LoopStep(p) PROVE PoolInv' /\ RenewedRuns'
  BY <1>claimed, <1>answer, <1>loop DEF LoopStep
<1> QED
  <2> HIDE DEF PoolInv
  <2> QED
    BY <1>server, <1>ask, <1>loop, <1>slot, <1>crash, <1>stutter DEF PoolNext
\* Where no request starts or ends and no lease is granted, what the workers
\* know of their leases stays true; a result recorded is its lease's.
LEMMA KeptRuns ==
  ASSUME PoolInv, PoolRuns, RowsKept, PollsKept({}), SlotsKept,
         UNCHANGED <<asked, crashes, granted>>,
         \A j \in Jobs : \/ recorded'[j] = recorded[j]
                         \/ crashes = 0 => recorded'[j] = leases'[j] /\ status'[j] \in Terminal
  PROVE  PoolRuns'
<1> USE DEF PoolInv, PoolTypeOK, Whole, RowsKept, PollsKept
<1>1. ASSUME NEW w \in Workers PROVE WaitsFor(w)'
  <2>1. asked[w] # None => asked[w] \in Polls /\ WaitsFor(w)
    BY DEF PoolRuns
  <2>2. \A s \in Slots : slot[s].pc = "free" => slot'[s].pc = "free"
    BY DEF SlotsKept, SlotKept
  <2> QED
    BY <2>1, <2>2 DEF WaitsFor, PollKept
<1>2. ASSUME crashes = 0, NEW p \in Polls PROVE AskedFor(p)' /\ GrantIsCurrent(p)'
  <2>1. AskedFor(p) /\ GrantIsCurrent(p) /\ PollKept(p) /\ PollIsWhole(p)
    BY <1>2 DEF PoolRuns, Current
  <2>2. AskedFor(p)'
    BY <2>1 DEF AskedFor, PollKept
  <2>3. ASSUME poll'[p].pc = "respond", Holds(poll[p].got, poll[p].worker)'
        PROVE  granted'[p] = leases'[poll'[p].got]
    <3>1. poll[p].got \in Jobs /\ poll'[p].got = poll[p].got /\ poll'[p].worker = poll[p].worker
      BY <2>1, <2>3 DEF PollKept, PollIsWhole
    <3>2. Holds(poll[p].got, poll[p].worker) /\ leases'[poll[p].got] = leases[poll[p].got]
      BY <2>3, <3>1 DEF Holds, RowKept
    <3> QED
      BY <2>1, <2>3, <3>1, <3>2 DEF GrantIsCurrent, PollKept
  <2> QED
    BY <2>2, <2>3 DEF GrantIsCurrent
<1>3. ASSUME crashes = 0, NEW s \in Slots PROVE RunIsCurrent(s)'
  <2> SUFFICES ASSUME slot'[s].pc # "free", Holds(slot[s].job, SlotWorker[s])'
               PROVE  slot'[s].lease = leases'[slot'[s].job]
    BY DEF RunIsCurrent
  <2>1. /\ slot[s].pc # "free" /\ slot'[s].job = slot[s].job /\ slot'[s].lease = slot[s].lease
        /\ slot[s].job \in Jobs /\ RunIsCurrent(s)
    BY <1>3 DEF SlotsKept, SlotKept, SlotIsWhole, PoolRuns, Current
  <2>2. Holds(slot[s].job, SlotWorker[s]) /\ leases'[slot[s].job] = leases[slot[s].job]
    BY <2>1 DEF Holds, RowKept
  <2> QED
    BY <2>1, <2>2 DEF RunIsCurrent
<1>4. ASSUME crashes = 0, NEW j \in Jobs PROVE RecordIsFinal(j)'
  <2>1. RecordIsFinal(j) /\ RowKept(j)
    BY <1>4 DEF PoolRuns, Current
  <2> QED
    BY <1>4, <2>1 DEF RecordIsFinal, RowKept
<1> QED
  BY <1>1, <1>2, <1>3, <1>4 DEF PoolRuns, Current

\* A serial worker that asks has an empty place, which is its only one.
LEMMA AskRuns ==
  ASSUME PoolInv, PoolRuns, OneSlotEach, NEW w \in Workers, NEW p \in Polls, AskLease(w, p)
  PROVE  PoolRuns'
<1>1. /\ poll[p].pc = "idle" /\ poll'[p].pc = "sweep" /\ poll'[p].worker = w
      /\ RowsKept /\ PollsKept({p}) /\ p # None
      /\ asked[w] = None /\ asked' = [asked EXCEPT ![w] = p]
      /\ UNCHANGED <<slot, crashes, granted, recorded>>
  BY AskEffect
<1>2. /\ asked \in [Workers -> Polls \union {None}] /\ UNCHANGED row
      /\ \A q \in Polls : PollIsWhole(q)
  BY DEF PoolInv, PoolTypeOK, Whole, AskLease, SweepScan
<1>3. \A s \in Slots : SlotWorker[s] = w => slot[s].pc = "free"
  BY DEF AskLease, FreeSlots, SlotsOf, OneSlotEach
<1>4. ASSUME NEW v \in Workers PROVE WaitsFor(v)'
  <2>1. CASE v = w
    BY <1>1, <1>2, <1>3, <2>1 DEF WaitsFor
  <2>2. CASE v # w /\ asked[v] # None
    <3>1. asked'[v] = asked[v] /\ asked[v] \in Polls /\ WaitsFor(v)
      BY <1>1, <1>2, <2>2 DEF PoolRuns
    <3>2. asked[v] # p
      BY <1>1, <2>2, <3>1 DEF WaitsFor
    <3>3. PollKept(asked[v])
      BY <1>1, <3>1, <3>2 DEF PollsKept
    <3> QED
      BY <1>1, <2>2, <3>1, <3>3 DEF WaitsFor, PollKept
  <2>3. CASE v # w /\ asked[v] = None
    BY <1>1, <1>2, <2>3 DEF WaitsFor
  <2> QED
    BY <2>1, <2>2, <2>3
<1>5. ASSUME crashes = 0, NEW q \in Polls PROVE AskedFor(q)' /\ GrantIsCurrent(q)'
  <2>1. CASE q = p
    BY <1>1, <1>2, <2>1 DEF AskedFor, GrantIsCurrent
  <2>2. CASE q # p
    <3>1. PollKept(q) /\ AskedFor(q) /\ GrantIsCurrent(q) /\ PollIsWhole(q) /\ q # None
      BY <1>1, <1>2, <1>5, <2>2, PoolAssumption DEF PollsKept, PoolRuns, Current
    <3>2. AskedFor(q)'
      BY <1>1, <1>2, <3>1 DEF PollKept, AskedFor, PollIsWhole
    <3>3. GrantIsCurrent(q)'
      BY <1>1, <1>2, <3>1 DEF PollKept, GrantIsCurrent, Holds, row
    <3> QED
      BY <3>2, <3>3
  <2> QED
    BY <2>1, <2>2
<1>6. ASSUME crashes = 0 PROVE /\ \A s \in Slots : RunIsCurrent(s)'
                               /\ \A j \in Jobs : RecordIsFinal(j)'
  BY <1>1, <1>2, <1>6 DEF PoolRuns, Current, RunIsCurrent, RecordIsFinal, Holds, row
<1> QED
  BY <1>1, <1>4, <1>5, <1>6 DEF PoolRuns, Current

\* The claim is a waited-for request's: its worker runs nothing and waits for
\* nothing else, so no other run of that worker takes the new lease for its own.
LEMMA ClaimRuns ==
  ASSUME PoolInv, PoolRuns, NEW p \in Polls, Claimed(p)
  PROVE  PoolRuns'
<1>1. PICK j \in Jobs : ClaimJob(p, j) /\ granted' = [granted EXCEPT ![p] = leases[j] + 1]
  BY DEF Claimed
<1>2. /\ poll[p].pc = "claim" /\ poll'[p].pc = "respond"
      /\ poll'[p].worker = poll[p].worker /\ poll'[p].got = j
      /\ PollsKept({p})
      /\ status[j] = "queued" /\ status'[j] = "leased"
      /\ leased_by'[j] = poll[p].worker /\ leases'[j] = leases[j] + 1
      /\ \A i \in Jobs \ {j} : RowKept(i)
  BY <1>1, ClaimEffect DEF PoolInv, PoolTypeOK
<1>3. UNCHANGED <<asked, slot, crashes, recorded>>
  BY DEF Claimed
<1>4. /\ asked \in [Workers -> Polls \union {None}] /\ granted \in [Polls -> Nat]
      /\ (\A q \in Polls : PollIsWhole(q)) /\ (\A s \in Slots : SlotIsWhole(s))
      /\ p # None
  BY PoolAssumption DEF PoolInv, PoolTypeOK, Whole
<1>5. poll[p].worker \in Workers
  BY <1>2, <1>4 DEF PollIsWhole
<1>6. ASSUME NEW v \in Workers PROVE WaitsFor(v)'
  <2>1. CASE asked[v] = p
    BY <1>2, <1>3, <1>4, <2>1 DEF PoolRuns, WaitsFor
  <2>2. CASE asked[v] # p /\ asked[v] # None
    <3>1. PollKept(asked[v]) /\ WaitsFor(v)
      BY <1>2, <1>4, <2>2 DEF PollsKept, PoolRuns
    <3> QED
      BY <1>3, <2>2, <3>1 DEF WaitsFor, PollKept
  <2>3. CASE asked[v] = None
    BY <1>3, <2>3 DEF WaitsFor
  <2> QED
    BY <2>1, <2>2, <2>3
<1>7. ASSUME crashes = 0 PROVE asked[poll[p].worker] = p
  BY <1>2, <1>7 DEF PoolRuns, Current, AskedFor
<1>8. ASSUME crashes = 0, NEW q \in Polls PROVE AskedFor(q)' /\ GrantIsCurrent(q)'
  <2>1. CASE q = p
    BY <1>1, <1>2, <1>3, <1>4, <1>7, <1>8, <2>1 DEF AskedFor, GrantIsCurrent
  <2>2. CASE q # p
    <3>1. PollKept(q) /\ AskedFor(q) /\ GrantIsCurrent(q) /\ PollIsWhole(q) /\ granted'[q] = granted[q]
      BY <1>1, <1>2, <1>4, <1>8, <2>2 DEF PollsKept, PoolRuns, Current
    <3>2. AskedFor(q)'
      BY <1>3, <3>1 DEF PollKept, AskedFor
    <3>3. ASSUME poll'[q].pc = "respond", Holds(poll[q].got, poll[q].worker)'
          PROVE  granted'[q] = leases'[poll'[q].got]
      <4>1. /\ poll[q].pc = "respond" /\ poll[q].got \in Jobs /\ poll[q].worker \in Workers
            /\ poll'[q].got = poll[q].got /\ poll'[q].worker = poll[q].worker
        BY <3>1, <3>3 DEF PollKept, PollIsWhole
      <4>2. poll[q].got # j
        <5>1. ASSUME poll[q].got = j PROVE FALSE
          <6>1. poll[q].worker = poll[p].worker
            BY <1>2, <3>3, <4>1, <5>1 DEF Holds
          <6> QED
            BY <6>1, <1>7, <1>8, <2>2, <3>1, <4>1 DEF AskedFor
        <5> QED
          BY <5>1
      <4>3. RowKept(poll[q].got)
        BY <1>2, <4>1, <4>2
      <4> QED
        BY <3>1, <3>3, <4>1, <4>3 DEF GrantIsCurrent, Holds, RowKept
    <3> QED
      BY <3>2, <3>3 DEF GrantIsCurrent
  <2> QED
    BY <2>1, <2>2
<1>9. ASSUME crashes = 0, NEW s \in Slots PROVE RunIsCurrent(s)'
  <2> SUFFICES ASSUME slot[s].pc # "free", Holds(slot[s].job, SlotWorker[s])'
               PROVE  slot[s].lease = leases'[slot[s].job]
    BY <1>3 DEF RunIsCurrent
  <2>1. slot[s].job \in Jobs /\ RunIsCurrent(s) /\ Holds(slot[s].job, SlotWorker[s])'
    BY <1>3, <1>4, <1>9 DEF SlotIsWhole, PoolRuns, Current
  <2>2. slot[s].job # j
    <3>1. ASSUME slot[s].job = j PROVE FALSE
      <4>1. SlotWorker[s] = poll[p].worker
        BY <1>2, <1>3, <2>1, <3>1 DEF Holds
      <4> QED
        BY <4>1, <1>4, <1>5, <1>7, <1>9 DEF PoolRuns, WaitsFor
    <3> QED
      BY <3>1
  <2>3. RowKept(slot[s].job)
    BY <1>2, <2>1, <2>2
  <2> QED
    BY <1>3, <2>1, <2>3 DEF RunIsCurrent, Holds, RowKept
<1>10. ASSUME crashes = 0, NEW i \in Jobs PROVE RecordIsFinal(i)'
  <2>1. RecordIsFinal(i)
    BY <1>10 DEF PoolRuns, Current
  <2>2. CASE i = j
    BY <1>2, <1>3, <2>1, <2>2 DEF RecordIsFinal, Terminal
  <2>3. CASE i # j
    BY <1>2, <1>3, <2>1, <2>3 DEF RecordIsFinal, RowKept
  <2> QED
    BY <2>2, <2>3
<1> QED
  BY <1>3, <1>6, <1>8, <1>9, <1>10 DEF PoolRuns, Current
\* A request that ends frees its worker to ask again; a lease that arrived
\* starts, in the place kept for it, the run it was granted for.
LEMMA AnswerRuns ==
  ASSUME PoolInv, PoolRuns, OneSlotEach, NEW p \in Polls,
         NoLease(p) \/ LeaseArrives(p) \/ LeaseResponseLost(p)
  PROVE  PoolRuns'
<1> DEFINE w == poll[p].worker
           Started(s) == slot' = [slot EXCEPT ![s] = [Free EXCEPT !.pc = "running",
                                                        !.job = poll[p].got, !.lease = granted[p]]]
<1>1. /\ poll[p].pc # "idle" /\ poll'[p].pc = "idle"
      /\ RowsKept /\ PollsKept({p})
      /\ asked' = Resumed(p) /\ granted' = [granted EXCEPT ![p] = 0]
      /\ UNCHANGED <<crashes, recorded>>
      /\ \/ UNCHANGED slot
         \/ /\ poll[p].pc = "respond" /\ asked[w] = p
            /\ \E s \in FreeSlots(w) : Started(s)
  BY LoopEffect
<1>2. /\ asked \in [Workers -> Polls \union {None}] /\ granted \in [Polls -> Nat]
      /\ (\A q \in Polls : PollIsWhole(q)) /\ (\A s \in Slots : SlotIsWhole(s))
      /\ p # None
  BY PoolAssumption DEF PoolInv, PoolTypeOK, Whole
<1>3. w \in Workers
  BY <1>1, <1>2 DEF PollIsWhole
<1>4. /\ asked'[w] = IF asked[w] = p THEN None ELSE asked[w]
      /\ \A v \in Workers \ {w} : asked'[v] = asked[v]
  BY <1>1, <1>2, <1>3 DEF Resumed
<1>started. ASSUME NEW s \in FreeSlots(w), Started(s), poll[p].pc = "respond"
            PROVE /\ s \in Slots /\ SlotWorker[s] = w
                  /\ slot'[s].pc = "running" /\ slot'[s].job = poll[p].got
                  /\ slot'[s].lease = granted[p]
                  /\ \A t \in Slots \ {s} : slot'[t] = slot[t]
  <2>1. s \in Slots /\ SlotWorker[s] = w
    BY DEF FreeSlots, SlotsOf
  <2> QED
    BY <2>1, <1>started, StartedSlot
<1>5. ASSUME NEW v \in Workers PROVE WaitsFor(v)'
  <2> SUFFICES ASSUME asked'[v] # None PROVE WaitsFor(v)'
    BY DEF WaitsFor
  <2>1. asked'[v] = asked[v] /\ asked[v] \in Polls /\ WaitsFor(v)
    BY <1>2, <1>3, <1>4 DEF PoolRuns
  <2>2. asked[v] # p
    BY <1>3, <1>4, <2>1 DEF WaitsFor
  <2>3. PollKept(asked[v])
    BY <1>1, <2>1, <2>2 DEF PollsKept
  <2>4. ASSUME NEW s \in Slots, SlotWorker[s] = v PROVE slot'[s].pc = "free"
    <3>1. slot[s].pc = "free"
      BY <2>1, <2>4 DEF WaitsFor
    <3>2. CASE UNCHANGED slot
      BY <3>1, <3>2
    <3>3. CASE ~UNCHANGED slot
      <4>1. PICK t \in FreeSlots(w) : Started(t)
        BY <1>1, <3>3
      <4>2. asked[w] = p /\ poll[p].pc = "respond"
        BY <1>1, <3>3
      <4>3. SlotWorker[t] = w /\ \A u \in Slots \ {t} : slot'[u] = slot[u]
        BY <4>1, <4>2, <1>started
      <4>4. v # w
        BY <2>2, <4>2
      <4> HIDE DEF w
      <4> QED
        BY <2>4, <3>1, <4>3, <4>4
    <3> QED
      BY <3>2, <3>3
  <2> QED
    BY <2>1, <2>3, <2>4 DEF WaitsFor, PollKept
<1>6. ASSUME crashes = 0, NEW q \in Polls PROVE AskedFor(q)' /\ GrantIsCurrent(q)'
  <2>1. CASE q = p
    BY <1>1, <2>1 DEF AskedFor, GrantIsCurrent
  <2>2. CASE q # p
    <3>1. PollKept(q) /\ AskedFor(q) /\ GrantIsCurrent(q) /\ PollIsWhole(q) /\ granted'[q] = granted[q]
      BY <1>1, <1>2, <1>6, <2>2 DEF PollsKept, PoolRuns, Current
    <3>2. AskedFor(q)'
      <4> SUFFICES ASSUME poll'[q].pc # "idle" PROVE asked'[poll'[q].worker] = q
        BY DEF AskedFor
      <4>1. /\ poll'[q].worker = poll[q].worker /\ poll[q].worker \in Workers
            /\ asked[poll[q].worker] = q
        BY <3>1 DEF PollKept, AskedFor, PollIsWhole
      <4> HIDE DEF w
      <4> QED
        BY <1>3, <1>4, <2>2, <4>1
    <3>3. ASSUME poll'[q].pc = "respond", Holds(poll[q].got, poll[q].worker)'
          PROVE  granted'[q] = leases'[poll'[q].got]
      <4>1. /\ poll[q].pc = "respond" /\ poll[q].got \in Jobs
            /\ poll'[q].got = poll[q].got /\ poll'[q].worker = poll[q].worker
        BY <3>1, <3>3 DEF PollKept, PollIsWhole
      <4>2. RowKept(poll[q].got)
        BY <1>1, <4>1 DEF RowsKept
      <4> QED
        BY <3>1, <3>3, <4>1, <4>2 DEF GrantIsCurrent, Holds, RowKept
    <3> QED
      BY <3>2, <3>3 DEF GrantIsCurrent
  <2> QED
    BY <2>1, <2>2
<1>7. ASSUME crashes = 0, NEW s \in Slots PROVE RunIsCurrent(s)'
  <2>1. CASE slot'[s] = slot[s]
    <3> SUFFICES ASSUME slot[s].pc # "free", Holds(slot[s].job, SlotWorker[s])'
                 PROVE  slot[s].lease = leases'[slot[s].job]
      BY <2>1 DEF RunIsCurrent
    <3>1. slot[s].job \in Jobs /\ RunIsCurrent(s) /\ Holds(slot[s].job, SlotWorker[s])'
      BY <1>2, <1>7, <2>1 DEF SlotIsWhole, PoolRuns, Current
    <3>2. RowKept(slot[s].job)
      BY <1>1, <3>1 DEF RowsKept
    <3> QED
      BY <2>1, <3>1, <3>2 DEF RunIsCurrent, Holds, RowKept
  <2>2. CASE slot'[s] # slot[s]
    <3>1. poll[p].pc = "respond"
      BY <1>1, <2>2
    <3>2. PICK t \in FreeSlots(w) : Started(t)
      BY <1>1, <2>2
    <3>3. t = s
      <4> HIDE DEF Started
      <4> QED
        BY <3>1, <3>2, <1>started, <2>2
    <3>4. /\ SlotWorker[s] = w /\ slot'[s].job = poll[p].got /\ slot'[s].lease = granted[p]
      BY <3>1, <3>2, <3>3, <1>started
    <3>5. poll[p].got \in Jobs /\ GrantIsCurrent(p)
      BY <3>1, <1>2, <1>7 DEF PollIsWhole, PoolRuns, Current
    <3>6. RowKept(poll[p].got)
      BY <1>1, <3>5 DEF RowsKept
    <3> SUFFICES ASSUME (slot[s].pc # "free" /\ Holds(slot[s].job, SlotWorker[s]))'
                 PROVE  slot'[s].lease = leases'[slot'[s].job]
      BY DEF RunIsCurrent
    <3>7. status'[poll[p].got] = "leased" /\ leased_by'[poll[p].got] = poll[p].worker
      BY <3>4 DEF Holds
    <3>8. Holds(poll[p].got, poll[p].worker) /\ leases'[poll[p].got] = leases[poll[p].got]
      BY <3>6, <3>7 DEF Holds, RowKept
    <3> QED
      BY <3>1, <3>4, <3>5, <3>8 DEF GrantIsCurrent
  <2> QED
    BY <2>1, <2>2
<1>8. ASSUME crashes = 0, NEW j \in Jobs PROVE RecordIsFinal(j)'
  <2>1. RecordIsFinal(j) /\ RowKept(j) /\ recorded'[j] = recorded[j]
    BY <1>1, <1>8 DEF PoolRuns, Current, RowsKept
  <2> QED
    BY <2>1 DEF RecordIsFinal, RowKept
<1> QED
  BY <1>1, <1>5, <1>6, <1>7, <1>8 DEF PoolRuns, Current

\* A slot's step: a result is recorded only while its run's lease is held.
LEMMA SlotRuns ==
  ASSUME PoolInv, PoolRuns, RenewedRuns, NEW s \in Slots, SlotStep(s)
  PROVE  PoolRuns'
<1>0. TypeOK
  BY DEF PoolInv, PoolTypeOK
<1>1. SlotsKept
  BY SlotEffect, SlotMovesKeeps DEF SlotsKept
<1>2. UNCHANGED <<asked, crashes, granted>>
  BY DEF SlotStep, Beat, BeatAnswered, BeatRefused, RunEnds, RunGivenUp, PostResult, PostLost
<1>3. CASE Beat(s)
  <2>1. RowsKept /\ PollsKept({})
    BY <1>0, <1>3, BeatKeeps DEF Beat
  <2>2. UNCHANGED recorded
    BY <1>3 DEF Beat
  <2> QED
    BY <1>1, <1>2, <2>1, <2>2, KeptRuns
<1>4. CASE UNCHANGED <<vars, recorded>>
  <2>1. RowsKept /\ PollsKept({})
    BY <1>4 DEF vars, row, RowsKept, RowKept, PollsKept, PollKept
  <2> QED
    BY <1>1, <1>2, <1>4, <2>1, KeptRuns
<1>5. CASE PostResult(s) /\ ~UNCHANGED <<vars, recorded>>
  <2> DEFINE j == slot[s].job
  <2>1. /\ WorkerResult(j, SlotWorker[s], slot[s].result)
        /\ recorded' = [recorded EXCEPT ![j] = slot[s].lease]
        /\ slot[s].pc = "posting"
    BY <1>5 DEF PostResult
  <2>2. j \in Jobs /\ slot[s].result \in Terminal /\ recorded \in [Jobs -> Nat]
    BY <2>1 DEF PoolInv, PoolTypeOK, Whole, SlotIsWhole
  <2>3. RowsKept /\ PollsKept({})
    <3>1. FinishJob(j, SlotWorker[s], slot[s].result) /\ UNCHANGED poll
      BY <2>1 DEF WorkerResult
    <3>2. RowsKept
      BY <1>0, <2>2, <3>1, FinishKeepsRows
    <3> QED
      BY <3>1, <3>2 DEF PollsKept, PollKept
  <2>4. Holds(j, SlotWorker[s]) /\ status'[j] \in Terminal /\ leases' = leases
    BY <1>0, <2>1, <2>2 DEF WorkerResult, FinishJob, TypeOK
  <2>5. crashes = 0 => slot[s].lease = leases[j]
    BY <2>1, <2>4 DEF PoolRuns, Current, RunIsCurrent
  <2>6. \A i \in Jobs : \/ recorded'[i] = recorded[i]
                        \/ crashes = 0 => recorded'[i] = leases'[i] /\ status'[i] \in Terminal
    <3>1. recorded'[j] = slot[s].lease /\ \A i \in Jobs \ {j} : recorded'[i] = recorded[i]
      BY <2>1, <2>2
    <3> HIDE DEF j
    <3> QED
      BY <2>4, <2>5, <3>1
  <2> QED
    BY <1>1, <1>2, <2>3, <2>6, KeptRuns
<1> QED
  BY <1>3, <1>4, <1>5 DEF SlotStep, BeatAnswered, BeatRefused, RunEnds, RunGivenUp, PostLost

\* A worker that dies waits for nothing any more.
LEMMA CrashRuns ==
  ASSUME PoolInv, PoolRuns, NEW w \in Workers, Crash(w)
  PROVE  PoolRuns'
<1>1. /\ crashes \in Nat /\ crashes' = crashes + 1
      /\ asked \in [Workers -> Polls \union {None}] /\ asked' = [asked EXCEPT ![w] = None]
      /\ slot' = [s \in Slots |-> IF SlotWorker[s] = w THEN Free ELSE slot[s]]
      /\ UNCHANGED poll
  BY PoolAssumption DEF PoolInv, PoolTypeOK, Crash, vars
<1>2. crashes' # 0
  BY <1>1
<1>3. Free.pc = "free"
  BY DEF Free
<1>4. ASSUME NEW v \in Workers PROVE WaitsFor(v)'
  <2>1. WaitsFor(v)
    BY DEF PoolRuns
  <2>2. \A s \in Slots : slot[s].pc = "free" => slot'[s].pc = "free"
    BY <1>1, <1>3
  <2> QED
    BY <1>1, <2>1, <2>2 DEF WaitsFor
<1> QED
  BY <1>2, <1>4 DEF PoolRuns, Current

\* Every step of the pool keeps what its runs know of their leases.
LEMMA PoolRunsNext ==
  ASSUME PoolInv, PoolRuns, RenewedRuns, OneSlotEach, [PoolNext]_allVars
  PROVE  PoolRuns'
<1>1. CASE ServerStep
  <2>1. RowsKept /\ PollsKept({}) /\ UNCHANGED poolVars
    BY <1>1, ServerKeeps DEF PoolInv, PoolTypeOK
  <2>2. SlotsKept /\ UNCHANGED <<asked, crashes, granted, recorded>>
    BY <2>1 DEF poolVars, SlotsKept, SlotKept
  <2> QED
    BY <2>1, <2>2, KeptRuns
<1>2. CASE UNCHANGED allVars
  <2>1. RowsKept /\ PollsKept({}) /\ SlotsKept /\ UNCHANGED <<asked, crashes, granted, recorded>>
    BY <1>2 DEF allVars, poolVars, vars, row, RowsKept, RowKept, PollsKept, PollKept, SlotsKept, SlotKept
  <2> QED
    BY <2>1, KeptRuns
<1>3. ASSUME NEW p \in Polls, LoopStep(p) PROVE PoolRuns'
  BY <1>3, ClaimRuns, AnswerRuns DEF LoopStep
<1> QED
  BY <1>1, <1>2, <1>3, AskRuns, SlotRuns, CrashRuns DEF PoolNext

\* Nobody waits, runs or recorded anything before the first request.
LEMMA PoolStart == PoolInit => PoolInv /\ RenewedRuns /\ PoolRuns
<1> SUFFICES ASSUME PoolInit PROVE PoolInv /\ RenewedRuns /\ PoolRuns
  OBVIOUS
<1>1. TypeOK /\ Counted
  BY TypeInit DEF PoolInit
<1>2. Free \in Slot /\ Free.pc = "free" /\ ~Free.renewed
  BY DEF Free, Slot
<1>3. \A p \in Polls : poll[p].pc = "idle"
  BY DEF PoolInit, Init, Idle
<1>4. PoolTypeOK
  BY <1>1, <1>2, PoolAssumption DEF PoolInit, PoolTypeOK
<1>5. Whole /\ RenewedRuns
  BY <1>2, <1>3 DEF PoolInit, Whole, PollIsWhole, SlotIsWhole, RenewedRuns
<1>6. PoolRuns
  BY <1>2, <1>3 DEF PoolInit, PoolRuns, Current, WaitsFor, AskedFor, GrantIsCurrent, RunIsCurrent,
                    RecordIsFinal
<1> QED
  BY <1>1, <1>4, <1>5, <1>6 DEF PoolInv

\* The types, the counts and the requests' and slots' locals, for workers of
\* any number of slots.
THEOREM PoolInvariant == PoolSpec => [](PoolInv /\ RenewedRuns)
<1>1. PoolInit => PoolInv /\ RenewedRuns
  BY PoolStart
<1> QED
  BY <1>1, PoolInvNext, PTL DEF PoolSpec

\* The worker program is one of the callers JobQueue allows, so what is proved
\* of the table for any caller holds of the pool: `bajutsu worker` never makes
\* a call out of turn.
THEOREM PoolImplementsQueue == PoolSpec => Spec
<1>1. PoolInit => Init
  BY DEF PoolInit
<1>2. PoolInv /\ [PoolNext]_allVars => [Next]_vars
  BY PoolStepIsNext
<1>3. PoolSpec => []PoolInv
  BY PoolInvariant, PTL
<1> QED
  BY <1>1, <1>2, <1>3, PTL DEF PoolSpec, Spec

\* With serial workers none of which crashed, a job ends with the outcome of
\* the run its current lease was granted for, whatever leases lapsed and
\* whatever messages were lost (finish_job's owner test).
THEOREM PoolIsSoundHolds ==
  ASSUME OneSlotEach
  PROVE  PoolSpec => []PoolIsSound
<1>1. PoolInit => PoolRuns
  BY PoolStart
<1>2. PoolInv /\ RenewedRuns /\ PoolRuns /\ [PoolNext]_allVars => PoolRuns'
  BY PoolRunsNext
<1>3. PoolInv /\ PoolRuns => PoolIsSound
  BY DEF PoolInv, PoolRuns, Current, RecordIsFinal, PoolIsSound, WinningRunIsRecorded
<1>4. PoolSpec => [](PoolInv /\ RenewedRuns)
  BY PoolInvariant
<1> QED
  BY <1>1, <1>2, <1>3, <1>4, PTL DEF PoolSpec

\* The same holds of the pool's renewed leases, on one clock.
THEOREM PoolSparesRenewedLeases ==
  ASSUME ~ClockSkew
  PROVE  PoolSpec => RenewedLeaseIsSpared
<1>1. Spec => RenewedLeaseIsSpared
  BY RenewedLeaseIsSparedHolds
<1> QED
  BY <1>1, PoolImplementsQueue, PTL
=============================================================================
