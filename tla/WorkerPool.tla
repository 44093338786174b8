----------------------------- MODULE WorkerPool -----------------------------
(***************************************************************************)
(* The `bajutsu worker` program against the server's JobQueue.  A worker   *)
(* asks for a lease whenever one of its places is free, runs each job on a *)
(* thread that heart-beats the lease, and posts one result.  Requests and  *)
(* responses may be lost, a heartbeat may be late by more than the lease   *)
(* timeout, and a worker may crash and come back under its own id.         *)
(*                                                                         *)
(* A serial worker has one slot; a device-cloud worker has several, and    *)
(* they all act under the one worker id.                                   *)
(***************************************************************************)
EXTENDS JobQueue

CONSTANTS
  Slots,        \* the places of all workers
  SlotWorker,   \* slot -> the worker it belongs to
  Lossy,        \* a lease response or a result post may be lost
  MaxCrashes    \* how often a worker may crash (bounds the state space)

ASSUME PoolAssumption ==
  /\ SlotWorker \in [Slots -> Workers]
  /\ Lossy \in BOOLEAN
  /\ MaxCrashes \in Nat
  /\ None \notin Polls

VARIABLES
  asked,     \* worker -> the lease request it waits for, or None
  slot,      \* slot -> the job it runs
  crashes,
  granted,   \* history, per lease request: which lease of the job it made
  recorded   \* history, per job: which lease's run ended it, 0 for none

poolVars == <<asked, slot, crashes, granted, recorded>>
allVars == <<vars, poolVars>>

Slot == [pc : {"free", "running", "posting"}, job : Jobs \union {None},
         lease : Nat,          \* history: the lease this run was started for
         renewed : BOOLEAN,    \* a heartbeat renewed the lease and reads the cancel flag next
         cancel : BOOLEAN,     \* the cancel relay was asked to stop the run
         lost : BOOLEAN,       \* the server answered 409
         result : Terminal \union {None}]

Free == [pc |-> "free", job |-> None, lease |-> 0, renewed |-> FALSE,
         cancel |-> FALSE, lost |-> FALSE, result |-> None]

PoolTypeOK ==
  /\ TypeOK
  /\ asked \in [Workers -> Polls \union {None}]
  /\ slot \in [Slots -> Slot]
  /\ crashes \in 0..MaxCrashes
  /\ granted \in [Polls -> Nat]
  /\ recorded \in [Jobs -> Nat]

PoolInit ==
  /\ Init
  /\ asked = [w \in Workers |-> None]
  /\ slot = [s \in Slots |-> Free]
  /\ crashes = 0
  /\ granted = [p \in Polls |-> 0]
  /\ recorded = [j \in Jobs |-> 0]

----------------------------------------------------------------------------
SlotsOf(w) == {s \in Slots : SlotWorker[s] = w}
FreeSlots(w) == {s \in SlotsOf(w) : slot[s].pc = "free"}

\* The worker stops waiting for request p, if it still is.
Resumed(p) == [asked EXCEPT ![poll[p].worker] = IF @ = p THEN None ELSE @]

(* The lease loop *)

\* One lease request at a time, and none while every place is taken.
AskLease(w, p) ==
  /\ asked[w] = None /\ FreeSlots(w) # {}
  /\ SweepScan(p, w)
  /\ asked' = [asked EXCEPT ![w] = p]
  /\ UNCHANGED <<slot, crashes, granted, recorded>>

Claimed(p) ==
  /\ \E j \in Jobs : ClaimJob(p, j) /\ granted' = [granted EXCEPT ![p] = leases[j] + 1]
  /\ UNCHANGED <<asked, slot, crashes, recorded>>

\* 204, or the org's secrets could not be read.
NoLease(p) ==
  /\ NothingToLease(p) \/ FailUnreadSecrets(p)
  /\ asked' = Resumed(p)
  /\ granted' = [granted EXCEPT ![p] = 0]
  /\ UNCHANGED <<slot, crashes, recorded>>

\* A slot starts the leased job, if the worker that asked is still there.
LeaseArrives(p) ==
  /\ RespondLease(p)
  /\ asked[poll[p].worker] = p
  /\ \E s \in FreeSlots(poll[p].worker) :
       slot' = [slot EXCEPT ![s] = [Free EXCEPT !.pc = "running",
                                      !.job = poll[p].got, !.lease = granted[p]]]
  /\ asked' = Resumed(p)
  /\ granted' = [granted EXCEPT ![p] = 0]
  /\ UNCHANGED <<crashes, recorded>>

\* The response is lost, or nobody waits for it: the job stays leased until
\* its lease lapses.
LeaseResponseLost(p) ==
  /\ RespondLease(p)
  /\ Lossy \/ asked[poll[p].worker] # p
  /\ asked' = Resumed(p)
  /\ granted' = [granted EXCEPT ![p] = 0]
  /\ UNCHANGED <<slot, crashes, recorded>>

----------------------------------------------------------------------------
(* A slot's heartbeat *)

Beat(s) ==
  /\ slot[s].pc = "running" /\ ~slot[s].lost /\ ~slot[s].renewed
  /\ HeartbeatJob(slot[s].job, SlotWorker[s])
  /\ slot' = [slot EXCEPT ![s].renewed = TRUE]
  /\ UNCHANGED <<asked, crashes, granted, recorded>>

\* The route reads the flag in a statement of its own and answers with it; a
\* lost answer is ridden out until the next beat.
BeatAnswered(s) ==
  LET j == slot[s].job
      flagged == Holds(j, SlotWorker[s]) /\ cancel_requested[j] IN
  /\ slot[s].renewed
  /\ \E heard \in (IF Lossy THEN BOOLEAN ELSE {TRUE}) :
       slot' = [slot EXCEPT ![s].renewed = FALSE, ![s].cancel = @ \/ (heard /\ flagged)]
  /\ UNCHANGED <<vars, asked, crashes, granted, recorded>>

\* 409: the lease is lost, and the run is abandoned once its thread ends.
BeatRefused(s) ==
  /\ slot[s].pc = "running" /\ ~slot[s].lost /\ ~slot[s].renewed
  /\ ~Holds(slot[s].job, SlotWorker[s])
  /\ slot' = [slot EXCEPT ![s].lost = TRUE]
  /\ UNCHANGED <<vars, asked, crashes, granted, recorded>>

----------------------------------------------------------------------------
(* A slot's run and its result *)

\* Mutant: a run thread that died early leaves no result to post.
RunEndsEmpty(s) ==
  /\ slot[s].pc = "running" /\ ~slot[s].lost
  /\ slot' = [slot EXCEPT ![s].pc = "posting", ![s].result = None]
  /\ UNCHANGED <<vars, asked, crashes, granted, recorded>>

\* The run ends with a result; a heartbeat may be in flight.  A relayed cancel
\* may come too late to turn the result into a cancelled one.
RunEnds(s) ==
  /\ slot[s].pc = "running" /\ ~slot[s].lost
  /\ \E result \in (IF slot[s].cancel THEN Terminal ELSE {"done", "failed"}) :
       slot' = [slot EXCEPT ![s].pc = "posting", ![s].result = result]
  /\ UNCHANGED <<vars, asked, crashes, granted, recorded>>

\* Mutant: a run that posts nothing does not give its place back.
RunGivenUpInPlace(s) ==
  /\ slot[s].pc = "running" /\ ~slot[s].renewed
  /\ slot' = [slot EXCEPT ![s].lost = TRUE]
  /\ UNCHANGED <<vars, asked, crashes, granted, recorded>>

\* Nothing is posted for an abandoned run, nor for one whose bundle could not
\* be fetched just then: its lease is left to lapse.
RunGivenUp(s) ==
  /\ slot[s].pc = "running" /\ ~slot[s].renewed
  /\ slot' = [slot EXCEPT ![s] = Free]
  /\ UNCHANGED <<vars, asked, crashes, granted, recorded>>

\* The server applies the result, or answers 409 and changes nothing.
PostResult(s) ==
  LET j == slot[s].job IN
  /\ slot[s].pc = "posting" /\ ~slot[s].renewed
  /\ \/ /\ WorkerResult(j, SlotWorker[s], slot[s].result)
        /\ recorded' = [recorded EXCEPT ![j] = slot[s].lease]
     \/ /\ ~Holds(j, SlotWorker[s])
        /\ UNCHANGED <<vars, recorded>>
  /\ slot' = [slot EXCEPT ![s] = Free]
  /\ UNCHANGED <<asked, crashes, granted>>

\* One try: a failed post is logged and never repeated.
PostLost(s) ==
  /\ Lossy /\ slot[s].pc = "posting" /\ ~slot[s].renewed
  /\ slot' = [slot EXCEPT ![s] = Free]
  /\ UNCHANGED <<vars, asked, crashes, granted, recorded>>

\* The process dies; its requests run on in the server's threads.
Crash(w) ==
  /\ crashes < MaxCrashes
  /\ asked[w] # None \/ FreeSlots(w) # SlotsOf(w)
  /\ crashes' = crashes + 1
  /\ asked' = [asked EXCEPT ![w] = None]
  /\ slot' = [s \in Slots |-> IF SlotWorker[s] = w THEN Free ELSE slot[s]]
  /\ UNCHANGED <<vars, granted, recorded>>

----------------------------------------------------------------------------
ServerStep ==
  /\ \/ \E j \in Jobs : EnqueueJob(j) \/ LeaseLapses(j)
     \/ \E c \in Cancels : CancelStep(c)
     \/ \E p \in Polls : \/ QueueScan(p)
                         \/ \E j \in Jobs : ReclaimRow(p, j) \/ SpareRow(p, j) \/ NextCandidate(p, j)
  /\ UNCHANGED poolVars

LoopStep(p) ==
  Claimed(p) \/ NoLease(p) \/ LeaseArrives(p) \/ LeaseResponseLost(p)

SlotStep(s) ==
  \/ Beat(s) \/ BeatAnswered(s) \/ BeatRefused(s)
  \/ RunEnds(s) \/ RunGivenUp(s) \/ PostResult(s) \/ PostLost(s)

PoolNext ==
  \/ ServerStep
  \/ \E w \in Workers, p \in Polls : AskLease(w, p)
  \/ \E p \in Polls : LoopStep(p)
  \/ \E s \in Slots : SlotStep(s)
  \/ \E w \in Workers : Crash(w)

\* The server answers the requests it took, a worker keeps asking, a run
\* ends, a result is posted, and time passes.  Nothing makes anybody enqueue,
\* cancel, crash, or heart-beat.
PollProgress(p) ==
  \/ LoopStep(p)
  \/ /\ \/ QueueScan(p)
        \/ \E j \in Jobs : ReclaimRow(p, j) \/ SpareRow(p, j) \/ NextCandidate(p, j)
     /\ UNCHANGED poolVars

Fairness ==
  /\ \A p \in Polls : WF_allVars(PollProgress(p))
  /\ \A w \in Workers : WF_allVars(\E p \in Polls : AskLease(w, p))
  /\ \A s \in Slots : /\ WF_allVars(BeatAnswered(s))
                      /\ WF_allVars(RunEnds(s) \/ (slot[s].lost /\ RunGivenUp(s)))
                      /\ WF_allVars(PostResult(s))
  /\ \A j \in Jobs : WF_allVars(LeaseLapses(j) /\ UNCHANGED poolVars)

PoolSpec == PoolInit /\ [][PoolNext]_allVars
FairPoolSpec == PoolSpec /\ Fairness

----------------------------------------------------------------------------
(* Properties *)

\* The run whose result ends a job is the one started for the job's current
\* lease: "a reclaimed, re-leased, or already-finished job rejects the stale
\* write so the winning run is never overwritten" (_finish_job).  It is about
\* workers that did not crash: one that comes back under its own id meets the
\* leases it held before.
WinningRunIsRecorded ==
  crashes = 0 => \A j \in Jobs : recorded[j] # 0 => recorded[j] = leases[j]

\* A job ends with the outcome of its current lease's run, on whichever worker.
PoolIsSound == PoolTypeOK /\ WinningRunIsRecorded

\* Every queued job that some worker can serve ends: lost leases, lost
\* results and crashes use up its attempts, and none of them leaves it waiting.
QueuedJobEnds ==
  \A j \in {i \in Jobs : \E w \in Workers : <<w, i>> \in Servable} :
    status[j] = "queued" ~> status[j] \in Terminal
=============================================================================
