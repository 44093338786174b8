-------------------------- MODULE ScenarioRunner ----------------------------
(***************************************************************************)
(* run_all over the device pools: workers take the scenarios in order,     *)
(* lease the devices each one declares, run it, release, and recover from  *)
(* a crashed backend by leasing again, within a count, a budget of the     *)
(* scenario and one of the run.  A cancel may come at any moment.  The     *)
(* clock is abstracted to whether a budget is spent when it is read.       *)
(***************************************************************************)
EXTENDS DevicePool

CONSTANTS
  Scenarios,   \* how many scenarios the run has
  RunBudget,   \* the run's recovery budget, in units of one billing
  MaxWorkers   \* bounds the workers of the plans

Scenario == 1..Scenarios

ASSUME RunnerAssumption ==
  /\ Scenarios \in Nat \ {0} /\ RunBudget \in Nat \ {0} /\ MaxWorkers \in Nat
  /\ \A r \in Plans :
       /\ r.workers \in 1..MaxWorkers /\ r.retries \in Nat
       /\ r.need \in [Scenario -> [Pools -> Nat]]

VARIABLES
  main,      \* run_all's thread and the pools around it
  next,      \* the next scenario a worker takes
  result,    \* per scenario: how it ended
  spent,     \* RunCrashRecoveryBudget._spent, up to the budget
  givenUp,   \* RunCrashRecoveryBudget._given_up_cause
  cancelled, \* the run's cancel flag
  worker     \* per worker: _run_one_impl's locals and the lease being built

runVars == <<main, next, result, spent, givenUp, cancelled, worker>>
vars == <<poolVars, runVars>>

----------------------------------------------------------------------------
(* The command's worker count *)

\* _pool_demand: the most devices a scenario holds from a pool.
Demand(p) == CHOOSE n \in {plan.need[s][p] : s \in Scenario} :
               \A s \in Scenario : plan.need[s][p] <= n

\* Mutant: one worker per lane.
LaneCap(n) ==
  LET caps == {n} \union {Len(plan.lanes[p]) : p \in {q \in Pools : Demand(q) > 0}}
  IN CHOOSE k \in caps : \A c \in caps : k <= c

\* _resolve_lanes, _resolve_multi_target_workers: no more workers than the
\* lanes of every pool serve at once.
WorkerCap(n) ==
  LET caps == {n} \union {Len(plan.lanes[p]) \div Demand(p) : p \in {q \in Pools : Demand(q) > 0}}
      least == CHOOSE k \in caps : \A c \in caps : k <= c
  IN IF least < 1 THEN 1 ELSE least

\* A scenario that needs more than the lanes is refused before the run.
Servable == \A p \in Pools : Demand(p) <= Len(plan.lanes[p])

Workers == 1..WorkerCap(plan.workers)
Serial == Workers = {1}

----------------------------------------------------------------------------
NoLaunch == Launched(None, "none", "none", FALSE)
Idle == [pc |-> "idle", s |-> None, attempt |-> 0, forced |-> FALSE, bare |-> FALSE,
         held |-> <<>>, dev |-> None, launch |-> NoLaunch, exc |-> "none",
         crashed |-> FALSE, lz |-> None, armed |-> FALSE, replaced |-> FALSE]

Ended == {"verdict", "refused", "cancelled", "skipped", "crashed", "overtime", "exhausted",
          "timeout", "stopped", "raised", "down"}

TypeOK ==
  /\ PoolTypeOK
  /\ main \in [pc : {"open", "run", "close", "over"}, todo : SUBSET Pools, opened : SUBSET Pools,
               raised : BOOLEAN]
  /\ next \in 1..(Scenarios + 1)
  /\ result \in [Scenario -> Ended \union {"none"}]
  /\ spent \in 0..RunBudget
  /\ givenUp \in {"no", "timeout", "budget"}
  /\ cancelled \in BOOLEAN
  /\ \A w \in Workers :
       /\ worker[w].pc \in {"idle", "lease", "launch", "putback", "run", "release", "caught"}
       /\ worker[w].s \in Scenario \union {None} /\ worker[w].attempt \in 0..(plan.retries + 1)
       /\ worker[w].exc \in {"none", "crash", "device", "timeout", "down"}
       /\ worker[w].held \in Seq(Devices) /\ worker[w].dev \in Devices \union {None}

Init ==
  /\ plan \in Plans /\ Servable
  /\ PoolInit
  /\ main = [pc |-> "open", todo |-> {p \in Pools : Demand(p) > 0}, opened |-> {}, raised |-> FALSE]
  /\ next = 1 /\ result = [s \in Scenario |-> "none"]
  /\ spent = 0 /\ givenUp = "no" /\ cancelled = FALSE
  /\ worker = [w \in Workers |-> Idle]

----------------------------------------------------------------------------
(* The command: pools around run_all *)

\* _open_pools, one pool after the other; a failure closes the opened ones.
Open(p) ==
  /\ main.pc = "open" /\ p \in main.todo
  /\ \E ok \in BOOLEAN :
       /\ OpenPool(p, ok)
       /\ main' = IF ok
                  THEN [main EXCEPT !.todo = @ \ {p}, !.opened = @ \union {p},
                                    !.pc = IF main.todo = {p} THEN "run" ELSE "open"]
                  ELSE [main EXCEPT !.todo = main.opened, !.pc = "close", !.raised = TRUE]
  /\ UNCHANGED <<next, result, spent, givenUp, cancelled, worker>>

\* run_all reaches, in order, a scenario that raised: what no worker took yet
\* never starts.
Raised == \E s \in Scenario : result[s] \in {"raised", "down"}
Collect ==
  /\ main.pc = "run" /\ ~main.raised
  /\ \E s \in Scenario : result[s] \in {"raised", "down"} /\ \A r \in 1..(s - 1) : result[r] # "none"
  /\ main' = [main EXCEPT !.raised = TRUE]
  /\ UNCHANGED <<poolVars, next, result, spent, givenUp, cancelled, worker>>

\* The workers were joined: the finally closes the pools.
Joined ==
  /\ main.pc = "run" /\ \A w \in Workers : worker[w].pc = "idle"
  /\ main.raised \/ next > Scenarios
  /\ main' = [main EXCEPT !.pc = "close", !.todo = main.opened, !.raised = @ \/ Raised]
  /\ UNCHANGED <<poolVars, next, result, spent, givenUp, cancelled, worker>>

\* _close_pools: the rest of them too when one raises.
Close(p) ==
  /\ main.pc = "close" /\ p \in main.todo
  /\ \E faulty \in BOOLEAN : Shutdown(p, faulty)
  /\ main' = [main EXCEPT !.todo = @ \ {p}]
  /\ UNCHANGED <<next, result, spent, givenUp, cancelled, worker>>

\* A defect surfaces once every pool is closed.
Closed ==
  /\ main.pc = "close" /\ main.todo = {}
  /\ main' = [main EXCEPT !.pc = "over", !.raised = @ \/ defect]
  /\ UNCHANGED <<poolVars, next, result, spent, givenUp, cancelled, worker>>

Cancel ==
  /\ ~cancelled /\ main.pc = "run" /\ cancelled' = TRUE
  /\ UNCHANGED <<poolVars, main, next, result, spent, givenUp, worker>>

----------------------------------------------------------------------------
(* _run_one_impl *)

\* How the scenario ends before any device is leased, if it does.
Early(s) ==
  IF s \in plan.unfit THEN "refused"
  ELSE IF cancelled THEN "cancelled"
  ELSE IF s \in plan.refused THEN "refused"
  ELSE IF givenUp # "no" THEN "skipped"
  ELSE "none"

\* Mutant: the first attempt erases too.
TakeErasing(w) ==
  /\ main.pc = "run" /\ ~main.raised /\ next <= Scenarios
  /\ worker[w].pc = "idle" /\ (Serial => ~Raised)
  /\ next' = next + 1
  /\ result' = [result EXCEPT ![next] = Early(next)]
  /\ worker' = IF Early(next) = "none"
               THEN [worker EXCEPT ![w] = [@ EXCEPT !.pc = "lease", !.s = next, !.attempt = 1,
                                                    !.forced = next \in plan.erase]]
               ELSE worker
  /\ UNCHANGED <<poolVars, main, spent, givenUp, cancelled>>

\* A worker takes the next scenario.
Take(w) ==
  /\ main.pc = "run" /\ ~main.raised /\ next <= Scenarios
  /\ worker[w].pc = "idle" /\ (Serial => ~Raised)
  /\ next' = next + 1
  /\ result' = [result EXCEPT ![next] = Early(next)]
  /\ worker' = IF Early(next) = "none"
               THEN [worker EXCEPT ![w] = [@ EXCEPT !.pc = "lease", !.s = next, !.attempt = 1]]
               ELSE worker
  /\ UNCHANGED <<poolVars, main, spent, givenUp, cancelled>>

HeldFrom(w, p) == Cardinality({i \in DOMAIN worker[w].held : PoolOf(worker[w].held[i]) = p})
Missing(w, p) == HeldFrom(w, p) < plan.need[worker[w].s][p]

\* Every worker asks the pools in one order, browsers before Simulators.
Wanted(w, p) == Missing(w, p) /\ (p = "xcuitest" => ~Missing(w, "playwright"))

\* _lease_targets: the pools in one order, one device at a time; free.get
\* blocks.
Lease(w) ==
  /\ worker[w].pc = "lease"
  /\ \E p \in Pools, d \in Devices :
       /\ Wanted(w, p) /\ GetDevice(p, d)
       /\ worker' = [worker EXCEPT ![w] = [@ EXCEPT !.pc = "launch", !.dev = d]]
  /\ UNCHANGED <<main, next, result, spent, givenUp, cancelled>>

\* Recovery ended when the last lease came back: its time is billed.
Bill(n) == spent' = IF spent + n > RunBudget THEN RunBudget ELSE spent + n
BillIf(armed) == IF armed THEN \E n \in {0, 1} : Bill(n) ELSE UNCHANGED spent

\* The erase of a retry reaches every target, and each one's route must erase.
Forces(s) == s \in plan.erase /\ plan.need[s]["playwright"] = 0
Erases(w) == worker[w].forced /\ ~worker[w].bare

\* The lease being built is the last one the scenario needs.
LastOne(w) ==
  Len(worker[w].held) + 1 = plan.need[worker[w].s]["playwright"] + plan.need[worker[w].s]["xcuitest"]

\* The worker with one device more.
Leased(w, e) ==
  [worker[w] EXCEPT !.pc = IF LastOne(w) THEN "run" ELSE "lease", !.held = Append(@, e), !.dev = None,
                    !.armed = @ /\ ~LastOne(w)]

Launch(w) ==
  /\ worker[w].pc = "launch"
  /\ LET d == worker[w].dev p == PoolOf(d) IN
     \E l \in Start(p, d, Erases(w)) :
       \/ /\ LeaseReady(p, d, l)
          /\ worker' = [worker EXCEPT ![w] = Leased(w, l.to)]
          /\ BillIf(LastOne(w) /\ worker[w].armed)
       \/ /\ LaunchRaised(d, l)
          /\ worker' = [worker EXCEPT ![w] = [@ EXCEPT !.pc = "putback", !.launch = l, !.exc = l.exc]]
          /\ UNCHANGED spent
  /\ UNCHANGED <<main, next, result, givenUp, cancelled>>

\* The pool cleans its failed lease; what was already held is released next.
FailedLease(w) ==
  /\ worker[w].pc = "putback"
  /\ PutBack(PoolOf(worker[w].dev), worker[w].dev, worker[w].launch)
  /\ worker' = [worker EXCEPT ![w] = [@ EXCEPT !.pc = "release", !.dev = None, !.launch = NoLaunch]]
  /\ UNCHANGED <<main, next, result, spent, givenUp, cancelled>>

\* The primary is the first Simulator lease, or the only lease there is.
PrimaryAt(w) ==
  LET sims == {i \in DOMAIN worker[w].held : PoolOf(worker[w].held[i]) = "xcuitest"}
  IN IF sims = {} THEN 1 ELSE CHOOSE i \in sims : \A j \in sims : i <= j
Primary(w) == worker[w].held[PrimaryAt(w)]

\* _run_on_lease: the verdict, or a Simulator's runner that crashed.
Run(w) ==
  /\ worker[w].pc = "run"
  /\ \/ /\ worker' = [worker EXCEPT ![w] = [@ EXCEPT !.pc = "release", !.exc = "none"]]
        /\ UNCHANGED env
     \/ \E d \in ToSet(worker[w].held) :
          /\ PoolOf(d) = "xcuitest"
          /\ env' = [env EXCEPT ![d].runner = "dead"]
          /\ worker' = [worker EXCEPT ![w] = [@ EXCEPT !.pc = "release", !.exc = "crash", !.lz = Primary(w)]]
  /\ UNCHANGED <<plan, free, warm, heir, collectors, defect>>
  /\ UNCHANGED <<main, next, result, spent, givenUp, cancelled>>

\* The next one released: the others in reverse and the primary last, or all
\* of them in reverse when the acquisition failed.
ReleasedAt(w) ==
  LET last == Len(worker[w].held)
      leased == worker[w].exc = "none" \/ worker[w].lz # None
  IN IF leased /\ last > 1 /\ PrimaryAt(w) = last THEN last - 1 ELSE last

ReleaseNext(w) ==
  /\ worker[w].pc = "release" /\ worker[w].held # <<>>
  /\ LET d == worker[w].held[ReleasedAt(w)]
     IN \E end \in Ends : Release(PoolOf(d), d, end)
  /\ worker' = [worker EXCEPT ![w].held = RemoveAt(@, ReleasedAt(w))]
  /\ UNCHANGED <<main, next, result, spent, givenUp, cancelled>>

\* The scenario is over: its result, and the worker takes another.
Finish(w, how) ==
  /\ result' = [result EXCEPT ![worker[w].s] = how]
  /\ worker' = [worker EXCEPT ![w] = Idle]

\* Mutant: the crash handler releases the crashed lease once more.
ReleasedTwice(w) ==
  /\ worker[w].pc = "release" /\ worker[w].held = <<>>
  /\ IF worker[w].exc = "none"
     THEN Finish(w, "verdict") /\ UNCHANGED poolVars
     ELSE /\ worker' = [worker EXCEPT ![w].pc = "caught"] /\ UNCHANGED result
          /\ IF worker[w].lz = None THEN UNCHANGED poolVars
             ELSE Release(PoolOf(worker[w].lz), worker[w].lz, "done")
  /\ UNCHANGED <<main, next, spent, givenUp, cancelled>>

Released(w) ==
  /\ worker[w].pc = "release" /\ worker[w].held = <<>>
  /\ IF worker[w].exc = "none"
     THEN Finish(w, "verdict")
     ELSE worker' = [worker EXCEPT ![w].pc = "caught"] /\ UNCHANGED result
  /\ UNCHANGED <<poolVars, main, next, spent, givenUp, cancelled>>

\* mark_given_up: the first cause stays.
GiveUp(cause) == givenUp' = IF givenUp = "no" THEN cause ELSE givenUp

\* The preparation of a forced erase timed out: the host is wedged.
Wedged(w) ==
  /\ worker[w].pc = "caught" /\ worker[w].exc = "timeout" /\ Erases(w)
  /\ Finish(w, "timeout") /\ GiveUp("timeout") /\ BillIf(worker[w].armed)
  /\ UNCHANGED <<poolVars, main, next, cancelled>>

\* Any other device fault of a forced erase: lease once more without it.
Degrade(w) ==
  /\ worker[w].pc = "caught" /\ worker[w].exc = "device" /\ Erases(w)
  /\ worker' = [worker EXCEPT ![w] = [@ EXCEPT !.pc = "lease", !.bare = TRUE, !.exc = "none"]]
  /\ UNCHANGED <<poolVars, main, next, result, spent, givenUp, cancelled>>

\* A fault that is no crash leaves _run_one_impl, and ends the run.
Escape(w) ==
  /\ worker[w].pc = "caught"
  /\ worker[w].exc = "down" \/ (worker[w].exc \in {"device", "timeout"} /\ ~Erases(w))
  /\ Finish(w, IF worker[w].exc = "down" THEN "down" ELSE "raised")
  /\ BillIf(worker[w].armed)
  /\ UNCHANGED <<poolVars, main, next, givenUp, cancelled>>

\* Mutant: one retry more than the count.
OneMore(w) == worker[w].attempt <= plan.retries + 1

WithinCount(w) == worker[w].attempt <= plan.retries
Exhausted == spent >= RunBudget
CanReplace(s) == s \in plan.erase /\ plan.booted

\* Mutant: the replacement is asked for before the retry is decided.
AskFirst(w, inTime, stalled) ==
  CanReplace(worker[w].s) /\ ~worker[w].replaced /\ worker[w].lz # None /\ (worker[w].forced \/ stalled)

\* The device is degraded past what an erase clears: ask for another one.
Escalates(w, inTime, stalled) ==
  /\ WithinCount(w) /\ inTime /\ ~Exhausted /\ ~cancelled
  /\ CanReplace(worker[w].s) /\ ~worker[w].replaced /\ worker[w].lz # None
  /\ worker[w].forced \/ stalled

\* The next attempt leases afresh, erased where the routes allow it.
Retry(w, asked) ==
  [worker[w] EXCEPT !.pc = "lease", !.attempt = @ + 1, !.crashed = TRUE, !.armed = TRUE,
                    !.forced = Forces(worker[w].s), !.bare = FALSE, !.exc = "none",
                    !.lz = None, !.replaced = @ \/ asked]

\* Mutant: a budget that is spent is taken for a device that is gone.
GiveUpSpent(w, inTime) ==
  IF Exhausted THEN GiveUp("budget") ELSE UNCHANGED givenUp

\* The latch: only where the run's budget is why the recovery stopped.
GiveUpIfBound(w, inTime) ==
  IF WithinCount(w) /\ inTime /\ Exhausted THEN GiveUp("budget") ELSE UNCHANGED givenUp

\* Why the recovery ends, if it does.
Stops(w, inTime) ==
  IF ~WithinCount(w) THEN "crashed"
  ELSE IF ~inTime THEN "overtime"
  ELSE IF Exhausted THEN "exhausted"
  ELSE IF cancelled THEN "stopped"
  ELSE "no"

\* except BackendCrashError.  A scenario's own budget runs from its first
\* crash, which is therefore never out of time.
Crashed(w) ==
  /\ worker[w].pc = "caught" /\ worker[w].exc = "crash"
  /\ \E inTime, stalled \in BOOLEAN :
       /\ worker[w].crashed \/ inTime
       /\ LET asks == Escalates(w, inTime, stalled) IN
            /\ IF asks THEN AskReplacement(worker[w].lz, worker[w].s) ELSE UNCHANGED env
            /\ IF Stops(w, inTime) = "no"
               THEN worker' = [worker EXCEPT ![w] = Retry(w, asks)] /\ UNCHANGED <<result, spent>>
               ELSE Finish(w, Stops(w, inTime)) /\ \E n \in {0, 1} : Bill(n)
       /\ GiveUpIfBound(w, inTime)
  /\ UNCHANGED <<plan, free, warm, heir, collectors, defect>>
  /\ UNCHANGED <<main, next, cancelled>>

----------------------------------------------------------------------------
MainStep == Collect \/ Joined \/ Closed \/ \E p \in Pools : Open(p) \/ Close(p)
WorkerStep(w) ==
  \/ Take(w) \/ Lease(w) \/ Launch(w) \/ FailedLease(w) \/ Run(w) \/ ReleaseNext(w) \/ Released(w)
  \/ Wedged(w) \/ Degrade(w) \/ Escape(w) \/ Crashed(w)

Next == MainStep \/ Cancel \/ \E w \in Workers : WorkerStep(w)

Spec == Init /\ [][Next]_vars

\* Every thread runs: each wait in it is bounded but the one for a device.
FairSpec == Spec /\ WF_vars(MainStep) /\ \A w \in 1..MaxWorkers : WF_vars(w \in Workers /\ WorkerStep(w))

----------------------------------------------------------------------------
(* Properties *)

Held(w) == ToSet(worker[w].held) \union ({worker[w].dev} \ {None})
Queued(d) == Cardinality({i \in 1..Len(free[PoolOf(d)]) : free[PoolOf(d)][i] = d})

\* Which worker's lease holds which device of a pool.
Out(p) == {h \in Workers \X Devices : h[2] \in Held(h[1]) /\ PoolOf(h[2]) = p}

\* The device queue hands every device to one scenario at a time: a device is
\* queued at most once and never while a lease holds it, and no lane is lost,
\* whatever failed between free.get and free.put.
DevicesAreWhole ==
  /\ \A d \in Devices : Queued(d) + Cardinality({w \in Workers : d \in Held(w)}) <= 1
  /\ \A p \in Pools : Len(free[p]) + Cardinality(Out(p)) = Len(plan.lanes[p])

\* "The old udid is deliberately never freed again": a device that was
\* replaced is out of the queue, and no lease but the one that lost it, while
\* that one fails, still names it.
ReplacedStaysOut ==
  \A d \in Devices : heir[d] # None =>
    /\ Queued(d) = 0
    /\ \A w \in Workers : d \in Held(w) => worker[w].dev = d /\ worker[w].launch.to = heir[d]

\* "So the runner process it still owns doesn't leak": a runner that is up is
\* one a lease holds or the pool keeps warm, or the failed lease that will
\* tear it down.
NoRunnerLeaks ==
  \A d \in Devices : env[d].runner = "alive" =>
    d \in warm \/ \E w \in Workers : d \in Held(w) \/ d = worker[w].launch.to

\* However the run ended, nothing of it is still up when the command returns.
NothingLeftUp == main.pc = "over" => collectors = {} /\ \A d \in Devices : env[d].runner # "alive"

\* "The next lease is therefore necessarily the same device and the same
\* worker": a replacement is served to the scenario that asked for it, never to
\* a later one that may have to keep its data.
RequestIsOwn == \A w \in Workers : worker[w].pc = "launch" => env[worker[w].dev].asked \in {None, worker[w].s}

\* "assert last_crash is not None": only a retry erases, so a preparation that
\* times out always has a crash to report.
ErasedAfterCrash == \A w \in Workers : worker[w].forced => worker[w].crashed

\* "Never on a recovery that succeeded": recovery is given up for the whole
\* run only where a scenario failed for it.
LatchIsEarned ==
  givenUp # "no" => \E s \in Scenario : result[s] = IF givenUp = "timeout" THEN "timeout" ELSE "exhausted"

\* The devices of a pool are where the queue and the leases say.
DevicesAreSound == TypeOK /\ DevicesAreWhole /\ ReplacedStaysOut

\* Somebody answers for every runner, and nobody has to once the run is over.
RunnersEnd == NoRunnerLeaks /\ NothingLeftUp

\* Recovery is asked for, forced and given up for the scenario that crashed.
RecoveryIsOwn == RequestIsOwn /\ ErasedAfterCrash /\ LatchIsEarned

\* No scenario waits for ever for a device: the run ends.
RunEnds == <>(main.pc = "over")
=============================================================================
