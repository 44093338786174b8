# Bajutsu: its job queue, its workers, its runner and its crawler, in TLA+

Bajutsu runs mobile and web end-to-end scenarios. `bajutsu serve` is a control
plane: people start `run`, `record`, `crawl` and `triage` jobs over HTTP, the
jobs wait in a database table, and `bajutsu worker` processes on other machines
lease them, run them and report back. Several replicas of the server may share
one database. A `run` takes devices from pools and recovers from the ones that
crash; a `crawl` lets several devices explore one app over one shared map. This
directory models the parts of the program where the order of things is hard to see
and hard to test: who holds a job, a device or a screen, who may end it, how a
cancel or a stop reaches it, and what is left when messages, processes, devices or
clocks fail.

Source paths below are relative to `src/bajutsu/`.

- [Inventory](#inventory)
- [Modules and how they correspond to the code](#modules-and-how-they-correspond-to-the-code)
- [What the runs show](#what-the-runs-show)
- [Bounds, symmetry, deadlock, fairness](#bounds-symmetry-deadlock-fairness)
- [Findings and known limits](#findings-and-known-limits)
- [What is proved](#what-is-proved)
- [What is only model-checked](#what-is-only-model-checked)
- [Not modelled](#not-modelled)
- [Plan](#plan)

## Inventory

### The system's parts

| part | code | state it keeps | operations |
|---|---|---|---|
| jobs table | `serve/server/db/sql_repository.py` | one row per job: status, owner, `leased_at`, attempts, cancel flag, handoff columns, batch ARN | enqueue, sweep and lease, heartbeat, result, cancel, open / answer / take a handoff, store an ARN, finished ids |
| worker routes | `serve/operations/worker.py` | none of its own | lease, heartbeat, result, log, artifact, handoff, batch ARN: each tests the lease and writes |
| worker program | `serve/cli/worker.py` | lease loop, slots and their directories, one current job per slot, the pending lines of its log | poll, run with heartbeat, post one result, stream the log, checkpoint a cloud run, shut down |
| job processes | `serve/jobs.py`, `serve/server/worker_job.py` | the `Job` (status, flags, live child), the `CancelRelay` | boot, build, spawn, register, cancel, escalate, kill, sweep the group |
| registry and dispatch | `serve/state/job_registry.py`, `serve/server/db_executor.py`, `serve/operations/{dispatch,reads}.py` | the in-memory `Job`s, the id counter | register under the caps, insert the row, cancel, release finished jobs, seed the ids |
| live log | `serve/logbus/`, `serve/server/queue_logbus.py`, `serve/operations/sse.py` | per job: channel of lines, closed flag, line and byte budget; the eviction order | publish, subscribe, replay and tail, close, evict |
| handoff relay | `serve/cli/worker_relay.py`, `cli/handoff/` | the pending request, its generation, the record's stdin | open, poll, time out, deliver, stop |
| cloud batch | `serve/batch_provider/`, `common/cloud/devicefarm/`, checkpoint in `serve/cli/worker.py` | the ARN of the scheduled cloud run | schedule, store, resume, stop |
| device pools | `common/runner/pool.py`, `common/platform_lifecycle/` | free devices, warm environments, collectors, replacements | lease, start, replace, release, close |
| runner | `common/runner/pipeline.py`, `common/runner/recovery/`, `run/cli.py` | scenarios to run, results, recovery budgets, the cancel flag | take a scenario, lease, run, recover, give up, shut down |
| crawl | `crawl/core/`, `crawl/cli.py` | screen map, frontier, lanes, budgets, the map on disk | claim an operation, record an edge or a crash, discover a screen, requeue, retire, continue, resume |
| orchestrator | `common/orchestrator/` | step results, wait deadlines | run steps, wait, assert, capture evidence |
| the rest | drivers, config, report, codegen, MCP, companions ... | see `PROJECT.json` "components" | adapters of external tools and sequential, stateless computations |

### How they interact

```
 browser ── start / cancel / answer ──▶ server threads ──▶ jobs table ◀── server threads ◀── worker
                    │                      │  (any replica)                lease/beat/result    │
                    ▼                      ▼                                                    ▼
               JobRegistry             log bus ◀── log, artifacts ───────────────── run thread, heartbeat,
               (in memory)                                                          CancelRelay, child process
```

- Server and worker share nothing but the table: a worker polls; a lost lease is
  noticed by *some* worker's next poll, which sweeps expired rows before it scans.
- A cancel is a column. The worker reads it in the answer to its heartbeat, and the
  `CancelRelay` carries it to the run thread, which may not have made the job yet.
- Server threads share the in-memory `Job`s under the registry's lock; everything
  else they share is a row, so two requests meet only in conditional UPDATEs.
- The scenario workers of one run share the pools' queues, the run's recovery budget and the
  results; a device belongs to the lease that took it from the queue until it is put back.
- The lanes of one crawl share a coordinator behind one lock; the device work between two
  of its methods is not locked, so what a lane knows of the map may be old when it returns.

### What is hard here

1. Every route is a few statements with other replicas' statements between them.
2. Leases are times read from several machines' clocks.
3. Every message is sent once: a lease response, a heartbeat answer or a result may
   be lost, and a worker may crash anywhere.
4. A job exists in four places (registry, row, worker slot, process), made and ended
   in different orders, and a cancel may arrive between any two of them.
5. Signals reach processes that may have just exited, may ignore them, or are about
   to be replaced.
6. A log line, an ARN and a handoff answer travel beside the result, on threads of their own: each
   may be late, lost, or overtaken by the end of the job.
7. Devices fail while they are leased, started, run, released or replaced, and a run
   must neither lose one nor hand it out twice.
8. Several lanes change one frontier, stop on shared budgets, and wait for each other.

### What makes each part correct

| part | properties |
|---|---|
| jobs table | a job is leased at most `MaxAttempts` times and each lost lease is counted once; a finished row never changes; nothing of a lost lease survives it; an applied cancel is never dropped; a cancel is refused only to a job that is over; a renewed lease is spared; the statements implement a one-step lifecycle |
| worker program | the run whose result ends the job is the one started for its last lease; a queued job that somebody can serve ends; slots share no place and no directory; a stop meets every slot and ends the worker |
| job processes | a cancel is delivered once, misses no child, asks the leader before the group, leaves no driver, ends the job |
| registry and dispatch | the caps hold; an answered cancel reaches the row; ids are fresh across a restart; a cancelled job's stream closes |
| log streamer, live log | lines arrive in order and once; the tail precedes the result; the notice is the last live line; a viewer misses nothing; no channel is forgotten; streams and `stop` end |
| handoff relay | one answer per request; an answer that resumed the job reaches the record; the relay's threads end |
| cloud batch | a run is stopped only by a cancel once the server knows it, and followed by somebody while it runs; the stored ARN is never replaced |
| device pools, runner | no device is lost, free twice, or used after it was replaced; no runner process outlives the run; recovery belongs to the scenario that crashed; the run ends |
| crawl | no operation is lost or tried twice; the map is true of the app; "completed" means explored; the crawl ends; the plan on disk is what is left |

`PROJECT.json` "hazards" lists, each at its line, what in this code is hard to test,
with the properties that cover it, or a note why none does yet.

## Modules and how they correspond to the code

| module | models | extends / instantiates |
|---|---|---|
| `JobLifecycle` | what the jobs table promises, each operation one step | |
| `JobQueue` | the table, statement by statement | refines `JobLifecycle` |
| `WorkerPool` | the worker program's leases, heartbeats and results against the table | extends `JobQueue` |
| `JobProcess` | one job's processes on the worker, and its cancel | |
| `Dispatch` | the server process in front of the table | instantiates `JobLifecycle` |
| `OrderedLog` | what a live log promises: in order, once, gaps allowed | |
| `LogStreamer` | the worker's `_LogStreamer` | refines `OrderedLog` |
| `LiveLog` | the server's log route, budget, bus, viewers and eviction | |
| `HandoffRelay` | a record's pause: worker relay, row, pages | |
| `Slots` | a device-cloud worker's places, directories and shutdown | |
| `BatchCheckpoint` | a cloud run's ARN against the lease | |
| `DevicePool` | free devices, warm environments, replacement, teardown | |
| `ScenarioRunner` | `run_all` over the pools, with recovery | extends `DevicePool` |
| `Crawl` | the crawl's coordinator, lanes, warm starts and map on disk | |
| `JobQueueProofs` | theorems about the table and the pool | extends `WorkerPool` |
| `ServerProofs` | theorems about the server process and a leased job's processes | extends `Dispatch`, `JobProcess` |
| `WorkerProofs` | theorems about the device-cloud worker's slots and the handoff relay | extends `Slots`, `HandoffRelay` |
| `LogStreamerProofs`, `LiveLogProofs`, `BatchCheckpointProofs`, `ScenarioRunnerProofs`, `CrawlProofs` | theorems | extends the module it names |
| `MC*` | constants and symmetry for the runs | |

`PROJECT.json` "map" names, per definition, the lines it stands for. One row of the jobs table appears in
several modules: in full in `JobQueue`, as a lifecycle in `Dispatch`, and reduced to the columns in question
(lease, cancel flag, handoff, ARN) in `LiveLog`, `HandoffRelay` and `BatchCheckpoint`, where every conditional
UPDATE is one step, as `JobQueueProofs` shows the table to behave.

### `JobQueue`

Each SQL statement is a step; a conditional UPDATE tests and writes in one step. Row
locks are not modelled: they only remove interleavings.

- **Lease poll** (`lease_job`, after `reclaim_expired_leases`). `SweepScan` is the sweep's
  SELECT and keeps what it read (`attempts`, `cancelling`); `ReclaimRow` / `SpareRow` are
  its UPDATE per row, which re-checks everything it read; `QueueScan` is the lease's
  SELECT; `ClaimJob` / `NextCandidate` are the conditional claim per candidate, oldest
  first; `RespondLease` or `FailUnreadSecrets` is what the route does with the claim.
- **Time.** `lapsed[j]` says that `leased_at` lies before a sweep's cutoff. A sweep keeps
  the set `old` of rows that were below its own cutoff; writing `leased_at` takes the row
  out of every sweep's `old` (`Stamped`), except those of replicas whose clock runs ahead
  (`SkewedPolls`, only with `ClockSkew`).
- **Cancel** (`cancel_job`). One round is the UPDATE of a queued row, the UPDATE of a
  leased row and a read; `tries` counts rounds up to `CancelAttempts`.
- **Handoff columns.** `TakeHandoffResponse` is a SELECT and an UPDATE of the value the
  SELECT read; the pair acts as the one step it is, because a row changed in between
  makes the UPDATE match nothing.
- A worker here is *any* caller of the routes, at any time. `leases` is a history variable.

### `WorkerPool`

Gives the callers a program: `AskLease` / `LeaseArrives` is `_serve_leases` and
`_serve_slots`; `Beat`, `BeatAnswered`, `BeatRefused` is the heartbeat thread, whose route
renews the lease in one statement and reads the flag in another; `RunEnds`, `RunGivenUp`,
`PostResult` is `_run_with_heartbeat` and `_finish_job`. `LeaseResponseLost`, `PostLost` and the
unheard answer in `BeatAnswered` are the network; `Crash` loses a worker's slots, while
its requests run on in the server. A serial worker has one slot; a device-cloud worker
has several under one worker id.

### `JobProcess`

One leased job on the worker. `run` is the run thread: fetch, `bind` the job to the
`CancelRelay`, boot, build, spawn, `_register_proc`, wait, sweep. `ask[t]` is a thread that
calls `CancelRelay.request` (the heartbeat, a signal's helper thread, a timed-out handoff)
and then `cancel_job`; the run thread itself delivers a cancel that came before `bind`.
`kill` is the helper thread of a second Ctrl-C. Each critical section of the relay's lock
and of the job's lock is a step; signals are sent outside them, and are steps of their own.

A child is a leader (`life`), the signals sent to it and its group (`sent`), and whether
a driver it started still lives in the group (`helper`). Assumed of the outside world, and
named so in `map` (external): SIGKILL ends a process; a SIGTERM ends every process but a
registered cooperative run (`graceful_cancel`), which may be wedged; timers fire; a driver
does not hold the child's output pipe open. Left out: batch jobs, a failed read of the
child's output, and a second Ctrl-C whose `poll()` reaps a leader between its registration and
`_pgid_of`: the group id is read while the leader lives.

### `Dispatch`

The server process in front of the table. A start request is `try_register` (read who is
running under the lock, probe the table outside it, count and insert under it) followed by
`DbQueueExecutor.dispatch` (INSERT, look at `job.cancelled`, carry the cancel, close the stream). A
cancel request is `operations/reads.py` `cancel_job`: the in-memory job, the row, the flag, the row
again, the table's cancel, the mark, the stream. `Restart` loses memory and requests and seeds
the id counter from the table. The table is `JobLifecycle` (each operation one step), which is
what `JobQueueProofs` proves `JobQueue` to implement. The per-user cap has the shape of the
per-organisation cap and is left out; each cancel thread answers one request. The registry is
memory: after a `Restart` the caps count only the jobs this process registered, and `CapsHold` says
no more than that.

### `LogStreamer` and `OrderedLog`

`Add` is the run thread's `add` (with its overflow), `TimedFlush` / `FinalFlush` the two flushers,
`FlushStep` one turn of the flush loop: take a batch under the lock, post it, put it back on a failure, look at
`stop` and at the budget. `OrderedLog` is the promise: the run prints lines, and some of them arrive,
in order and once. `PostsInOrder` is that refinement, with `arrived` mapped to what was posted.

### `LiveLog`

One replica. `Send` and `PostStep` are the log route: test the lease, ask the budget line by line, publish,
enter the channel in the eviction order; `Result` and `EnderStep` are the result route's close. `Subscribe`,
`ViewerStep` and `Disconnect` are a viewer's generator: replay, wait, poll the row while it is quiet, one more
pass after the end, fall back to `console.log`. A channel discarded under a viewer stays readable to it, as
the Python object does, so channels are numbered and `current[j]` names the one the bus holds. Two history variables name
what the code's comments do not speak of: `late` are the jobs with a post that outlived the worker's timeout or its lease (marked
where it is overtaken: by the next post, the result, or the sweep), `forgotten` the truncated jobs that the bound on the budget's
table dropped. `NoLineAfterNotice` is stated for the others. `BusIsSound` includes `OrdersAreBounded`: every eviction removes one
entry, which is enough because every caller adds at most one.

### `HandoffRelay`

`Ask` is the record's printed request, `Offer` the relay's `offer` (a new generation, a thread of its own), `RelayStep`
the thread: post, poll, take the answer, write it if its generation is still current. `Show` and
`AnswerHandoff` are a page. `LoseLease`, `CancelJob`, `RecordEnds` and lost HTTP answers may come anywhere.

### `Slots`

`MainStep` is `_serve_slots`: wait for a place, take a directory, lease, start the slot thread, and on a stop let the
leases lapse and join. `SlotStep` is the slot thread, `BeatLost` the heartbeat's finding. `Signal` and `SecondSignal`
are the handlers; the place count, the directories and `_SlotShutdown` have a lock each, and the flags it
copied are set one by one outside its lock.

### `BatchCheckpoint`

Attempt *n* schedules run *n*, posts its ARN (retrying until a deadline), polls the run, and stops it when the server
refused the ARN or the job was cancelled; an attempt whose lease carries an ARN resumes that run. `SaveArrivesLate`
is a save the worker gave up on. `SameWorker` says whether the attempts are slots of one worker; see
[known limits](#findings-and-known-limits).

### `DevicePool` and `ScenarioRunner`

`DevicePool` has one operator per call the scenario loop makes: take a device, start its environment (warm or cold, with
the cold spawn's retry), replace it, tear it down, put it back, close the pool. `ScenarioRunner` is `run_all`:
`MainStep` opens the pools, starts the workers, waits and closes; `WorkerStep` is `_run_one_impl`:
lease the devices in order, run, release (the others in reverse, the primary last; all in reverse when the acquisition
failed), and after a crash lease again, with a forced erase or a replacement, within the
attempt count, the scenario's budget and the run's. `plan` chooses the lanes, the scenarios' needs and
the flags, so one run covers several command lines. `PoolAssumption` says what a command line can be: each device is one lane, a
replacement is none of them, and the udid `booted` is one Simulator. One actuator per platform; how long anything takes is abstracted to
whether a budget is spent when it is read; the readiness ceilings and device groups are left out.

### `Crawl`

Each method of `_Coordinator` is a step of the lane that calls it; the device work before it is taken with it. `LaneStep`
is `_worker`: claim, walk to the screen, perform, record the edge, the crash or the fault, discover, requeue, heal
or retire. `MainStep` starts the lanes and writes the end; `Continue` and `Resume` start another crawl from
`screenmap.json` (`disk`). The app is deterministic and the guide proposes a fixed list per screen, without repetition, as
`_dedup` (`crawl/guide/_functions.py:93`) makes it: this is `SetupAssumption`. `Leads` folds a path over the app from the entry
screen. Dismissed prompts are left out (recorded, read by nothing), and so are operations only an AI guide proposes.

## What the runs show

| run | distinct states | shows |
|---|---|---|
| `queue_races` | 1 220 147 | one job; sweeps, leases, heartbeats, results, handoffs and cancels interleaved at every statement on skewed clocks. `LeaseBudget`, `NothingOutlivesTheLease`, `CancelIsNeverRefusedToALiveJob`, `AppliedCancelHolds`, `FinishedStaysFinished`, `ImplementsLifecycle` |
| `worker_pool` | 572 360 | two serial workers, lost lease responses, heartbeat answers and results, a crash and a cancel, one clock. The recorded run is the current lease's (`PoolIsSound`), a queued job ends (`QueuedJobEnds`), a lease renewed between a sweep's SELECT and UPDATE is spared (`RenewedLeaseIsSpared`; with skewed clocks it would not be) |
| `job_process` | 17 628 | every interleaving of a run, two cancels and a kill. `DeliveredOnce`, `CancelMissesNoChild`, `LeaderIsAskedFirst`, `NoDriverIsLeft`, `CancelEndsTheJob` |
| `dispatch` | 178 802 | two starts, a cancel, a failed INSERT, a restart. `CancelReachesTheRow`, `IdsAreFresh`, `CapsHold` with stale probes, `CancelledStreamCloses` |
| `log_streamer` | 3 472 | five lines, a queue of two, batches of two, a failed post. `StreamIsWhole`, `PostsInOrder`, `StopReturns` |
| `live_log` | 270 745 | two jobs, one kept channel, a line past the byte cap, a viewer that comes and goes. `BusIsSound`, `ViewersSeeTheLog`, `StreamsEnd` |
| `handoff` | 2 193 | three pauses, two pages, one lost answer. `AnsweredOnce`, `AnswerArrives`, `RelayStops` |
| `slots` | 585 963 | two places, two leases, results, lost leases, both signals. `SlotsAreOwn`, `StopIsSeen`, `ShutdownEnds` |
| `batch_checkpoint` | 187 163 | two attempts, two failed exchanges, a crash. `RunsAreKept`, `RecordHolds` |
| `scenario_runner` | 299 847 | two scenarios, five command lines, two workers; crashes, timeouts, failed boots, replacements, a cancel. `DevicesAreSound`, `RunnersEnd`, `RecoveryIsOwn`, `RunEnds` |
| `crawl` | 217 327 | five setups of one app, one and two lanes, four faults, two crawls over one map. `FrontierIsSound`, `MapIsTrue`, `StopIsTrue`, `CrawlEnds` |
| `crawl_resume` | violation | a resumed branch overwrites the plan: see [Findings](#findings-and-known-limits) |

A property named for a whole (`DevicesAreSound`, `BusIsSound` ...) is the conjunction of named parts, each
stated and commented on its own just above it, and of the module's type invariant. Every property of a passing
run has at least one mutant in `PROJECT.json`: a plausible bug in the mapped code (a dropped re-check, an
off-by-one, a missing sweep, a device put back twice) under which TLC finds the property violated with the
same configuration; the conjunctions have a mutant for most of their parts.

## Bounds, symmetry, deadlock, fairness

**Bounds.** `JobQueue`: `MaxAttempts = 3` is the code's; `CancelAttempts = 3` stands for the code's 5
and is the tightest value `RetryAssumption` allows (each wasted round costs an attempt, so no more
rounds are ever needed). Two polls are two replicas' sweeps of one row; a third would only
repeat what two do to each other, and the proofs hold for any number. `WorkerPool`:
`MaxAttempts = 2` gives one lost lease and one last lease; one crash. `JobProcess`: one job has at
most two children and one delivery, so two askers, the run thread and the kill are all there is.
`Dispatch`: two starts race for the one slot of their organisation, and the ids they may take are two.
`LogStreamer`: five lines through a queue and batches of two make an overflow, a partial batch and a put-back
happen together. `LiveLog`: one channel kept for two jobs is the least at which an eviction happens; the byte cap is hit by
the second of three lines, so that a third would fit; the budget's own table never overflows here (`forgotten` stays empty), which the
theorem covers for every bound. `HandoffRelay`: three requests are an answered, a superseded and a current one. `Slots`:
two leases are one attached on each side of the stop. `BatchCheckpoint`: one attempt that
loses the lease and one that resumes. `ScenarioRunner`: two scenarios over pinned devices, the one booted Simulator with a
replacement, two devices each, and a device of each platform each, are the
ways two workers can wait on each other; one billing spends the run's budget. `Crawl`: three screens with a shared tab, a
crash and a screen reached two ways; four faults retire both lanes (`MaxErrors = 2`). All
bounds are CONSTANTS named in the configurations.

**Symmetry** is used in `queue_races`, on workers, polls and cancel requests, all interchangeable there
(`Servable` is everything). It checks two PROPERTYs under symmetry: both are safety formulas, and
their meaning does not depend on which worker or request is which. No liveness property is checked with symmetry.

**Deadlock** is checked for the table, the pool and the streamer. `CHECK_DEADLOCK FALSE` is set where the modelled thing
ends (the job, the record, the worker, the run, the crawl) or the bounded requests are used up;
there a liveness property says that it ends where it should.

**Fairness** is weak fairness of what a live thread does by itself, nothing else.
`WorkerPool`: the server finishes requests it took, a worker keeps polling, a run ends (the code bounds it with its own
timeouts), a result is posted or lost, and time passes for a lease nobody renews; none on
enqueueing, cancelling, crashing, heartbeats, or on messages arriving. `JobProcess`: the run thread's and the cancelling
threads' own steps, the grace timer, and death by a signal that leaves no choice; nothing makes a run
exit by itself or answer a SIGTERM. `Dispatch`: a request already taken runs to its end.
`LogStreamer`: the two flushers; a post ends by its HTTP timeout. `LiveLog`: the server's threads; a
viewer's generator wakes up by its own timed wait. `HandoffRelay`: the relay's threads and the record's reader, all on timed
waits. `Slots`: the main, stopper and slot threads, bundle fetches (bounded by their timeouts), and runs whose lease is
lost, which the slot stops; not runs that go on. `BatchCheckpoint`: the worker's and the server's steps.
`ScenarioRunner` and `Crawl`: every thread; each device call is bounded by a timeout, after which the step
is taken with the failing outcome. Whether it succeeds is never assumed.

## Findings and known limits

**Finding, `crawl_resume`: resuming one branch discards the plan of the crawl it resumes on.** A crawl that stopped
on a budget leaves its untried operations in `screenmap.json` under `plan`. `crawl --resume` of a pruned branch
loads that map, seeds the coordinator with the one operation (`crawl/core/_functions.py:587`) and emits: `_emit`
(`crawl/core/_coordinator.py:76`) replaces the plan by that frontier. A later `--continue` is told that nothing is left to
explore. `screen_map.py:23` and `_functions.py:509, 551-552` say the plan is the exact untried set and must not be destroyed.
`crawl` therefore checks `FrontierIsExact` and `CompletedIsExplored` over crawls that were not resumed this way (`hurt`).

**Known limits.** Here the code does less than one might expect, in ways its own comments accept or do not
mention. The properties are stated with the condition, which names it.

- *Slots of one device-cloud worker share its id* (`serve/server/db/sql_repository.py:1042, 1141`): the owner test tells workers
  apart, not attempts, so a result or an ARN of a slot whose lease lapsed unnoticed is accepted when another
  slot of the same worker holds the job. `WinningRunIsRecorded` is checked with one slot per worker and speaks of workers that did not
  crash; `ArnIsKept` with `SameWorker = FALSE`.
- *A kill that races the end of the build* (`serve/server/worker_job.py:126`): the build is found live under the lock and signalled
  outside it; one that exits in between takes the signal with it, and the run is spawned.
- *A failed INSERT* (`serve/operations/dispatch.py:255`) leaves the job registered: it counts against the caps until a restart.
- *A slow log post* (`serve/operations/worker.py:310-321`) that the worker gave up on may publish behind the notice, behind the result, or
  beside a later attempt's lines (`late` in `LiveLog`); a job evicted from the budget's table is admitted anew.
- *A stale page* (`serve/server/db/sql_repository.py:905`) answers whichever handoff request is open, which may be a newer one than it
  shows: `ResumedOnce` counts per open request.
- *A lost answer to the ARN's save together with a lost lease* (`serve/cli/worker.py:2299`) stops a run the server recorded
  (`lost = 0` in `RecordedRunContinues`).
- *A cold spawn that fails twice* (`common/platform_lifecycle/environments/xcuitest/_functions.py:617`) raises a plain channel error, which ends the run,
  though `common/runner/recovery/_functions.py:127-129` says bring-up deaths surface as crashes (result `"down"`).
- *All lanes retired* (`crawl/core/_functions.py:781-788`): the stop reason is `max_steps` although no budget was hit.

## What is proved

`JobQueueProofs` (TLAPS, for any jobs, workers, replicas, tokens, clocks, and any
`MaxAttempts` and `CancelAttempts` that meet the assumptions):

| theorem | statement |
|---|---|
| `TypeCorrect` | `Spec => [](TypeOK /\ Counted)` |
| `LeaseBudgetHolds` | `Spec => []LeaseBudget` |
| `JobQueueImplementsLifecycle` | `Spec => Lifecycle!Spec` |
| `NothingOutlivesHolds` | `Spec => []NothingOutlivesTheLease` |
| `FinishedStaysFinishedHolds` | `Spec => FinishedStaysFinished` |
| `CancelNeverRefusedToALiveJob` | `Spec => []CancelIsNeverRefusedToALiveJob` |
| `AppliedCancelAlwaysHolds` | `Spec => []AppliedCancelHolds` |
| `RenewedLeaseIsSparedHolds` | `~ClockSkew` gives `Spec => RenewedLeaseIsSpared` |
| `PoolInvariant` | `PoolSpec => [](PoolInv /\ RenewedRuns)` |
| `PoolImplementsQueue` | `PoolSpec => Spec` |
| `PoolIsSoundHolds` | `OneSlotEach` gives `PoolSpec => []PoolIsSound` |
| `PoolSparesRenewedLeases` | `~ClockSkew` gives `PoolSpec => RenewedLeaseIsSpared` |

**Assumptions used**: job ids are numbers; `MaxAttempts` and `CancelAttempts` are positive and
`MaxAttempts <= CancelAttempts` (3 and 5 in the code, which relates the two nowhere); NULL is
not a worker, a token or a poll; each slot has a worker. TLC evaluates them on every run.
Two theorems have a hypothesis, and it names a [known limit](#findings-and-known-limits) or a condition the code's own comments
state: `~ClockSkew` (the replicas' clocks agree) and `OneSlotEach` (serial workers: the slots of a
device-cloud worker share its id, and there the owner test cannot tell a stale result from the current one).

**The argument.** `TypeOK` is not inductive: `attempts` stays within `MaxAttempts` only because a
queued job has an attempt left and a leased one has been leased once more than it has lost. That is
`Counted`, and `TypeOK /\ Counted` is inductive: the sweep writes the count it *read* plus one,
and its re-check makes that the count the row still has. `LeaseBudget` follows. The refinement
maps the four lifecycle columns to themselves; a sweep's SELECT, a scan, a heartbeat and the
handoff statements stutter, `ReclaimRow` is `Lose`, the cancel's second UPDATE is `FlagLeased`.
`NothingOutlivesTheLease` needs the sweep's re-check of the cancel flag. The cancel's theorems rest on
`CancelInv`: a round that misses twice saw the row leased at its first UPDATE and
queued at its second, so a lease was lost in between; every finished round has cost the job an
attempt, and a live row has fewer than `MaxAttempts <= CancelAttempts` of them to lose.
`RenewedLeaseIsSpared` rests on `OldHasLapsed`: what a sweep still counts as expired *is* expired, because
every statement that grants or renews a lease takes the row out of every sweep's cutoff.

`PoolImplementsQueue` says that the worker program is one of the callers `JobQueue` allows, so every theorem about the table for
*any* caller holds of the pool. `PoolIsSound` adds that the outcome recorded is that of the run the current
lease was granted for. It needs, in `Current`, that the request a worker waits for, the grant on its way and the run in its slot
all name the row's current lease while the row names the worker; a crash breaks exactly that (a restarted worker has the
old one's id), so `Current` is stated while `crashes = 0`, as the property is.

`ServerProofs`, about `JobProcess` (for any set of asking threads):

| theorem | statement |
|---|---|
| `ProcessTypeCorrect` | `ProcessSpec => []ProcessTypeOK` |
| `DeliveredOnceHolds` | `ProcessSpec => []DeliveredOnce` |
| `CancelMissesNoChildHolds` | `ProcessSpec => []CancelMissesNoChild` |
| `LeaderIsAskedFirstHolds` | `ProcessSpec => []LeaderIsAskedFirst` |
| `NoDriverIsLeftHolds` | `ProcessSpec => []NoDriverIsLeft` |

**Assumptions used**: the run thread is not one of the askers, and "no process" is not a process.

**The argument.** `DeliveredOnce` says nothing of a thread that has yet to take the cancel; `OneTakes` adds
who *may*: before `bind` nobody, after it either the asker that found the job bound or, when the
request came first, the run thread. The other three share `StopInv`. `Placed` ties the run thread's
place to the registered child (a child is alive only when registered or about to be), `Informed` says what
a delivery already on its way knows of that child (in particular that its `graceful` flag is still
right), `Asked` where the run thread can be once the leader was asked. None of the three is inductive
alone: that a cancelled child was signalled needs the delivery's flag to be current, which needs the place.

`ServerProofs`, about `Dispatch` (for any jobs, start and cancel requests, organisations, caps and restarts):

| theorem | statement |
|---|---|
| `DispatchInvariant` | `Spec => [](TypeOK /\ Fresh /\ Reaches /\ Counted)` |
| `DispatchTypeCorrect` | `Spec => []TypeOK` |
| `IdsAreFreshHolds` | `Spec => []IdsAreFresh` |
| `CancelReachesTheRowHolds` | `Spec => []CancelReachesTheRow` |
| `CapsHoldHolds` | `Spec => []CapsHold` |

**Assumptions used** (`DispatchAssumption`): ids are positive numbers, caps and bounds are numbers, NULL is
no id, organisation or answer. `MaxRestarts` bounds the state space only; the proofs hold for each value.

**The argument.** `Fresh`: every id in use, by a row, a registered job, a start request or a cancel that has
met its job, is one the counter has passed, and no two start requests share one. A restart keeps it because
the seed is at least every row's id and everything else is forgotten. `TypeOK` needs `Fresh` (a step
on a request's id needs the id to be one). `Reaches` is what a cancel knows at each of its steps;
it is kept because a row once stopped stays stopped, because a new id is above every id a cancel has met,
and because a start request that gives up looking either leaves no row or carried the cancel.
`Counted` is `CapsHold` over what the registry *counts*; only `TryRegister` adds to it, under the test.
`CapsHold` follows since a slot is released only for a row that is over.

`WorkerProofs`, about `Slots` (for any number of places and leases):

| theorem | statement |
|---|---|
| `SlotsInvariant` | `Spec => []IInv` |
| `SlotsAreOwnHolds` | `Spec => []SlotsAreOwn` |
| `StopIsSeenHolds` | `Spec => []StopIsSeen` |

**The argument.** The place count and the directories are counted against the slots themselves: `PlacesCounted` says that `busy`
is the number of leases in flight whose place was not given back, `DirsCounted` that the directories handed out are
the free ones and those of the holders. `StopIsSeen` needs `Answered`: a stopper that copied the set answers for every slot
attached since, because a slot that attaches behind the copy reads the stop under the same lock.

`LogStreamerProofs` (for any caps, number of lines and failures):

| theorem | statement |
|---|---|
| `StreamerInvariant` | `Spec => []IInv` |
| `StreamIsWholeHolds` | `Spec => []StreamIsWhole` |
| `PostsInOrderHolds` | `Spec => PostsInOrder`, the refinement of `OrderedLog` |

**The argument.** A line is posted, in a batch, or in the queue, and each of the three is ordered and before the next (`Ordered`). This
is kept by a put-back because only one thread flushes at a time (`Turns`): the final flush starts once the timed one has
returned. `Counted` bounds the lines in all three and the dropped ones by those printed, and `Whole` says that without a fault or an
overflow they are all of them.

`WorkerProofs`, about `HandoffRelay` (for any pages, requests and lost answers): `RelayInvariant`, `HandoffSpec => []Inv`, and
`AnsweredOnceHolds`, `HandoffSpec => []AnsweredOnce`. `Lined` says that the requests in the pipe are the ones the relay has not offered, so each is offered once, and
`Opened` that only a posted request is ever open, and only until it is answered.

`BatchCheckpointProofs` (for any number of attempts, lost exchanges, crashes and tries):

| theorem | statement |
|---|---|
| `BatchInvariant` | `~SameWorker` gives `Spec => []IInv` |
| `RunsAreKeptHolds` | `~SameWorker` gives `Spec => []RunsAreKept` |
| `ArnIsKeptHolds` | `~SameWorker` gives `Spec => ArnIsKept`, the safety half of `RecordHolds` |

**The hypothesis** `~SameWorker` is the known limit below: attempts in two slots of one device-cloud worker pass each other's
owner test, and there `ArnIsKept` is false. **The argument.** An attempt that holds the lease with a run of its own found no other run in the
row (`OwnRun`); what the server answered to a save stays true (`AnswerAt`: a refused attempt never holds the lease
again); so a run is stopped only for a cancel or when the row names another one for good (`StoppedAt`), and a running one is named, being saved, or given
up as `left` records (`FollowedAt`).

`ScenarioRunnerProofs` (for any lanes, spares, needs, flags and workers, and any budget):

| theorem | statement |
|---|---|
| `RunnerInvariant` | `Spec => []Inv` |
| `DevicesAreSoundHolds` | `Spec => []DevicesAreSound` |
| `RunnersEndHolds` | `Spec => []RunnersEnd` |
| `RecoveryIsOwnHolds` | `Spec => []RecoveryIsOwn` |

**Assumptions used**: `PoolAssumption` and `RunnerAssumption`. That each device is one lane is what `_resolve_lanes` (`run/cli.py:160-178`) makes of
distinct `--udid` values; it does not refuse one that names a device twice, and for such a command line nothing is claimed.
That `booted` is one lane is the condition of `device_replacement_supported` (`common/backends.py:392-428`).

**The argument.** None of the properties is inductive. A device is in one place (`Placed`): in its pool's queue, held by one worker,
or taken in exchange by a launch that failed and not put back yet; a lane in none of them would be lost, which `Conserved` excludes by counting
the devices out of each pool. `Gone` and `Untouched` follow a replacement, from a spare that is nowhere to a device whose
predecessor is nowhere but in the launch that lost it. `Runners` and `WarmPlaced` say who ends each runner: the pool, the lease that holds the device, or
the launch that failed, if it came up or was up before. `Phased` gives that nothing is warm or listening but in a pool `_close_pools` still has to close, hence nothing at the
end; it needs that a scenario holds only what it declared (`Needed`), so that the pool was opened.

`RequestIsOwn` is the subtle one. The request for a replacement is left on an environment that sits in the queue, and nothing
in the queue says for whom. `Pending` is why it never reaches another scenario: a replacement is supported only on the one `booted`
Simulator, so the run is serial (`BootedIsSerial`, from the worker cap); the scenario that asked still lacks its Simulator and
will take that one; and should it fail before (a browser lane that does not start), it fails with an error that ends the run,
after which a serial worker starts nothing.

`LiveLogProofs` (for any jobs, requests, viewers, outputs, caps and bounds):

| theorem | statement |
|---|---|
| `BusIsSoundHolds` | `Spec => []BusIsSound` |
| `ViewersSeeTheLogHolds` | `Spec => []ViewersSeeTheLog` |

**Assumptions used**: `LiveLogAssumption` (lines have a size, both orders hold at least one job, which keeps a job from evicting itself) and
`NoticeAssumption` (the notice is none of the printed lines; a worker that prints the same words is not told apart).

**The argument.** That nothing follows the notice is not inductive, since a post that was let through before may still publish. `Flight` says that a job
that is not `late` has at most one post under way, that of the attempt which holds the lease. So when a batch crosses the cap no other batch is past
the budget, and every later one meets `truncated`; `Notices` says so: the notice ends each channel's log, a running job with a notice is
truncated, and a post about to publish anything finds none published. It speaks of a running job because `forget` drops the mark once the job is over.
`Unique` numbers the lines: each is on a channel, in one post, or already stored, once, and of an attempt that began; a retry numbers from the start again under
an attempt of its own. `ViewerIs` says that a viewer has a front of its channel, or the stored log and none of the channel, and that a stream about
to retire has read everything a punctual worker can still have published: the last pass comes after the row was over, and by `Flight` nothing
publishes for such a job any more. Channels are found by number, so an eviction under a viewer changes none of this. `BacklogIsTracked` is inductive
with the requests' places: what leaves the order is in some request's `victims` until it is discarded.

`CrawlProofs` (for any app, lanes, budgets, faults, and number of crawls over one map):

| theorem | statement |
|---|---|
| `InvariantHolds` | `Spec => []IInv` |
| `FrontierIsSoundHolds` | `Spec => []FrontierIsSound` |
| `MapIsTrueHolds` | `Spec => []MapIsTrue` |
| `StopIsTrueHolds` | `Spec => []StopIsTrue` |

**Assumptions used**: `CrawlAssumption` and `SetupAssumption`. The setups need not be finite, nor be those of the runs.

**The argument.** Each property relates the map, the plan and the lanes, and each lane acts on what it read before it let the lock go.

- `MapOk` is `MapIsTrue` with what a pruned branch's path says, since a resume replays it; and a pruned operation was not tried. `PlanOk` says the same of the
  frontier: an operation is planned once, of a known screen, and neither tried nor pruned.
- `WalkAt` is why an edge is true: the operation a lane holds is one no other lane holds and the plan lost, and the device is on the
  screen the lane believes, or the path it will replay leads there. `Replayable` gives the second (a planned screen has a path that
  leads to it); `at = cur` in `LaneAt` the first: every step that leaves the device elsewhere forgets the screen.
- `DiscoverAt` keeps two lanes from one new screen: the second finds it in `discovering`, under the lock that entered it there.
- `Counts` bounds what is in flight. A lane that is walking or discovering is counted in `active` and may add one screen, and work is handed
  out only below the screen budget; so the screens and the lanes in flight stay below the budget and the lanes together. A fault, a retirement and
  a stop each give back exactly what they held, so `active` reaches zero only when no lane holds anything, which is when "completed" is written.
- `Unhurt` holds while nothing was lost: every operation of a known screen is planned, settled, pruned or held (`Whole`), and each screen an
  edge leads to is known or being discovered (`Leaves`). With an empty frontier and no lane busy that is `CompletedIsExplored`.
- `DiskOk` carries all of it across a restart: between two crawls the map and plan on disk satisfy `MapOk`, `PlanOk` and `Whole`, which is what a
  continuation's frontier is rebuilt from.

A step of a lane is proved through one lemma, `StepKeeps`: from what the step writes on the map, the frontier and its own locals it concludes the
whole invariant, so each action has only to say what it writes.

**Recursive functions.** `Leads`, `Without` and `Bytes` are recursive functions on the places of a sequence. `Recursion` proves that such a function exists and
that it satisfies its equations; `Least` is induction over the naturals in the form of a least element (by `WFMin` of `WellFoundedInduction`). From
these come what the proofs need of them: a path extended by an operation leads where the operation leads, an order without some
jobs is a shorter one with the others in their places, a batch's bytes grow with its length.

In all of these modules a change to the model that breaks a property (the sweep without its re-check, a
registration outside the lock, a start without its cap test, a directory given back twice, a device put back in the place of its
replacement) makes the proof fail at that action's step.

## What is only model-checked

Every safety invariant and every safety half of an action property the passing runs check is proved as well. What stays with TLC is liveness
(`QueuedJobEnds`, `CancelEndsTheJob`, `CancelledStreamCloses`, `StopReturns`, `StreamsEnd`, `AnswerArrives`, `RelayStops`, `ShutdownEnds`, `RunEnds`,
`CrawlEnds`, the liveness half of `RecordHolds`): it rests on fairness, hence on ENABLED, which is outside the prover's reach; and the
violated `PlanIsWhatIsLeft`, whose counterexample is the finding. Where a theorem has a hypothesis, its run fixes the same (`~ClockSkew`, `OneSlotEach`, `~SameWorker`).
Conversely, the type invariants of `JobQueue`, `JobProcess` and `Dispatch` are proved and need no run. The inductive invariants of the
proofs were checked by TLC on the runs' configurations before they were proved (`Crawl`'s with the operations as model values).

## Not modelled

With the reasons in `PROJECT.json` "components": request parsing, authentication, stores, rendering (one
request, one write); adapters of external tools (simctl, adb, XCUITest, Playwright), whose behaviour is
outside the repository; documents and their validation, code generation, triage, reports (sequential and
stateless); AI agents and the record loop's dialogue. The orchestrator's step loop runs on one thread
against one driver; its waits and the network collector's intervals are the largest part still worth a model.
Within the modelled parts: advertised capabilities (the routing test is the parameter `Servable`), bundle fetching,
evidence upload, artifact snapshots, the workers registry, the Redis bus, the per-user cap, device groups, readiness ceilings, job control
signals.

## Plan

1. *Done*: all modules above, their runs, and the proofs listed in [What is proved](#what-is-proved).
2. Theorems left: none of the safety properties; a refinement of one abstract log by both `LogStreamer` and `LiveLog` would join the two halves of a line's way.
3. Models: the orchestrator's waits and retries of one scenario, the network collector's shutdown, routing with jobs no
   worker can serve.

### Checking it

In this directory: `tlasany M.tla` parses, `tlc -workers 2 -config X.cfg M` runs (each run's module and
configuration are in `PROJECT.json` "runs"), `tlapm M.tla` on each `*Proofs` module checks the proofs.
