----------------------------- MODULE JobProcess -----------------------------
(***************************************************************************)
(* One leased job inside a worker, and how a cancel reaches the process it *)
(* spawned.  The run thread fetches, binds the job to its CancelRelay,     *)
(* boots, builds, spawns the run and waits; meanwhile the heartbeat, a     *)
(* stop signal's helper thread or a timed-out handoff ask for a cancel,    *)
(* and a second Ctrl-C asks for a kill.  The relay's lock and the job's    *)
(* lock each make a step; signals are sent outside both.                   *)
(***************************************************************************)
EXTENDS Naturals, FiniteSets

CONSTANTS
  Askers,     \* threads that call CancelRelay.request
  RunThread,  \* the thread that runs the job, and delivers a cancel at bind
  NoChild

ASSUME ThreadsAssumption == RunThread \notin Askers

Threads == Askers \union {RunThread}
Children == {"build", "run"}
ASSUME NoChildAssumption == NoChild \notin Children

VARIABLES
  relay,  \* the CancelRelay
  job,    \* the Job's fields that cancel and kill touch
  run,    \* the run thread: its place and its locals
  ask,    \* per thread: its delivery of the cancel, the grace timer included
  kill,   \* the helper thread of the second Ctrl-C
  child   \* per process: is its leader live, what it was sent, its group

processVars == <<relay, job, run, ask, kill, child>>

Place == {"fetch", "bind", "bound", "deliver", "boot", "build", "spawn", "register",
          "stop", "reap", "wait", "sweep", "done", "over"}

\* `helper` is whatever the leader started in its process group: for a run,
\* the backend driver it actuates through.  "stop" is a SIGTERM to the leader
\* alone, "term" and "kill" are sent to the group.
Child == [life : {"none", "live", "ok", "bad"}, sent : SUBSET {"stop", "term", "kill"},
          helper : BOOLEAN]

ProcessTypeOK ==
  /\ relay \in [requested : BOOLEAN, bound : BOOLEAN, kill_requested : BOOLEAN]
  /\ job \in [cancelled : BOOLEAN, kill_requested : BOOLEAN, graceful_cancel : BOOLEAN,
              proc : Children \union {NoChild}, proc_graceful : BOOLEAN]
  /\ job.proc = NoChild => ~job.proc_graceful
  /\ run \in [pc : Place, hard : BOOLEAN, pending : BOOLEAN]
  /\ ask \in [Threads -> [pc : {"idle", "flag", "signal", "grace", "unwind", "over"},
                          proc : Children \union {NoChild}, graceful : BOOLEAN]]
  /\ kill \in [pc : {"idle", "lock", "signal", "over"}, proc : Children \union {NoChild}]
  /\ child \in [Children -> Child]

ProcessInit ==
  /\ relay = [requested |-> FALSE, bound |-> FALSE, kill_requested |-> FALSE]
  /\ job \in {[cancelled |-> FALSE, kill_requested |-> FALSE, graceful_cancel |-> g,
               proc |-> NoChild, proc_graceful |-> FALSE] : g \in BOOLEAN}
  /\ run = [pc |-> "fetch", hard |-> FALSE, pending |-> FALSE]
  /\ ask = [t \in Threads |-> [pc |-> "idle", proc |-> NoChild, graceful |-> FALSE]]
  /\ kill = [pc |-> "idle", proc |-> NoChild]
  /\ child = [c \in Children |-> [life |-> "none", sent |-> {}, helper |-> FALSE]]

----------------------------------------------------------------------------
Live(c) == child[c].life = "live"
Goes(to) == run' = [run EXCEPT !.pc = to]

\* job.status is "done".
JobDone == run.pc \in {"sweep", "done"}

\* A signal to a leader that has exited reaches nobody.  (Until it is reaped
\* its group can still be signalled: that only ends a driver earlier.)
SendLeader(c) ==
  child' = [child EXCEPT ![c].sent = IF Live(c) THEN @ \union {"stop"} ELSE @]

\* killpg: a driver child answers it; the leader may absorb a SIGTERM.
SendGroup(c, signal) ==
  child' = IF Live(c) THEN [child EXCEPT ![c].sent = @ \union {signal}, ![c].helper = FALSE]
                      ELSE child

----------------------------------------------------------------------------
(* Asking for a cancel *)

\* Mutant: a repeated request is delivered again.
RequestAgain(t) ==
  /\ ask[t].pc = "idle"
  /\ relay' = [relay EXCEPT !.requested = TRUE]
  /\ ask' = [ask EXCEPT ![t].pc = IF relay.bound THEN "flag" ELSE "over"]
  /\ UNCHANGED <<job, run, kill, child>>

\* CancelRelay.request; a repeated one returns at once.  Bound, the caller
\* delivers the cancel itself; otherwise bind will.
Request(t) ==
  /\ ask[t].pc = "idle" /\ ~relay.requested
  /\ relay' = [relay EXCEPT !.requested = TRUE]
  /\ ask' = [ask EXCEPT ![t].pc = IF relay.bound THEN "flag" ELSE "over"]
  /\ UNCHANGED <<job, run, kill, child>>

\* cancel_job under the job's lock: flag the job, note what is live.
FlagJob(t) ==
  /\ ask[t].pc = "flag"
  /\ IF JobDone
     THEN /\ ask' = [ask EXCEPT ![t].pc = "over"]
          /\ UNCHANGED job
     ELSE /\ job' = [job EXCEPT !.cancelled = TRUE]
          /\ ask' = [ask EXCEPT ![t] = [pc |-> IF job.proc = NoChild THEN "over" ELSE "signal",
                                        proc |-> job.proc, graceful |-> job.proc_graceful]]
  /\ UNCHANGED <<relay, run, kill, child>>

\* ... and outside it: ask a cooperative run's leader, or end the group.
SignalChild(t) ==
  /\ ask[t].pc = "signal"
  /\ IF ask[t].graceful THEN SendLeader(ask[t].proc) ELSE SendGroup(ask[t].proc, "term")
  /\ ask' = [ask EXCEPT ![t].pc = IF ask[t].graceful THEN "grace" ELSE "over"]
  /\ UNCHANGED <<relay, job, run, kill>>

\* The grace window's timer fires: _escalate ends a run that is still there.
GraceOver(t) ==
  /\ ask[t].pc = "grace"
  /\ SendGroup(ask[t].proc, "term")
  /\ ask' = [ask EXCEPT ![t].pc = IF Live(ask[t].proc) THEN "unwind" ELSE "over"]
  /\ UNCHANGED <<relay, job, run, kill>>

\* Mutant: the escalation ends on the SIGTERM.
UnwoundWithoutKill(t) ==
  /\ ask[t].pc = "unwind"
  /\ ask' = [ask EXCEPT ![t].pc = "over"]
  /\ UNCHANGED <<relay, job, run, kill, child>>

UnwoundOver(t) ==
  /\ ask[t].pc = "unwind"
  /\ SendGroup(ask[t].proc, "kill")
  /\ ask' = [ask EXCEPT ![t].pc = "over"]
  /\ UNCHANGED <<relay, job, run, kill>>

----------------------------------------------------------------------------
(* Asking for a kill *)

KillUnbound ==
  /\ kill.pc = "idle" /\ ~relay.bound
  /\ relay' = [relay EXCEPT !.kill_requested = TRUE]
  /\ kill' = [kill EXCEPT !.pc = "over"]
  /\ UNCHANGED <<job, run, ask, child>>

KillBound ==
  /\ kill.pc = "idle" /\ relay.bound
  /\ kill' = [kill EXCEPT !.pc = "lock"]
  /\ UNCHANGED <<relay, job, run, ask, child>>

\* Under the job's lock: latch the kill when no registered child is running.
KillLatch ==
  /\ kill.pc = "lock"
  /\ IF job.proc # NoChild /\ Live(job.proc)
     THEN /\ kill' = [pc |-> "signal", proc |-> job.proc]
          /\ UNCHANGED job
     ELSE /\ kill' = [kill EXCEPT !.pc = "over"]
          /\ job' = [job EXCEPT !.kill_requested = TRUE]
  /\ UNCHANGED <<relay, run, ask, child>>

KillChild ==
  /\ kill.pc = "signal"
  /\ SendGroup(kill.proc, "kill")
  /\ kill' = [kill EXCEPT !.pc = "over"]
  /\ UNCHANGED <<relay, job, run, ask>>

----------------------------------------------------------------------------
(* The run thread *)

\* The last look at the relay before anything is started: a job cancelled by
\* then is never made.
Fetched ==
  /\ run.pc = "fetch"
  /\ Goes(IF relay.requested THEN "over" ELSE "bind")
  /\ UNCHANGED <<relay, job, ask, kill, child>>

\* CancelRelay.bind, under the relay's lock.
Bind ==
  /\ run.pc = "bind"
  /\ relay' = [relay EXCEPT !.bound = TRUE]
  /\ run' = [pc |-> "bound", pending |-> relay.requested, hard |-> relay.kill_requested]
  /\ UNCHANGED <<job, ask, kill, child>>

\* Hand the job what was asked for before it existed.
BoundJob ==
  /\ run.pc = "bound"
  /\ job' = [job EXCEPT !.kill_requested = @ \/ run.hard]
  /\ ask' = [ask EXCEPT ![RunThread].pc = IF run.pending THEN "flag" ELSE @]
  /\ Goes("deliver")
  /\ UNCHANGED <<relay, kill, child>>

Delivered ==
  /\ run.pc = "deliver" /\ ask[RunThread].pc \in {"idle", "over"}
  /\ Goes("boot")
  /\ UNCHANGED <<relay, job, ask, kill, child>>

\* Devices boot, or the job ends; a needed binary is there, or is built.
Boot ==
  /\ run.pc = "boot"
  /\ \E to \in {"done", "build", "spawn"} : Goes(to)
  /\ UNCHANGED <<relay, job, ask, kill, child>>

Spawn(c) ==
  /\ child' = [child EXCEPT ![c].life = "live"]
  /\ Goes("register")
  /\ UNCHANGED <<relay, job, ask, kill>>

SpawnBuild == run.pc = "build" /\ Spawn("build")
SpawnRun == run.pc = "spawn" /\ Spawn("run")

\* What precedes the job, or the spawn itself, fails; a failed build ends the
\* job, anything else only the thread.
StartFails ==
  /\ run.pc \in {"bind", "build", "spawn"}
  /\ Goes(IF run.pc = "build" THEN "done" ELSE "over")
  /\ UNCHANGED <<relay, job, ask, kill, child>>

\* The child to register, and whether it answers a cancel by itself.
Spawned == IF child["run"].life = "none" THEN "build" ELSE "run"
Graceful == Spawned = "run" /\ job.graceful_cancel

\* Mutants: registration overlooks a cancel; it takes no child for a
\* cooperative run.
RegisterUncancelled ==
  /\ run.pc = "register"
  /\ run' = [run EXCEPT !.pc = IF job.kill_requested THEN "stop" ELSE "wait",
                        !.hard = job.kill_requested]
  /\ job' = [job EXCEPT !.proc = Spawned, !.proc_graceful = Graceful /\ ~job.kill_requested]
  /\ UNCHANGED <<relay, ask, kill, child>>
RegisterAbrupt ==
  LET end == job.cancelled \/ job.kill_requested IN
  /\ run.pc = "register"
  /\ run' = [run EXCEPT !.pc = IF end THEN "stop" ELSE "wait", !.hard = job.kill_requested]
  /\ job' = [job EXCEPT !.proc = Spawned, !.proc_graceful = FALSE]
  /\ UNCHANGED <<relay, ask, kill, child>>

\* _register_proc, under the job's lock: a child that comes after a cancel or
\* a kill is ended at once.
Register ==
  LET end == job.cancelled \/ job.kill_requested IN
  /\ run.pc = "register"
  /\ run' = [run EXCEPT !.pc = IF end THEN "stop" ELSE "wait", !.hard = job.kill_requested]
  /\ job' = [job EXCEPT !.proc = Spawned, !.proc_graceful = Graceful /\ ~end]
  /\ UNCHANGED <<relay, ask, kill, child>>

StopChild ==
  /\ run.pc = "stop"
  /\ SendGroup(job.proc, IF run.hard THEN "kill" ELSE "term")
  /\ Goes("reap")
  /\ UNCHANGED <<relay, job, ask, kill>>

Ended == [job EXCEPT !.proc = NoChild, !.proc_graceful = FALSE]

StoppedChildExits ==
  /\ run.pc = "reap" /\ ~Live(job.proc)
  /\ job' = Ended
  /\ Goes("done")
  /\ UNCHANGED <<relay, ask, kill, child>>

\* The exited build stays in job.proc, whether it worked or not.
BuildExits ==
  /\ run.pc = "wait" /\ job.proc = "build" /\ ~Live("build")
  /\ Goes(IF child["build"].life = "ok" THEN "spawn" ELSE "done")
  /\ UNCHANGED <<relay, job, ask, kill, child>>

\* Mutant: the group is not looked at once the leader has exited.
RunExitsUnswept ==
  /\ run.pc = "wait" /\ job.proc = "run" /\ ~Live("run")
  /\ job' = Ended
  /\ Goes("done")
  /\ UNCHANGED <<relay, ask, kill, child>>

RunExits ==
  /\ run.pc = "wait" /\ job.proc = "run" /\ ~Live("run")
  /\ job' = Ended
  /\ Goes(IF job.cancelled /\ job.proc_graceful THEN "sweep" ELSE "done")
  /\ UNCHANGED <<relay, ask, kill, child>>

\* The group's id was read while its leader lived.
SweepGroup ==
  /\ run.pc = "sweep"
  /\ child' = [child EXCEPT !["run"].helper = FALSE]
  /\ Goes("done")
  /\ UNCHANGED <<relay, job, ask, kill>>

----------------------------------------------------------------------------
(* The processes (external) *)

\* A leader exits, by itself or of a signal; SIGKILL lets none succeed.
Exit(c) ==
  /\ Live(c)
  /\ \E life \in (IF "kill" \in child[c].sent THEN {"bad"} ELSE {"ok", "bad"}) :
       child' = [child EXCEPT ![c].life = life]
  /\ UNCHANGED <<relay, job, run, ask, kill>>

StartHelper(c) ==
  /\ Live(c) /\ ~child[c].helper /\ "kill" \notin child[c].sent
  /\ child' = [child EXCEPT ![c].helper = TRUE]
  /\ UNCHANGED <<relay, job, run, ask, kill>>

HelperEnds(c) ==
  /\ child[c].helper
  /\ child' = [child EXCEPT ![c].helper = FALSE]
  /\ UNCHANGED <<relay, job, run, ask, kill>>

----------------------------------------------------------------------------
RunStep ==
  \/ Fetched \/ Bind \/ BoundJob \/ Delivered \/ Boot
  \/ SpawnBuild \/ SpawnRun \/ StartFails \/ Register \/ StopChild \/ StoppedChildExits
  \/ BuildExits \/ RunExits \/ SweepGroup

Deliver(t) == FlagJob(t) \/ SignalChild(t) \/ GraceOver(t) \/ UnwoundOver(t)

ProcessNext ==
  \/ RunStep
  \/ \E t \in Askers : Request(t)
  \/ \E t \in Threads : Deliver(t)
  \/ KillUnbound \/ KillBound \/ KillLatch \/ KillChild
  \/ \E c \in Children : Exit(c) \/ StartHelper(c) \/ HelperEnds(c)

\* A leader that must die: SIGKILL leaves no choice, and only a registered
\* cooperative run absorbs a SIGTERM (it may be wedged, and never exit).
Dies(c) ==
  /\ \/ "kill" \in child[c].sent
     \/ "term" \in child[c].sent /\ ~(c = "run" /\ job.graceful_cancel /\ run.pc = "wait")
  /\ Exit(c)

ProcessFairness ==
  /\ WF_processVars(RunStep)
  /\ \A t \in Threads : WF_processVars(Deliver(t))
  /\ \A c \in Children : WF_processVars(Dies(c))

ProcessSpec == ProcessInit /\ [][ProcessNext]_processVars
FairProcessSpec == ProcessSpec /\ ProcessFairness

----------------------------------------------------------------------------
(* Properties *)

\* bind and request race to deliver the cancel, and the heartbeat repeats it:
\* it is delivered by one of them, once ("a second graceful stop would
\* restart the run's grace window", CancelRelay).
DeliveredOnce ==
  \A t, u \in Threads :
    /\ ask[t].pc \in {"flag", "signal", "grace", "unwind"} => u = t \/ ask[u].pc \in {"idle", "over"}
    /\ ask[t].proc # NoChild /\ ask[u].proc # NoChild => t = u

\* However the cancel and the spawn interleave, a child the run thread waits
\* for under a cancelled job was sent a signal, or the canceller is about to
\* send it (cancel_job and _register_proc meet under the job's lock).
CancelMissesNoChild ==
  job.cancelled /\ run.pc = "wait" /\ Live(job.proc) =>
    \/ child[job.proc].sent # {}
    \/ \E t \in Threads : ask[t].pc = "signal" /\ ask[t].proc = job.proc

\* The driver is not torn out from under a cooperative run: its group gets a
\* SIGTERM only after its leader was asked (_request_graceful_stop).
LeaderIsAskedFirst ==
  job.graceful_cancel /\ run.pc = "wait" /\ "term" \in child["run"].sent =>
    "stop" \in child["run"].sent

\* No driver outlives a run that was asked to stop: whichever of the leader's
\* exit, the timer and the cancel came first, the run thread swept the group.
NoDriverIsLeft ==
  run.pc = "done" /\ "stop" \in child["run"].sent => ~child["run"].helper

\* A cancel ends the job: a wedged run is killed once its grace is over, and
\* a run still to be spawned is stopped as it registers.
CancelEndsTheJob == relay.requested ~> run.pc \in {"done", "over"}
=============================================================================
