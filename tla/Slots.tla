------------------------------- MODULE Slots --------------------------------
(***************************************************************************)
(* A device-cloud worker's slots: the main thread leases jobs into at most *)
(* Slots places, each job runs on a slot thread in a directory of its own, *)
(* and a stop signal lets every lease in flight lapse.  The place count,   *)
(* the directories and the shutdown's set have a lock each; an Event is    *)
(* set outside them.  A slot stands for the job leased into it.            *)
(***************************************************************************)
EXTENDS Naturals, FiniteSets

CONSTANTS
  Slots,      \* --slots
  MaxLeases   \* how many jobs the worker leases (bounds the state space)

ASSUME SlotsAssumption == Slots \in Nat \ {0} /\ MaxLeases \in Nat

Leases == 1..MaxLeases
None == 0

\* Who lets the leases lapse: the signal's helper thread and the main thread.
Stoppers == {"signal", "main"}

VARIABLES
  main,       \* the main thread: its pc and how many jobs it leased
  signalled,  \* signalled() is not None
  busy,       \* the places taken
  free,       \* _SlotDirs._free
  next,       \* _SlotDirs._next; directories are numbered from 1 here
  stopping,   \* _SlotShutdown._stopping
  attached,   \* _SlotShutdown._slots
  now,        \* _SlotShutdown._now
  stopper,    \* per stopper: its pc and the flags it has still to set
  slot        \* per lease: the slot thread's locals and its run's thread

vars == <<main, signalled, busy, free, next, stopping, attached, now, stopper, slot>>

NewSlot == [pc |-> "none", dir |-> None, late |-> FALSE, lost |-> FALSE,
            run |-> "none", abandoned |-> FALSE, freed |-> FALSE]

SlotPc == {"none", "leased", "new", "attach", "attaching", "run", "abandon", "detach", "finish",
           "posted", "upload", "end", "release", "over"}

TypeOK ==
  /\ main \in [pc : {"check", "lease", "count", "start", "stop", "join", "over"}, leases : 0..MaxLeases]
  /\ signalled \in BOOLEAN /\ stopping \in BOOLEAN /\ now \in BOOLEAN
  /\ busy \in 0..Slots
  /\ free \subseteq Leases /\ next \in 1..(MaxLeases + 1)
  /\ attached \subseteq Leases
  /\ stopper \in [Stoppers -> [pc : {"idle", "notify", "over"}, todo : SUBSET Leases]]
  /\ slot \in [Leases -> [pc : SlotPc, dir : 0..MaxLeases, late : BOOLEAN, lost : BOOLEAN,
                          run : {"none", "fetch", "device", "ended", "transient"},
                          abandoned : BOOLEAN, freed : BOOLEAN]]

Init ==
  /\ main = [pc |-> "check", leases |-> 0]
  /\ signalled = FALSE /\ busy = 0 /\ free = {} /\ next = 1
  /\ stopping = FALSE /\ attached = {} /\ now = FALSE
  /\ stopper = [t \in Stoppers |-> [pc |-> "idle", todo |-> {}]]
  /\ slot = [s \in Leases |-> NewSlot]

----------------------------------------------------------------------------
(* _serve_slots *)

\* One turn of the loop; with every place taken it waits.
Turn ==
  /\ main.pc = "check"
  /\ \/ (signalled \/ stopping) /\ main' = [main EXCEPT !.pc = "stop"]
     \/ ~signalled /\ ~stopping /\ busy < Slots /\ main' = [main EXCEPT !.pc = "lease"]
  /\ UNCHANGED <<signalled, busy, free, next, stopping, attached, now, stopper, slot>>

\* _lease: a job, or nothing to run.
Lease ==
  /\ main.pc = "lease"
  /\ \/ /\ main.leases < MaxLeases
        /\ main' = [pc |-> "count", leases |-> main.leases + 1]
        /\ slot' = [slot EXCEPT ![main.leases + 1].pc = "leased"]
     \/ main' = [main EXCEPT !.pc = "check"] /\ UNCHANGED slot
  /\ UNCHANGED <<signalled, busy, free, next, stopping, attached, now, stopper>>

Count ==
  /\ main.pc = "count"
  /\ busy' = busy + 1 /\ main' = [main EXCEPT !.pc = "start"]
  /\ UNCHANGED <<signalled, free, next, stopping, attached, now, stopper, slot>>

Start ==
  /\ main.pc = "start"
  /\ slot' = [slot EXCEPT ![main.leases].pc = "new"]
  /\ main' = [main EXCEPT !.pc = "check"]
  /\ UNCHANGED <<signalled, busy, free, next, stopping, attached, now, stopper>>

\* The thread cannot be started: its place is given back and the loop ends.
StartFails ==
  /\ main.pc = "start"
  /\ busy' = busy - 1
  /\ slot' = [slot EXCEPT ![main.leases].pc = "over"]
  /\ main' = [main EXCEPT !.pc = "stop"]
  /\ UNCHANGED <<signalled, free, next, stopping, attached, now, stopper>>

\* The threads ended, or a second SIGINT ended the wait.
Join ==
  /\ main.pc = "join"
  /\ now \/ \A s \in Leases : slot[s].pc \in {"none", "over"}
  /\ main' = [main EXCEPT !.pc = "over"]
  /\ UNCHANGED <<signalled, busy, free, next, stopping, attached, now, stopper, slot>>

----------------------------------------------------------------------------
(* _SlotShutdown *)

Signal ==
  /\ ~signalled /\ signalled' = TRUE
  /\ UNCHANGED <<main, busy, free, next, stopping, attached, now, stopper, slot>>

SecondSignal ==
  /\ signalled /\ ~now /\ now' = TRUE
  /\ UNCHANGED <<main, signalled, busy, free, next, stopping, attached, stopper, slot>>

Request(t) ==
  /\ stopper[t].pc = "idle"
  /\ IF t = "main" THEN main.pc = "stop" ELSE signalled
  /\ stopping' = TRUE
  /\ stopper' = [stopper EXCEPT ![t] = [pc |-> "notify", todo |-> attached]]
  /\ UNCHANGED <<main, signalled, busy, free, next, attached, now, slot>>

SetLost(t, s) ==
  /\ s \in stopper[t].todo
  /\ slot' = [slot EXCEPT ![s].lost = TRUE]
  /\ stopper' = [stopper EXCEPT ![t].todo = @ \ {s}]
  /\ UNCHANGED <<main, signalled, busy, free, next, stopping, attached, now>>

Requested(t) ==
  /\ stopper[t].pc = "notify" /\ stopper[t].todo = {}
  /\ stopper' = [stopper EXCEPT ![t].pc = "over"]
  /\ main' = IF t = "main" THEN [main EXCEPT !.pc = "join"] ELSE main
  /\ UNCHANGED <<signalled, busy, free, next, stopping, attached, now, slot>>

\* Mutant: a stop that came first is not looked at.
AttachOnly(s) ==
  /\ slot[s].pc = "attach"
  /\ attached' = attached \union {s}
  /\ slot' = [slot EXCEPT ![s].pc = "run", ![s].run = "fetch", ![s].late = stopping]
  /\ UNCHANGED <<main, signalled, busy, free, next, stopping, now, stopper>>

\* attach, under the lock.
Attach(s) ==
  /\ slot[s].pc = "attach"
  /\ attached' = attached \union {s}
  /\ slot' = [slot EXCEPT ![s].pc = "attaching", ![s].late = stopping]
  /\ UNCHANGED <<main, signalled, busy, free, next, stopping, now, stopper>>

\* Mutant: the flag is left to the stop.
AttachUnset(s) ==
  /\ slot[s].pc = "attaching"
  /\ slot' = [slot EXCEPT ![s].pc = "run", ![s].run = "fetch"]
  /\ UNCHANGED <<main, signalled, busy, free, next, stopping, attached, now, stopper>>

\* ... and after it; then the job's run starts.
Attached(s) ==
  /\ slot[s].pc = "attaching"
  /\ slot' = [slot EXCEPT ![s].pc = "run", ![s].run = "fetch", ![s].lost = @ \/ slot[s].late]
  /\ UNCHANGED <<main, signalled, busy, free, next, stopping, attached, now, stopper>>

Detach(s) ==
  /\ slot[s].pc = "detach"
  /\ attached' = attached \ {s}
  /\ slot' = [slot EXCEPT ![s].pc = "finish"]
  /\ UNCHANGED <<main, signalled, busy, free, next, stopping, now, stopper>>

----------------------------------------------------------------------------
(* The job's run and its heartbeat (_run_with_heartbeat) *)

\* The fetch ended, or failed for a reason that may pass; a lost lease keeps
\* the run from the device.
Fetched(s) ==
  /\ slot[s].run = "fetch"
  /\ \/ slot' = [slot EXCEPT ![s].run = IF slot[s].lost THEN "ended" ELSE "device"]
     \/ slot' = [slot EXCEPT ![s].run = "transient"]
  /\ UNCHANGED <<main, signalled, busy, free, next, stopping, attached, now, stopper>>

\* The run ends by itself; a lost lease ends it soon.
RunEnds(s) ==
  /\ slot[s].run = "device"
  /\ slot' = [slot EXCEPT ![s].run = "ended"]
  /\ UNCHANGED <<main, signalled, busy, free, next, stopping, attached, now, stopper>>

Ended(s) == slot[s].run \in {"ended", "transient"}

\* The beat finds the lease lost, refused by the server or given up by a stop.
BeatLost(s) ==
  /\ slot[s].pc = "run" /\ ~Ended(s)
  /\ slot' = [slot EXCEPT ![s].pc = "abandon", ![s].lost = TRUE]
  /\ UNCHANGED <<main, signalled, busy, free, next, stopping, attached, now, stopper>>

\* The run's thread was joined.
RunJoined(s) ==
  /\ slot[s].pc \in {"run", "abandon"} /\ Ended(s)
  /\ slot' = [slot EXCEPT ![s].pc = "detach", ![s].abandoned = slot[s].lost]
  /\ UNCHANGED <<main, signalled, busy, free, next, stopping, attached, now, stopper>>

----------------------------------------------------------------------------
(* _run_slot, _SlotDirs and _finish_job *)

Least(dirs) == CHOOSE d \in dirs : \A e \in dirs : d <= e

\* The lowest free directory, or a new one.
Acquire(s) ==
  /\ slot[s].pc = "new"
  /\ IF free # {}
     THEN /\ slot' = [slot EXCEPT ![s].pc = "attach", ![s].dir = Least(free)]
          /\ free' = free \ {Least(free)} /\ UNCHANGED next
     ELSE /\ slot' = [slot EXCEPT ![s].pc = "attach", ![s].dir = next]
          /\ next' = next + 1 /\ UNCHANGED free
  /\ UNCHANGED <<main, signalled, busy, stopping, attached, now, stopper>>

\* A malformed lease body: nothing was acquired.
Malformed(s) ==
  /\ slot[s].pc = "new"
  /\ slot' = [slot EXCEPT ![s].pc = "end"]
  /\ UNCHANGED <<main, signalled, busy, free, next, stopping, attached, now, stopper>>

\* The run's own failure: the slot goes straight to its end.
SlotFails(s) ==
  /\ slot[s].pc \in {"finish", "upload"}
  /\ slot' = [slot EXCEPT ![s].pc = "end"]
  /\ UNCHANGED <<main, signalled, busy, free, next, stopping, attached, now, stopper>>

\* Nothing is posted for a lease that was lost or a fetch that may pass.
Finish(s) ==
  /\ slot[s].pc = "finish"
  /\ slot' = [slot EXCEPT ![s].pc = IF slot[s].abandoned \/ slot[s].run = "transient"
                                    THEN "end" ELSE "posted"]
  /\ UNCHANGED <<main, signalled, busy, free, next, stopping, attached, now, stopper>>

\* Mutant: the place is freed, and not noted as freed.
PostFrees(s) ==
  /\ slot[s].pc = "posted"
  /\ busy' = busy - 1 /\ slot' = [slot EXCEPT ![s].pc = "upload"]
  /\ UNCHANGED <<main, signalled, free, next, stopping, attached, now, stopper>>

\* Mutant: the directory is given back with the place.
PostReleases(s) ==
  /\ slot[s].pc = "posted"
  /\ busy' = busy - 1 /\ slot' = [slot EXCEPT ![s].pc = "upload", ![s].freed = TRUE]
  /\ free' = free \union {slot[s].dir}
  /\ UNCHANGED <<main, signalled, next, stopping, attached, now, stopper>>

\* post_done: the result was posted, whatever the server answered.
PostDone(s) ==
  /\ slot[s].pc = "posted"
  /\ busy' = busy - 1 /\ slot' = [slot EXCEPT ![s].pc = "upload", ![s].freed = TRUE]
  /\ UNCHANGED <<main, signalled, free, next, stopping, attached, now, stopper>>

Uploaded(s) ==
  /\ slot[s].pc = "upload"
  /\ slot' = [slot EXCEPT ![s].pc = "end"]
  /\ UNCHANGED <<main, signalled, busy, free, next, stopping, attached, now, stopper>>

\* The finally: post_done again.
End(s) ==
  /\ slot[s].pc = "end"
  /\ busy' = IF slot[s].freed THEN busy ELSE busy - 1
  /\ slot' = [slot EXCEPT ![s].pc = "release", ![s].freed = TRUE]
  /\ UNCHANGED <<main, signalled, free, next, stopping, attached, now, stopper>>

Release(s) ==
  /\ slot[s].pc = "release"
  /\ free' = IF slot[s].dir = None THEN free ELSE free \union {slot[s].dir}
  /\ slot' = [slot EXCEPT ![s].pc = "over"]
  /\ UNCHANGED <<main, signalled, busy, next, stopping, attached, now, stopper>>

----------------------------------------------------------------------------
MainStep == Turn \/ Lease \/ Count \/ Start \/ StartFails \/ Join
StopperStep(t) == Request(t) \/ Requested(t) \/ \E s \in Leases : SetLost(t, s)
SlotStep(s) ==
  \/ Acquire(s) \/ Malformed(s) \/ Attach(s) \/ Attached(s) \/ Detach(s) \/ RunJoined(s)
  \/ SlotFails(s) \/ Finish(s) \/ PostDone(s) \/ Uploaded(s) \/ End(s) \/ Release(s)

Next ==
  \/ MainStep \/ Signal \/ SecondSignal
  \/ \E t \in Stoppers : StopperStep(t)
  \/ \E s \in Leases : SlotStep(s) \/ BeatLost(s) \/ Fetched(s) \/ RunEnds(s)

\* A run ends by itself or not; one whose lease is lost is interrupted.
Fairness ==
  /\ WF_vars(MainStep)
  /\ \A t \in Stoppers : WF_vars(StopperStep(t))
  /\ \A s \in Leases :
       /\ WF_vars(SlotStep(s)) /\ WF_vars(Fetched(s))
       /\ WF_vars(slot[s].lost /\ RunEnds(s))

Spec == Init /\ [][Next]_vars
FairSpec == Spec /\ Fairness

----------------------------------------------------------------------------
(* Properties *)

\* "At most *slots* concurrent slots": from its lease until its result is
\* posted or it ends without one, a job holds a place of its own, so the worker
\* never has more jobs in flight on the device cloud.
InFlight == {s \in Leases : slot[s].pc \notin {"none", "upload", "over"} /\ ~slot[s].freed}
PlacesHold == Cardinality(InFlight) <= Slots

\* "Each job gets one no other live job holds": also a job that only uploads
\* its evidence keeps its directory from the next lease.
OwnDirectory == \A s, u \in Leases :
  /\ s # u /\ slot[s].pc # "over" /\ slot[u].pc # "over" /\ slot[s].dir # None =>
       slot[s].dir # slot[u].dir
  /\ slot[s].pc # "over" => slot[s].dir \notin free

\* Once a stop has gone through its slots no attached one is missed, on
\* whichever side of the copy it attached.
StopReachesAll ==
  main.pc \in {"join", "over"} =>
    \A s \in attached : slot[s].lost \/ (slot[s].pc = "attaching" /\ slot[s].late)

\* A job leased while the stop came never reaches the device.
LateLeaseNeverRuns == \A s \in Leases : slot[s].late => slot[s].run # "device"

\* No job in flight shares its place or its directory with another one.
SlotsAreOwn == TypeOK /\ PlacesHold /\ OwnDirectory

\* A stop meets every job, attached before it, during it or after it.
StopIsSeen == StopReachesAll /\ LateLeaseNeverRuns

\* A stop ends the worker: every slot sees it and none waits for its run.
ShutdownEnds == stopping ~> main.pc = "over"
=============================================================================
