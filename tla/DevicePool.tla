---------------------------- MODULE DevicePool ------------------------------
(***************************************************************************)
(* One run's device pools: the queue of free devices, the warm environment *)
(* kept per device, the collector listening for each, and what an          *)
(* environment's start, its end and a device replaced in between do to     *)
(* them.  A pool is "xcuitest" (Simulators, whose runner stays up between  *)
(* leases) or "playwright" (browser lanes).  A step is named for the call  *)
(* it models; the scenario loop takes them, in ScenarioRunner.             *)
(***************************************************************************)
EXTENDS Naturals, Sequences, FiniteSets, SequencesExt

CONSTANTS
  Devices,   \* every device and lane a run may hold, replacements included
  Plans      \* the runs to explore: their lanes and what the scenarios need

Pools == {"xcuitest", "playwright"}
None == 0

\* Each device is one lane: --udid names it once, a replacement is created
\* anew.  The udid "booted" is one Simulator (_resolve_lanes).
ASSUME PoolAssumption ==
  /\ Devices \subseteq Nat \ {None}
  /\ \A r \in Plans :
       /\ r.lanes \in [Pools -> Seq(Devices)] /\ r.spares \subseteq Devices
       /\ \A p \in Pools : \A i \in DOMAIN r.lanes[p] :
            /\ r.lanes[p][i] \notin r.spares
            /\ \A q \in Pools : \A j \in DOMAIN r.lanes[q] :
                 r.lanes[p][i] = r.lanes[q][j] => p = q /\ i = j
       /\ r.booted => Len(r.lanes["xcuitest"]) = 1

VARIABLES
  plan,       \* the run chosen
  free,       \* per pool: the queue of free devices
  warm,       \* the devices whose environment the pool keeps
  env,        \* per device: its environment's runner, and the scenario that
              \* asked it for a replacement device
  heir,       \* per device: the one created to replace it
  collectors, \* the devices a collector listens for
  defect      \* lease_defect is not None

poolVars == <<plan, free, warm, env, heir, collectors, defect>>

Blank == [runner |-> "none", asked |-> None]

Lanes(p) == ToSet(plan.lanes[p])
PoolOf(d) == IF d \in Lanes("playwright") THEN "playwright" ELSE "xcuitest"

PoolTypeOK ==
  /\ free \in [Pools -> Seq(Devices)]
  /\ warm \subseteq Devices /\ collectors \subseteq Devices
  /\ heir \in [Devices -> Devices \union {None}]
  /\ env \in [Devices -> [runner : {"none", "alive", "dead"}, asked : Nat]]
  /\ defect \in BOOLEAN

PoolInit ==
  /\ free = [p \in Pools |-> plan.lanes[p]]
  /\ warm = {} /\ collectors = {} /\ heir = [d \in Devices |-> None]
  /\ env = [d \in Devices |-> Blank]
  /\ defect = FALSE

----------------------------------------------------------------------------
(* device_pool and shutdown *)

\* One collector per Simulator; a failed start stops the ones started.
OpenPool(p, ok) ==
  /\ collectors' = IF ok /\ p = "xcuitest" THEN collectors \union Lanes(p) ELSE collectors
  /\ UNCHANGED <<plan, free, warm, env, heir, defect>>

\* Mutant: only the environments that are up are torn down, not the sockets.
ShutRunners(p, faulty) ==
  /\ LET mine == {d \in warm : PoolOf(d) = p} IN
       /\ env' = [d \in Devices |-> IF d \in mine THEN Blank ELSE env[d]]
       /\ warm' = warm \ mine
  /\ defect' = (defect \/ faulty)
  /\ UNCHANGED <<plan, free, heir, collectors>>

\* Every warm environment and every collector, whatever fails on the way.
Shutdown(p, faulty) ==
  /\ LET mine == {d \in warm : PoolOf(d) = p} IN
       /\ env' = [d \in Devices |-> IF d \in mine THEN Blank ELSE env[d]]
       /\ warm' = warm \ mine
  /\ collectors' = {d \in collectors : PoolOf(d) # p}
  /\ defect' = (defect \/ faulty)
  /\ UNCHANGED <<plan, free, heir>>

----------------------------------------------------------------------------
(* lease, up to its launch *)

\* The next free device, with the environment kept for it or a fresh one.
GetDevice(p, d) ==
  /\ free[p] # <<>> /\ d = Head(free[p])
  /\ free' = [free EXCEPT ![p] = Tail(@)]
  /\ env' = IF d \in warm THEN env ELSE [env EXCEPT ![d].asked = None]
  /\ UNCHANGED <<plan, warm, heir, collectors, defect>>

\* What launch_driver leaves: the device the environment is on, its runner,
\* what it raised, and whether it had returned (a later call then raised).
Launched(e, runner, exc, back) == [to |-> e, runner |-> runner, exc |-> exc, back |-> back]

\* A launch that made it, or that raised after it had come up.
Up(e) == {Launched(e, "alive", "none", TRUE), Launched(e, "alive", "device", TRUE)}

\* A cold spawn discards the runner it cannot bring up; the readiness gate
\* finds it crashed and launch_driver tears it down; simctl refuses or hangs.
ColdSpawn(e) == Up(e) \union {Launched(e, "none", x, FALSE) : x \in {"crash", "device", "timeout", "down"}}

\* A device not yet created, for the one that has to be replaced.
Spare ==
  LET left == {e \in plan.spares : \A d \in Devices : heir[d] # e}
  IN {e \in left : \A f \in left : e <= f}

\* XcuitestEnvironment.start: serve a pending replacement first, else resume a
\* live runner unless the device is to be erased, else spawn cold; a cold
\* spawn replaces a device that vanished.
StartSimulator(d, erase) ==
  LET replaced == UNION {ColdSpawn(e) : e \in Spare} IN
  IF env[d].asked # None
  THEN replaced \union {Launched(d, "none", "device", FALSE)}
  ELSE ColdSpawn(d) \union replaced
         \union IF env[d].runner = "alive" /\ ~erase
                THEN {Launched(d, "alive", "device", FALSE), Launched(d, "none", "crash", FALSE)}
                ELSE {}

StartBrowser(d) == Up(d) \union {Launched(d, "none", "device", FALSE)}

Start(p, d, erase) == IF p = "xcuitest" THEN StartSimulator(d, erase) ELSE StartBrowser(d)

\* start reads the pending request once and clears it.
AfterStart(d, l) ==
  /\ env' = [env EXCEPT ![d] = Blank, ![l.to] = [runner |-> l.runner, asked |-> None]]
  /\ heir' = IF l.to = d THEN heir ELSE [heir EXCEPT ![d] = l.to]

\* adopt_replacement: the collector follows onto the device the environment
\* is on.
Adopted(d, e) == IF d \in collectors THEN (collectors \ {d}) \union {e} ELSE collectors

\* The lease is built; a Simulator's environment is kept for the next one.
LeaseReady(p, d, l) ==
  /\ l.exc = "none" /\ AfterStart(d, l)
  /\ warm' = (warm \ {d}) \union (IF p = "xcuitest" THEN {l.to} ELSE {})
  /\ collectors' = Adopted(d, l.to)
  /\ UNCHANGED <<plan, free, defect>>

LaunchRaised(d, l) ==
  /\ l.exc # "none" /\ AfterStart(d, l)
  /\ UNCHANGED <<plan, free, warm, collectors, defect>>

\* Mutant: the device leased goes back, not the one that took its place.
PutBackLeased(p, d, l) ==
  /\ env' = IF d \in warm \/ l.back THEN [env EXCEPT ![l.to] = Blank] ELSE env
  /\ warm' = warm \ {d}
  /\ collectors' = Adopted(d, l.to)
  /\ free' = [free EXCEPT ![p] = Append(@, d)]
  /\ UNCHANGED <<plan, heir, defect>>

\* The cleanup of a lease that raised: evict and tear down what is up, follow
\* the replacement, give the device back.
PutBack(p, d, l) ==
  /\ env' = IF d \in warm \/ l.back THEN [env EXCEPT ![l.to] = Blank] ELSE env
  /\ warm' = warm \ {d}
  /\ collectors' = Adopted(d, l.to)
  /\ free' = [free EXCEPT ![p] = Append(@, l.to)]
  /\ UNCHANGED <<plan, heir, defect>>

----------------------------------------------------------------------------
(* release *)

\* How the end of a lease came out: done, an expected failure, or a defect.
Ends == {"done", "failed", "defect"}

\* Mutant: an environment whose lease did not end is dropped, not torn down.
ReleaseDropping(p, d, end) ==
  /\ warm' = IF end = "done" THEN warm ELSE warm \ {d}
  /\ env' = IF p = "playwright" THEN [env EXCEPT ![d] = Blank] ELSE env
  /\ defect' = (defect \/ end = "defect")
  /\ free' = [free EXCEPT ![p] = Append(@, d)]
  /\ UNCHANGED <<plan, heir, collectors>>

\* A Simulator whose lease ended keeps its runner; everything else is torn
\* down.  The device goes back to the queue last, whatever failed.
Release(p, d, end) ==
  /\ warm' = IF end = "done" THEN warm ELSE warm \ {d}
  /\ env' = IF p = "playwright" \/ end # "done" THEN [env EXCEPT ![d] = Blank] ELSE env
  /\ defect' = (defect \/ end = "defect")
  /\ free' = [free EXCEPT ![p] = Append(@, d)]
  /\ UNCHANGED <<plan, heir, collectors>>

\* request_device_replacement on the environment of a lease already released:
\* an evicted environment serves nobody.
AskReplacement(d, s) == env' = IF d \in warm THEN [env EXCEPT ![d].asked = s] ELSE env
=============================================================================
