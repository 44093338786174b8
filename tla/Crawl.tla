------------------------------- MODULE Crawl --------------------------------
(***************************************************************************)
(* bajutsu crawl: lanes, each a thread with its own device, explore one    *)
(* app over a screen map and a frontier they share behind the              *)
(* coordinator's lock.  Every method of the coordinator is one step; the   *)
(* device work between two of them is local to its lane and is taken with  *)
(* the second.  A crawl that ended may be continued from its map on disk,  *)
(* or one pruned branch of it resumed.                                     *)
(*                                                                         *)
(* The app is deterministic: an operation of a screen leads to one screen, *)
(* or collapses the app.  Devices fail at will, within a bound.  The       *)
(* prompts a lane dismisses on its way are recorded by the code and read   *)
(* by nothing, and are left out.                                           *)
(***************************************************************************)
EXTENDS Naturals, Sequences, FiniteSets, SequencesExt

CONSTANTS
  Screens,    \* the fingerprints, naturals from 1, the entry screen's
  Ops,        \* the replay keys
  Setups,     \* the crawls to explore: the app, the lanes and the budgets
  MaxErrors,  \* _MAX_WORKER_DEVICE_ERRORS
  MaxFaults,  \* bounds the faults of a behaviour
  MaxRuns,    \* bounds the crawls over one map
  MaxLanes    \* bounds the lanes of the setups

ASSUME CrawlAssumption ==
  /\ 1 \in Screens /\ Screens \subseteq Nat \ {0}
  /\ MaxErrors \in Nat \ {0} /\ MaxFaults \in Nat /\ MaxRuns \in Nat \ {0} /\ MaxLanes \in Nat

None == 0
Entry == 1

\* A guide proposes an operation of a screen once, and each leads to one screen
\* or collapses the app.
ASSUME SetupAssumption == \A r \in Setups :
  /\ r.lanes \in 1..MaxLanes /\ r.screens \in Nat /\ r.steps \in Nat
  /\ r.ops \in [Screens -> Seq(Ops)]
  /\ \A s \in Screens :
       /\ \A i, k \in 1..Len(r.ops[s]) : r.ops[s][i] = r.ops[s][k] => i = k
       /\ \A a \in ToSet(r.ops[s]) : r.goes[s][a] \in Screens \union {None}

VARIABLES
  setup,   \* the crawl chosen
  main,    \* crawl's own thread: where it is, how it was started, which run
  map,     \* the ScreenMap in memory; gone is what no device could reach
  coord,   \* the coordinator's other fields
  lane,    \* per lane: its device's screen and _worker's locals
  disk,    \* screenmap.json: the map last emitted, with its plan
  faults,  \* how many faults happened
  hurt     \* a crawl raised, skipped a stale screen or resumed a branch

vars == <<setup, main, map, coord, lane, disk, faults, hurt>>

OpsOf(s) == ToSet(setup.ops[s])
Lanes == 1..(IF main.mode = "resume" THEN 1 ELSE setup.lanes)
Lone == Lanes = {1}
Prunes == setup.prune /\ main.mode # "resume"

\* Where a path leads from the entry screen; None where the app collapses.
After(s, a) == IF s # None /\ a \in OpsOf(s) THEN setup.goes[s][a] ELSE None
Leads(path) ==
  LET at[i \in 0..Len(path)] == IF i = 0 THEN Entry ELSE After(at[i - 1], path[i]) IN at[Len(path)]

\* A list of operations without some.
Without(order, gone) ==
  LET kept[i \in 0..Len(order)] ==
        IF i = 0 THEN << >>
        ELSE IF order[i] \in gone THEN kept[i - 1] ELSE Append(kept[i - 1], order[i])
  IN kept[Len(order)]

NoFrontier == [s \in Screens |-> <<>>]
NewMap == [nodes |-> {}, paths |-> [s \in Screens |-> <<>>], edges |-> {}, crashes |-> {},
           pruned |-> {}, stop |-> "", gone |-> {}]
NewCoord == [pathTo |-> [s \in Screens |-> <<>>], pending |-> NoFrontier, claimed |-> [a \in Ops |-> None],
             discovering |-> {}, steps |-> 0, active |-> 0, stopped |-> FALSE, failed |-> FALSE]
NewLane == [pc |-> "build", at |-> None, cur |-> None, errors |-> 0,
            src |-> None, op |-> None, path |-> <<>>, replay |-> FALSE]

Reasons == {"", "completed", "max_screens", "max_steps"}

TypeOK ==
  /\ main.pc \in {"boot", "walk", "done", "raised"} /\ main.run \in 1..MaxRuns
  /\ main.mode \in {"fresh", "continue", "resume"}
  /\ map.nodes \subseteq Screens /\ map.stop \in Reasons
  /\ map.edges \subseteq Screens \X Ops \X Screens
  /\ coord.pending \in [Screens -> Seq(Ops)]
  /\ coord.discovering \subseteq Screens \ map.nodes
  /\ coord.active \in 0..setup.lanes /\ coord.steps \in 0..setup.steps
  /\ \A w \in Lanes : /\ lane[w].pc \in {"build", "select", "wait", "walk", "heal", "discover", "over"}
                      /\ lane[w].errors \in 0..MaxErrors
  /\ faults \in 0..MaxFaults

Init ==
  /\ setup \in Setups
  /\ main = [pc |-> "boot", mode |-> "fresh", run |-> 1, seed |-> <<>>]
  /\ map = NewMap /\ coord = NewCoord
  /\ lane = [w \in 1..setup.lanes |-> NewLane]
  /\ disk = [map |-> NewMap, plan |-> NoFrontier]
  /\ faults = 0 /\ hurt = FALSE

\* One more fault, within the bound.
Fault == faults < MaxFaults /\ faults' = faults + 1

----------------------------------------------------------------------------
(* The coordinator's helpers, under its lock *)

\* _emit: the plan is refreshed from the frontier and the map written.
Emit(m, c) == disk' = [map |-> m, plan |-> c.pending]

\* notify_all: every waiting lane looks again.
Notified(l) == [w \in DOMAIN l |-> IF l[w].pc = "wait" THEN [l[w] EXCEPT !.pc = "select"] ELSE l[w]]

\* _finish: the first reason stays.
Stopped(m, reason) == IF m.stop = "" THEN [m EXCEPT !.stop = reason] ELSE m

\* _claim: the operations of s another screen already explores.
Taken(c, s) == {a \in OpsOf(s) : Prunes /\ c.claimed[a] \notin {None, s}}

\* _publish: the node, the path that reached it and what was pruned of it.
Noted(m, c, s) ==
  [m EXCEPT !.nodes = @ \union {s}, !.paths[s] = c.pathTo[s],
            !.pruned = @ \union {[src |-> s, op |-> a, path |-> Append(c.pathTo[s], a)] : a \in Taken(c, s)}]

\* ... and its frontier.
Opened(c, s) ==
  [c EXCEPT !.pending[s] = Without(setup.ops[s], Taken(c, s)),
            !.claimed = [a \in Ops |-> IF Prunes /\ a \in OpsOf(s) /\ c.claimed[a] = None THEN s ELSE c.claimed[a]]]

----------------------------------------------------------------------------
(* _bootstrap, before any thread starts *)

\* The lanes as the threads start: the primary may stand on a screen.
Start(at) == [w \in 1..setup.lanes |->
                IF w = 1 THEN [NewLane EXCEPT !.pc = "select", !.at = at, !.cur = at] ELSE NewLane]

BootFresh ==
  /\ main.pc = "boot" /\ main.mode = "fresh"
  /\ map' = Noted(map, coord, Entry) /\ coord' = Opened(coord, Entry)
  /\ Emit(map', coord')
  /\ main' = [main EXCEPT !.pc = "walk"] /\ lane' = Start(Entry)
  /\ UNCHANGED <<setup, faults, hurt>>

\* _reconstruct_frontier: every screen with untried operations, but those
\* whose recorded path no longer leads there.  An empty frontier leaves the
\* map as it was.
BootContinue ==
  /\ main.pc = "boot" /\ main.mode = "continue"
  /\ \E stale \in SUBSET {s \in Screens : disk.plan[s] # <<>>} :
       /\ IF stale = {} THEN UNCHANGED faults ELSE Fault
       /\ LET left == [s \in Screens |-> IF s \in stale THEN <<>>
                         ELSE Without(setup.ops[s], OpsOf(s) \ ToSet(disk.plan[s]))]
          IN IF left # NoFrontier
             THEN /\ coord' = [coord EXCEPT !.pending = left,
                                 !.pathTo = [s \in Screens |-> IF left[s] # <<>> THEN map.paths[s] ELSE <<>>]]
                  /\ map' = [map EXCEPT !.stop = ""]
                  /\ Emit(map', coord')
                  /\ main' = [main EXCEPT !.pc = "walk"] /\ lane' = Start(None)
                  /\ hurt' = (hurt \/ stale # {})
             ELSE /\ map' = Stopped(map, "max_steps")
                  /\ disk' = [disk EXCEPT !.map = map']
                  /\ main' = [main EXCEPT !.pc = "done"]
                  /\ UNCHANGED <<coord, lane, hurt>>
  /\ UNCHANGED setup

\* A resume replays to the pruned branch's screen and explores that one
\* operation; a replay that no longer resolves ends it.
BootResume ==
  /\ main.pc = "boot" /\ main.mode = "resume"
  /\ LET path == Front(main.seed) s == Leads(path) IN
     \/ /\ coord' = [coord EXCEPT !.pathTo[s] = path, !.pending[s] = <<Last(main.seed)>>]
        /\ main' = [main EXCEPT !.pc = "walk"] /\ lane' = Start(s)
        /\ UNCHANGED <<map, faults>>
     \/ /\ Fault
        /\ map' = [map EXCEPT !.stop = "completed"]
        /\ main' = [main EXCEPT !.pc = "done"]
        /\ UNCHANGED <<coord, lane>>
  /\ Emit(map', coord')
  /\ hurt' = TRUE
  /\ UNCHANGED setup

\* A device that fails here ends the crawl.
BootFails ==
  /\ main.pc = "boot" /\ Fault
  /\ main' = [main EXCEPT !.pc = "raised"]
  /\ UNCHANGED <<setup, map, coord, lane, disk, hurt>>

----------------------------------------------------------------------------
(* A lane *)

\* note_failure: an error nothing handles stops every lane.  What the lane
\* had reserved is never released.
NoteFailure(w) ==
  /\ Fault
  /\ coord' = [coord EXCEPT !.failed = TRUE, !.stopped = TRUE]
  /\ map' = Stopped(map, "completed")
  /\ lane' = [Notified(lane) EXCEPT ![w].pc = "over"]
  /\ hurt' = TRUE
  /\ UNCHANGED <<setup, main, disk>>

\* An extra lane builds its driver on its own thread.
Build(w) ==
  /\ main.pc = "walk" /\ w # 1 /\ lane[w].pc = "build"
  /\ \/ /\ lane' = [lane EXCEPT ![w].pc = "select"]
        /\ UNCHANGED <<setup, main, map, coord, disk, faults, hurt>>
     \/ NoteFailure(w)

Frontier == {s \in Screens : coord.pending[s] # <<>>}

\* The screen the lane is on, else the one with the shortest path.
Source(w) ==
  IF lane[w].cur \in Frontier THEN lane[w].cur
  ELSE CHOOSE s \in Frontier : \A r \in Frontier :
         \/ Len(coord.pathTo[s]) < Len(coord.pathTo[r])
         \/ Len(coord.pathTo[s]) = Len(coord.pathTo[r]) /\ s <= r

\* Mutant: an empty frontier is the end, whoever is still on the way.
SpentEarly ==
  IF Cardinality(map.nodes) >= setup.screens THEN "max_screens"
  ELSE IF coord.steps >= setup.steps THEN "max_steps"
  ELSE IF Frontier = {} THEN "completed"
  ELSE ""

\* Mutant: one screen more than the budget.
SpentLate ==
  IF Cardinality(map.nodes) > setup.screens THEN "max_screens"
  ELSE IF coord.steps >= setup.steps THEN "max_steps"
  ELSE IF Frontier = {} /\ coord.active = 0 THEN "completed"
  ELSE ""

\* Why no lane may take more work, if so.
Spent ==
  IF Cardinality(map.nodes) >= setup.screens THEN "max_screens"
  ELSE IF coord.steps >= setup.steps THEN "max_steps"
  ELSE IF Frontier = {} /\ coord.active = 0 THEN "completed"
  ELSE ""

Finish(w) ==
  /\ lane[w].pc = "select" /\ (coord.stopped \/ Spent # "")
  /\ coord' = [coord EXCEPT !.stopped = TRUE]
  /\ map' = IF coord.stopped THEN map ELSE Stopped(map, Spent)
  /\ lane' = [IF coord.stopped THEN lane ELSE Notified(lane) EXCEPT ![w].pc = "over"]
  /\ UNCHANGED <<setup, main, disk, faults, hurt>>

\* Another lane is in the middle of a step and may add to the frontier.
Wait(w) ==
  /\ lane[w].pc = "select" /\ ~coord.stopped /\ Spent = "" /\ Frontier = {}
  /\ lane' = [lane EXCEPT ![w].pc = "wait"]
  /\ UNCHANGED <<setup, main, map, coord, disk, faults, hurt>>

\* select_next_work reserves the first untried operation.
Reserve(w) ==
  /\ lane[w].pc = "select" /\ ~coord.stopped /\ Spent = "" /\ Frontier # {}
  /\ LET s == Source(w) IN
       /\ lane' = [lane EXCEPT ![w].pc = "walk", ![w].src = s, ![w].op = Head(coord.pending[s]),
                               ![w].path = coord.pathTo[s], ![w].replay = (s # lane[w].cur)]
       /\ coord' = [coord EXCEPT !.pending[s] = Tail(@), !.steps = @ + 1, !.active = @ + 1]
  /\ UNCHANGED <<setup, main, map, disk, faults, hurt>>

\* What the reserved operation meets: the screen it is performed on and the
\* one it leads to.
On(w) == IF lane[w].replay THEN Leads(lane[w].path) ELSE lane[w].at
Landed(w) == IF lane[w].op \in OpsOf(On(w)) THEN setup.goes[On(w)][lane[w].op] ELSE None
Path(w) == Append(lane[w].path, lane[w].op)

\* The lane goes on, its device on screen s, or on none it knows.
Freed(w, s) == [lane EXCEPT ![w].pc = "select", ![w].at = s, ![w].cur = s, ![w].src = None,
                            ![w].op = None, ![w].path = <<>>, ![w].replay = FALSE]
Released(c) == [c EXCEPT !.active = @ - 1]

\* Mutant: the operation is dropped, not handed back.
GiveNothingBack(w) ==
  /\ lane[w].pc = "walk" /\ ~Lone /\ Fault
  /\ coord' = Released(coord)
  /\ lane' = [Notified(Freed(w, None)) EXCEPT ![w].errors = 1]
  /\ UNCHANGED <<setup, main, map, disk, hurt>>

\* Mutant: nobody is told.
GiveBackUntold(w) ==
  /\ lane[w].pc = "walk" /\ ~Lone /\ Fault
  /\ coord' = [Released(coord) EXCEPT !.pending[lane[w].src] = <<lane[w].op>> \o @]
  /\ LET n == lane[w].errors + 1 IN
       lane' = [Freed(w, None) EXCEPT ![w].errors = n, ![w].pc = IF n >= MaxErrors THEN "over" ELSE "select"]
  /\ UNCHANGED <<setup, main, map, disk, hurt>>

\* In a pool, a stale replay or a device fault hands the operation back; a
\* lane that faults too often in a row retires.
GiveBack(w) ==
  /\ lane[w].pc = "walk" /\ ~Lone /\ Fault
  /\ coord' = [Released(coord) EXCEPT !.pending[lane[w].src] = <<lane[w].op>> \o @]
  /\ \E stale \in {FALSE, lane[w].replay} :
       LET n == lane[w].errors + 1 IN
       lane' = [Notified(Freed(w, None)) EXCEPT
                  ![w].errors = n,
                  ![w].pc = IF n >= MaxErrors THEN "over" ELSE IF setup.heals /\ ~stale THEN "heal" ELSE "select"]
  /\ UNCHANGED <<setup, main, map, disk, hurt>>

\* recover: the lane's browser is relaunched, or the crawl fails.
Heal(w) ==
  /\ lane[w].pc = "heal"
  /\ \/ /\ lane' = [lane EXCEPT ![w].pc = "select"]
        /\ UNCHANGED <<setup, main, map, coord, disk, faults, hurt>>
     \/ NoteFailure(w)

\* A lone lane drops the screen its replay no longer reaches.
DropScreen(w) ==
  /\ lane[w].pc = "walk" /\ Lone /\ lane[w].replay /\ Fault
  /\ LET s == lane[w].src IN
       /\ map' = [map EXCEPT !.gone = @ \union ({s} \X ({lane[w].op} \union ToSet(coord.pending[s])))]
       /\ coord' = [Released(coord) EXCEPT !.pending[s] = <<>>]
  /\ lane' = Notified(Freed(w, None))
  /\ UNCHANGED <<setup, main, disk, hurt>>

\* The selector resolves to nothing, or to something that is covered.
CancelAction(w) ==
  /\ lane[w].pc = "walk" /\ Fault
  /\ map' = [map EXCEPT !.gone = @ \union {<<lane[w].src, lane[w].op>>}]
  /\ coord' = Released(coord)
  /\ lane' = Notified(Freed(w, None))
  /\ UNCHANGED <<setup, main, disk, hurt>>

\* Mutant: the lane takes the screen it left for the one it is on.
CrashInPlace(w) ==
  /\ lane[w].pc = "walk" /\ lane[w].op \in OpsOf(On(w)) /\ Landed(w) = None
  /\ map' = [map EXCEPT !.crashes = @ \union {[src |-> lane[w].src, path |-> Path(w)]}]
  /\ coord' = Released(coord)
  /\ Emit(map', coord')
  /\ lane' = [Notified(Freed(w, None)) EXCEPT ![w].errors = 0, ![w].at = Entry, ![w].cur = lane[w].src]
  /\ UNCHANGED <<setup, main, faults, hurt>>

RecordCrash(w) ==
  /\ lane[w].pc = "walk" /\ lane[w].op \in OpsOf(On(w)) /\ Landed(w) = None
  /\ map' = [map EXCEPT !.crashes = @ \union {[src |-> lane[w].src, path |-> Path(w)]}]
  /\ coord' = Released(coord)
  /\ Emit(map', coord')
  /\ lane' = [Notified(Freed(w, None)) EXCEPT ![w].errors = 0]
  /\ UNCHANGED <<setup, main, faults, hurt>>

\* Mutant: a screen another lane is discovering is discovered again.
EdgeDiscovers(w) ==
  /\ lane[w].pc = "walk" /\ Landed(w) # None
  /\ LET d == Landed(w) IN
       /\ map' = [map EXCEPT !.edges = @ \union {<<lane[w].src, lane[w].op, d>>}]
       /\ IF d \in map.nodes
          THEN /\ coord' = Released(coord)
               /\ Emit(map', coord')
               /\ lane' = [Notified(Freed(w, d)) EXCEPT ![w].errors = 0]
          ELSE /\ coord' = [coord EXCEPT !.discovering = @ \union {d}, !.pathTo[d] = Path(w)]
               /\ lane' = [Freed(w, d) EXCEPT ![w].pc = "discover", ![w].errors = 0]
               /\ UNCHANGED disk
  /\ UNCHANGED <<setup, main, faults, hurt>>

\* A screen nobody knows and nobody is discovering is this lane's to
\* discover; else the step is done.
RecordEdge(w) ==
  /\ lane[w].pc = "walk" /\ Landed(w) # None
  /\ LET d == Landed(w) IN
       /\ map' = [map EXCEPT !.edges = @ \union {<<lane[w].src, lane[w].op, d>>}]
       /\ IF d \in map.nodes \union coord.discovering
          THEN /\ coord' = Released(coord)
               /\ Emit(map', coord')
               /\ lane' = [Notified(Freed(w, d)) EXCEPT ![w].errors = 0]
          ELSE /\ coord' = [coord EXCEPT !.discovering = @ \union {d}, !.pathTo[d] = Path(w)]
               /\ lane' = [Freed(w, d) EXCEPT ![w].pc = "discover", ![w].errors = 0]
               /\ UNCHANGED disk
  /\ UNCHANGED <<setup, main, faults, hurt>>

\* Mutant: the screen stays reserved.
FinishReserved(w) ==
  /\ lane[w].pc = "discover"
  /\ LET d == lane[w].cur IN
       /\ map' = Noted(map, coord, d)
       /\ coord' = Released(Opened(coord, d))
  /\ Emit(map', coord')
  /\ lane' = [Notified(lane) EXCEPT ![w].pc = "select"]
  /\ UNCHANGED <<setup, main, faults, hurt>>

\* The guide has proposed the screen's operations.
FinishDiscovery(w) ==
  /\ lane[w].pc = "discover"
  /\ LET d == lane[w].cur IN
       /\ map' = Noted(map, coord, d)
       /\ coord' = [Released(Opened(coord, d)) EXCEPT !.discovering = @ \ {d}]
  /\ Emit(map', coord')
  /\ lane' = [Notified(lane) EXCEPT ![w].pc = "select"]
  /\ UNCHANGED <<setup, main, faults, hurt>>

\* The device, the guide or the platform raises what the lane does not
\* handle; alone, a device fault too.
Fails(w) == lane[w].pc \in {"walk", "discover"} /\ NoteFailure(w)

----------------------------------------------------------------------------
(* crawl, around its lanes *)

\* Every lane was joined: a failure is raised, else the last event goes out.
Join ==
  /\ main.pc = "walk" /\ \A w \in Lanes : lane[w].pc = "over"
  /\ IF coord.failed
     THEN main' = [main EXCEPT !.pc = "raised"] /\ UNCHANGED <<map, disk>>
     ELSE /\ main' = [main EXCEPT !.pc = "done"]
          /\ map' = Stopped(map, IF Frontier = {} THEN "completed"
                                 ELSE IF Cardinality(map.nodes) >= setup.screens THEN "max_screens"
                                 ELSE "max_steps")
          /\ Emit(map', coord)
  /\ UNCHANGED <<setup, coord, lane, faults, hurt>>

\* crawl --continue on the map on disk; refused when it has no frontier.
Continue ==
  /\ main.pc \in {"done", "raised"} /\ main.run < MaxRuns /\ disk.plan # NoFrontier
  /\ main' = [pc |-> "boot", mode |-> "continue", run |-> main.run + 1, seed |-> <<>>]
  /\ map' = disk.map /\ coord' = NewCoord
  /\ UNCHANGED <<setup, lane, disk, faults, hurt>>

\* crawl --resume-src --resume-key: one pruned branch.
Resume ==
  /\ main.pc \in {"done", "raised"} /\ main.run < MaxRuns
  /\ \E p \in disk.map.pruned :
       /\ main' = [pc |-> "boot", mode |-> "resume", run |-> main.run + 1, seed |-> p.path]
       /\ map' = [disk.map EXCEPT !.pruned = @ \ {p}]
  /\ coord' = NewCoord
  /\ UNCHANGED <<setup, lane, disk, faults, hurt>>

MainStep == BootFresh \/ BootContinue \/ BootResume \/ BootFails \/ Join
LaneStep(w) ==
  \/ Build(w) \/ Finish(w) \/ Wait(w) \/ Reserve(w) \/ GiveBack(w) \/ Heal(w) \/ DropScreen(w)
  \/ CancelAction(w) \/ RecordCrash(w) \/ RecordEdge(w) \/ FinishDiscovery(w) \/ Fails(w)

Next == MainStep \/ Continue \/ Resume \/ \E w \in Lanes : LaneStep(w)

Spec == Init /\ [][Next]_vars

\* A lane's device calls and its guide return or raise; a lane that waits is
\* woken by another one alone.
FairSpec == Spec /\ WF_vars(MainStep) /\ \A w \in 1..MaxLanes : WF_vars(w \in Lanes /\ LaneStep(w))

----------------------------------------------------------------------------
(* Properties *)

Tried(m) ==
  {<<e[1], e[2]>> : e \in m.edges} \union {<<c.src, Last(c.path)>> : c \in m.crashes}

\* Where an operation of a known screen may be: still untried, reserved by a
\* lane, tried, pruned, or found unreachable.
Places(s, a) ==
  LET plan == IF main.pc = "walk" THEN coord.pending ELSE disk.plan
      held == {w \in Lanes : main.pc = "walk" /\ lane[w].pc = "walk" /\ lane[w].src = s /\ lane[w].op = a}
      One(b) == IF b THEN 1 ELSE 0
  IN One(a \in ToSet(plan[s])) + Cardinality(held) + One(<<s, a>> \in Tried(map) \union map.gone)
       + One(\E p \in map.pruned : p.src = s /\ p.op = a)

\* "Two workers never pop the same action", and no operation is forgotten:
\* whatever lanes fault, retire or stop on a budget, in this crawl and the
\* ones that continue it, each operation of a known screen is in one place.
\* A crawl that raised loses what its lanes held.
FrontierIsExact ==
  main.pc \in {"walk", "done"} =>
    \A s \in map.nodes : \A a \in OpsOf(s) : Places(s, a) <= 1 /\ (hurt \/ Places(s, a) = 1)

\* Every edge is a transition of the app, every screen's path leads to it and
\* every crash's path collapses the app: a lane never takes the screen its
\* device was on for the one it is on.
MapIsTrue ==
  /\ \A e \in map.edges : e[2] \in OpsOf(e[1]) /\ setup.goes[e[1]][e[2]] = e[3]
  /\ \A s \in map.nodes : Leads(map.paths[s]) = s
  /\ \A c \in map.crashes : Leads(Front(c.path)) = c.src /\ Leads(c.path) = None

\* "completed" (frontier exhausted - everything reachable in the model was
\* explored): each operation of each screen was tried, and where it led is on
\* the map, unless another screen owns it or no device could perform it.
CompletedIsExplored ==
  main.pc = "done" /\ map.stop = "completed" /\ ~hurt =>
    \A s \in map.nodes : \A a \in OpsOf(s) :
      \/ <<s, a>> \in map.gone \/ \E p \in map.pruned : p.src = s /\ p.op = a
      \/ <<s, a>> \in Tried(map) /\ setup.goes[s][a] \in map.nodes \union {None}

\* "So two workers don't double-discover the same new screen".
DiscoveredOnce ==
  \A w \in Lanes : main.pc = "walk" /\ lane[w].pc = "discover" =>
    /\ lane[w].cur \notin map.nodes
    /\ \A v \in Lanes \ {w} : lane[v].pc = "discover" => lane[v].cur # lane[w].cur

\* The screen budget is overshot by the entry screen and the discoveries in
\* flight alone.
ScreensBounded ==
  map.nodes \subseteq {Entry} \/ Cardinality(map.nodes) < setup.screens + setup.lanes

\* Every operation and every new screen has one lane at a time.
FrontierIsSound == TypeOK /\ FrontierIsExact /\ DiscoveredOnce

\* A crawl stops for the reason it gives.
StopIsTrue == CompletedIsExplored /\ ScreensBounded

\* A crawl ends: no lane waits for a step nobody is taking.
CrawlEnds == main.pc = "walk" ~> main.pc \in {"done", "raised"}

\* "The exploration plan: still-untried operations per screen": what a crawl
\* left untried is in the map it leaves.  A resumed branch replaces the plan
\* of the map it resumed on.
PlanIsWhatIsLeft ==
  main.pc = "done" => \A s \in map.nodes : \A a \in OpsOf(s) : Places(s, a) = 1
=============================================================================
