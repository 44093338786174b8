------------------------ MODULE ScenarioRunnerProofs -------------------------
(***************************************************************************)
(* What ScenarioRunner promises holds for any plan of lanes, spares and    *)
(* needs: devices stay whole, no runner outlives the run, and recovery     *)
(* belongs to the scenario that crashed.                                   *)
(***************************************************************************)
EXTENDS ScenarioRunner, FiniteSetTheorems, SequenceTheorems, TLAPS

----------------------------------------------------------------------------
(* The inductive invariant *)

WorkerPc == {"idle", "lease", "launch", "putback", "run", "release", "caught"}
Faults == {"none", "crash", "device", "timeout", "down"}
LaunchRec == [to : Devices \union {None}, runner : {"none", "alive"}, exc : Faults, back : BOOLEAN]
Worker == [pc : WorkerPc, s : Scenario \union {None}, attempt : Nat, forced : BOOLEAN, bare : BOOLEAN,
           held : Seq(Devices), dev : Devices \union {None}, launch : LaunchRec, exc : Faults,
           crashed : BOOLEAN, lz : Devices \union {None}, armed : BOOLEAN, replaced : BOOLEAN]

\* Types: those of TypeOK, and every field of a worker.
Typed ==
  /\ plan \in Plans /\ PoolTypeOK
  /\ main \in [pc : {"open", "run", "close", "over"}, todo : SUBSET Pools, opened : SUBSET Pools,
               raised : BOOLEAN]
  /\ next \in 1..(Scenarios + 1)
  /\ result \in [Scenario -> Ended \union {"none"}]
  /\ spent \in 0..RunBudget
  /\ givenUp \in {"no", "timeout", "budget"}
  /\ cancelled \in BOOLEAN
  /\ worker \in [Workers -> Worker]
  /\ \A w \in Workers : worker[w].attempt <= plan.retries + 1

\* What a worker holds follows from where it is.
Shaped ==
  \A w \in Workers :
    /\ worker[w].pc \in {"launch", "putback"} <=> worker[w].dev # None
    /\ worker[w].pc # "putback" => worker[w].launch = NoLaunch
    /\ worker[w].pc = "putback" => worker[w].launch.to # None /\ worker[w].exc # "none"
    /\ worker[w].pc \in {"idle", "caught"} => worker[w].held = << >>
    /\ worker[w].pc = "idle" => worker[w] = Idle
    /\ worker[w].pc # "idle" => worker[w].s # None

Distinct(q) == \A i, j \in DOMAIN q : q[i] = q[j] => i = j
Free(p) == ToSet(free[p])
Kept(w) == ToSet(worker[w].held)

\* The devices a worker answers for: leased, being launched, or taken in
\* exchange by the launch that failed.
Has(w) == Held(w) \union ({worker[w].launch.to} \ {None})

\* A device is in one place.
Placed ==
  /\ \A p \in Pools : Distinct(free[p]) /\ \A d \in Free(p) : PoolOf(d) = p
  /\ \A w \in Workers :
       /\ Distinct(worker[w].held) /\ worker[w].dev \notin Kept(w) /\ worker[w].launch.to \notin Kept(w)
       /\ \A t, d \in Devices : worker[w].launch.to = t /\ worker[w].dev = d => PoolOf(t) = PoolOf(d)
  /\ \A w \in Workers, p \in Pools : Has(w) \intersect Free(p) = {}
  /\ \A w, v \in Workers : w # v => Has(w) \intersect Has(v) = {}

\* What was replaced is gone but for the launch that lost it.
Gone ==
  \A d \in Devices : heir[d] # None =>
    /\ heir[d] # d /\ \A p \in Pools : d \notin Free(p)
    /\ \A w \in Workers :
         /\ d \notin Kept(w) /\ worker[w].launch.to # d
         /\ worker[w].dev = d => worker[w].launch.to = heir[d]

\* A spare nobody took is nowhere.
Untouched ==
  \A e \in plan.spares : (\A d \in Devices : heir[d] # e) =>
    /\ e \notin warm /\ env[e].runner # "alive" /\ heir[e] = None
    /\ \A p \in Pools : e \notin Free(p)
    /\ \A w \in Workers : e \notin Has(w)

\* The warm environments are those of the Simulators in the queue or leased,
\* and every leased one is warm.
WarmPlaced ==
  /\ \A d \in warm : PoolOf(d) = "xcuitest" /\ (d \in Free("xcuitest") \/ \E w \in Workers : d \in Held(w))
  /\ \A w \in Workers : \A d \in Kept(w) : PoolOf(d) = "xcuitest" => d \in warm

\* Somebody answers for each runner; a launch that failed tears its own down.
Runners ==
  /\ \A d \in Devices : env[d].runner = "alive" =>
       d \in warm \/ \E w \in Workers : d \in Kept(w) \/ d = worker[w].launch.to
  /\ \A w \in Workers : worker[w].launch.to # None =>
       /\ env[worker[w].launch.to].runner = "alive" =>
            worker[w].launch.back \/ (worker[w].launch.to = worker[w].dev /\ worker[w].dev \in warm)
       /\ worker[w].launch.to # worker[w].dev => env[worker[w].dev].runner # "alive"

\* No lane is lost.
Conserved ==
  \A p \in Pools : IsFiniteSet(Out(p)) /\ Len(free[p]) + Cardinality(Out(p)) = Len(plan.lanes[p])

Wanting == {p \in Pools : Demand(p) > 0}
Answers == IF main.pc \in {"open", "run"} THEN main.opened ELSE main.todo

\* What is warm or listening belongs to a pool that is open, and only while
\* the pools are open does anybody hold a device.
Phased ==
  /\ main.pc # "run" => \A w \in Workers : worker[w].pc = "idle"
  /\ main.pc = "open" => warm = {} /\ main.todo \union main.opened = Wanting
  /\ main.pc = "run" => main.opened = Wanting
  /\ main.pc = "over" => main.todo = {}
  /\ \A c \in collectors : PoolOf(c) = "xcuitest"
  /\ warm \union collectors # {} => "xcuitest" \in Answers

\* One worker per scenario, and a result once.
Numbered ==
  /\ \A s \in Scenario : s >= next => result[s] = "none"
  /\ \A w \in Workers : worker[w].pc # "idle" =>
       /\ worker[w].s \in Scenario /\ worker[w].s < next /\ result[worker[w].s] = "none"
       /\ \A v \in Workers : worker[v].s = worker[w].s => v = w

\* A scenario asks only for what it needs, and erases only after its crash.
Needed ==
  \A w \in Workers : worker[w].pc # "idle" =>
    /\ \A d \in Held(w) : plan.need[worker[w].s][PoolOf(d)] > 0
    /\ worker[w].lz # None => plan.need[worker[w].s]["xcuitest"] > 0
    /\ worker[w].forced => worker[w].crashed /\ plan.need[worker[w].s]["playwright"] = 0

\* The replacement asked of a device waits in the queue, or is being served,
\* for the scenario that asked: it still has to lease its Simulator.
Waits(d) ==
  /\ worker[1].s = env[d].asked /\ plan.need[env[d].asked]["xcuitest"] > 0
  /\ worker[1].pc \in {"lease", "launch", "putback", "release", "caught"}
  /\ worker[1].pc \in {"putback", "release", "caught"} => worker[1].exc = "device" /\ ~worker[1].forced
  /\ \A e \in Kept(1) : PoolOf(e) = "playwright"
  /\ d \in Free("xcuitest") \/ (worker[1].pc = "launch" /\ worker[1].dev = d)
  /\ \A e \in Devices : worker[1].pc = "launch" /\ worker[1].dev = e /\ PoolOf(e) = "playwright" =>
       Len(worker[1].held) < plan.need[env[d].asked]["playwright"]

\* Nobody else runs then, and nobody starts once a scenario raised.
Pending ==
  /\ Serial /\ Raised => worker[1].pc = "idle"
  /\ \A d \in Devices : env[d].asked # None =>
       /\ Serial /\ PoolOf(d) = "xcuitest" /\ Len(plan.lanes["xcuitest"]) = 1
       /\ Raised \/ Waits(d)

Inv == /\ Typed /\ Shaped /\ Placed /\ Gone /\ Untouched /\ WarmPlaced /\ Runners /\ Conserved /\ Phased
       /\ Numbered /\ Needed /\ Pending /\ LatchIsEarned

----------------------------------------------------------------------------
(* Sequences as sets *)

\* What appending does to a queue.
LEMMA AppendFacts ==
  ASSUME NEW S, NEW q \in Seq(S), NEW e \in S
  PROVE  /\ Append(q, e) \in Seq(S) /\ Len(Append(q, e)) = Len(q) + 1
         /\ ToSet(Append(q, e)) = ToSet(q) \union {e}
         /\ Distinct(q) /\ e \notin ToSet(q) => Distinct(Append(q, e))
<1>1. Append(q, e) \in Seq(S) /\ Len(Append(q, e)) = Len(q) + 1 /\ Len(q) \in Nat
  OBVIOUS
<1>2. /\ DOMAIN q = 1..Len(q) /\ DOMAIN Append(q, e) = 1..(Len(q) + 1)
      /\ \A i \in 1..Len(q) : Append(q, e)[i] = q[i]
      /\ Append(q, e)[Len(q) + 1] = e
  OBVIOUS
<1>3. ToSet(Append(q, e)) = ToSet(q) \union {e}
  BY <1>1, <1>2 DEF ToSet
<1>4. ASSUME Distinct(q), e \notin ToSet(q) PROVE Distinct(Append(q, e))
  <2>1. ASSUME NEW i \in 1..(Len(q) + 1), NEW j \in 1..(Len(q) + 1), Append(q, e)[i] = Append(q, e)[j]
        PROVE  i = j
    <3>1. \A k \in 1..Len(q) : q[k] # e
      BY <1>2, <1>4 DEF ToSet
    <3>2. CASE i \in 1..Len(q) /\ j \in 1..Len(q)
      BY <1>2, <1>4, <2>1, <3>2 DEF Distinct
    <3>3. CASE i = Len(q) + 1 \/ j = Len(q) + 1
      BY <1>1, <1>2, <2>1, <3>1, <3>3
    <3> QED
      BY <1>1, <3>2, <3>3
  <2> QED
    BY <1>2, <2>1 DEF Distinct
<1> QED
  BY <1>1, <1>3, <1>4

\* What taking its head does to a queue.
LEMMA TailFacts ==
  ASSUME NEW S, NEW q \in Seq(S), q # << >>
  PROVE  /\ Head(q) \in S /\ Head(q) \in ToSet(q)
         /\ Tail(q) \in Seq(S) /\ Len(q) \in Nat \ {0} /\ Len(Tail(q)) = Len(q) - 1
         /\ Distinct(q) => Distinct(Tail(q)) /\ ToSet(Tail(q)) = ToSet(q) \ {Head(q)}
<1>1. /\ Head(q) = q[1] /\ Tail(q) \in Seq(S) /\ Len(q) \in Nat \ {0} /\ Len(Tail(q)) = Len(q) - 1
      /\ DOMAIN q = 1..Len(q) /\ DOMAIN Tail(q) = 1..(Len(q) - 1) /\ 1 \in 1..Len(q)
      /\ \A i \in 1..(Len(q) - 1) : i + 1 \in 1..Len(q) /\ Tail(q)[i] = q[i + 1]
  OBVIOUS
<1>2. ASSUME Distinct(q) PROVE Distinct(Tail(q)) /\ ToSet(Tail(q)) = ToSet(q) \ {Head(q)}
  <2>1. Distinct(Tail(q))
    BY <1>1, <1>2 DEF Distinct
  <2>2. ASSUME NEW i \in 1..(Len(q) - 1) PROVE Tail(q)[i] \in ToSet(q) \ {Head(q)}
    BY <1>1, <1>2 DEF Distinct, ToSet
  <2>3. ASSUME NEW k \in 1..Len(q), q[k] # Head(q) PROVE q[k] \in ToSet(Tail(q))
    <3>1. k - 1 \in 1..(Len(q) - 1) /\ (k - 1) + 1 = k
      BY <1>1, <2>3
    <3> QED
      BY <1>1, <3>1 DEF ToSet
  <2>4. ToSet(Tail(q)) \subseteq ToSet(q) \ {Head(q)}
    BY <1>1, <2>2 DEF ToSet
  <2>5. ToSet(q) \ {Head(q)} \subseteq ToSet(Tail(q))
    BY <1>1, <2>3 DEF ToSet
  <2> QED
    BY <2>1, <2>4, <2>5
<1>3. Head(q) \in S
  BY <1>1
<1>4. Head(q) \in ToSet(q)
  BY <1>1 DEF ToSet
<1> QED
  BY <1>1, <1>2, <1>3, <1>4

\* What removing an element does to a list.
LEMMA RemoveFacts ==
  ASSUME NEW S, NEW q \in Seq(S), NEW i \in 1..Len(q)
  PROVE  /\ q[i] \in S /\ q[i] \in ToSet(q)
         /\ RemoveAt(q, i) \in Seq(S) /\ Len(RemoveAt(q, i)) = Len(q) - 1
         /\ Distinct(q) => Distinct(RemoveAt(q, i)) /\ ToSet(RemoveAt(q, i)) = ToSet(q) \ {q[i]}
<1> DEFINE a == SubSeq(q, 1, i - 1)
           b == SubSeq(q, i + 1, Len(q))
           c == RemoveAt(q, i)
           n == Len(q)
<1>1. /\ a \in Seq(S) /\ Len(a) = i - 1 /\ \A k \in 1..(i - 1) : a[k] = q[k]
      /\ b \in Seq(S) /\ Len(b) = n - i /\ \A k \in 1..(n - i) : b[k] = q[i + k]
  OBVIOUS
<1>2. n \in Nat /\ DOMAIN q = 1..n /\ i \in Nat /\ i <= n /\ i > 0
  OBVIOUS
<1>3. c = a \o b
  BY DEF RemoveAt
<1> HIDE DEF a, b, c, n
<1>4. c \in Seq(S) /\ Len(c) = n - 1 /\ DOMAIN c = 1..(n - 1)
  <2>1. Len(a \o b) = Len(a) + Len(b) /\ a \o b \in Seq(S)
    BY <1>1, ConcatProperties
  <2>2. Len(c) = n - 1
    BY <1>1, <1>2, <1>3, <2>1
  <2> QED
    BY <1>3, <2>1, <2>2
<1>5. \A k \in 1..(n - 1) : k < i => c[k] = q[k]
  <2>1. ASSUME NEW k \in 1..(n - 1), k < i PROVE c[k] = q[k]
    <3>1. k \in 1..(i - 1)
      BY <1>2, <2>1
    <3>2. k \in 1..Len(a)
      BY <1>1, <3>1
    <3>3. (a \o b)[k] = a[k]
      BY <1>1, <1>2, <3>2
    <3> QED
      BY <1>1, <1>3, <3>1, <3>3
  <2> QED
    BY <2>1
<1>6. \A k \in 1..(n - 1) : ~(k < i) => c[k] = q[k + 1]
  <2>1. ASSUME NEW k \in 1..(n - 1), ~(k < i) PROVE c[k] = q[k + 1]
    <3>1. k - Len(a) \in 1..(n - i) /\ i + (k - Len(a)) = k + 1 /\ k > Len(a) /\ k \in Nat
      BY <1>1, <1>2, <2>1
    <3>2. k \in 1..(Len(a) + Len(b)) /\ Len(a) \in Nat /\ Len(b) \in Nat
      BY <1>1, <1>2, <2>1
    <3>3. (a \o b)[k] = b[k - Len(a)]
      BY <1>1, <3>1, <3>2
    <3> QED
      BY <1>1, <1>3, <3>1, <3>3
  <2> QED
    BY <2>1
<1>7. ASSUME Distinct(q) PROVE Distinct(c) /\ ToSet(c) = ToSet(q) \ {q[i]}
  <2>1. \A j, k \in 1..n : q[j] = q[k] => j = k
    BY <1>2, <1>7 DEF Distinct
  <2>2. \A k \in 1..(n - 1) : k \in 1..n /\ k + 1 \in 1..n /\ k \in Nat
    BY <1>2
  <2>3. Distinct(c)
    <3>1. ASSUME NEW j \in 1..(n - 1), NEW k \in 1..(n - 1), c[j] = c[k] PROVE j = k
      <4>1. CASE j < i /\ k < i
        BY <1>5, <2>1, <2>2, <3>1, <4>1
      <4>2. CASE ~(j < i) /\ ~(k < i)
        <5>1. j + 1 = k + 1
          BY <1>6, <2>1, <2>2, <3>1, <4>2
        <5> QED
          BY <2>2, <5>1
      <4>3. CASE j < i /\ ~(k < i)
        <5>1. j = k + 1
          BY <1>5, <1>6, <2>1, <2>2, <3>1, <4>3
        <5> QED
          BY <1>2, <2>2, <4>3, <5>1
      <4>4. CASE ~(j < i) /\ k < i
        <5>1. k = j + 1
          BY <1>5, <1>6, <2>1, <2>2, <3>1, <4>4
        <5> QED
          BY <1>2, <2>2, <4>4, <5>1
      <4> QED
        BY <4>1, <4>2, <4>3, <4>4
    <3> QED
      BY <1>4, <3>1 DEF Distinct
  <2>4. ASSUME NEW k \in 1..(n - 1) PROVE \E m \in 1..n : m # i /\ c[k] = q[m]
    <3>1. CASE k < i
      BY <1>2, <1>5, <2>2, <3>1
    <3>2. CASE ~(k < i)
      <4>1. k + 1 \in 1..n /\ k + 1 # i /\ c[k] = q[k + 1]
        BY <1>2, <1>6, <2>2, <3>2
      <4> QED
        BY <4>1
    <3> QED
      BY <3>1, <3>2
  <2>5. ASSUME NEW k \in 1..n, k # i PROVE \E m \in 1..(n - 1) : q[k] = c[m]
    <3>1. CASE k < i
      <4>1. k \in 1..(n - 1) /\ c[k] = q[k]
        BY <1>2, <1>5, <3>1
      <4> QED
        BY <4>1
    <3>2. CASE k > i
      <4>1. k - 1 \in 1..(n - 1) /\ ~(k - 1 < i) /\ (k - 1) + 1 = k
        BY <1>2, <3>2
      <4>2. c[k - 1] = q[(k - 1) + 1]
        BY <1>6, <4>1
      <4> QED
        BY <4>1, <4>2
    <3> QED
      BY <1>2, <2>5, <3>1, <3>2
  <2>6. ToSet(c) \subseteq ToSet(q) \ {q[i]}
    BY <1>2, <1>4, <2>1, <2>4 DEF ToSet
  <2>7. ToSet(q) \ {q[i]} \subseteq ToSet(c)
    BY <1>2, <1>4, <2>5 DEF ToSet
  <2> QED
    BY <2>3, <2>6, <2>7
<1>8. q[i] \in S /\ q[i] \in ToSet(q)
  BY <1>2 DEF ToSet
<1> QED
  BY <1>4, <1>7, <1>8 DEF c, n

----------------------------------------------------------------------------
(* Plans *)

\* A set of numbers has a least one.
LEMMA LeastExists ==
  ASSUME NEW S \in SUBSET Nat, S # {}
  PROVE  \E d \in S : \A e \in S : d <= e
<1> DEFINE T == {0..d : d \in S}
<1>1. T \subseteq FiniteSubsetsOf(Nat) /\ T # {}
  <2>1. ASSUME NEW d \in S PROVE 0..d \in FiniteSubsetsOf(Nat)
    BY FS_Interval, d \in Int, 0 \in Int DEF FiniteSubsetsOf
  <2> QED
    BY <2>1
<1>2. PICK D \in T : \A E \in T : <<E, D>> \notin StrictSubsetOrdering(Nat)
  BY <1>1, FS_StrictSubsetOrderingWellFounded, WFMin
<1>3. PICK d \in S : D = 0..d
  OBVIOUS
<1>4. ASSUME NEW e \in S, e < d PROVE FALSE
  <2>1. 0..e \in T /\ 0..e \in SUBSET Nat /\ 0..d \in SUBSET Nat /\ 0..e \subseteq 0..d
    BY <1>4
  <2>2. d \in 0..d /\ d \notin 0..e
    BY <1>4
  <2> QED
    BY <1>2, <1>3, <2>1, <2>2 DEF StrictSubsetOrdering
<1> QED
  BY <1>4

\* Among some scenarios one has the greatest of any number.
LEMMA GreatestOfSome ==
  ASSUME NEW f \in [Scenario -> Nat]
  PROVE  \E s \in Scenario : \A r \in Scenario : f[r] <= f[s]
<1> DEFINE Top(D) == \E s \in D : \A r \in D : f[r] <= f[s]
           T == {D \in SUBSET Scenario : D # {} /\ ~Top(D)}
<1>1. Scenario \in SUBSET Nat /\ 1 \in Scenario
  BY RunnerAssumption DEF Scenario
<1>2. \A D \in SUBSET Scenario : D \in FiniteSubsetsOf(Scenario)
  <2>1. Scenarios \in Int /\ 1 \in Int
    BY RunnerAssumption
  <2>2. IsFiniteSet(Scenario)
    BY <2>1, FS_Interval DEF Scenario
  <2> QED
    BY <2>2, FS_Subset DEF FiniteSubsetsOf
<1>3. ASSUME T # {} PROVE FALSE
  <2>1. T \subseteq FiniteSubsetsOf(Scenario)
    BY <1>2
  <2>2. PICK D \in T : \A E \in T : <<E, D>> \notin StrictSubsetOrdering(Scenario)
    BY <1>3, <2>1, FS_StrictSubsetOrderingWellFounded, WFMin
  <2>3. PICK x \in D : TRUE
    OBVIOUS
  <2>4. D \ {x} \notin T
    <3>1. <<D \ {x}, D>> \in StrictSubsetOrdering(Scenario)
      BY <2>3 DEF StrictSubsetOrdering
    <3> QED
      BY <2>2, <3>1
  <2>5. \A r \in D : f[r] \in Nat
    OBVIOUS
  <2>6. CASE D \ {x} = {}
    <3>1. \A r \in D : r = x
      BY <2>6
    <3>2. Top(D)
      BY <2>3, <2>5, <3>1
    <3> QED
      BY <2>2, <3>2
  <2>7. CASE D \ {x} # {}
    <3>1. PICK m \in D \ {x} : \A r \in D \ {x} : f[r] <= f[m]
      BY <2>4, <2>7
    <3>2. Top(D)
      <4>1. CASE f[x] <= f[m]
        BY <3>1, <4>1
      <4>2. CASE f[m] <= f[x]
        <5>1. \A r \in D : f[r] <= f[x]
          BY <2>3, <2>5, <3>1, <4>2
        <5> QED
          BY <2>3, <5>1
      <4> QED
        BY <2>3, <2>5, <3>1, <4>1, <4>2
    <3> QED
      BY <2>2, <3>2
  <2> QED
    BY <2>6, <2>7
<1>4. Top(Scenario)
  BY <1>1, <1>3
<1> QED
  BY <1>4

\* A pool's demand covers what every scenario needs from it.
LEMMA DemandCovers ==
  ASSUME plan \in Plans, NEW p \in Pools
  PROVE  Demand(p) \in Nat /\ \A s \in Scenario : plan.need[s][p] \in Nat /\ plan.need[s][p] <= Demand(p)
<1> DEFINE f == [s \in Scenario |-> plan.need[s][p]]
<1>1. f \in [Scenario -> Nat] /\ \A s \in Scenario : f[s] = plan.need[s][p] /\ f[s] \in Nat
  BY RunnerAssumption
<1> HIDE DEF f
<1>2. PICK m \in Scenario : \A r \in Scenario : f[r] <= f[m]
  BY <1>1, GreatestOfSome
<1> DEFINE B == {plan.need[s][p] : s \in Scenario}
<1>3. f[m] \in B /\ \A s \in Scenario : plan.need[s][p] <= f[m]
  BY <1>1, <1>2
<1>4. Demand(p) \in B /\ \A s \in Scenario : plan.need[s][p] <= Demand(p)
  BY <1>3 DEF Demand
<1> QED
  BY <1>1, <1>4

\* A scenario that may replace the booted Simulator is run by one worker.
LEMMA BootedIsSerial ==
  ASSUME plan \in Plans, plan.booted, NEW s \in Scenario, plan.need[s]["xcuitest"] > 0
  PROVE  Serial /\ Len(plan.lanes["xcuitest"]) = 1
<1>1. "xcuitest" \in Pools
  BY DEF Pools
<1>2. Len(plan.lanes["xcuitest"]) = 1
  BY PoolAssumption
<1>3. Demand("xcuitest") \in Nat /\ Demand("xcuitest") > 0
  BY <1>1, DemandCovers
<1> DEFINE caps == {plan.workers} \union {Len(plan.lanes[p]) \div Demand(p) : p \in {q \in Pools : Demand(q) > 0}}
<1>4. caps \subseteq Nat /\ caps # {}
  <2>1. plan.workers \in Nat
    BY RunnerAssumption
  <2>2. ASSUME NEW p \in Pools, Demand(p) > 0 PROVE Len(plan.lanes[p]) \div Demand(p) \in Nat
    <3>1. Len(plan.lanes[p]) \in Nat
      BY PoolAssumption
    <3>2. Demand(p) \in Nat \ {0}
      BY <2>2, DemandCovers
    <3> QED
      BY <3>1, <3>2
  <2> QED
    BY <2>1, <2>2
<1>5. Len(plan.lanes["xcuitest"]) \div Demand("xcuitest") \in caps
  BY <1>1, <1>3
<1>6. Len(plan.lanes["xcuitest"]) \div Demand("xcuitest") <= 1
  BY <1>2, <1>3
<1> DEFINE least == CHOOSE k \in caps : \A c \in caps : k <= c
<1> HIDE DEF caps
<1>7. least \in caps /\ \A c \in caps : least <= c
  <2>1. \E k \in caps : \A c \in caps : k <= c
    BY <1>4, LeastExists
  <2> QED
    BY <2>1
<1>8. least \in Nat /\ least <= 1
  <2> HIDE DEF least
  <2>1. least \in Nat /\ least <= Len(plan.lanes["xcuitest"]) \div Demand("xcuitest")
    BY <1>4, <1>5, <1>7
  <2>2. Len(plan.lanes["xcuitest"]) \div Demand("xcuitest") \in Nat
    BY <1>4, <1>5
  <2> QED
    BY <1>6, <2>1, <2>2
<1>9. WorkerCap(plan.workers) = IF least < 1 THEN 1 ELSE least
  BY DEF WorkerCap, caps
<1> HIDE DEF least
<1>10. WorkerCap(plan.workers) = 1
  BY <1>8, <1>9
<1>11. 1..1 = {1}
  OBVIOUS
<1> QED
  BY <1>2, <1>10, <1>11 DEF Serial, Workers

\* The plan never changes, nor what is read off it.
LEMMA PlanStays ==
  ASSUME UNCHANGED plan
  PROVE  /\ Workers' = Workers /\ (Serial' <=> Serial) /\ Wanting' = Wanting
         /\ \A d \in Devices \union {None} : PoolOf(d)' = PoolOf(d)
         /\ \A p \in Pools : Lanes(p)' = Lanes(p) /\ Demand(p)' = Demand(p)
BY DEF Workers, Serial, WorkerCap, Wanting, Demand, PoolOf, Lanes, ToSet

\* A device's pool.
LEMMA PoolFacts ==
  ASSUME plan \in Plans
  PROVE  /\ \A d : PoolOf(d) \in Pools
         /\ \A d : PoolOf(d) # "playwright" => PoolOf(d) = "xcuitest"
         /\ \A p \in Pools : plan.lanes[p] \in Seq(Devices) /\ \A d \in ToSet(plan.lanes[p]) : d \in Devices /\ PoolOf(d) = p
         /\ \A p \in Pools : Distinct(plan.lanes[p])
         /\ \A e \in plan.spares : e \in Devices /\ PoolOf(e) = "xcuitest" /\ \A p \in Pools : e \notin ToSet(plan.lanes[p])
<1>1. Pools = {"xcuitest", "playwright"}
  BY DEF Pools
<1>2. \A p \in Pools : plan.lanes[p] \in Seq(Devices) /\ \A d \in ToSet(plan.lanes[p]) : d \in Devices
  <2>1. ASSUME NEW p \in Pools PROVE plan.lanes[p] \in Seq(Devices) /\ \A d \in ToSet(plan.lanes[p]) : d \in Devices
    <3>1. plan.lanes[p] \in Seq(Devices)
      BY PoolAssumption
    <3> QED
      BY <3>1 DEF ToSet
  <2> QED
    BY <2>1
<1>3. \A p \in Pools : \A d \in ToSet(plan.lanes[p]) : PoolOf(d) = p
  <2>1. ASSUME NEW p \in Pools, NEW i \in DOMAIN plan.lanes[p], p # "playwright"
        PROVE  \A j \in DOMAIN plan.lanes["playwright"] : plan.lanes["playwright"][j] # plan.lanes[p][i]
    BY <1>1, <2>1, PoolAssumption
  <2> QED
    BY <1>1, <2>1 DEF PoolOf, Lanes, ToSet
<1>4. \A p \in Pools : Distinct(plan.lanes[p])
  BY PoolAssumption DEF Distinct
<1>5. \A e \in plan.spares : e \in Devices /\ \A p \in Pools : e \notin ToSet(plan.lanes[p])
  BY PoolAssumption DEF ToSet
<1>6. \A e \in plan.spares : PoolOf(e) = "xcuitest"
  BY <1>1, <1>5 DEF PoolOf, Lanes
<1> QED
  BY <1>1, <1>2, <1>3, <1>4, <1>5, <1>6 DEF PoolOf

\* What comes up, and what a cold spawn leaves.
LEMMA UpFacts ==
  ASSUME NEW e \in Devices, NEW m \in Up(e)
  PROVE  m \in LaunchRec /\ m.to = e /\ m.back /\ m.exc \in {"none", "device"}
<1>1. CASE m = Launched(e, "alive", "none", TRUE)
  BY <1>1 DEF Launched, LaunchRec, Faults
<1>2. CASE m = Launched(e, "alive", "device", TRUE)
  BY <1>2 DEF Launched, LaunchRec, Faults
<1> QED
  BY <1>1, <1>2 DEF Up

\* What a cold spawn may leave.
LEMMA ColdFacts ==
  ASSUME NEW e \in Devices, NEW m \in ColdSpawn(e)
  PROVE  m \in LaunchRec /\ m.to = e /\ (m.runner = "alive" => m.back)
<1>1. CASE m \in Up(e)
  BY <1>1, UpFacts
<1>2. CASE \E x \in {"crash", "device", "timeout", "down"} : m = Launched(e, "none", x, FALSE)
  BY <1>2 DEF Launched, LaunchRec, Faults
<1> QED
  BY <1>1, <1>2 DEF ColdSpawn

\* What a launch may leave: a live runner is one that came up or was up.
LEMMA StartFacts ==
  ASSUME plan \in Plans, NEW d \in Devices, NEW erase, NEW l \in Start(PoolOf(d), d, erase)
  PROVE  /\ l \in LaunchRec /\ l.to \in Devices
         /\ \/ l.to = d
            \/ PoolOf(d) = "xcuitest" /\ l.to \in plan.spares /\ \A e \in Devices : heir[e] # l.to
         /\ l.runner = "alive" => l.back \/ (l.to = d /\ env[d].runner = "alive")
         /\ PoolOf(d) = "playwright" => l.to = d /\ l.exc \in {"none", "device"}
<1>1. \A e \in Spare : e \in plan.spares /\ e \in Devices /\ \A f \in Devices : heir[f] # e
  BY PoolFacts DEF Spare
<1>3. CASE PoolOf(d) = "xcuitest"
  <2>1. l \in StartSimulator(d, erase)
    BY <1>3 DEF Start
  <2>2. CASE \E e \in Spare : l \in ColdSpawn(e)
    <3>1. PICK e \in Spare : l \in ColdSpawn(e)
      BY <2>2
    <3> QED
      BY <1>1, <1>3, <3>1, ColdFacts
  <2>3. CASE l \in ColdSpawn(d)
    BY <1>3, <2>3, ColdFacts
  <2>4. CASE l = Launched(d, "none", "device", FALSE)
    BY <1>3, <2>4 DEF Launched, LaunchRec, Faults
  <2>7. CASE l = Launched(d, "none", "crash", FALSE)
    BY <1>3, <2>7 DEF Launched, LaunchRec, Faults
  <2>5. CASE env[d].runner = "alive" /\ l = Launched(d, "alive", "device", FALSE)
    BY <1>3, <2>5 DEF Launched, LaunchRec, Faults
  <2>6. \/ \E e \in Spare : l \in ColdSpawn(e)
        \/ l \in ColdSpawn(d)
        \/ l = Launched(d, "none", "device", FALSE) \/ l = Launched(d, "none", "crash", FALSE)
        \/ env[d].runner = "alive" /\ l = Launched(d, "alive", "device", FALSE)
    BY <2>1 DEF StartSimulator
  <2> QED
    BY <2>2, <2>3, <2>4, <2>5, <2>6, <2>7
<1>4. CASE PoolOf(d) = "playwright"
  <2>1. l \in Up(d) \/ l = Launched(d, "none", "device", FALSE)
    BY <1>4 DEF Start, StartBrowser
  <2>2. CASE l \in Up(d)
    BY <1>4, <2>2, UpFacts
  <2>3. CASE l = Launched(d, "none", "device", FALSE)
    BY <1>4, <2>3 DEF Launched, LaunchRec, Faults
  <2> QED
    BY <2>1, <2>2, <2>3
<1> QED
  BY <1>3, <1>4, PoolFacts

----------------------------------------------------------------------------
(* What a step does to the worker that takes it *)

\* One worker's record changes.
Alone(w) == worker' \in [Workers -> Worker] /\ \A v \in Workers \ {w} : worker'[v] = worker[v]

\* A worker holds what it held.
Still(w) ==
  /\ worker'[w].held = worker[w].held /\ worker'[w].dev = worker[w].dev
  /\ worker'[w].launch = worker[w].launch

\* It keeps its scenario and what it knows of it.
Knows(w) ==
  /\ worker'[w].s = worker[w].s /\ worker'[w].lz = worker[w].lz /\ worker'[w].attempt = worker[w].attempt
  /\ worker'[w].forced = worker[w].forced /\ worker'[w].crashed = worker[w].crashed

\* What a write to one worker's record changes.
LEMMA Writes ==
  ASSUME worker \in [Workers -> Worker], NEW w \in Workers, NEW r \in Worker,
         worker' = [worker EXCEPT ![w] = r]
  PROVE  Alone(w) /\ worker'[w] = r
BY DEF Alone

\* The fields of a worker that waits.
LEMMA IdleFacts ==
  /\ Idle \in Worker /\ Idle.pc = "idle" /\ Idle.s = None /\ Idle.held = << >> /\ Idle.dev = None
  /\ Idle.launch = NoLaunch /\ Idle.lz = None /\ ~Idle.forced /\ Idle.attempt = 0
  /\ NoLaunch \in LaunchRec /\ NoLaunch.to = None
<1>1. NoLaunch \in LaunchRec /\ NoLaunch.to = None
  BY DEF NoLaunch, Launched, LaunchRec, Faults
<1> QED
  BY <1>1 DEF Idle, Worker, WorkerPc, Faults

\* A worker takes the next scenario, or records at once how it ended.
LEMMA TakeEffect ==
  ASSUME Typed, Shaped, NEW w \in Workers, Take(w)
  PROVE  /\ main.pc = "run" /\ next \in Scenario /\ next' = next + 1 /\ next' \in 1..(Scenarios + 1)
         /\ worker[w].pc = "idle" /\ (Serial => ~Raised)
         /\ Early(next) \in {"refused", "cancelled", "skipped", "none"}
         /\ result' = [result EXCEPT ![next] = Early(next)]
         /\ UNCHANGED <<poolVars, main, spent, givenUp, cancelled>>
         /\ \/ Early(next) # "none" /\ worker' = worker
            \/ /\ Early(next) = "none" /\ Alone(w) /\ Still(w)
               /\ worker'[w].pc = "lease" /\ worker'[w].s = next /\ worker'[w].attempt = 1
               /\ worker'[w].lz = None /\ ~worker'[w].forced
<1>1. next \in Scenario /\ next + 1 \in 1..(Scenarios + 1)
  BY RunnerAssumption DEF Take, Typed, Scenario
<1>2. Early(next) \in {"refused", "cancelled", "skipped", "none"}
  BY DEF Early
<1>3. CASE Early(next) = "none"
  <2> DEFINE r == [worker[w] EXCEPT !.pc = "lease", !.s = next, !.attempt = 1]
  <2>1. worker' = [worker EXCEPT ![w] = r]
    BY <1>3 DEF Take
  <2>2. worker[w] \in Worker /\ worker[w] = Idle
    BY DEF Typed, Shaped, Take
  <2>3. r \in Worker
    BY <1>1, <2>2 DEF Worker, WorkerPc
  <2>4. /\ r.pc = "lease" /\ r.s = next /\ r.attempt = 1 /\ r.held = worker[w].held /\ r.dev = worker[w].dev
        /\ r.launch = worker[w].launch /\ r.lz = worker[w].lz /\ r.forced = worker[w].forced
    BY <2>2 DEF Worker
  <2>5. worker[w].lz = None /\ ~worker[w].forced
    BY <2>2, IdleFacts
  <2> HIDE DEF r
  <2>6. Alone(w) /\ worker'[w] = r
    BY <2>1, <2>3, Writes DEF Typed
  <2> QED
    BY <1>1, <1>2, <1>3, <2>4, <2>5, <2>6 DEF Take, Still
<1> QED
  BY <1>1, <1>2, <1>3 DEF Take

\* A device out of the queue, to be launched.
LEMMA LeaseEffect ==
  ASSUME Typed, NEW w \in Workers, Lease(w)
  PROVE  \E p \in Pools, d \in Devices :
           /\ worker[w].pc = "lease" /\ Wanted(w, p) /\ GetDevice(p, d)
           /\ Alone(w) /\ worker'[w].pc = "launch" /\ worker'[w].dev = d
           /\ worker'[w].held = worker[w].held /\ worker'[w].launch = worker[w].launch /\ Knows(w)
           /\ UNCHANGED <<main, next, result, spent, givenUp, cancelled>>
<1>1. PICK p \in Pools, d \in Devices :
        /\ worker[w].pc = "lease" /\ Wanted(w, p) /\ GetDevice(p, d)
        /\ worker' = [worker EXCEPT ![w] = [@ EXCEPT !.pc = "launch", !.dev = d]]
  BY DEF Lease
<1> DEFINE r == [worker[w] EXCEPT !.pc = "launch", !.dev = d]
<1>2. worker[w] \in Worker
  BY DEF Typed
<1>3. r \in Worker
  BY <1>2 DEF Worker, WorkerPc
<1>4. /\ r.pc = "launch" /\ r.dev = d /\ r.held = worker[w].held /\ r.launch = worker[w].launch
      /\ r.s = worker[w].s /\ r.lz = worker[w].lz /\ r.attempt = worker[w].attempt
      /\ r.forced = worker[w].forced /\ r.crashed = worker[w].crashed
  BY <1>2 DEF Worker
<1>5. worker' = [worker EXCEPT ![w] = r]
  BY <1>1
<1> HIDE DEF r
<1>6. Alone(w) /\ worker'[w] = r
  BY <1>3, <1>5, Writes DEF Typed
<1> QED
  BY <1>1, <1>4, <1>6 DEF Lease, Knows

\* A launch that made it, or that raised.
LEMMA LaunchEffect ==
  ASSUME Typed, Shaped, NEW w \in Workers, Launch(w)
  PROVE  \E d \in Devices : \E l \in Start(PoolOf(d), d, Erases(w)) :
           /\ worker[w].pc = "launch" /\ worker[w].dev = d /\ worker[w].launch = NoLaunch
           /\ l \in LaunchRec /\ l.to \in Devices
           /\ Alone(w) /\ Knows(w)
           /\ UNCHANGED <<main, next, result, givenUp, cancelled>>
           /\ \/ /\ LeaseReady(PoolOf(d), d, l)
                 /\ worker'[w].held = Append(worker[w].held, l.to) /\ worker'[w].dev = None
                 /\ worker'[w].launch = worker[w].launch
                 /\ worker'[w].pc = IF Len(worker[w].held) + 1 = plan.need[worker[w].s]["playwright"] + plan.need[worker[w].s]["xcuitest"]
                                    THEN "run" ELSE "lease"
                 /\ spent' \in 0..RunBudget
              \/ /\ LaunchRaised(d, l)
                 /\ worker'[w].held = worker[w].held /\ worker'[w].dev = worker[w].dev
                 /\ worker'[w].launch = l
                 /\ worker'[w].pc = "putback" /\ worker'[w].exc = l.exc /\ l.exc # "none"
                 /\ UNCHANGED spent
<1> DEFINE d == worker[w].dev
<1>1. worker[w].pc = "launch" /\ worker[w] \in Worker /\ d \in Devices /\ worker[w].launch = NoLaunch
  BY DEF Typed, Shaped, Worker, Launch
<1>2. PICK l \in Start(PoolOf(d), d, Erases(w)) :
        \/ /\ LeaseReady(PoolOf(d), d, l)
           /\ worker' = [worker EXCEPT ![w] = Leased(w, l.to)]
           /\ BillIf(LastOne(w) /\ worker[w].armed)
        \/ /\ LaunchRaised(d, l)
           /\ worker' = [worker EXCEPT ![w] = [@ EXCEPT !.pc = "putback", !.launch = l, !.exc = l.exc]]
           /\ UNCHANGED spent
  BY DEF Launch
<1>3. l \in LaunchRec /\ l.to \in Devices
  BY <1>1, StartFacts DEF Typed
<1>4. UNCHANGED <<main, next, result, givenUp, cancelled>>
  BY DEF Launch
<1>5. CASE LeaseReady(PoolOf(d), d, l)
  <2> DEFINE pc == IF LastOne(w) THEN "run" ELSE "lease"
             held == Append(worker[w].held, l.to)
             armed == worker[w].armed /\ ~LastOne(w)
             r == [worker[w] EXCEPT !.pc = pc, !.held = held, !.dev = None, !.armed = armed]
  <2>1. worker' = [worker EXCEPT ![w] = Leased(w, l.to)] /\ BillIf(LastOne(w) /\ worker[w].armed)
    <3>1. ~LaunchRaised(d, l)
      BY <1>5 DEF LeaseReady, LaunchRaised
    <3> QED
      BY <1>2, <3>1
  <2>2. held \in Seq(Devices)
    BY <1>1, <1>3, AppendFacts DEF Worker
  <2>3. pc \in WorkerPc /\ armed \in BOOLEAN /\ None \in Devices \union {None}
    BY DEF WorkerPc
  <2>4. spent' \in 0..RunBudget
    BY <2>1, RunnerAssumption DEF BillIf, Bill, Typed
  <2>5. pc = IF Len(worker[w].held) + 1 = plan.need[worker[w].s]["playwright"] + plan.need[worker[w].s]["xcuitest"]
             THEN "run" ELSE "lease"
    BY DEF LastOne
  <2>10. Leased(w, l.to) = r
    BY DEF Leased
  <2> HIDE DEF pc, held, armed
  <2>6. r \in Worker
    BY <1>1, <2>2, <2>3 DEF Worker
  <2>7. /\ r.pc = pc /\ r.held = held /\ r.dev = None /\ r.launch = worker[w].launch
        /\ r.s = worker[w].s /\ r.lz = worker[w].lz /\ r.attempt = worker[w].attempt
        /\ r.forced = worker[w].forced /\ r.crashed = worker[w].crashed
    BY <1>1 DEF Worker
  <2> HIDE DEF r
  <2>8. Alone(w) /\ worker'[w] = r
    BY <2>1, <2>6, <2>10, Writes DEF Typed
  <2>9. Alone(w) /\ Knows(w) /\ worker'[w].held = Append(worker[w].held, l.to) /\ worker'[w].dev = None
        /\ worker'[w].launch = worker[w].launch /\ worker'[w].pc = pc
    BY <2>7, <2>8 DEF Knows, held
  <2> QED
    BY <1>1, <1>3, <1>4, <1>5, <2>4, <2>5, <2>9
<1>6. CASE LaunchRaised(d, l)
  <2> DEFINE r == [worker[w] EXCEPT !.pc = "putback", !.launch = l, !.exc = l.exc]
  <2>1. worker' = [worker EXCEPT ![w] = r] /\ UNCHANGED spent /\ l.exc # "none"
    BY <1>2, <1>6 DEF LeaseReady, LaunchRaised
  <2>2. l.exc \in Faults
    BY <1>3 DEF LaunchRec
  <2>3. r \in Worker
    BY <1>1, <1>3, <2>2 DEF Worker, WorkerPc
  <2>4. /\ r.pc = "putback" /\ r.held = worker[w].held /\ r.dev = worker[w].dev /\ r.launch = l /\ r.exc = l.exc
        /\ r.s = worker[w].s /\ r.lz = worker[w].lz /\ r.attempt = worker[w].attempt
        /\ r.forced = worker[w].forced /\ r.crashed = worker[w].crashed
    BY <1>1 DEF Worker
  <2> HIDE DEF r
  <2>5. Alone(w) /\ worker'[w] = r
    BY <2>1, <2>3, Writes DEF Typed
  <2> QED
    BY <1>1, <1>3, <1>4, <1>6, <2>1, <2>4, <2>5 DEF Knows
<1> QED
  BY <1>2, <1>5, <1>6

\* The failed lease is cleaned up.
LEMMA FailedLeaseEffect ==
  ASSUME Typed, Shaped, NEW w \in Workers, FailedLease(w)
  PROVE  LET d == worker[w].dev IN
         /\ worker[w].pc = "putback" /\ d \in Devices /\ worker[w].launch \in LaunchRec /\ worker[w].launch.to \in Devices
         /\ PutBack(PoolOf(d), d, worker[w].launch)
         /\ Alone(w) /\ Knows(w) /\ worker'[w].exc = worker[w].exc
         /\ worker'[w].pc = "release" /\ worker'[w].dev = None
         /\ worker'[w].launch = NoLaunch /\ worker'[w].held = worker[w].held
         /\ UNCHANGED <<main, next, result, spent, givenUp, cancelled>>
<1>1. /\ worker[w].pc = "putback" /\ worker[w] \in Worker /\ worker[w].dev \in Devices
      /\ worker[w].launch \in LaunchRec /\ worker[w].launch.to \in Devices
  <2>1. worker[w].pc = "putback" /\ worker[w] \in Worker
    BY DEF Typed, FailedLease
  <2>2. worker[w].dev \in Devices \union {None} /\ worker[w].launch \in LaunchRec
    BY <2>1 DEF Worker
  <2>3. worker[w].launch.to \in Devices \union {None}
    BY <2>2 DEF LaunchRec
  <2> QED
    BY <2>1, <2>2, <2>3 DEF Shaped
<1> DEFINE r == [worker[w] EXCEPT !.pc = "release", !.dev = None, !.launch = NoLaunch]
<1>2. worker' = [worker EXCEPT ![w] = r]
  BY DEF FailedLease
<1>3. r \in Worker
  BY <1>1, IdleFacts DEF Worker, WorkerPc
<1>4. /\ r.pc = "release" /\ r.held = worker[w].held /\ r.dev = None /\ r.launch = NoLaunch /\ r.exc = worker[w].exc
      /\ r.s = worker[w].s /\ r.lz = worker[w].lz /\ r.attempt = worker[w].attempt
      /\ r.forced = worker[w].forced /\ r.crashed = worker[w].crashed
  BY <1>1 DEF Worker
<1> HIDE DEF r
<1>5. Alone(w) /\ worker'[w] = r
  BY <1>2, <1>3, Writes DEF Typed
<1> QED
  BY <1>1, <1>4, <1>5 DEF FailedLease, Knows

\* The first Simulator of a lease is one of it.
LEMMA PrimaryFacts ==
  ASSUME Typed, NEW w \in Workers, worker[w].held # << >>
  PROVE  /\ PrimaryAt(w) \in 1..Len(worker[w].held) /\ ReleasedAt(w) \in 1..Len(worker[w].held)
         /\ Primary(w) \in Devices
<1> DEFINE held == worker[w].held
           sims == {i \in DOMAIN held : PoolOf(held[i]) = "xcuitest"}
<1>1. held \in Seq(Devices) /\ Len(held) \in Nat \ {0} /\ DOMAIN held = 1..Len(held)
  BY DEF Typed, Worker
<1>2. PrimaryAt(w) = IF sims = {} THEN 1 ELSE CHOOSE i \in sims : \A j \in sims : i <= j
  BY DEF PrimaryAt
<1>3. sims \subseteq 1..Len(held) /\ sims \in SUBSET Nat
  BY <1>1
<1>4. PrimaryAt(w) \in 1..Len(held)
  <2>1. CASE sims = {}
    BY <1>1, <1>2, <2>1
  <2>2. CASE sims # {}
    <3> HIDE DEF sims
    <3>1. \E i \in sims : \A j \in sims : i <= j
      BY <1>3, <2>2, LeastExists
    <3>2. PrimaryAt(w) \in sims
      BY <1>2, <2>2, <3>1
    <3> QED
      BY <1>3, <3>2
  <2> QED
    BY <2>1, <2>2
<1>5. ReleasedAt(w) \in 1..Len(held)
  BY <1>1 DEF ReleasedAt
<1>6. Primary(w) \in Devices
  BY <1>1, <1>4 DEF Primary
<1> QED
  BY <1>4, <1>5, <1>6

\* A scenario runs to its verdict or to its crash.
LEMMA RunEffect ==
  ASSUME Typed, NEW w \in Workers, Run(w)
  PROVE  /\ worker[w].pc = "run" /\ Alone(w) /\ Still(w)
         /\ worker'[w].pc = "release" /\ worker'[w].s = worker[w].s /\ worker'[w].attempt = worker[w].attempt
         /\ worker'[w].forced = worker[w].forced /\ worker'[w].crashed = worker[w].crashed
         /\ UNCHANGED <<plan, free, warm, heir, collectors, defect, main, next, result, spent, givenUp, cancelled>>
         /\ \/ worker'[w].lz = worker[w].lz /\ UNCHANGED env
            \/ \E d \in Kept(w) : d \in Devices /\ PoolOf(d) = "xcuitest" /\ env' = [env EXCEPT ![d].runner = "dead"]
<1>1. worker[w].pc = "run" /\ worker[w] \in Worker /\ worker[w].held \in Seq(Devices)
  BY DEF Run, Typed, Worker
<1>2. UNCHANGED <<plan, free, warm, heir, collectors, defect, main, next, result, spent, givenUp, cancelled>>
  BY DEF Run
<1>3. CASE worker' = [worker EXCEPT ![w] = [@ EXCEPT !.pc = "release", !.exc = "none"]] /\ UNCHANGED env
  <2> DEFINE r == [worker[w] EXCEPT !.pc = "release", !.exc = "none"]
  <2>1. worker' = [worker EXCEPT ![w] = r]
    BY <1>3
  <2>2. r \in Worker
    BY <1>1 DEF Worker, WorkerPc, Faults
  <2>3. /\ r.pc = "release" /\ r.held = worker[w].held /\ r.dev = worker[w].dev /\ r.launch = worker[w].launch
        /\ r.s = worker[w].s /\ r.lz = worker[w].lz /\ r.attempt = worker[w].attempt
        /\ r.forced = worker[w].forced /\ r.crashed = worker[w].crashed
    BY <1>1 DEF Worker
  <2> HIDE DEF r
  <2>4. Alone(w) /\ worker'[w] = r
    BY <2>1, <2>2, Writes DEF Typed
  <2> QED
    BY <1>1, <1>2, <1>3, <2>3, <2>4 DEF Still
<1>4. CASE \E d \in Kept(w) :
             /\ PoolOf(d) = "xcuitest" /\ env' = [env EXCEPT ![d].runner = "dead"]
             /\ worker' = [worker EXCEPT ![w] = [@ EXCEPT !.pc = "release", !.exc = "crash", !.lz = Primary(w)]]
  <2> DEFINE r == [worker[w] EXCEPT !.pc = "release", !.exc = "crash", !.lz = Primary(w)]
  <2>1. PICK d \in Kept(w) :
          /\ PoolOf(d) = "xcuitest" /\ env' = [env EXCEPT ![d].runner = "dead"]
          /\ worker' = [worker EXCEPT ![w] = r]
    BY <1>4
  <2>2. d \in Devices /\ worker[w].held # << >>
    BY <1>1 DEF Kept, ToSet
  <2>3. Primary(w) \in Devices
    BY <2>2, PrimaryFacts
  <2>4. r \in Worker
    BY <1>1, <2>3 DEF Worker, WorkerPc, Faults
  <2>5. /\ r.pc = "release" /\ r.held = worker[w].held /\ r.dev = worker[w].dev /\ r.launch = worker[w].launch
        /\ r.s = worker[w].s /\ r.attempt = worker[w].attempt
        /\ r.forced = worker[w].forced /\ r.crashed = worker[w].crashed
    BY <1>1 DEF Worker
  <2> HIDE DEF r
  <2>6. Alone(w) /\ worker'[w] = r
    BY <2>1, <2>4, Writes DEF Typed
  <2> QED
    BY <1>1, <1>2, <2>1, <2>2, <2>5, <2>6 DEF Still
<1> QED
  BY <1>3, <1>4 DEF Run, Kept

\* One device of a lease goes back.
LEMMA ReleaseNextEffect ==
  ASSUME Typed, Shaped, Placed, NEW w \in Workers, ReleaseNext(w)
  PROVE  \E d \in Devices, end \in Ends :
           /\ worker[w].pc = "release" /\ worker[w].dev = None /\ worker[w].launch = NoLaunch
           /\ d \in Kept(w) /\ Release(PoolOf(d), d, end)
           /\ Alone(w) /\ Knows(w) /\ worker'[w].exc = worker[w].exc
           /\ worker'[w].pc = "release" /\ worker'[w].dev = None /\ worker'[w].launch = NoLaunch
           /\ Distinct(worker'[w].held) /\ ToSet(worker'[w].held) = Kept(w) \ {d}
           /\ UNCHANGED <<main, next, result, spent, givenUp, cancelled>>
<1>1. /\ worker[w].pc = "release" /\ worker[w] \in Worker /\ worker[w].held \in Seq(Devices) /\ worker[w].held # << >>
      /\ worker[w].dev = None /\ worker[w].launch = NoLaunch
  BY DEF Typed, Shaped, ReleaseNext, Worker
<1> DEFINE i == ReleasedAt(w)
           d == worker[w].held[i]
           held == RemoveAt(worker[w].held, i)
           r == [worker[w] EXCEPT !.held = held]
<1>2. i \in 1..Len(worker[w].held)
  BY <1>1, PrimaryFacts
<1>3. PICK end \in Ends : Release(PoolOf(d), d, end)
  BY DEF ReleaseNext
<1>4. /\ d \in Devices /\ d \in Kept(w) /\ held \in Seq(Devices)
      /\ Distinct(held) /\ ToSet(held) = Kept(w) \ {d}
  <2>1. Distinct(worker[w].held)
    BY DEF Placed
  <2> HIDE DEF i
  <2> QED
    BY <1>1, <1>2, <2>1, RemoveFacts DEF Kept
<1>5. worker' = [worker EXCEPT ![w] = r]
  BY <1>1 DEF ReleaseNext, Typed
<1> HIDE DEF i, d, held
<1>6. r \in Worker
  BY <1>1, <1>4 DEF Worker
<1>7. /\ r.held = held /\ r.pc = worker[w].pc /\ r.dev = worker[w].dev /\ r.launch = worker[w].launch
      /\ r.s = worker[w].s /\ r.lz = worker[w].lz /\ r.attempt = worker[w].attempt
      /\ r.forced = worker[w].forced /\ r.crashed = worker[w].crashed /\ r.exc = worker[w].exc
  BY <1>1 DEF Worker
<1> HIDE DEF r
<1>8. Alone(w) /\ worker'[w] = r
  BY <1>5, <1>6, Writes DEF Typed
<1>9. UNCHANGED <<main, next, result, spent, givenUp, cancelled>>
  BY DEF ReleaseNext
<1> QED
  BY <1>1, <1>3, <1>4, <1>7, <1>8, <1>9 DEF Knows

\* The worker of a scenario that is over holds nothing, and did not.
LEMMA FinishEffect ==
  ASSUME Typed, Shaped, NEW w \in Workers, worker[w].held = << >>, worker[w].pc \in {"release", "caught"},
         NEW how, Finish(w, how)
  PROVE  Alone(w) /\ Still(w) /\ worker'[w] = Idle /\ result' = [result EXCEPT ![worker[w].s] = how]
<1>1. worker[w].dev = None /\ worker[w].launch = NoLaunch
  BY DEF Shaped, Typed, Worker
<1>2. Alone(w) /\ worker'[w] = Idle
  <2>1. worker \in [Workers -> Worker] /\ Idle \in Worker /\ worker' = [worker EXCEPT ![w] = Idle]
    BY IdleFacts DEF Finish, Typed
  <2> QED
    BY <2>1, Writes
<1> QED
  BY <1>1, <1>2, IdleFacts DEF Finish, Still

\* The lease is over: so is the scenario, or its fault is handled.
LEMMA ReleasedEffect ==
  ASSUME Typed, Shaped, NEW w \in Workers, Released(w)
  PROVE  /\ worker[w].pc = "release" /\ worker[w].held = << >> /\ Alone(w) /\ Still(w)
         /\ UNCHANGED <<poolVars, main, next, spent, givenUp, cancelled>>
         /\ \/ worker'[w] = Idle /\ result' = [result EXCEPT ![worker[w].s] = "verdict"] /\ worker[w].exc = "none"
            \/ /\ worker'[w].pc = "caught" /\ Knows(w) /\ worker'[w].exc = worker[w].exc
               /\ worker[w].exc # "none" /\ UNCHANGED result
<1>1. /\ worker[w].pc = "release" /\ worker[w].held = << >>
      /\ UNCHANGED <<poolVars, main, next, spent, givenUp, cancelled>>
  BY DEF Released
<1>2. CASE worker[w].exc = "none"
  <2>1. Finish(w, "verdict")
    BY <1>2 DEF Released
  <2> QED
    BY <1>1, <1>2, <2>1, FinishEffect
<1>3. CASE worker[w].exc # "none"
  <2> DEFINE r == [worker[w] EXCEPT !.pc = "caught"]
  <2>1. worker[w] \in Worker
    BY DEF Typed
  <2>2. worker' = [worker EXCEPT ![w] = r] /\ UNCHANGED result
    BY <1>3 DEF Released, Typed
  <2>3. r \in Worker
    BY <2>1 DEF Worker, WorkerPc
  <2>4. /\ r.pc = "caught" /\ r.held = worker[w].held /\ r.dev = worker[w].dev /\ r.launch = worker[w].launch
        /\ r.s = worker[w].s /\ r.lz = worker[w].lz /\ r.attempt = worker[w].attempt
        /\ r.forced = worker[w].forced /\ r.crashed = worker[w].crashed /\ r.exc = worker[w].exc
    BY <2>1 DEF Worker
  <2> HIDE DEF r
  <2>5. Alone(w) /\ worker'[w] = r
    BY <2>2, <2>3, Writes DEF Typed
  <2> QED
    BY <1>1, <1>3, <2>2, <2>4, <2>5 DEF Still, Knows
<1> QED
  BY <1>2, <1>3

\* What a billing leaves is within the budget.
LEMMA BillFacts ==
  ASSUME spent \in 0..RunBudget
  PROVE  /\ \A n \in {0, 1} : Bill(n) => spent' \in 0..RunBudget
         /\ \A armed \in BOOLEAN : BillIf(armed) => spent' \in 0..RunBudget
<1>1. ASSUME NEW n \in {0, 1}, Bill(n) PROVE spent' \in 0..RunBudget
  BY <1>1, RunnerAssumption DEF Bill
<1>2. ASSUME NEW armed \in BOOLEAN, BillIf(armed) PROVE spent' \in 0..RunBudget
  <2>1. CASE armed
    <3>1. PICK n \in {0, 1} : Bill(n)
      BY <1>2, <2>1 DEF BillIf
    <3> QED
      BY <1>1, <3>1
  <2>2. CASE ~armed
    BY <1>2, <2>2 DEF BillIf
  <2> QED
    BY <2>1, <2>2
<1> QED
  BY <1>1, <1>2

\* The host is wedged, or the fault is no crash: the scenario is over.
LEMMA EndEffect ==
  ASSUME Typed, Shaped, NEW w \in Workers, Wedged(w) \/ Escape(w)
  PROVE  \E how \in {"timeout", "down", "raised"} :
           /\ worker[w].pc = "caught" /\ Alone(w) /\ Still(w) /\ worker'[w] = Idle
           /\ result' = [result EXCEPT ![worker[w].s] = how]
           /\ spent' \in 0..RunBudget
           /\ how \in {"down", "raised"} => worker[w].exc = "down" \/ (worker[w].exc \in {"device", "timeout"} /\ ~Erases(w))
           /\ how = "timeout" => worker[w].forced
           /\ givenUp' = givenUp \/ (how = "timeout" /\ givenUp = "no" /\ givenUp' = "timeout")
           /\ UNCHANGED <<poolVars, main, next, cancelled>>
<1>1. worker[w].pc = "caught" /\ worker[w].held = << >> /\ spent \in 0..RunBudget /\ worker[w].armed \in BOOLEAN
  <2>1. worker[w].pc = "caught" /\ worker[w] \in Worker
    BY DEF Wedged, Escape, Typed
  <2> QED
    BY <2>1 DEF Shaped, Typed, Worker
<1>2. CASE Wedged(w)
  <2>1. Finish(w, "timeout") /\ GiveUp("timeout") /\ BillIf(worker[w].armed) /\ UNCHANGED <<poolVars, main, next, cancelled>>
    BY <1>2 DEF Wedged
  <2>2. Alone(w) /\ Still(w) /\ worker'[w] = Idle /\ result' = [result EXCEPT ![worker[w].s] = "timeout"]
    BY <1>1, <2>1, FinishEffect
  <2>3. spent' \in 0..RunBudget
    BY <1>1, <2>1, BillFacts
  <2>4. worker[w].forced
    BY <1>2 DEF Wedged, Erases
  <2> QED
    BY <1>1, <2>1, <2>2, <2>3, <2>4 DEF GiveUp
<1>3. CASE Escape(w)
  <2> DEFINE how == IF worker[w].exc = "down" THEN "down" ELSE "raised"
  <2>1. Finish(w, how) /\ BillIf(worker[w].armed) /\ UNCHANGED <<poolVars, main, next, givenUp, cancelled>>
        /\ (worker[w].exc = "down" \/ (worker[w].exc \in {"device", "timeout"} /\ ~Erases(w)))
    BY <1>3 DEF Escape
  <2>2. how \in {"down", "raised"}
    OBVIOUS
  <2> HIDE DEF how
  <2>3. Alone(w) /\ Still(w) /\ worker'[w] = Idle /\ result' = [result EXCEPT ![worker[w].s] = how]
    BY <1>1, <2>1, FinishEffect
  <2>4. spent' \in 0..RunBudget
    BY <1>1, <2>1, BillFacts
  <2> QED
    BY <1>1, <2>1, <2>2, <2>3, <2>4
<1> QED
  BY <1>2, <1>3

\* A forced erase that failed is given up for the attempt.
LEMMA DegradeEffect ==
  ASSUME Typed, Shaped, NEW w \in Workers, Degrade(w)
  PROVE  /\ worker[w].pc = "caught" /\ worker[w].forced /\ Alone(w) /\ Still(w) /\ Knows(w)
         /\ worker'[w].pc = "lease"
         /\ UNCHANGED <<poolVars, main, next, result, spent, givenUp, cancelled>>
<1>1. worker[w].pc = "caught" /\ worker[w].forced /\ worker[w] \in Worker
  BY DEF Degrade, Erases, Typed
<1> DEFINE r == [worker[w] EXCEPT !.pc = "lease", !.bare = TRUE, !.exc = "none"]
<1>2. worker' = [worker EXCEPT ![w] = r] /\ UNCHANGED <<poolVars, main, next, result, spent, givenUp, cancelled>>
  BY DEF Degrade
<1>3. r \in Worker
  BY <1>1 DEF Worker, WorkerPc, Faults
<1>4. /\ r.pc = "lease" /\ r.held = worker[w].held /\ r.dev = worker[w].dev /\ r.launch = worker[w].launch
      /\ r.s = worker[w].s /\ r.lz = worker[w].lz /\ r.attempt = worker[w].attempt
      /\ r.forced = worker[w].forced /\ r.crashed = worker[w].crashed
  BY <1>1 DEF Worker
<1> HIDE DEF r
<1>5. Alone(w) /\ worker'[w] = r
  BY <1>2, <1>3, Writes DEF Typed
<1> QED
  BY <1>1, <1>2, <1>4, <1>5 DEF Still, Knows

\* One attempt more.
LEMMA RetryEffect ==
  ASSUME Typed, NEW w \in Workers, NEW asked \in BOOLEAN, worker' = [worker EXCEPT ![w] = Retry(w, asked)],
         worker[w].attempt <= plan.retries
  PROVE  /\ Alone(w) /\ Still(w) /\ worker'[w].pc = "lease" /\ worker'[w].s = worker[w].s
         /\ worker'[w].lz = None /\ worker'[w].crashed /\ worker'[w].forced = Forces(worker[w].s)
         /\ worker'[w].attempt <= plan.retries + 1
<1>1. worker[w] \in Worker /\ plan.retries \in Nat
  BY RunnerAssumption DEF Typed
<1> DEFINE n == worker[w].attempt + 1
           f == Forces(worker[w].s)
           a == worker[w].replaced \/ asked
           r == [worker[w] EXCEPT !.pc = "lease", !.attempt = n, !.crashed = TRUE, !.armed = TRUE,
                                  !.forced = f, !.bare = FALSE, !.exc = "none", !.lz = None, !.replaced = a]
<1>2. worker' = [worker EXCEPT ![w] = r]
  BY DEF Retry
<1>3. n \in Nat /\ n <= plan.retries + 1 /\ f \in BOOLEAN /\ a \in BOOLEAN
  BY <1>1 DEF Worker, Forces
<1>6. f = Forces(worker[w].s)
  OBVIOUS
<1> HIDE DEF n, f, a
<1>4. r \in Worker
  BY <1>1, <1>3 DEF Worker, WorkerPc, Faults
<1>5. /\ r.pc = "lease" /\ r.attempt = n /\ r.crashed /\ r.forced = f /\ r.lz = None /\ r.s = worker[w].s
      /\ r.held = worker[w].held /\ r.dev = worker[w].dev /\ r.launch = worker[w].launch
  BY <1>1 DEF Worker
<1> HIDE DEF r
<1>7. Alone(w) /\ worker'[w] = r
  BY <1>2, <1>4, Writes DEF Typed
<1> QED
  BY <1>3, <1>5, <1>6, <1>7 DEF Still

\* A crash is recovered from, or ends the scenario.
LEMMA CrashedEffect ==
  ASSUME Typed, Shaped, NEW w \in Workers, Crashed(w)
  PROVE  /\ worker[w].pc = "caught" /\ worker[w].exc = "crash" /\ Alone(w) /\ Still(w)
         /\ UNCHANGED <<plan, free, warm, heir, collectors, defect, main, next, cancelled>>
         /\ spent' \in 0..RunBudget
         /\ \/ /\ worker'[w].pc = "lease" /\ worker'[w].s = worker[w].s
               /\ worker'[w].lz = None /\ worker'[w].crashed /\ worker'[w].forced = Forces(worker[w].s)
               /\ worker'[w].attempt <= plan.retries + 1
               /\ UNCHANGED <<result, givenUp>>
               /\ \/ UNCHANGED env
                  \/ /\ plan.booted /\ worker[w].lz # None /\ worker[w].lz \in warm
                     /\ env' = [env EXCEPT ![worker[w].lz].asked = worker[w].s]
            \/ /\ worker'[w] = Idle /\ UNCHANGED env
               /\ \/ UNCHANGED givenUp /\ \E how \in Ended : result' = [result EXCEPT ![worker[w].s] = how]
                  \/ /\ givenUp = "no" /\ givenUp' = "budget"
                     /\ result' = [result EXCEPT ![worker[w].s] = "exhausted"]
<1>1. worker[w].pc = "caught" /\ worker[w].exc = "crash" /\ worker[w].held = << >>
      /\ UNCHANGED <<plan, free, warm, heir, collectors, defect, main, next, cancelled>>
  BY DEF Crashed, Shaped
<1>2. PICK inTime \in BOOLEAN, stalled \in BOOLEAN :
        /\ IF Escalates(w, inTime, stalled) THEN AskReplacement(worker[w].lz, worker[w].s) ELSE UNCHANGED env
        /\ IF Stops(w, inTime) = "no"
           THEN worker' = [worker EXCEPT ![w] = Retry(w, Escalates(w, inTime, stalled))] /\ UNCHANGED <<result, spent>>
           ELSE Finish(w, Stops(w, inTime)) /\ \E n \in {0, 1} : Bill(n)
        /\ GiveUpIfBound(w, inTime)
  BY DEF Crashed
<1>3. Escalates(w, inTime, stalled) => Stops(w, inTime) = "no"
  BY DEF Escalates, Stops
<1>4. CASE Stops(w, inTime) = "no"
  <2> DEFINE asks == Escalates(w, inTime, stalled)
  <2>1. worker' = [worker EXCEPT ![w] = Retry(w, asks)] /\ UNCHANGED <<result, spent>>
    BY <1>2, <1>4
  <2>2. asks \in BOOLEAN
    BY DEF Escalates
  <2>3. worker[w].attempt <= plan.retries /\ ~Exhausted
    BY <1>4 DEF Stops, WithinCount
  <2>4. UNCHANGED givenUp
    BY <1>2, <2>3 DEF GiveUpIfBound
  <2>5. UNCHANGED env \/ (/\ plan.booted /\ worker[w].lz # None /\ worker[w].lz \in warm
                          /\ env' = [env EXCEPT ![worker[w].lz].asked = worker[w].s])
    <3>1. CASE asks
      <4>1. AskReplacement(worker[w].lz, worker[w].s) /\ plan.booted /\ worker[w].lz # None
        BY <1>2, <3>1 DEF Escalates, CanReplace
      <4> QED
        BY <4>1 DEF AskReplacement
    <3>2. CASE ~asks
      BY <1>2, <3>2
    <3> QED
      BY <3>1, <3>2
  <2>6. spent' \in 0..RunBudget
    BY <2>1 DEF Typed
  <2> HIDE DEF asks
  <2>7. /\ Alone(w) /\ Still(w) /\ worker'[w].pc = "lease" /\ worker'[w].s = worker[w].s
        /\ worker'[w].lz = None /\ worker'[w].crashed /\ worker'[w].forced = Forces(worker[w].s)
        /\ worker'[w].attempt <= plan.retries + 1
    BY <2>1, <2>2, <2>3, RetryEffect
  <2> QED
    BY <1>1, <2>1, <2>4, <2>5, <2>6, <2>7
<1>5. CASE Stops(w, inTime) # "no"
  <2> DEFINE how == Stops(w, inTime)
  <2>1. Finish(w, how) /\ (\E n \in {0, 1} : Bill(n)) /\ UNCHANGED env
    BY <1>2, <1>3, <1>5
  <2>2. how \in Ended
    BY <1>5 DEF Stops, Ended
  <2>3. UNCHANGED givenUp \/ (givenUp = "no" /\ givenUp' = "budget" /\ how = "exhausted")
    BY <1>2 DEF GiveUpIfBound, GiveUp, Stops
  <2>4. spent' \in 0..RunBudget
    BY <2>1, BillFacts DEF Typed
  <2> HIDE DEF how
  <2>5. Alone(w) /\ Still(w) /\ worker'[w] = Idle /\ result' = [result EXCEPT ![worker[w].s] = how]
    BY <1>1, <2>1, FinishEffect
  <2> QED
    BY <1>1, <2>1, <2>2, <2>3, <2>4, <2>5
<1> QED
  BY <1>4, <1>5

----------------------------------------------------------------------------
(* Who holds what *)

Devs == Placed /\ Gone /\ Untouched /\ WarmPlaced /\ Runners /\ Conserved

\* What a worker holds are devices.
LEMMA HeldTypes ==
  ASSUME Typed
  PROVE  /\ None \notin Devices
         /\ \A p \in Pools : free[p] \in Seq(Devices) /\ Free(p) \subseteq Devices
         /\ \A w \in Workers :
              /\ worker[w] \in Worker /\ Kept(w) \subseteq Devices /\ Held(w) \subseteq Devices /\ Has(w) \subseteq Devices
              /\ worker[w].dev \in Devices \union {None} /\ worker[w].launch \in LaunchRec
              /\ worker[w].launch.to \in Devices \union {None}
              /\ Held(w) = Kept(w) \union ({worker[w].dev} \ {None})
              /\ Has(w) = Held(w) \union ({worker[w].launch.to} \ {None})
<1>1. None \notin Devices
  BY PoolAssumption
<1>2. ASSUME NEW p \in Pools PROVE free[p] \in Seq(Devices) /\ Free(p) \subseteq Devices
  <2>1. free[p] \in Seq(Devices)
    BY DEF Typed, PoolTypeOK
  <2> QED
    BY <2>1 DEF Free, ToSet
<1>3. ASSUME NEW w \in Workers
      PROVE  /\ worker[w] \in Worker /\ Kept(w) \subseteq Devices
             /\ worker[w].dev \in Devices \union {None} /\ worker[w].launch \in LaunchRec
             /\ worker[w].launch.to \in Devices \union {None}
  <2>1. /\ worker[w] \in Worker /\ worker[w].held \in Seq(Devices) /\ worker[w].launch \in LaunchRec
        /\ worker[w].dev \in Devices \union {None}
    BY DEF Typed, Worker
  <2>2. worker[w].launch.to \in Devices \union {None}
    BY <2>1 DEF LaunchRec
  <2>3. Kept(w) \subseteq Devices
    BY <2>1 DEF Kept, ToSet
  <2> QED
    BY <2>1, <2>2, <2>3
<1>4. ASSUME NEW w \in Workers
      PROVE  /\ Held(w) = Kept(w) \union ({worker[w].dev} \ {None})
             /\ Has(w) = Held(w) \union ({worker[w].launch.to} \ {None})
  BY DEF Held, Has, Kept
<1> QED
  BY <1>1, <1>2, <1>3, <1>4

\* What a launch left belongs to a lease that failed.
LEMMA LaunchingFacts ==
  ASSUME Shaped, NEW w \in Workers, worker[w].launch.to # None
  PROVE  worker[w].pc = "putback" /\ worker[w].dev # None
BY IdleFacts DEF Shaped

\* A worker that holds what it held still has it.
LEMMA HeldStays ==
  ASSUME NEW w, Still(w)
  PROVE  Kept(w)' = Kept(w) /\ Held(w)' = Held(w) /\ Has(w)' = Has(w)
BY DEF Still, Kept, Held, Has

\* A step leaves the other workers what they hold.
LEMMA OthersKeep ==
  ASSUME NEW w \in Workers, Alone(w), NEW v \in Workers, v # w
  PROVE  worker'[v] = worker[v] /\ Still(v) /\ Kept(v)' = Kept(v) /\ Held(v)' = Held(v) /\ Has(v)' = Has(v)
<1>1. worker'[v] = worker[v] /\ Still(v)
  BY DEF Alone, Still
<1> QED
  BY <1>1, HeldStays

\* Steps that move no device keep every device where it was.
LEMMA QuietKeeps ==
  ASSUME Typed, Shaped, Devs, \A v \in Workers : Still(v), UNCHANGED <<plan, free, warm, heir>>,
         \A d \in Devices : env'[d].runner = "alive" => env[d].runner = "alive"
  PROVE  Devs'
<1>1. Workers' = Workers /\ \A d \in Devices \union {None} : PoolOf(d)' = PoolOf(d)
  BY PlanStays
<1>2. \A v \in Workers : /\ Kept(v)' = Kept(v) /\ Held(v)' = Held(v) /\ Has(v)' = Has(v)
                         /\ worker'[v].held = worker[v].held /\ worker'[v].dev = worker[v].dev
                         /\ worker'[v].launch = worker[v].launch
  BY HeldStays DEF Still
<1>3. \A p \in Pools : Free(p)' = Free(p) /\ free'[p] = free[p]
  BY DEF Free
<1>4. /\ \A v \in Workers : worker[v].dev \in Devices \union {None} /\ worker[v].launch.to \in Devices \union {None}
      /\ \A v \in Workers : Kept(v) \subseteq Devices
      /\ \A p \in Pools : Free(p) \subseteq Devices
      /\ warm \subseteq Devices
  BY HeldTypes DEF Typed, PoolTypeOK
<1>5. Placed'
  <2>1. \A p \in Pools : Distinct(free'[p]) /\ \A d \in Free(p)' : PoolOf(d)' = p
    BY <1>1, <1>3, <1>4 DEF Devs, Placed
  <2> QED
    BY <1>1, <1>2, <1>3, <1>4, <2>1 DEF Devs, Placed
<1>6. Gone'
  BY <1>1, <1>2, <1>3 DEF Devs, Gone
<1>7. Untouched'
  <2>1. plan.spares \subseteq Devices
    BY PoolAssumption DEF Typed
  <2> QED
    BY <1>1, <1>2, <1>3, <2>1 DEF Devs, Untouched
<1>8. WarmPlaced'
  <2>1. "xcuitest" \in Pools
    BY DEF Pools
  <2> QED
    BY <1>1, <1>2, <1>3, <1>4, <2>1 DEF Devs, WarmPlaced
<1>9. Runners'
  <2>1. \A v \in Workers : worker[v].launch.to # None =>
          worker[v].launch.to \in Devices /\ worker[v].dev \in Devices
    BY <1>4, LaunchingFacts
  <2> QED
    BY <1>1, <1>2, <1>4, <2>1 DEF Devs, Runners
<1>10. Conserved'
  <2>1. ASSUME NEW p \in Pools PROVE Out(p)' = Out(p)
    BY <1>1, <1>2 DEF Out
  <2> QED
    BY <1>3, <2>1 DEF Devs, Conserved
<1> QED
  BY <1>5, <1>6, <1>7, <1>8, <1>9, <1>10 DEF Devs

\* A worker holds one device more: the devices out of each pool.
LEMMA OutGains ==
  ASSUME UNCHANGED plan, NEW w \in Workers, NEW e \in Devices, e \notin Held(w), Held(w)' = Held(w) \union {e},
         \A v \in Workers \ {w} : Held(v)' = Held(v),
         \A p \in Pools : IsFiniteSet(Out(p)) /\ Cardinality(Out(p)) \in Nat
  PROVE  \A p \in Pools :
           /\ IsFiniteSet(Out(p)')
           /\ Cardinality(Out(p)') = IF p = PoolOf(e) THEN Cardinality(Out(p)) + 1 ELSE Cardinality(Out(p))
<1>1. Workers' = Workers /\ \A d \in Devices : PoolOf(d)' = PoolOf(d)
  BY PlanStays
<1>2. ASSUME NEW p \in Pools, p = PoolOf(e) PROVE Out(p)' = Out(p) \union {<<w, e>>} /\ <<w, e>> \notin Out(p)
  BY <1>1, <1>2 DEF Out
<1>3. ASSUME NEW p \in Pools, p # PoolOf(e) PROVE Out(p)' = Out(p)
  BY <1>1, <1>3 DEF Out
<1>4. ASSUME NEW p \in Pools, p = PoolOf(e) PROVE IsFiniteSet(Out(p)') /\ Cardinality(Out(p)') = Cardinality(Out(p)) + 1
  BY <1>2, <1>4, FS_AddElement
<1> QED
  BY <1>3, <1>4

\* A worker holds one device less.
LEMMA OutLoses ==
  ASSUME UNCHANGED plan, NEW w \in Workers, NEW e \in Devices, e \in Held(w), Held(w)' = Held(w) \ {e},
         \A v \in Workers \ {w} : Held(v)' = Held(v),
         \A p \in Pools : IsFiniteSet(Out(p)) /\ Cardinality(Out(p)) \in Nat
  PROVE  \A p \in Pools :
           /\ IsFiniteSet(Out(p)')
           /\ Cardinality(Out(p)') = IF p = PoolOf(e) THEN Cardinality(Out(p)) - 1 ELSE Cardinality(Out(p))
<1>1. Workers' = Workers /\ \A d \in Devices : PoolOf(d)' = PoolOf(d)
  BY PlanStays
<1>2. ASSUME NEW p \in Pools, p = PoolOf(e) PROVE Out(p)' = Out(p) \ {<<w, e>>} /\ <<w, e>> \in Out(p)
  BY <1>1, <1>2 DEF Out
<1>3. ASSUME NEW p \in Pools, p # PoolOf(e) PROVE Out(p)' = Out(p)
  BY <1>1, <1>3 DEF Out
<1>4. ASSUME NEW p \in Pools, p = PoolOf(e) PROVE IsFiniteSet(Out(p)') /\ Cardinality(Out(p)') = Cardinality(Out(p)) - 1
  BY <1>2, <1>4, FS_RemoveElement
<1> QED
  BY <1>3, <1>4

\* A worker holds one device in the place of another.
LEMMA OutSwaps ==
  ASSUME UNCHANGED plan, NEW w \in Workers, NEW d \in Devices, NEW e \in Devices, d \in Held(w), e \notin Held(w),
         PoolOf(e) = PoolOf(d), Held(w)' = (Held(w) \ {d}) \union {e},
         \A v \in Workers \ {w} : Held(v)' = Held(v),
         \A p \in Pools : IsFiniteSet(Out(p)) /\ Cardinality(Out(p)) \in Nat
  PROVE  \A p \in Pools : IsFiniteSet(Out(p)') /\ Cardinality(Out(p)') = Cardinality(Out(p))
<1>1. Workers' = Workers /\ \A x \in Devices : PoolOf(x)' = PoolOf(x)
  BY PlanStays
<1>2. ASSUME NEW p \in Pools, p = PoolOf(e) PROVE IsFiniteSet(Out(p)') /\ Cardinality(Out(p)') = Cardinality(Out(p))
  <2> DEFINE rest == Out(p) \ {<<w, d>>}
  <2>1. Out(p)' = rest \union {<<w, e>>} /\ <<w, e>> \notin rest /\ <<w, d>> \in Out(p)
    BY <1>1, <1>2 DEF Out
  <2>2. IsFiniteSet(rest) /\ Cardinality(rest) = Cardinality(Out(p)) - 1
    BY <2>1, FS_RemoveElement
  <2> HIDE DEF rest
  <2>3. IsFiniteSet(rest \union {<<w, e>>}) /\ Cardinality(rest \union {<<w, e>>}) = Cardinality(rest) + 1
    BY <2>1, <2>2, FS_AddElement
  <2> QED
    BY <1>2, <2>1, <2>2, <2>3
<1>3. ASSUME NEW p \in Pools, p # PoolOf(e) PROVE Out(p)' = Out(p)
  BY <1>1, <1>3 DEF Out
<1> QED
  BY <1>2, <1>3

\* A device is taken out of the queue.
LEMMA GetKeeps ==
  ASSUME Typed, Shaped, Devs, NEW w \in Workers, Lease(w)
  PROVE  Devs'
<1>1. PICK p \in Pools, d \in Devices :
        /\ worker[w].pc = "lease" /\ GetDevice(p, d)
        /\ Alone(w) /\ worker'[w].dev = d
        /\ worker'[w].held = worker[w].held /\ worker'[w].launch = worker[w].launch
  BY LeaseEffect
<1>2. /\ worker[w].dev = None /\ worker[w].launch.to = None /\ d # None
      /\ Kept(w)' = Kept(w) /\ Held(w) = Kept(w) /\ Has(w) = Kept(w)
      /\ Held(w)' = Kept(w) \union {d} /\ Has(w)' = Kept(w) \union {d}
  BY <1>1, IdleFacts, HeldTypes DEF Shaped, Kept, Held, Has
<1>3. \A v \in Workers : v # w =>
        worker'[v] = worker[v] /\ Kept(v)' = Kept(v) /\ Held(v)' = Held(v) /\ Has(v)' = Has(v)
  BY <1>1, OthersKeep
<1>4. /\ free[p] \in Seq(Devices) /\ free[p] # << >> /\ d = Head(free[p])
      /\ free' = [free EXCEPT ![p] = Tail(free[p])] /\ free \in [Pools -> Seq(Devices)]
      /\ UNCHANGED <<plan, warm, heir>> /\ env' = IF d \in warm THEN env ELSE [env EXCEPT ![d].asked = None]
  BY <1>1 DEF GetDevice, Typed, PoolTypeOK
<1>5. /\ d \in Free(p) /\ Free(p)' = Free(p) \ {d} /\ Distinct(free'[p])
      /\ Len(free[p]) \in Nat \ {0} /\ Len(free'[p]) = Len(free[p]) - 1 /\ PoolOf(d) = p
      /\ \A q \in Pools : q # p => Free(q)' = Free(q) /\ free'[q] = free[q]
  <2>1. Distinct(free[p]) /\ \A x \in Free(p) : PoolOf(x) = p
    BY DEF Devs, Placed
  <2>2. free'[p] = Tail(free[p]) /\ \A q \in Pools : q # p => free'[q] = free[q]
    BY <1>4
  <2> QED
    BY <1>4, <2>1, <2>2, TailFacts DEF Free
<1>6. Workers' = Workers /\ \A x \in Devices \union {None} : PoolOf(x)' = PoolOf(x)
  BY <1>4, PlanStays
<1>7. \A v \in Workers : d \notin Has(v) /\ d \notin Kept(v) /\ d # worker[v].launch.to /\ d # worker[v].dev
  BY <1>5, HeldTypes DEF Devs, Placed
<1>8. \A x \in Devices : env'[x].runner = env[x].runner
  BY <1>4 DEF Typed, PoolTypeOK
<1>9. /\ \A v \in Workers : worker[v].dev \in Devices \union {None} /\ worker[v].launch.to \in Devices \union {None}
      /\ \A v \in Workers : Kept(v) \subseteq Devices
      /\ \A q \in Pools : Free(q) \subseteq Devices
      /\ warm \subseteq Devices /\ plan.spares \subseteq Devices
  BY HeldTypes, PoolAssumption DEF Typed, PoolTypeOK
<1>10. Placed'
  <2>1. \A q \in Pools : Distinct(free'[q]) /\ \A x \in Free(q)' : PoolOf(x)' = q
    BY <1>5, <1>6, <1>9 DEF Devs, Placed
  <2>2. \A v \in Workers :
          /\ Distinct(worker'[v].held) /\ worker'[v].dev \notin Kept(v)' /\ worker'[v].launch.to \notin Kept(v)'
          /\ \A t, x \in Devices : worker'[v].launch.to = t /\ worker'[v].dev = x => PoolOf(t)' = PoolOf(x)'
    <3>1. \A v \in Workers :
            /\ Distinct(worker[v].held) /\ worker[v].dev \notin Kept(v) /\ worker[v].launch.to \notin Kept(v)
            /\ \A t, x \in Devices : worker[v].launch.to = t /\ worker[v].dev = x => PoolOf(t) = PoolOf(x)
      BY DEF Devs, Placed
    <3>2. None \notin Devices
      BY HeldTypes
    <3>3. ASSUME NEW v \in Workers, v # w
          PROVE  /\ Distinct(worker'[v].held) /\ worker'[v].dev \notin Kept(v)' /\ worker'[v].launch.to \notin Kept(v)'
                 /\ \A t, x \in Devices : worker'[v].launch.to = t /\ worker'[v].dev = x => PoolOf(t)' = PoolOf(x)'
      BY <1>3, <1>6, <3>1, <3>3
    <3>4. /\ Distinct(worker'[w].held) /\ worker'[w].dev \notin Kept(w)' /\ worker'[w].launch.to \notin Kept(w)'
          /\ \A t, x \in Devices : worker'[w].launch.to = t /\ worker'[w].dev = x => PoolOf(t)' = PoolOf(x)'
      BY <1>1, <1>2, <1>7, <3>1, <3>2
    <3> QED
      BY <3>3, <3>4
  <2>3. \A v \in Workers, q \in Pools : Has(v)' \intersect Free(q)' = {}
    BY <1>2, <1>3, <1>5 DEF Devs, Placed
  <2>4. \A v, u \in Workers : v # u => Has(v)' \intersect Has(u)' = {}
    BY <1>2, <1>3, <1>7 DEF Devs, Placed
  <2> QED
    BY <1>6, <2>1, <2>2, <2>3, <2>4 DEF Placed, Distinct
<1>11. Gone'
  <2>1. ASSUME NEW x \in Devices, heir'[x] # None
        PROVE  /\ heir'[x] # x /\ \A q \in Pools : x \notin Free(q)'
               /\ \A v \in Workers :
                    /\ x \notin Kept(v)' /\ worker'[v].launch.to # x
                    /\ worker'[v].dev = x => worker'[v].launch.to = heir'[x]
    <3>1. x # d /\ heir[x] # None /\ heir'[x] = heir[x]
      BY <1>4, <1>5, <2>1 DEF Devs, Gone
    <3> QED
      BY <1>1, <1>2, <1>3, <1>5, <3>1 DEF Devs, Gone
  <2> QED
    BY <1>6, <2>1 DEF Gone
<1>12. Untouched'
  <2>1. ASSUME NEW e \in plan.spares, \A x \in Devices : heir[x] # e
        PROVE  /\ e \notin warm' /\ env'[e].runner # "alive" /\ heir'[e] = None
               /\ \A q \in Pools : e \notin Free(q)'
               /\ \A v \in Workers : e \notin Has(v)'
    <3>1. e # d /\ e \in Devices
      BY <1>5, <1>9, <2>1 DEF Devs, Untouched
    <3>2. /\ e \notin warm /\ env[e].runner # "alive" /\ heir[e] = None
          /\ \A q \in Pools : e \notin Free(q)
          /\ \A v \in Workers : e \notin Has(v)
      BY <2>1 DEF Devs, Untouched
    <3>3. e \notin warm' /\ env'[e].runner # "alive" /\ heir'[e] = None
      BY <1>4, <1>8, <3>1, <3>2
    <3>4. \A q \in Pools : e \notin Free(q)'
      BY <1>5, <3>2
    <3>5. \A v \in Workers : e \notin Has(v)'
      BY <1>2, <1>3, <3>1, <3>2
    <3> QED
      BY <3>3, <3>4, <3>5
  <2> QED
    BY <1>4, <1>6, <2>1 DEF Untouched
<1>13. WarmPlaced'
  <2>1. "xcuitest" \in Pools
    BY DEF Pools
  <2> QED
    <3>1. /\ \A x \in warm : PoolOf(x) = "xcuitest" /\ (x \in Free("xcuitest") \/ \E v \in Workers : x \in Held(v))
          /\ \A v \in Workers : \A x \in Kept(v) : PoolOf(x) = "xcuitest" => x \in warm
      BY DEF Devs, WarmPlaced
    <3>2. ASSUME NEW x \in warm PROVE x \in Free("xcuitest")' \/ \E v \in Workers : x \in Held(v)'
      <4>1. CASE x \in Free("xcuitest")
        <5>1. x = d => x \in Held(w)'
          BY <1>2
        <5>2. x # d => x \in Free("xcuitest")'
          BY <1>5, <2>1, <4>1
        <5> QED
          BY <5>1, <5>2
      <4>2. CASE \E v \in Workers : x \in Held(v)
        BY <1>2, <1>3, <4>2
      <4> QED
        BY <3>1, <4>1, <4>2
    <3>3. \A v \in Workers : Kept(v)' = Kept(v)
      BY <1>2, <1>3
    <3> QED
      BY <1>4, <1>6, <1>9, <3>1, <3>2, <3>3 DEF WarmPlaced
<1>14. Runners'
  <2>1. \A v \in Workers : worker[v].launch.to # None =>
          v # w /\ worker[v].launch.to \in Devices /\ worker[v].dev \in Devices
    BY <1>2, <1>9, LaunchingFacts
  <2>2. \A x \in Devices : env'[x].runner = "alive" =>
          x \in warm' \/ \E v \in Workers : x \in Kept(v)' \/ x = worker'[v].launch.to
    <3>1. \A v \in Workers : Kept(v)' = Kept(v) /\ worker'[v].launch = worker[v].launch
      BY <1>1, <1>2, <1>3
    <3>2. \A x \in Devices : env[x].runner = "alive" =>
            x \in warm \/ \E v \in Workers : x \in Kept(v) \/ x = worker[v].launch.to
      BY DEF Devs, Runners
    <3> QED
      BY <1>4, <1>8, <3>1, <3>2
  <2>3. \A v \in Workers : worker'[v].launch.to # None => v # w /\ worker'[v] = worker[v]
    BY <1>1, <1>2, <1>3
  <2>4. \A v \in Workers : worker'[v].launch.to # None =>
          /\ env'[worker'[v].launch.to].runner = "alive" =>
               worker'[v].launch.back \/ (worker'[v].launch.to = worker'[v].dev /\ worker'[v].dev \in warm')
          /\ worker'[v].launch.to # worker'[v].dev => env'[worker'[v].dev].runner # "alive"
    BY <1>4, <1>8, <2>1, <2>3 DEF Devs, Runners
  <2> QED
    BY <1>6, <2>2, <2>4 DEF Runners
<1>15. Conserved'
  <2>1. \A q \in Pools : /\ IsFiniteSet(Out(q)) /\ Len(free[q]) \in Nat /\ Len(plan.lanes[q]) \in Nat
                         /\ Cardinality(Out(q)) \in Nat
    BY HeldTypes, FS_CardinalityType, PoolFacts DEF Devs, Conserved, Typed
  <2>2. \A q \in Pools : /\ IsFiniteSet(Out(q)')
                         /\ Cardinality(Out(q)') = IF q = PoolOf(d) THEN Cardinality(Out(q)) + 1 ELSE Cardinality(Out(q))
    <3>1. d \notin Held(w) /\ Held(w)' = Held(w) \union {d} /\ \A v \in Workers \ {w} : Held(v)' = Held(v)
      BY <1>2, <1>3, <1>7
    <3>2. UNCHANGED plan /\ \A q \in Pools : IsFiniteSet(Out(q)) /\ Cardinality(Out(q)) \in Nat
      BY <1>4, <2>1
    <3> QED
      BY <3>1, <3>2, OutGains
  <2>3. ASSUME NEW q \in Pools PROVE Len(free'[q]) + Cardinality(Out(q)') = Len(plan.lanes[q])
    <3>1. Len(free[q]) + Cardinality(Out(q)) = Len(plan.lanes[q])
      BY DEF Devs, Conserved
    <3>2. CASE q = p
      BY <1>5, <2>1, <2>2, <3>1, <3>2
    <3>3. CASE q # p
      BY <1>5, <2>1, <2>2, <3>1, <3>3
    <3> QED
      BY <3>2, <3>3
  <2> QED
    BY <1>4, <2>2, <2>3 DEF Conserved
<1> QED
  BY <1>10, <1>11, <1>12, <1>13, <1>14, <1>15 DEF Devs

\* The device a launch ended on is nobody else's, and the one it left is.
LEMMA TargetFacts ==
  ASSUME Typed, Shaped, Devs, NEW w \in Workers, NEW d \in Devices, worker[w].dev = d, worker[w].launch = NoLaunch,
         NEW l \in Start(PoolOf(d), d, Erases(w)), l \in LaunchRec, l.to \in Devices, AfterStart(d, l)
  PROVE  /\ PoolOf(l.to) = PoolOf(d) /\ heir[d] = None /\ heir[l.to] = None
         /\ l.to \notin Kept(w) /\ d \notin Kept(w)
         /\ \A q \in Pools : l.to \notin Free(q) /\ d \notin Free(q)
         /\ \A v \in Workers : v # w => l.to \notin Has(v) /\ d \notin Has(v)
         /\ \A x \in Devices : x # d => heir'[x] = heir[x]
         /\ \A x \in Devices : x # d /\ x # l.to => env'[x] = env[x]
         /\ env'[l.to].runner = l.runner
         /\ l.to # d => heir'[d] = l.to /\ env'[d].runner = "none"
         /\ l.to = d => heir' = heir
         /\ \A e \in plan.spares : (\A x \in Devices : heir'[x] # e) =>
              e # l.to /\ e # d /\ \A x \in Devices : heir[x] # e
         /\ l.runner = "alive" => l.back \/ (l.to = d /\ d \in warm)
<1> DEFINE t == l.to
<1>1. plan \in Plans /\ \A e \in plan.spares : e \in Devices /\ PoolOf(e) = "xcuitest"
  BY PoolFacts DEF Typed
<1>2. /\ t = d \/ (PoolOf(d) = "xcuitest" /\ t \in plan.spares /\ \A e \in Devices : heir[e] # t)
      /\ l.runner = "alive" => l.back \/ (t = d /\ env[d].runner = "alive")
  BY <1>1, StartFacts
<1>3. /\ None \notin Devices /\ worker[w].launch.to = None /\ d \in Has(w) /\ d \in Held(w)
      /\ \A v \in Workers : worker[v].dev \in Has(v) \union {None} /\ worker[v].launch.to \in Has(v) \union {None} /\ Kept(v) \subseteq Has(v)
  BY HeldTypes, IdleFacts
<1>4. heir[d] = None
  BY <1>3 DEF Devs, Gone
<1>5. t # d => /\ t \notin warm /\ env[t].runner # "alive" /\ heir[t] = None
               /\ \A q \in Pools : t \notin Free(q)
               /\ \A v \in Workers : t \notin Has(v)
  BY <1>2 DEF Devs, Untouched
<1>6. /\ d \notin Kept(w) /\ \A q \in Pools : d \notin Free(q)
      /\ \A v \in Workers : v # w => d \notin Has(v)
  BY <1>3 DEF Devs, Placed
<1>7. /\ env' = [env EXCEPT ![d] = Blank, ![t] = [runner |-> l.runner, asked |-> None]]
      /\ heir' = IF t = d THEN heir ELSE [heir EXCEPT ![d] = t]
      /\ env \in [Devices -> [runner : {"none", "alive", "dead"}, asked : Nat]]
      /\ heir \in [Devices -> Devices \union {None}]
  BY DEF AfterStart, Typed, PoolTypeOK
<1>8. /\ \A x \in Devices : x # d => heir'[x] = heir[x]
      /\ \A x \in Devices : x # d /\ x # t => env'[x] = env[x]
      /\ env'[t].runner = l.runner
      /\ t # d => heir'[d] = t /\ env'[d].runner = "none"
      /\ t = d => heir' = heir
  BY <1>7 DEF Blank
<1>9. ASSUME NEW e \in plan.spares, \A x \in Devices : heir'[x] # e
      PROVE  e # t /\ e # d /\ \A x \in Devices : heir[x] # e
  <2>1. \A x \in Devices : heir[x] # e
    BY <1>1, <1>3, <1>4, <1>8, <1>9
  <2>2. e # d
    BY <1>3, <2>1 DEF Devs, Untouched
  <2> QED
    BY <1>8, <1>9, <2>1, <2>2
<1>10. ASSUME l.runner = "alive" PROVE l.back \/ (t = d /\ d \in warm)
  <2>1. ASSUME env[d].runner = "alive" PROVE d \in warm
    <3>1. d \in warm \/ \E v \in Workers : d \in Kept(v) \/ d = worker[v].launch.to
      BY <2>1 DEF Devs, Runners
    <3> QED
      BY <1>3, <1>6, <3>1
  <2> QED
    BY <1>2, <1>10, <2>1
<1>11. PoolOf(t) = PoolOf(d)
  BY <1>1, <1>2, PoolFacts
<1> QED
  BY <1>3, <1>4, <1>5, <1>6, <1>8, <1>9, <1>10, <1>11

\* A launch that made it.
LEMMA ReadyKeeps ==
  ASSUME Typed, Shaped, Devs, NEW w \in Workers, NEW d \in Devices, worker[w].dev = d, worker[w].launch = NoLaunch,
         NEW l \in Start(PoolOf(d), d, Erases(w)), l \in LaunchRec, l.to \in Devices, LeaseReady(PoolOf(d), d, l),
         Alone(w), worker'[w].held = Append(worker[w].held, l.to), worker'[w].dev = None,
         worker'[w].launch = worker[w].launch
  PROVE  Devs'
<1> DEFINE t == l.to
<1>1. /\ AfterStart(d, l) /\ warm' = (warm \ {d}) \union (IF PoolOf(d) = "xcuitest" THEN {t} ELSE {})
      /\ UNCHANGED <<plan, free>>
  BY DEF LeaseReady
<1>2. /\ PoolOf(t) = PoolOf(d) /\ heir[d] = None /\ heir[t] = None
      /\ t \notin Kept(w) /\ d \notin Kept(w)
      /\ \A q \in Pools : t \notin Free(q) /\ d \notin Free(q)
      /\ \A v \in Workers : v # w => t \notin Has(v) /\ d \notin Has(v)
      /\ \A x \in Devices : x # d => heir'[x] = heir[x]
      /\ \A x \in Devices : x # d /\ x # t => env'[x] = env[x]
      /\ env'[t].runner = l.runner
      /\ t # d => heir'[d] = t /\ env'[d].runner = "none"
      /\ t = d => heir' = heir
      /\ \A e \in plan.spares : (\A x \in Devices : heir'[x] # e) =>
           e # t /\ e # d /\ \A x \in Devices : heir[x] # e
  BY <1>1, TargetFacts
<1>3. /\ None \notin Devices /\ worker[w].launch.to = None /\ worker'[w].launch.to = None
      /\ Held(w) = Kept(w) \union {d} /\ Has(w) = Kept(w) \union {d} /\ worker[w].held \in Seq(Devices)
      /\ \A v \in Workers :
           /\ worker[v].dev \in Has(v) \union {None} /\ worker[v].launch.to \in Has(v) \union {None}
           /\ Kept(v) \subseteq Held(v) /\ Held(v) \subseteq Has(v) /\ Has(v) \subseteq Devices
  BY HeldTypes, IdleFacts DEF Worker
<1>4. Distinct(worker[w].held)
  BY DEF Devs, Placed
<1>5. /\ Kept(w)' = Kept(w) \union {t} /\ Distinct(worker'[w].held)
      /\ Held(w)' = Kept(w) \union {t} /\ Has(w)' = Kept(w) \union {t}
  <2>1. ToSet(worker'[w].held) = Kept(w) \union {t} /\ Distinct(worker'[w].held)
    BY <1>2, <1>3, <1>4, AppendFacts DEF Kept
  <2> QED
    BY <1>3, <2>1 DEF Kept, Held, Has
<1>6. \A v \in Workers : v # w =>
        worker'[v] = worker[v] /\ Kept(v)' = Kept(v) /\ Held(v)' = Held(v) /\ Has(v)' = Has(v)
  BY OthersKeep
<1>7. Workers' = Workers /\ \A x \in Devices \union {None} : PoolOf(x)' = PoolOf(x)
  BY <1>1, PlanStays
<1>8. \A q \in Pools : Free(q)' = Free(q) /\ free'[q] = free[q]
  BY <1>1 DEF Free
<1>9. /\ \A q \in Pools : Free(q) \subseteq Devices
      /\ warm \subseteq Devices /\ plan.spares \subseteq Devices /\ "xcuitest" \in Pools
  BY HeldTypes, PoolAssumption DEF Typed, PoolTypeOK, Pools
<1> HIDE DEF t
<1>10. Placed'
  <2>1. \A q \in Pools : Distinct(free'[q]) /\ \A x \in Free(q)' : PoolOf(x)' = q
    BY <1>7, <1>8, <1>9 DEF Devs, Placed
  <2>2. \A v \in Workers :
          /\ Distinct(worker'[v].held) /\ worker'[v].dev \notin Kept(v)' /\ worker'[v].launch.to \notin Kept(v)'
          /\ \A u, x \in Devices : worker'[v].launch.to = u /\ worker'[v].dev = x => PoolOf(u)' = PoolOf(x)'
    <3>1. \A v \in Workers :
            /\ Distinct(worker[v].held) /\ worker[v].dev \notin Kept(v) /\ worker[v].launch.to \notin Kept(v)
            /\ \A u, x \in Devices : worker[v].launch.to = u /\ worker[v].dev = x => PoolOf(u) = PoolOf(x)
      BY DEF Devs, Placed
    <3>2. ASSUME NEW v \in Workers, v # w
          PROVE  /\ Distinct(worker'[v].held) /\ worker'[v].dev \notin Kept(v)' /\ worker'[v].launch.to \notin Kept(v)'
                 /\ \A u, x \in Devices : worker'[v].launch.to = u /\ worker'[v].dev = x => PoolOf(u)' = PoolOf(x)'
      BY <1>6, <1>7, <3>1, <3>2
    <3>3. /\ Distinct(worker'[w].held) /\ worker'[w].dev \notin Kept(w)' /\ worker'[w].launch.to \notin Kept(w)'
          /\ \A u, x \in Devices : worker'[w].launch.to = u /\ worker'[w].dev = x => PoolOf(u)' = PoolOf(x)'
      <4>1. Kept(w)' \subseteq Devices
        BY <1>3, <1>5 DEF t
      <4> QED
        BY <1>3, <1>5, <4>1
    <3> QED
      BY <3>2, <3>3
  <2>3. \A v \in Workers, q \in Pools : Has(v)' \intersect Free(q)' = {}
    <3>1. \A v \in Workers, q \in Pools : Has(v) \intersect Free(q) = {}
      BY DEF Devs, Placed
    <3> QED
      BY <1>2, <1>3, <1>5, <1>6, <1>8, <3>1
  <2>4. \A v, u \in Workers : v # u => Has(v)' \intersect Has(u)' = {}
    <3>1. \A v, u \in Workers : v # u => Has(v) \intersect Has(u) = {}
      BY DEF Devs, Placed
    <3> QED
      BY <1>2, <1>3, <1>5, <1>6, <3>1
  <2> QED
    BY <1>7, <2>1, <2>2, <2>3, <2>4 DEF Placed, Distinct
<1>11. Gone'
  <2>1. ASSUME NEW x \in Devices, heir'[x] # None
        PROVE  /\ heir'[x] # x /\ \A q \in Pools : x \notin Free(q)'
               /\ \A v \in Workers :
                    /\ x \notin Kept(v)' /\ worker'[v].launch.to # x
                    /\ worker'[v].dev = x => worker'[v].launch.to = heir'[x]
    <3>1. CASE x = d
      <4>1. t # d
        BY <1>2, <2>1, <3>1
      <4>2. \A v \in Workers : v # w => x \notin Kept(v) /\ worker[v].launch.to # x /\ worker[v].dev # x
        BY <1>2, <1>3, <3>1
      <4> QED
        BY <1>2, <1>3, <1>5, <1>6, <1>8, <3>1, <4>1, <4>2
    <3>2. CASE x # d
      <4>1. heir[x] # None /\ heir'[x] = heir[x] /\ x # t
        BY <1>2, <2>1, <3>2
      <4>2. /\ heir[x] # x /\ \A q \in Pools : x \notin Free(q)
            /\ \A v \in Workers :
                 /\ x \notin Kept(v) /\ worker[v].launch.to # x
                 /\ worker[v].dev = x => worker[v].launch.to = heir[x]
        BY <4>1 DEF Devs, Gone
      <4> QED
        BY <1>3, <1>5, <1>6, <1>8, <4>1, <4>2
    <3> QED
      BY <3>1, <3>2
  <2> QED
    BY <1>7, <2>1 DEF Gone
<1>12. Untouched'
  <2>1. ASSUME NEW e \in plan.spares, \A x \in Devices : heir'[x] # e
        PROVE  /\ e \notin warm' /\ env'[e].runner # "alive" /\ heir'[e] = None
               /\ \A q \in Pools : e \notin Free(q)'
               /\ \A v \in Workers : e \notin Has(v)'
    <3>1. e # t /\ e # d /\ (\A x \in Devices : heir[x] # e) /\ e \in Devices
      BY <1>2, <1>9, <2>1
    <3>2. /\ e \notin warm /\ env[e].runner # "alive" /\ heir[e] = None
          /\ \A q \in Pools : e \notin Free(q)
          /\ \A v \in Workers : e \notin Has(v)
      BY <3>1 DEF Devs, Untouched
    <3>3. e \notin Kept(w) /\ e \notin warm'
      BY <1>1, <1>3, <3>1, <3>2 DEF t
    <3> QED
      BY <1>2, <1>5, <1>6, <1>8, <3>1, <3>2, <3>3
  <2> QED
    BY <1>1, <1>7, <2>1 DEF Untouched
<1>13. WarmPlaced'
  <2>1. /\ \A x \in warm : PoolOf(x) = "xcuitest" /\ (x \in Free("xcuitest") \/ \E v \in Workers : x \in Held(v))
        /\ \A v \in Workers : \A x \in Kept(v) : PoolOf(x) = "xcuitest" => x \in warm
    BY DEF Devs, WarmPlaced
  <2>2. t \in Devices /\ t \in Held(w)' /\ (PoolOf(d) = "xcuitest" => t \in warm')
    BY <1>1, <1>2, <1>5, <1>9 DEF t
  <2>3. ASSUME NEW x \in warm'
        PROVE  PoolOf(x) = "xcuitest" /\ x \in Devices /\ (x \in Free("xcuitest")' \/ \E v \in Workers : x \in Held(v)')
    <3>1. CASE x = t /\ PoolOf(d) = "xcuitest"
      BY <1>2, <2>2, <3>1
    <3>2. CASE x \in warm /\ x # d
      <4>1. \A v \in Workers : x \in Held(v) => x \in Held(v)'
        BY <1>3, <1>5, <1>6, <3>2
      <4> QED
        BY <1>8, <1>9, <2>1, <3>2, <4>1
    <3> QED
      BY <1>1, <2>3, <3>1, <3>2 DEF t
  <2>4. ASSUME NEW v \in Workers, NEW x \in Kept(v)', PoolOf(x) = "xcuitest" PROVE x \in warm' /\ x \in Devices
    <3>1. CASE x = t
      BY <1>2, <2>2, <2>4, <3>1
    <3>2. CASE x # t
      <4>1. x \in Kept(v) /\ x # d /\ x \in Devices
        BY <1>2, <1>3, <1>5, <1>6, <2>4, <3>2
      <4> QED
        BY <1>1, <2>1, <2>4, <4>1
    <3> QED
      BY <3>1, <3>2
  <2>5. \A v \in Workers : \A x \in Kept(v)' : x \in Devices
    BY <1>3, <1>5, <1>6, <2>2
  <2> QED
    BY <1>7, <2>3, <2>4, <2>5 DEF WarmPlaced
<1>14. Runners'
  <2>1. \A x \in Devices : env[x].runner = "alive" =>
          x \in warm \/ \E v \in Workers : x \in Kept(v) \/ x = worker[v].launch.to
    BY DEF Devs, Runners
  <2>2. ASSUME NEW x \in Devices, env'[x].runner = "alive"
        PROVE  x \in warm' \/ \E v \in Workers : x \in Kept(v)' \/ x = worker'[v].launch.to
    <3>1. CASE x = t
      BY <1>5, <3>1
    <3>2. CASE x # t
      <4>1. x # d /\ env[x].runner = "alive"
        BY <1>2, <2>2, <3>2
      <4>2. x \in warm => x \in warm'
        BY <1>1, <4>1
      <4>3. \A v \in Workers : x \in Kept(v) \/ x = worker[v].launch.to => x \in Kept(v)' \/ x = worker'[v].launch.to
        BY <1>3, <1>5, <1>6
      <4> QED
        BY <2>1, <4>1, <4>2, <4>3
    <3> QED
      BY <3>1, <3>2
  <2>3. ASSUME NEW v \in Workers, worker'[v].launch.to # None
        PROVE  /\ env'[worker'[v].launch.to].runner = "alive" =>
                    worker'[v].launch.back \/ (worker'[v].launch.to = worker'[v].dev /\ worker'[v].dev \in warm')
               /\ worker'[v].launch.to # worker'[v].dev => env'[worker'[v].dev].runner # "alive"
    <3>1. v # w /\ worker'[v] = worker[v] /\ worker[v].launch.to # None
      BY <1>3, <1>6, <2>3
    <3>2. worker[v].dev # None
      BY <3>1, LaunchingFacts
    <3>3. worker[v].dev \in Has(v) /\ worker[v].launch.to \in Has(v) /\ t \notin Has(v) /\ d \notin Has(v) /\ Has(v) \subseteq Devices
      BY <1>2, <1>3, <3>1, <3>2
    <3>4. /\ env'[worker[v].launch.to] = env[worker[v].launch.to] /\ env'[worker[v].dev] = env[worker[v].dev]
          /\ worker[v].dev \in warm => worker[v].dev \in warm'
      BY <1>1, <1>2, <3>3
    <3>5. /\ env[worker[v].launch.to].runner = "alive" =>
               worker[v].launch.back \/ (worker[v].launch.to = worker[v].dev /\ worker[v].dev \in warm)
          /\ worker[v].launch.to # worker[v].dev => env[worker[v].dev].runner # "alive"
      BY <3>1 DEF Devs, Runners
    <3> QED
      BY <3>1, <3>4, <3>5
  <2> QED
    BY <1>7, <2>2, <2>3 DEF Runners
<1>15. Conserved'
  <2>1. \A q \in Pools : IsFiniteSet(Out(q)) /\ Cardinality(Out(q)) \in Nat
    BY FS_CardinalityType DEF Devs, Conserved
  <2>2. \A q \in Pools : IsFiniteSet(Out(q)') /\ Cardinality(Out(q)') = Cardinality(Out(q))
    <3>1. d \in Held(w) /\ \A v \in Workers \ {w} : Held(v)' = Held(v)
      BY <1>3, <1>6
    <3>2. CASE t = d
      <4>1. Workers' = Workers /\ \A v \in Workers : Held(v)' = Held(v)
        BY <1>3, <1>5, <1>6, <1>7, <3>2
      <4>2. \A q \in Pools : Out(q)' = Out(q)
        BY <1>7, <4>1 DEF Out
      <4> QED
        BY <2>1, <4>2
    <3>3. CASE t # d
      <4>1. t \notin Held(w) /\ Held(w)' = (Held(w) \ {d}) \union {t} /\ t \in Devices
        BY <1>2, <1>3, <1>5, <3>3 DEF t
      <4> QED
        BY <1>1, <1>2, <2>1, <3>1, <4>1, OutSwaps
    <3> QED
      BY <3>2, <3>3
  <2> QED
    BY <1>1, <1>8, <2>2 DEF Devs, Conserved
<1> QED
  BY <1>10, <1>11, <1>12, <1>13, <1>14, <1>15 DEF Devs

\* A launch that raised.
LEMMA RaisedKeeps ==
  ASSUME Typed, Shaped, Devs, NEW w \in Workers, NEW d \in Devices, worker[w].dev = d, worker[w].launch = NoLaunch,
         NEW l \in Start(PoolOf(d), d, Erases(w)), l \in LaunchRec, l.to \in Devices, LaunchRaised(d, l),
         Alone(w), worker'[w].held = worker[w].held, worker'[w].dev = worker[w].dev,
         worker'[w].launch = l
  PROVE  Devs'
<1> DEFINE t == l.to
<1>1. AfterStart(d, l) /\ UNCHANGED <<plan, free, warm>>
  BY DEF LaunchRaised
<1>2. /\ PoolOf(t) = PoolOf(d) /\ heir[d] = None /\ heir[t] = None
      /\ t \notin Kept(w) /\ d \notin Kept(w)
      /\ \A q \in Pools : t \notin Free(q) /\ d \notin Free(q)
      /\ \A v \in Workers : v # w => t \notin Has(v) /\ d \notin Has(v)
      /\ \A x \in Devices : x # d => heir'[x] = heir[x]
      /\ \A x \in Devices : x # d /\ x # t => env'[x] = env[x]
      /\ env'[t].runner = l.runner
      /\ t # d => heir'[d] = t /\ env'[d].runner = "none"
      /\ t = d => heir' = heir
      /\ \A e \in plan.spares : (\A x \in Devices : heir'[x] # e) =>
           e # t /\ e # d /\ \A x \in Devices : heir[x] # e
      /\ l.runner = "alive" => l.back \/ (t = d /\ d \in warm)
  BY <1>1, TargetFacts
<1>3. /\ None \notin Devices /\ worker[w].launch.to = None /\ worker'[w].launch.to = t /\ t \in Devices
      /\ Held(w) = Kept(w) \union {d} /\ Has(w) = Kept(w) \union {d}
      /\ \A v \in Workers :
           /\ worker[v].dev \in Has(v) \union {None} /\ worker[v].launch.to \in Has(v) \union {None}
           /\ Kept(v) \subseteq Held(v) /\ Held(v) \subseteq Has(v) /\ Has(v) \subseteq Devices
  BY HeldTypes, IdleFacts DEF Worker
<1>5. Kept(w)' = Kept(w) /\ Held(w)' = Held(w) /\ Has(w)' = Has(w) \union {t}
  BY <1>3 DEF Kept, Held, Has
<1>6. \A v \in Workers : v # w =>
        worker'[v] = worker[v] /\ Kept(v)' = Kept(v) /\ Held(v)' = Held(v) /\ Has(v)' = Has(v)
  BY OthersKeep
<1>7. Workers' = Workers /\ \A x \in Devices \union {None} : PoolOf(x)' = PoolOf(x)
  BY <1>1, PlanStays
<1>8. \A q \in Pools : Free(q)' = Free(q) /\ free'[q] = free[q]
  BY <1>1 DEF Free
<1>9. /\ \A q \in Pools : Free(q) \subseteq Devices
      /\ warm \subseteq Devices /\ plan.spares \subseteq Devices /\ "xcuitest" \in Pools
  BY HeldTypes, PoolAssumption DEF Typed, PoolTypeOK, Pools
<1>16. \A v \in Workers : Kept(v)' = Kept(v) /\ Held(v)' = Held(v) /\ worker'[v].held = worker[v].held /\ worker'[v].dev = worker[v].dev
  BY <1>5, <1>6
<1> HIDE DEF t
<1>10. Placed'
  <2>1. \A q \in Pools : Distinct(free'[q]) /\ \A x \in Free(q)' : PoolOf(x)' = q
    BY <1>7, <1>8, <1>9 DEF Devs, Placed
  <2>2. \A v \in Workers :
          /\ Distinct(worker'[v].held) /\ worker'[v].dev \notin Kept(v)' /\ worker'[v].launch.to \notin Kept(v)'
          /\ \A u, x \in Devices : worker'[v].launch.to = u /\ worker'[v].dev = x => PoolOf(u)' = PoolOf(x)'
    <3>1. \A v \in Workers :
            /\ Distinct(worker[v].held) /\ worker[v].dev \notin Kept(v) /\ worker[v].launch.to \notin Kept(v)
            /\ \A u, x \in Devices : worker[v].launch.to = u /\ worker[v].dev = x => PoolOf(u) = PoolOf(x)
      BY DEF Devs, Placed
    <3>2. ASSUME NEW v \in Workers, v # w
          PROVE  /\ Distinct(worker'[v].held) /\ worker'[v].dev \notin Kept(v)' /\ worker'[v].launch.to \notin Kept(v)'
                 /\ \A u, x \in Devices : worker'[v].launch.to = u /\ worker'[v].dev = x => PoolOf(u)' = PoolOf(x)'
      BY <1>6, <1>7, <3>1, <3>2
    <3>3. /\ Distinct(worker'[w].held) /\ worker'[w].dev \notin Kept(w)' /\ worker'[w].launch.to \notin Kept(w)'
          /\ \A u, x \in Devices : worker'[w].launch.to = u /\ worker'[w].dev = x => PoolOf(u)' = PoolOf(x)'
      BY <1>2, <1>3, <1>5, <1>7, <3>1
    <3> QED
      BY <3>2, <3>3
  <2>3. \A v \in Workers, q \in Pools : Has(v)' \intersect Free(q)' = {}
    <3>1. \A v \in Workers, q \in Pools : Has(v) \intersect Free(q) = {}
      BY DEF Devs, Placed
    <3> QED
      BY <1>2, <1>5, <1>6, <1>8, <3>1
  <2>4. \A v, u \in Workers : v # u => Has(v)' \intersect Has(u)' = {}
    <3>1. \A v, u \in Workers : v # u => Has(v) \intersect Has(u) = {}
      BY DEF Devs, Placed
    <3> QED
      BY <1>2, <1>5, <1>6, <3>1
  <2> QED
    BY <1>7, <2>1, <2>2, <2>3, <2>4 DEF Placed, Distinct
<1>11. Gone'
  <2>1. ASSUME NEW x \in Devices, heir'[x] # None
        PROVE  /\ heir'[x] # x /\ \A q \in Pools : x \notin Free(q)'
               /\ \A v \in Workers :
                    /\ x \notin Kept(v)' /\ worker'[v].launch.to # x
                    /\ worker'[v].dev = x => worker'[v].launch.to = heir'[x]
    <3>1. CASE x = d
      <4>1. t # d
        BY <1>2, <2>1, <3>1
      <4>2. \A v \in Workers : v # w => x \notin Kept(v) /\ worker[v].launch.to # x /\ worker[v].dev # x
        BY <1>2, <1>3, <3>1
      <4> QED
        BY <1>2, <1>3, <1>5, <1>6, <1>8, <3>1, <4>1, <4>2
    <3>2. CASE x # d
      <4>1. heir[x] # None /\ heir'[x] = heir[x] /\ x # t
        BY <1>2, <2>1, <3>2
      <4>2. /\ heir[x] # x /\ \A q \in Pools : x \notin Free(q)
            /\ \A v \in Workers :
                 /\ x \notin Kept(v) /\ worker[v].launch.to # x
                 /\ worker[v].dev = x => worker[v].launch.to = heir[x]
        BY <4>1 DEF Devs, Gone
      <4> QED
        BY <1>3, <1>5, <1>6, <1>8, <3>2, <4>1, <4>2
    <3> QED
      BY <3>1, <3>2
  <2> QED
    BY <1>7, <2>1 DEF Gone
<1>12. Untouched'
  <2>1. ASSUME NEW e \in plan.spares, \A x \in Devices : heir'[x] # e
        PROVE  /\ e \notin warm' /\ env'[e].runner # "alive" /\ heir'[e] = None
               /\ \A q \in Pools : e \notin Free(q)'
               /\ \A v \in Workers : e \notin Has(v)'
    <3>1. e # t /\ e # d /\ (\A x \in Devices : heir[x] # e) /\ e \in Devices
      BY <1>2, <1>9, <2>1
    <3>2. /\ e \notin warm /\ env[e].runner # "alive" /\ heir[e] = None
          /\ \A q \in Pools : e \notin Free(q)
          /\ \A v \in Workers : e \notin Has(v)
      BY <3>1 DEF Devs, Untouched
    <3> QED
      BY <1>1, <1>2, <1>5, <1>6, <1>8, <3>1, <3>2
  <2> QED
    BY <1>1, <1>7, <2>1 DEF Untouched
<1>13. WarmPlaced'
  <2>1. /\ \A x \in warm : PoolOf(x) = "xcuitest" /\ (x \in Free("xcuitest") \/ \E v \in Workers : x \in Held(v))
        /\ \A v \in Workers : \A x \in Kept(v) : PoolOf(x) = "xcuitest" => x \in warm
    BY DEF Devs, WarmPlaced
  <2>2. \A v \in Workers : \A x \in Kept(v) : x \in Devices
    BY <1>3
  <2> QED
    BY <1>1, <1>7, <1>8, <1>9, <1>16, <2>1, <2>2 DEF WarmPlaced
<1>14. Runners'
  <2>1. \A x \in Devices : env[x].runner = "alive" =>
          x \in warm \/ \E v \in Workers : x \in Kept(v) \/ x = worker[v].launch.to
    BY DEF Devs, Runners
  <2>2. ASSUME NEW x \in Devices, env'[x].runner = "alive"
        PROVE  x \in warm' \/ \E v \in Workers : x \in Kept(v)' \/ x = worker'[v].launch.to
    <3>1. CASE x = t
      BY <1>3, <3>1
    <3>2. CASE x # t
      <4>1. x # d /\ env[x].runner = "alive"
        BY <1>2, <2>2, <3>2
      <4>2. \A v \in Workers : x \in Kept(v) \/ x = worker[v].launch.to => x \in Kept(v)' \/ x = worker'[v].launch.to
        BY <1>3, <1>6, <1>16
      <4> QED
        BY <1>1, <2>1, <4>1, <4>2
    <3> QED
      BY <3>1, <3>2
  <2>3. ASSUME NEW v \in Workers, v # w, worker'[v].launch.to # None
        PROVE  /\ env'[worker'[v].launch.to].runner = "alive" =>
                    worker'[v].launch.back \/ (worker'[v].launch.to = worker'[v].dev /\ worker'[v].dev \in warm')
               /\ worker'[v].launch.to # worker'[v].dev => env'[worker'[v].dev].runner # "alive"
    <3>1. worker'[v] = worker[v] /\ worker[v].launch.to # None
      BY <1>6, <2>3
    <3>2. worker[v].dev # None
      BY <3>1, LaunchingFacts
    <3>3. worker[v].dev \in Has(v) /\ worker[v].launch.to \in Has(v) /\ t \notin Has(v) /\ d \notin Has(v) /\ Has(v) \subseteq Devices
      BY <1>2, <1>3, <2>3, <3>1, <3>2
    <3>4. env'[worker[v].launch.to] = env[worker[v].launch.to] /\ env'[worker[v].dev] = env[worker[v].dev]
      BY <1>2, <3>3
    <3>5. /\ env[worker[v].launch.to].runner = "alive" =>
               worker[v].launch.back \/ (worker[v].launch.to = worker[v].dev /\ worker[v].dev \in warm)
          /\ worker[v].launch.to # worker[v].dev => env[worker[v].dev].runner # "alive"
      BY <3>1 DEF Devs, Runners
    <3> QED
      BY <1>1, <3>1, <3>4, <3>5
  <2>4. /\ env'[t].runner = "alive" => l.back \/ (t = d /\ d \in warm')
        /\ t # d => env'[d].runner # "alive"
    BY <1>1, <1>2
  <2>5. ASSUME NEW v \in Workers, worker'[v].launch.to # None
        PROVE  /\ env'[worker'[v].launch.to].runner = "alive" =>
                    worker'[v].launch.back \/ (worker'[v].launch.to = worker'[v].dev /\ worker'[v].dev \in warm')
               /\ worker'[v].launch.to # worker'[v].dev => env'[worker'[v].dev].runner # "alive"
    <3>1. CASE v = w
      <4>1. worker'[w].launch = l /\ worker'[w].launch.to = t /\ worker'[w].dev = d
        BY <1>3
      <4> QED
        BY <2>4, <3>1, <4>1
    <3> QED
      BY <2>3, <2>5, <3>1
  <2> QED
    BY <1>7, <2>2, <2>5 DEF Runners
<1>15. Conserved'
  <2>1. \A q \in Pools : Out(q)' = Out(q)
    BY <1>7, <1>16 DEF Out
  <2> QED
    BY <1>1, <1>8, <2>1 DEF Devs, Conserved
<1> QED
  BY <1>10, <1>11, <1>12, <1>13, <1>14, <1>15 DEF Devs

\* The lease that failed gives its device back, or the one that took its place.
LEMMA BackKeeps ==
  ASSUME Typed, Shaped, Devs, NEW w \in Workers, FailedLease(w)
  PROVE  Devs'
<1>0. PICK d \in Devices, l \in LaunchRec, p \in Pools :
        /\ d = worker[w].dev /\ l = worker[w].launch /\ p = PoolOf(d) /\ l.to \in Devices /\ PutBack(p, d, l)
        /\ Alone(w) /\ worker'[w].dev = None /\ worker'[w].launch = NoLaunch /\ worker'[w].held = worker[w].held
  BY FailedLeaseEffect, PoolFacts DEF Typed
<1> DEFINE t == l.to
<1>1. /\ t \in Devices /\ PutBack(p, d, l) /\ worker[w].dev = d /\ worker[w].launch = l /\ PoolOf(d) = p
      /\ Alone(w) /\ worker'[w].dev = None /\ worker'[w].launch = NoLaunch /\ worker'[w].held = worker[w].held
  BY <1>0
<1>2. /\ env' = IF d \in warm \/ l.back THEN [env EXCEPT ![t] = Blank] ELSE env
      /\ warm' = warm \ {d} /\ free' = [free EXCEPT ![p] = Append(free[p], t)]
      /\ UNCHANGED <<plan, heir>>
  BY <1>1 DEF PutBack
<1>3. /\ None \notin Devices /\ worker'[w].launch.to = None
      /\ Held(w) = Kept(w) \union {d} /\ Has(w) = Kept(w) \union {d, t}
      /\ \A v \in Workers :
           /\ worker[v].dev \in Has(v) \union {None} /\ worker[v].launch.to \in Has(v) \union {None}
           /\ Kept(v) \subseteq Held(v) /\ Held(v) \subseteq Has(v) /\ Has(v) \subseteq Devices
  BY <1>1, HeldTypes, IdleFacts
<1>4. Kept(w)' = Kept(w) /\ Held(w)' = Kept(w) /\ Has(w)' = Kept(w)
  BY <1>1, <1>3 DEF Kept, Held, Has
<1>5. \A v \in Workers : v # w =>
        worker'[v] = worker[v] /\ Kept(v)' = Kept(v) /\ Held(v)' = Held(v) /\ Has(v)' = Has(v)
  BY <1>1, OthersKeep
<1>6. Workers' = Workers /\ \A x \in Devices \union {None} : PoolOf(x)' = PoolOf(x)
  BY <1>2, PlanStays
<1>7. /\ PoolOf(t) = p /\ d \notin Kept(w) /\ t \notin Kept(w) /\ p \in Pools
      /\ \A q \in Pools : t \notin Free(q) /\ d \notin Free(q)
      /\ \A v \in Workers : v # w => t \notin Has(v) /\ d \notin Has(v)
  <2>1. p \in Pools
    BY <1>0
  <2>2. PoolOf(t) = PoolOf(d) /\ d \notin Kept(w) /\ t \notin Kept(w)
    BY <1>1 DEF Devs, Placed
  <2>3. \A q \in Pools : t \notin Free(q) /\ d \notin Free(q)
    BY <1>3 DEF Devs, Placed
  <2>4. \A v \in Workers : v # w => t \notin Has(v) /\ d \notin Has(v)
    BY <1>3 DEF Devs, Placed
  <2> QED
    BY <1>1, <2>1, <2>2, <2>3, <2>4
<1>8. /\ Free(p)' = Free(p) \union {t} /\ Distinct(free'[p])
      /\ Len(free[p]) \in Nat /\ Len(free'[p]) = Len(free[p]) + 1
      /\ \A q \in Pools : q # p => Free(q)' = Free(q) /\ free'[q] = free[q]
  <2>1. Distinct(free[p]) /\ t \notin Free(p) /\ free[p] \in Seq(Devices) /\ free \in [Pools -> Seq(Devices)]
    BY <1>7 DEF Devs, Placed, Typed, PoolTypeOK
  <2>2. free'[p] = Append(free[p], t) /\ \A q \in Pools : q # p => free'[q] = free[q]
    BY <1>2, <1>7, <2>1
  <2>3. Len(free[p]) \in Nat /\ t \in Devices
    BY <1>1, <2>1
  <2> HIDE DEF t
  <2>4. /\ ToSet(Append(free[p], t)) = ToSet(free[p]) \union {t} /\ Len(Append(free[p], t)) = Len(free[p]) + 1
        /\ Distinct(Append(free[p], t))
    BY <2>1, <2>3, AppendFacts DEF Free
  <2> QED
    BY <2>2, <2>3, <2>4 DEF Free
<1>9. /\ \A q \in Pools : Free(q) \subseteq Devices
      /\ warm \subseteq Devices /\ plan.spares \subseteq Devices /\ "xcuitest" \in Pools
  BY HeldTypes, PoolAssumption DEF Typed, PoolTypeOK, Pools
<1>17. /\ \A q \in Pools : \A x : x \in Free(q)' => x \in Free(q) \/ (q = p /\ x = t)
       /\ \A q \in Pools : \A x : x \in Free(q) => x \in Free(q)'
  BY <1>8
<1>16. \A x \in Devices : env'[x].runner = "alive" => x # t /\ x # d /\ env[x].runner = "alive"
  <2>1. env \in [Devices -> [runner : {"none", "alive", "dead"}, asked : Nat]]
    BY DEF Typed, PoolTypeOK
  <2>2. /\ env[t].runner = "alive" => l.back \/ (t = d /\ d \in warm)
        /\ t # d => env[d].runner # "alive"
    BY <1>1, <1>3 DEF Devs, Runners
  <2>3. env'[t].runner # "alive"
    BY <1>1, <1>2, <2>1, <2>2 DEF Blank
  <2>4. \A x \in Devices : x # t => env'[x] = env[x]
    BY <1>2, <2>1
  <2> QED
    BY <1>1, <2>2, <2>3, <2>4
<1> HIDE DEF t
<1>10. Placed'
  <2>1. \A q \in Pools : Distinct(free'[q]) /\ \A x \in Free(q)' : PoolOf(x)' = q
    <3>1. \A q \in Pools : Distinct(free[q]) /\ \A x \in Free(q) : PoolOf(x) = q
      BY DEF Devs, Placed
    <3>2. \A q \in Pools : Distinct(free'[q])
      BY <1>8, <3>1
    <3>3. ASSUME NEW q \in Pools, NEW x \in Free(q)' PROVE PoolOf(x)' = q
      BY <1>1, <1>6, <1>7, <1>9, <1>17, <3>1
    <3> QED
      BY <3>2, <3>3
  <2>2. \A v \in Workers :
          /\ Distinct(worker'[v].held) /\ worker'[v].dev \notin Kept(v)' /\ worker'[v].launch.to \notin Kept(v)'
          /\ \A u, x \in Devices : worker'[v].launch.to = u /\ worker'[v].dev = x => PoolOf(u)' = PoolOf(x)'
    <3>1. \A v \in Workers :
            /\ Distinct(worker[v].held) /\ worker[v].dev \notin Kept(v) /\ worker[v].launch.to \notin Kept(v)
            /\ \A u, x \in Devices : worker[v].launch.to = u /\ worker[v].dev = x => PoolOf(u) = PoolOf(x)
      BY DEF Devs, Placed
    <3>2. ASSUME NEW v \in Workers, v # w
          PROVE  /\ Distinct(worker'[v].held) /\ worker'[v].dev \notin Kept(v)' /\ worker'[v].launch.to \notin Kept(v)'
                 /\ \A u, x \in Devices : worker'[v].launch.to = u /\ worker'[v].dev = x => PoolOf(u)' = PoolOf(x)'
      BY <1>5, <1>6, <3>1, <3>2
    <3>3. /\ Distinct(worker'[w].held) /\ worker'[w].dev \notin Kept(w)' /\ worker'[w].launch.to \notin Kept(w)'
          /\ \A u, x \in Devices : worker'[w].launch.to = u /\ worker'[w].dev = x => PoolOf(u)' = PoolOf(x)'
      BY <1>1, <1>3, <1>4, <3>1
    <3> QED
      BY <3>2, <3>3
  <2>3. \A v \in Workers, q \in Pools : Has(v)' \intersect Free(q)' = {}
    <3>1. \A v \in Workers, q \in Pools : Has(v) \intersect Free(q) = {}
      BY DEF Devs, Placed
    <3> QED
      BY <1>3, <1>4, <1>5, <1>7, <1>17, <3>1
  <2>4. \A v, u \in Workers : v # u => Has(v)' \intersect Has(u)' = {}
    <3>1. \A v, u \in Workers : v # u => Has(v) \intersect Has(u) = {}
      BY DEF Devs, Placed
    <3> QED
      BY <1>3, <1>4, <1>5, <3>1
  <2> QED
    BY <1>6, <2>1, <2>2, <2>3, <2>4 DEF Placed, Distinct
<1>11. Gone'
  <2>1. ASSUME NEW x \in Devices, heir'[x] # None
        PROVE  /\ heir'[x] # x /\ \A q \in Pools : x \notin Free(q)'
               /\ \A v \in Workers :
                    /\ x \notin Kept(v)' /\ worker'[v].launch.to # x
                    /\ worker'[v].dev = x => worker'[v].launch.to = heir'[x]
    <3>1. /\ heir'[x] = heir[x] /\ heir[x] # x /\ \A q \in Pools : x \notin Free(q)
          /\ \A v \in Workers :
               /\ x \notin Kept(v) /\ worker[v].launch.to # x
               /\ worker[v].dev = x => worker[v].launch.to = heir[x]
      BY <1>2, <2>1 DEF Devs, Gone
    <3>2. x # t
      BY <1>1, <3>1 DEF t
    <3> QED
      BY <1>1, <1>3, <1>4, <1>5, <1>17, <3>1, <3>2
  <2> QED
    BY <1>6, <2>1 DEF Gone
<1>12. Untouched'
  <2>1. ASSUME NEW e \in plan.spares, \A x \in Devices : heir[x] # e
        PROVE  /\ e \notin warm' /\ env'[e].runner # "alive" /\ heir'[e] = None
               /\ \A q \in Pools : e \notin Free(q)'
               /\ \A v \in Workers : e \notin Has(v)'
    <3>1. /\ e \notin warm /\ env[e].runner # "alive" /\ heir[e] = None
          /\ \A q \in Pools : e \notin Free(q)
          /\ \A v \in Workers : e \notin Has(v)
      BY <2>1 DEF Devs, Untouched
    <3>2. e # t /\ e \in Devices
      BY <1>3, <1>9, <3>1
    <3> QED
      BY <1>2, <1>3, <1>4, <1>5, <1>16, <1>17, <3>1, <3>2
  <2> QED
    BY <1>2, <1>6, <2>1 DEF Untouched
<1>13. WarmPlaced'
  <2>1. /\ \A x \in warm : PoolOf(x) = "xcuitest" /\ (x \in Free("xcuitest") \/ \E v \in Workers : x \in Held(v))
        /\ \A v \in Workers : \A x \in Kept(v) : PoolOf(x) = "xcuitest" => x \in warm
    BY DEF Devs, WarmPlaced
  <2>2. ASSUME NEW x \in warm'
        PROVE  PoolOf(x)' = "xcuitest" /\ (x \in Free("xcuitest")' \/ \E v \in Workers : x \in Held(v)')
    <3>1. x \in warm /\ x # d /\ x \in Devices
      BY <1>2, <1>9
    <3>2. \A v \in Workers : x \in Held(v) => x \in Held(v)'
      BY <1>3, <1>4, <1>5, <3>1
    <3>3. x \in Free("xcuitest") => x \in Free("xcuitest")'
      BY <1>9, <1>17
    <3> QED
      BY <1>6, <2>1, <3>1, <3>2, <3>3
  <2>3. ASSUME NEW v \in Workers, NEW x \in Kept(v)', PoolOf(x)' = "xcuitest" PROVE x \in warm'
    <3>1. x \in Kept(v) /\ x \in Devices
      BY <1>3, <1>4, <1>5
    <3>2. x # d
      BY <1>3, <1>7, <3>1
    <3> QED
      BY <1>2, <1>6, <2>1, <2>3, <3>1, <3>2
  <2> QED
    BY <1>6, <2>2, <2>3 DEF WarmPlaced
<1>14. Runners'
  <2>1. \A x \in Devices : env[x].runner = "alive" =>
          x \in warm \/ \E v \in Workers : x \in Kept(v) \/ x = worker[v].launch.to
    BY DEF Devs, Runners
  <2>2. ASSUME NEW x \in Devices, env'[x].runner = "alive"
        PROVE  x \in warm' \/ \E v \in Workers : x \in Kept(v)' \/ x = worker'[v].launch.to
    <3>1. x # t /\ x # d /\ env[x].runner = "alive"
      BY <1>16, <2>2
    <3>2. \A v \in Workers : x \in Kept(v) \/ x = worker[v].launch.to => x \in Kept(v)' \/ x = worker'[v].launch.to
      BY <1>1, <1>4, <1>5, <3>1 DEF t
    <3> QED
      BY <1>2, <2>1, <3>1, <3>2
  <2>3. ASSUME NEW v \in Workers, worker'[v].launch.to # None
        PROVE  /\ env'[worker'[v].launch.to].runner = "alive" =>
                    worker'[v].launch.back \/ (worker'[v].launch.to = worker'[v].dev /\ worker'[v].dev \in warm')
               /\ worker'[v].launch.to # worker'[v].dev => env'[worker'[v].dev].runner # "alive"
    <3>1. v # w /\ worker'[v] = worker[v] /\ worker[v].launch.to # None
      BY <1>3, <1>5, <2>3
    <3>2. worker[v].dev # None
      BY <3>1, LaunchingFacts
    <3>3. worker[v].dev \in Devices /\ worker[v].launch.to \in Devices /\ worker[v].dev # d
      BY <1>3, <1>7, <3>1, <3>2
    <3>4. /\ env'[worker[v].launch.to].runner = "alive" => env[worker[v].launch.to].runner = "alive"
          /\ env'[worker[v].dev].runner = "alive" => env[worker[v].dev].runner = "alive"
          /\ worker[v].dev \in warm => worker[v].dev \in warm'
      BY <1>2, <1>16, <3>3
    <3>5. /\ env[worker[v].launch.to].runner = "alive" =>
               worker[v].launch.back \/ (worker[v].launch.to = worker[v].dev /\ worker[v].dev \in warm)
          /\ worker[v].launch.to # worker[v].dev => env[worker[v].dev].runner # "alive"
      BY <3>1 DEF Devs, Runners
    <3> QED
      BY <3>1, <3>4, <3>5
  <2> QED
    BY <1>6, <2>2, <2>3 DEF Runners
<1>15. Conserved'
  <2>1. \A q \in Pools : /\ IsFiniteSet(Out(q)) /\ Cardinality(Out(q)) \in Nat /\ Len(plan.lanes[q]) \in Nat
    BY FS_CardinalityType, PoolFacts DEF Devs, Conserved, Typed
  <2>2. \A q \in Pools : /\ IsFiniteSet(Out(q)')
                         /\ Cardinality(Out(q)') = IF q = PoolOf(d) THEN Cardinality(Out(q)) - 1 ELSE Cardinality(Out(q))
    <3>1. d \in Held(w) /\ Held(w)' = Held(w) \ {d} /\ \A v \in Workers \ {w} : Held(v)' = Held(v)
      BY <1>3, <1>4, <1>5, <1>7
    <3> QED
      BY <1>1, <1>2, <2>1, <3>1, OutLoses
  <2>3. ASSUME NEW q \in Pools PROVE Len(free'[q]) + Cardinality(Out(q)') = Len(plan.lanes[q])
    <3>1. Len(free[q]) + Cardinality(Out(q)) = Len(plan.lanes[q])
      BY DEF Devs, Conserved
    <3>2. CASE q = p
      BY <1>1, <1>8, <2>1, <2>2, <3>1, <3>2
    <3>3. CASE q # p
      BY <1>1, <1>8, <2>1, <2>2, <3>1, <3>3
    <3> QED
      BY <3>2, <3>3
  <2> QED
    BY <1>2, <2>2, <2>3 DEF Conserved
<1> QED
  BY <1>10, <1>11, <1>12, <1>13, <1>14, <1>15 DEF Devs

\* One device of a lease is released.
LEMMA ReleaseKeeps ==
  ASSUME Typed, Shaped, Devs, NEW w \in Workers, ReleaseNext(w)
  PROVE  Devs'
<1>0. PICK t \in Devices, end \in Ends, p \in Pools :
        /\ p = PoolOf(t) /\ Release(p, t, end) /\ t \in Kept(w)
        /\ worker[w].dev = None /\ worker[w].launch = NoLaunch
        /\ Alone(w) /\ worker'[w].dev = None /\ worker'[w].launch = NoLaunch
        /\ Distinct(worker'[w].held) /\ ToSet(worker'[w].held) = Kept(w) \ {t}
  <2>1. Placed
    BY DEF Devs
  <2> QED
    BY <2>1, ReleaseNextEffect, PoolFacts DEF Typed
<1>1. PoolOf(t) = p /\ Distinct(worker'[w].held)
  BY <1>0
<1>2. /\ env' = (IF p = "playwright" \/ end # "done" THEN [env EXCEPT ![t] = Blank] ELSE env)
      /\ warm' = (IF end = "done" THEN warm ELSE warm \ {t})
      /\ free' = [free EXCEPT ![p] = Append(free[p], t)]
      /\ UNCHANGED <<plan, heir>>
  BY <1>0 DEF Release
<1>3. /\ None \notin Devices /\ worker[w].launch.to = None /\ worker'[w].launch.to = None
      /\ Held(w) = Kept(w) /\ Has(w) = Kept(w) /\ t \in Has(w)
      /\ \A v \in Workers :
           /\ worker[v].dev \in Has(v) \union {None} /\ worker[v].launch.to \in Has(v) \union {None}
           /\ Kept(v) \subseteq Held(v) /\ Held(v) \subseteq Has(v) /\ Has(v) \subseteq Devices
  <2>1. worker[w].launch.to = None /\ worker'[w].launch.to = None
    BY <1>0, IdleFacts
  <2>2. /\ Held(w) = Kept(w) \union ({worker[w].dev} \ {None})
        /\ Has(w) = Held(w) \union ({worker[w].launch.to} \ {None})
    BY HeldTypes
  <2>3. Held(w) = Kept(w) /\ Has(w) = Kept(w)
    BY <1>0, <2>1, <2>2
  <2>4. \A v \in Workers :
           /\ worker[v].dev \in Has(v) \union {None} /\ worker[v].launch.to \in Has(v) \union {None}
           /\ Kept(v) \subseteq Held(v) /\ Held(v) \subseteq Has(v) /\ Has(v) \subseteq Devices
    BY HeldTypes
  <2> QED
    BY <1>0, <2>1, <2>3, <2>4, HeldTypes
<1>4. Kept(w)' = Kept(w) \ {t} /\ Held(w)' = Kept(w) \ {t} /\ Has(w)' = Kept(w) \ {t}
  <2>1. Kept(w)' = Kept(w) \ {t}
    BY <1>0 DEF Kept
  <2>2. Held(w)' = Kept(w)'
    BY <1>0 DEF Held, Kept
  <2>3. Has(w)' = Held(w)'
    BY <1>3 DEF Has
  <2> QED
    BY <2>1, <2>2, <2>3
<1>5. \A v \in Workers : v # w =>
        worker'[v] = worker[v] /\ Kept(v)' = Kept(v) /\ Held(v)' = Held(v) /\ Has(v)' = Has(v)
  BY <1>0, OthersKeep
<1>6. Workers' = Workers /\ \A x \in Devices \union {None} : PoolOf(x)' = PoolOf(x)
  BY <1>2, PlanStays
<1>7. /\ \A q \in Pools : t \notin Free(q)
      /\ \A v \in Workers : v # w => t \notin Has(v)
  BY <1>3 DEF Devs, Placed
<1>8. /\ Free(p)' = Free(p) \union {t} /\ Distinct(free'[p])
      /\ Len(free[p]) \in Nat /\ Len(free'[p]) = Len(free[p]) + 1
      /\ \A q \in Pools : q # p => Free(q)' = Free(q) /\ free'[q] = free[q]
  <2>1. Distinct(free[p]) /\ t \notin Free(p) /\ free[p] \in Seq(Devices) /\ free \in [Pools -> Seq(Devices)]
    BY <1>7 DEF Devs, Placed, Typed, PoolTypeOK
  <2>2. free'[p] = Append(free[p], t) /\ \A q \in Pools : q # p => free'[q] = free[q]
    BY <1>2, <2>1
  <2>3. Len(free[p]) \in Nat
    BY <2>1
  <2>4. /\ ToSet(Append(free[p], t)) = ToSet(free[p]) \union {t} /\ Len(Append(free[p], t)) = Len(free[p]) + 1
        /\ Distinct(Append(free[p], t))
    BY <2>1, AppendFacts DEF Free
  <2> QED
    BY <2>2, <2>3, <2>4 DEF Free
<1>17. /\ \A q \in Pools : \A x : x \in Free(q)' => x \in Free(q) \/ (q = p /\ x = t)
       /\ \A q \in Pools : \A x : x \in Free(q) => x \in Free(q)'
       /\ t \in Free(p)'
  BY <1>8
<1>9. /\ \A q \in Pools : Free(q) \subseteq Devices
      /\ warm \subseteq Devices /\ plan.spares \subseteq Devices /\ "xcuitest" \in Pools
  BY HeldTypes, PoolAssumption DEF Typed, PoolTypeOK, Pools
<1>16. /\ \A x \in Devices : env'[x].runner = "alive" => env[x].runner = "alive"
       /\ env'[t].runner = "alive" => t \in warm'
  <2>1. env \in [Devices -> [runner : {"none", "alive", "dead"}, asked : Nat]]
    BY DEF Typed, PoolTypeOK
  <2>2. CASE p = "playwright" \/ end # "done"
    BY <1>2, <2>1, <2>2 DEF Blank
  <2>3. CASE ~(p = "playwright" \/ end # "done")
    <3>1. p = "xcuitest"
      BY <2>3 DEF Pools
    <3>2. t \in warm
      BY <1>0, <3>1 DEF Devs, WarmPlaced
    <3> QED
      BY <1>2, <2>3, <3>2
  <2> QED
    BY <2>2, <2>3
<1>10. Placed'
  <2>1. \A q \in Pools : Distinct(free'[q]) /\ \A x \in Free(q)' : PoolOf(x)' = q
    <3>1. \A q \in Pools : Distinct(free[q]) /\ \A x \in Free(q) : PoolOf(x) = q
      BY DEF Devs, Placed
    <3>2. \A q \in Pools : Distinct(free'[q])
      BY <1>8, <3>1
    <3>3. ASSUME NEW q \in Pools, NEW x \in Free(q)' PROVE PoolOf(x)' = q
      BY <1>1, <1>6, <1>7, <1>9, <1>17, <3>1
    <3> QED
      BY <3>2, <3>3
  <2>2. \A v \in Workers :
          /\ Distinct(worker'[v].held) /\ worker'[v].dev \notin Kept(v)' /\ worker'[v].launch.to \notin Kept(v)'
          /\ \A u, x \in Devices : worker'[v].launch.to = u /\ worker'[v].dev = x => PoolOf(u)' = PoolOf(x)'
    <3>1. \A v \in Workers :
            /\ Distinct(worker[v].held) /\ worker[v].dev \notin Kept(v) /\ worker[v].launch.to \notin Kept(v)
            /\ \A u, x \in Devices : worker[v].launch.to = u /\ worker[v].dev = x => PoolOf(u) = PoolOf(x)
      BY DEF Devs, Placed
    <3>2. ASSUME NEW v \in Workers, v # w
          PROVE  /\ Distinct(worker'[v].held) /\ worker'[v].dev \notin Kept(v)' /\ worker'[v].launch.to \notin Kept(v)'
                 /\ \A u, x \in Devices : worker'[v].launch.to = u /\ worker'[v].dev = x => PoolOf(u)' = PoolOf(x)'
      BY <1>5, <1>6, <3>1, <3>2
    <3>3. /\ Distinct(worker'[w].held) /\ worker'[w].dev \notin Kept(w)' /\ worker'[w].launch.to \notin Kept(w)'
          /\ \A u, x \in Devices : worker'[w].launch.to = u /\ worker'[w].dev = x => PoolOf(u)' = PoolOf(x)'
      BY <1>0, <1>3, <1>4, <3>1
    <3> QED
      BY <3>2, <3>3
  <2>3. \A v \in Workers, q \in Pools : Has(v)' \intersect Free(q)' = {}
    <3>1. \A v \in Workers, q \in Pools : Has(v) \intersect Free(q) = {}
      BY DEF Devs, Placed
    <3> QED
      BY <1>3, <1>4, <1>5, <1>7, <1>17, <3>1
  <2>4. \A v, u \in Workers : v # u => Has(v)' \intersect Has(u)' = {}
    <3>1. \A v, u \in Workers : v # u => Has(v) \intersect Has(u) = {}
      BY DEF Devs, Placed
    <3> QED
      BY <1>3, <1>4, <1>5, <3>1
  <2> QED
    BY <1>6, <2>1, <2>2, <2>3, <2>4 DEF Placed, Distinct
<1>11. Gone'
  <2>1. ASSUME NEW x \in Devices, heir'[x] # None
        PROVE  /\ heir'[x] # x /\ \A q \in Pools : x \notin Free(q)'
               /\ \A v \in Workers :
                    /\ x \notin Kept(v)' /\ worker'[v].launch.to # x
                    /\ worker'[v].dev = x => worker'[v].launch.to = heir'[x]
    <3>1. /\ heir'[x] = heir[x] /\ heir[x] # x /\ \A q \in Pools : x \notin Free(q)
          /\ \A v \in Workers :
               /\ x \notin Kept(v) /\ worker[v].launch.to # x
               /\ worker[v].dev = x => worker[v].launch.to = heir[x]
      BY <1>2, <2>1 DEF Devs, Gone
    <3>2. x # t
      BY <1>0, <3>1
    <3> QED
      BY <1>0, <1>3, <1>4, <1>5, <1>17, <3>1, <3>2
  <2> QED
    BY <1>6, <2>1 DEF Gone
<1>12. Untouched'
  <2>1. ASSUME NEW e \in plan.spares, \A x \in Devices : heir[x] # e
        PROVE  /\ e \notin warm' /\ env'[e].runner # "alive" /\ heir'[e] = None
               /\ \A q \in Pools : e \notin Free(q)'
               /\ \A v \in Workers : e \notin Has(v)'
    <3>1. /\ e \notin warm /\ env[e].runner # "alive" /\ heir[e] = None
          /\ \A q \in Pools : e \notin Free(q)
          /\ \A v \in Workers : e \notin Has(v)
      BY <2>1 DEF Devs, Untouched
    <3>2. e # t /\ e \in Devices
      BY <1>3, <1>9, <3>1
    <3> QED
      BY <1>2, <1>3, <1>4, <1>5, <1>16, <1>17, <3>1, <3>2
  <2> QED
    BY <1>2, <1>6, <2>1 DEF Untouched
<1>13. WarmPlaced'
  <2>1. /\ \A x \in warm : PoolOf(x) = "xcuitest" /\ (x \in Free("xcuitest") \/ \E v \in Workers : x \in Held(v))
        /\ \A v \in Workers : \A x \in Kept(v) : PoolOf(x) = "xcuitest" => x \in warm
    BY DEF Devs, WarmPlaced
  <2>2. ASSUME NEW x \in warm'
        PROVE  PoolOf(x)' = "xcuitest" /\ (x \in Free("xcuitest")' \/ \E v \in Workers : x \in Held(v)')
    <3>1. x \in warm /\ x \in Devices
      BY <1>2, <1>9
    <3>2. CASE x = t
      BY <1>1, <1>6, <1>17, <2>1, <3>1, <3>2
    <3>3. CASE x # t
      <4>1. \A v \in Workers : x \in Held(v) => x \in Held(v)'
        BY <1>3, <1>4, <1>5, <3>3
      <4>2. x \in Free("xcuitest") => x \in Free("xcuitest")'
        BY <1>9, <1>17
      <4> QED
        BY <1>6, <2>1, <3>1, <4>1, <4>2
    <3> QED
      BY <3>2, <3>3
  <2>3. ASSUME NEW v \in Workers, NEW x \in Kept(v)', PoolOf(x)' = "xcuitest" PROVE x \in warm'
    <3>1. x \in Kept(v) /\ x \in Devices /\ x # t
      BY <1>3, <1>4, <1>5, <1>7
    <3> QED
      BY <1>2, <1>6, <2>1, <2>3, <3>1
  <2> QED
    BY <1>6, <2>2, <2>3 DEF WarmPlaced
<1>14. Runners'
  <2>1. \A x \in Devices : env[x].runner = "alive" =>
          x \in warm \/ \E v \in Workers : x \in Kept(v) \/ x = worker[v].launch.to
    BY DEF Devs, Runners
  <2>2. ASSUME NEW x \in Devices, env'[x].runner = "alive"
        PROVE  x \in warm' \/ \E v \in Workers : x \in Kept(v)' \/ x = worker'[v].launch.to
    <3>1. CASE x = t
      BY <1>16, <2>2, <3>1
    <3>2. CASE x # t
      <4>1. env[x].runner = "alive" /\ (x \in warm => x \in warm')
        BY <1>2, <1>16, <2>2, <3>2
      <4>2. \A v \in Workers : x \in Kept(v) \/ x = worker[v].launch.to => x \in Kept(v)' \/ x = worker'[v].launch.to
        BY <1>3, <1>4, <1>5, <3>2
      <4> QED
        BY <2>1, <4>1, <4>2
    <3> QED
      BY <3>1, <3>2
  <2>3. ASSUME NEW v \in Workers, worker'[v].launch.to # None
        PROVE  /\ env'[worker'[v].launch.to].runner = "alive" =>
                    worker'[v].launch.back \/ (worker'[v].launch.to = worker'[v].dev /\ worker'[v].dev \in warm')
               /\ worker'[v].launch.to # worker'[v].dev => env'[worker'[v].dev].runner # "alive"
    <3>1. v # w /\ worker'[v] = worker[v] /\ worker[v].launch.to # None
      BY <1>3, <1>5, <2>3
    <3>2. worker[v].dev # None
      BY <3>1, LaunchingFacts
    <3>3. worker[v].dev \in Devices /\ worker[v].launch.to \in Devices /\ worker[v].dev # t
      BY <1>3, <1>7, <3>1, <3>2
    <3>4. /\ env'[worker[v].launch.to].runner = "alive" => env[worker[v].launch.to].runner = "alive"
          /\ env'[worker[v].dev].runner = "alive" => env[worker[v].dev].runner = "alive"
          /\ worker[v].dev \in warm => worker[v].dev \in warm'
      BY <1>2, <1>16, <3>3
    <3>5. /\ env[worker[v].launch.to].runner = "alive" =>
               worker[v].launch.back \/ (worker[v].launch.to = worker[v].dev /\ worker[v].dev \in warm)
          /\ worker[v].launch.to # worker[v].dev => env[worker[v].dev].runner # "alive"
      BY <3>1 DEF Devs, Runners
    <3> QED
      BY <3>1, <3>4, <3>5
  <2> QED
    BY <1>6, <2>2, <2>3 DEF Runners
<1>15. Conserved'
  <2>1. \A q \in Pools : /\ IsFiniteSet(Out(q)) /\ Cardinality(Out(q)) \in Nat /\ Len(plan.lanes[q]) \in Nat
    BY FS_CardinalityType, PoolFacts DEF Devs, Conserved, Typed
  <2>2. \A q \in Pools : /\ IsFiniteSet(Out(q)')
                         /\ Cardinality(Out(q)') = IF q = PoolOf(t) THEN Cardinality(Out(q)) - 1 ELSE Cardinality(Out(q))
    <3>1. t \in Held(w) /\ Held(w)' = Held(w) \ {t} /\ \A v \in Workers \ {w} : Held(v)' = Held(v)
      BY <1>0, <1>3, <1>4, <1>5
    <3> QED
      BY <1>2, <2>1, <3>1, OutLoses
  <2>3. ASSUME NEW q \in Pools PROVE Len(free'[q]) + Cardinality(Out(q)') = Len(plan.lanes[q])
    <3>1. Len(free[q]) + Cardinality(Out(q)) = Len(plan.lanes[q])
      BY DEF Devs, Conserved
    <3>2. CASE q = p
      BY <1>1, <1>8, <2>1, <2>2, <3>1, <3>2
    <3>3. CASE q # p
      BY <1>1, <1>8, <2>1, <2>2, <3>1, <3>3
    <3> QED
      BY <3>2, <3>3
  <2> QED
    BY <1>2, <2>2, <2>3 DEF Conserved
<1> QED
  BY <1>10, <1>11, <1>12, <1>13, <1>14, <1>15 DEF Devs

\* A pool is closed while nobody holds a device.
LEMMA CloseKeeps ==
  ASSUME Typed, Shaped, Devs, Phased, NEW p \in Pools, Close(p)
  PROVE  Devs'
<1>1. PICK faulty \in BOOLEAN : Shutdown(p, faulty)
  BY DEF Close
<1> DEFINE mine == {d \in warm : PoolOf(d) = p}
<1>2. /\ env' = [d \in Devices |-> IF d \in mine THEN Blank ELSE env[d]] /\ warm' = warm \ mine
      /\ UNCHANGED <<plan, free, heir, worker>>
  BY <1>1 DEF Shutdown, Close
<1>3. \A v \in Workers : /\ Kept(v) = {} /\ worker[v].launch.to = None
                         /\ Kept(v)' = Kept(v) /\ Held(v)' = Held(v) /\ Has(v)' = Has(v)
  <2>1. ASSUME NEW v \in Workers PROVE worker[v].held = << >> /\ worker[v].launch = NoLaunch
    BY DEF Close, Phased, Shaped
  <2>2. ASSUME NEW v \in Workers PROVE Kept(v)' = Kept(v) /\ Held(v)' = Held(v) /\ Has(v)' = Has(v)
    BY <1>2, HeldStays DEF Still
  <2>3. ASSUME NEW v \in Workers PROVE Kept(v) = {} /\ worker[v].launch.to = None
    BY <2>1, IdleFacts DEF Kept, ToSet
  <2> QED
    BY <2>2, <2>3
<1>4. Workers' = Workers /\ \A x \in Devices \union {None} : PoolOf(x)' = PoolOf(x)
  BY <1>2, PlanStays
<1>5. \A q \in Pools : Free(q)' = Free(q) /\ free'[q] = free[q]
  BY <1>2 DEF Free
<1>6. /\ \A q \in Pools : Free(q) \subseteq Devices
      /\ \A v \in Workers : worker[v].dev \in Devices \union {None}
      /\ warm \subseteq Devices /\ plan.spares \subseteq Devices /\ "xcuitest" \in Pools
      /\ env \in [Devices -> [runner : {"none", "alive", "dead"}, asked : Nat]]
  BY HeldTypes, PoolAssumption DEF Typed, PoolTypeOK, Pools
<1>7. \A x \in Devices : env'[x].runner = "alive" => env[x].runner = "alive" /\ x \notin mine
  BY <1>2 DEF Blank
<1> HIDE DEF mine
<1>8. Placed'
  <2>1. \A q \in Pools : Distinct(free'[q]) /\ \A x \in Free(q)' : PoolOf(x)' = q
    BY <1>4, <1>5, <1>6 DEF Devs, Placed
  <2>2. \A v \in Workers :
          /\ Distinct(worker'[v].held) /\ worker'[v].dev \notin Kept(v)' /\ worker'[v].launch.to \notin Kept(v)'
          /\ \A u, x \in Devices : worker'[v].launch.to = u /\ worker'[v].dev = x => PoolOf(u)' = PoolOf(x)'
    BY <1>2, <1>3, <1>4 DEF Devs, Placed
  <2>3. /\ \A v \in Workers, q \in Pools : Has(v)' \intersect Free(q)' = {}
        /\ \A v, u \in Workers : v # u => Has(v)' \intersect Has(u)' = {}
    BY <1>3, <1>5 DEF Devs, Placed
  <2> QED
    BY <1>4, <2>1, <2>2, <2>3 DEF Placed, Distinct
<1>9. Gone'
  BY <1>2, <1>3, <1>4, <1>5 DEF Devs, Gone
<1>10. Untouched'
  <2>1. ASSUME NEW e \in plan.spares, \A x \in Devices : heir[x] # e
        PROVE  /\ e \notin warm' /\ env'[e].runner # "alive" /\ heir'[e] = None
               /\ \A q \in Pools : e \notin Free(q)'
               /\ \A v \in Workers : e \notin Has(v)'
    <3>1. /\ e \notin warm /\ env[e].runner # "alive" /\ heir[e] = None /\ e \in Devices
          /\ \A q \in Pools : e \notin Free(q)
          /\ \A v \in Workers : e \notin Has(v)
      BY <1>6, <2>1 DEF Devs, Untouched
    <3> QED
      BY <1>2, <1>3, <1>5, <1>7, <3>1
  <2> QED
    BY <1>2, <1>4, <2>1 DEF Untouched
<1>11. WarmPlaced'
  <2>1. \A x \in warm : PoolOf(x) = "xcuitest" /\ (x \in Free("xcuitest") \/ \E v \in Workers : x \in Held(v))
    BY DEF Devs, WarmPlaced
  <2> QED
    BY <1>2, <1>3, <1>4, <1>5, <1>6, <2>1 DEF WarmPlaced
<1>12. Runners'
  <2>1. \A x \in Devices : env[x].runner = "alive" => x \in warm
    BY <1>3, HeldTypes DEF Devs, Runners
  <2> QED
    BY <1>2, <1>3, <1>4, <1>7, <2>1 DEF Runners
<1>13. Conserved'
  <2>1. \A q \in Pools : Out(q)' = Out(q)
    BY <1>3, <1>4 DEF Out
  <2> QED
    BY <1>2, <1>5, <2>1 DEF Devs, Conserved
<1> QED
  BY <1>8, <1>9, <1>10, <1>11, <1>12, <1>13 DEF Devs

\* The devices a run starts with are all in the queue.
LEMMA DevsInit ==
  ASSUME Init
  PROVE  Devs
<1>1. /\ plan \in Plans /\ free = [p \in Pools |-> plan.lanes[p]] /\ warm = {} /\ heir = [d \in Devices |-> None]
      /\ env = [d \in Devices |-> Blank] /\ worker = [w \in Workers |-> Idle]
  BY DEF Init, PoolInit
<1>2. \A w \in Workers : Kept(w) = {} /\ Held(w) = {} /\ Has(w) = {} /\ worker[w] = Idle
  BY <1>1, IdleFacts DEF Kept, Held, Has, ToSet
<1>3. \A p \in Pools : free[p] = plan.lanes[p] /\ Free(p) = ToSet(plan.lanes[p])
  BY <1>1 DEF Free
<1>4. Placed
  <2>1. \A w \in Workers : Distinct(worker[w].held) /\ worker[w].launch.to = None
    BY <1>2, IdleFacts DEF Distinct
  <2>2. None \notin Devices
    BY PoolAssumption
  <2> QED
    BY <1>1, <1>2, <1>3, <2>1, <2>2, PoolFacts DEF Placed
<1>5. Gone
  BY <1>1 DEF Gone
<1>6. Untouched
  <2>1. \A e \in plan.spares : e \in Devices /\ \A p \in Pools : e \notin Free(p)
    BY <1>1, <1>3, PoolFacts
  <2> QED
    BY <1>1, <1>2, <2>1 DEF Untouched, Blank
<1>7. WarmPlaced
  BY <1>1, <1>2 DEF WarmPlaced
<1>8. Runners
  BY <1>1, <1>2, IdleFacts DEF Runners, Blank
<1>9. Conserved
  <2>1. ASSUME NEW p \in Pools PROVE Out(p) = {}
    BY <1>2 DEF Out
  <2>2. ASSUME NEW p \in Pools PROVE Len(plan.lanes[p]) \in Nat
    <3>1. plan.lanes[p] \in Seq(Devices)
      BY <1>1, PoolFacts
    <3> QED
      BY <3>1
  <2>3. ASSUME NEW p \in Pools
        PROVE  IsFiniteSet(Out(p)) /\ Len(free[p]) + Cardinality(Out(p)) = Len(plan.lanes[p])
    <3>1. IsFiniteSet(Out(p)) /\ Cardinality(Out(p)) = 0
      BY <2>1, FS_EmptySet
    <3> QED
      BY <1>3, <2>2, <3>1
  <2> QED
    BY <2>3 DEF Conserved
<1> QED
  BY <1>4, <1>5, <1>6, <1>7, <1>8, <1>9 DEF Devs

\* A step of one worker that moves no device.
LEMMA AllStill ==
  ASSUME worker' = worker \/ \E w \in Workers : Alone(w) /\ Still(w)
  PROVE  \A v \in Workers : Still(v)
<1>1. CASE worker' = worker
  BY <1>1 DEF Still
<1>2. CASE \E w \in Workers : Alone(w) /\ Still(w)
  <2>1. PICK w \in Workers : Alone(w) /\ Still(w)
    BY <1>2
  <2> QED
    BY <2>1, OthersKeep
<1> QED
  BY <1>1, <1>2

\* Every device stays in one place.
LEMMA DevsNext ==
  ASSUME Typed, Shaped, Devs, Phased, [Next]_vars
  PROVE  Devs'
<1>1. CASE /\ UNCHANGED <<plan, free, warm, heir, env>>
           /\ worker' = worker \/ \E w \in Workers : Alone(w) /\ Still(w)
  <2>1. \A v \in Workers : Still(v)
    BY <1>1, AllStill
  <2> QED
    BY <1>1, <2>1, QuietKeeps
<1>2. CASE UNCHANGED vars
  BY <1>1, <1>2 DEF vars, poolVars, runVars
<1>3. CASE Collect \/ Joined \/ Closed \/ Cancel
  BY <1>1, <1>3 DEF Collect, Joined, Closed, Cancel, poolVars
<1>4. ASSUME NEW p \in Pools, Open(p) PROVE Devs'
  BY <1>1, <1>4 DEF Open, OpenPool
<1>5. ASSUME NEW p \in Pools, Close(p) PROVE Devs'
  BY <1>5, CloseKeeps
<1>6. ASSUME NEW w \in Workers, WorkerStep(w) PROVE Devs'
  <2>1. CASE Take(w)
    BY <1>1, <2>1, TakeEffect DEF poolVars
  <2>2. CASE Lease(w)
    BY <2>2, GetKeeps
  <2>3. CASE Launch(w)
    <3>1. PICK d \in Devices : \E l \in Start(PoolOf(d), d, Erases(w)) :
            /\ worker[w].dev = d /\ worker[w].launch = NoLaunch
            /\ l \in LaunchRec /\ l.to \in Devices
            /\ Alone(w)
            /\ \/ /\ LeaseReady(PoolOf(d), d, l)
                  /\ worker'[w].held = Append(worker[w].held, l.to) /\ worker'[w].dev = None
                  /\ worker'[w].launch = worker[w].launch
               \/ /\ LaunchRaised(d, l)
                  /\ worker'[w].held = worker[w].held /\ worker'[w].dev = worker[w].dev
                  /\ worker'[w].launch = l
      BY <2>3, LaunchEffect
    <3>2. PICK l \in Start(PoolOf(d), d, Erases(w)) :
            /\ worker[w].dev = d /\ worker[w].launch = NoLaunch
            /\ l \in LaunchRec /\ l.to \in Devices
            /\ Alone(w)
            /\ \/ /\ LeaseReady(PoolOf(d), d, l)
                  /\ worker'[w].held = Append(worker[w].held, l.to) /\ worker'[w].dev = None
                  /\ worker'[w].launch = worker[w].launch
               \/ /\ LaunchRaised(d, l)
                  /\ worker'[w].held = worker[w].held /\ worker'[w].dev = worker[w].dev
                  /\ worker'[w].launch = l
      BY <3>1
    <3> QED
      BY <3>2, ReadyKeeps, RaisedKeeps
  <2>4. CASE FailedLease(w)
    BY <2>4, BackKeeps
  <2>5. CASE Run(w)
    <3>1. Alone(w) /\ Still(w) /\ UNCHANGED <<plan, free, warm, heir>>
      BY <2>5, RunEffect
    <3>2. UNCHANGED env \/ \E d \in Devices : env' = [env EXCEPT ![d].runner = "dead"]
      BY <2>5, RunEffect
    <3>3. \A x \in Devices : env'[x].runner = "alive" => env[x].runner = "alive"
      BY <3>2 DEF Typed, PoolTypeOK
    <3>4. \A v \in Workers : Still(v)
      BY <3>1, AllStill
    <3> QED
      BY <3>1, <3>3, <3>4, QuietKeeps
  <2>6. CASE ReleaseNext(w)
    BY <2>6, ReleaseKeeps
  <2>7. CASE Released(w)
    BY <1>1, <2>7, ReleasedEffect DEF poolVars
  <2>8. CASE Wedged(w) \/ Escape(w)
    BY <1>1, <2>8, EndEffect DEF poolVars
  <2>9. CASE Degrade(w)
    BY <1>1, <2>9, DegradeEffect DEF poolVars
  <2>10. CASE Crashed(w)
    <3>1. Alone(w) /\ Still(w) /\ UNCHANGED <<plan, free, warm, heir>>
      BY <2>10, CrashedEffect
    <3>2. UNCHANGED env \/ \E d \in Devices, s \in Nat : env' = [env EXCEPT ![d].asked = s]
      <4>1. UNCHANGED env \/ (worker[w].lz \in warm /\ env' = [env EXCEPT ![worker[w].lz].asked = worker[w].s])
        BY <2>10, CrashedEffect
      <4>2. warm \subseteq Devices /\ worker[w].s \in Nat
        BY RunnerAssumption DEF Typed, PoolTypeOK, Worker, Scenario, None
      <4> QED
        BY <4>1, <4>2
    <3>3. \A x \in Devices : env'[x].runner = "alive" => env[x].runner = "alive"
      <4>1. env \in [Devices -> [runner : {"none", "alive", "dead"}, asked : Nat]]
        BY DEF Typed, PoolTypeOK
      <4>2. ASSUME NEW d \in Devices, NEW s \in Nat, env' = [env EXCEPT ![d].asked = s], NEW x \in Devices
            PROVE  env'[x].runner = env[x].runner
        BY <4>1, <4>2
      <4> QED
        BY <3>2, <4>2
    <3>4. \A v \in Workers : Still(v)
      BY <3>1, AllStill
    <3> QED
      BY <3>1, <3>3, <3>4, QuietKeeps
  <2> QED
    BY <1>6, <2>1, <2>2, <2>3, <2>4, <2>5, <2>6, <2>7, <2>8, <2>9, <2>10 DEF WorkerStep
<1> QED
  BY <1>2, <1>3, <1>4, <1>5, <1>6 DEF Next, MainStep

----------------------------------------------------------------------------
(* Types *)

\* A call on the pools leaves them typed.
LEMMA PoolTyped ==
  ASSUME PoolTypeOK, NEW p \in Pools, NEW d \in Devices
  PROVE  /\ UNCHANGED poolVars => PoolTypeOK'
         /\ GetDevice(p, d) => PoolTypeOK'
         /\ \A l \in LaunchRec : l.to \in Devices /\ LeaseReady(p, d, l) => PoolTypeOK'
         /\ \A l \in LaunchRec : l.to \in Devices /\ LaunchRaised(d, l) => PoolTypeOK'
         /\ \A l \in LaunchRec : l.to \in Devices /\ PutBack(p, d, l) => PoolTypeOK'
         /\ \A end \in Ends : Release(p, d, end) => PoolTypeOK'
<1> DEFINE Env == [runner : {"none", "alive", "dead"}, asked : Nat]
<1>1. /\ free \in [Pools -> Seq(Devices)] /\ warm \subseteq Devices /\ collectors \subseteq Devices
      /\ heir \in [Devices -> Devices \union {None}] /\ env \in [Devices -> Env] /\ defect \in BOOLEAN
  BY DEF PoolTypeOK
<1>2. Blank \in Env /\ \A l \in LaunchRec : [runner |-> l.runner, asked |-> None] \in Env
  BY DEF Blank, None, LaunchRec
<1>3. \A q \in Pools, e \in Devices : /\ Append(free[q], e) \in Seq(Devices)
                                      /\ [free EXCEPT ![q] = Append(free[q], e)] \in [Pools -> Seq(Devices)]
  BY <1>1
<1>4. \A e, x \in Devices : Adopted(e, x) \subseteq Devices
  BY <1>1 DEF Adopted
<1>5. \A e \in Devices, b \in Env : [env EXCEPT ![e] = b] \in [Devices -> Env]
  BY <1>1
<1>6. ASSUME UNCHANGED poolVars PROVE PoolTypeOK'
  BY <1>1, <1>6 DEF poolVars, PoolTypeOK
<1>7. ASSUME GetDevice(p, d) PROVE PoolTypeOK'
  <2>1. free' \in [Pools -> Seq(Devices)]
    <3>1. free[p] \in Seq(Devices) /\ free[p] # << >> /\ free' = [free EXCEPT ![p] = Tail(free[p])]
      BY <1>1, <1>7 DEF GetDevice
    <3>2. Tail(free[p]) \in Seq(Devices)
      BY <3>1
    <3> QED
      BY <1>1, <3>1, <3>2
  <2>2. env' \in [Devices -> Env]
    <3>1. env' = env \/ env' = [env EXCEPT ![d].asked = None]
      BY <1>7 DEF GetDevice
    <3>2. CASE env' = [env EXCEPT ![d].asked = None]
      <4> DEFINE b == [env[d] EXCEPT !.asked = None]
      <4>1. b \in Env
        BY <1>1 DEF None
      <4>2. env' = [env EXCEPT ![d] = b]
        BY <3>2
      <4> HIDE DEF b
      <4> QED
        BY <1>5, <4>1, <4>2
    <3> QED
      BY <1>1, <3>1, <3>2
  <2> QED
    BY <1>1, <1>7, <2>1, <2>2 DEF GetDevice, PoolTypeOK
<1>8. ASSUME NEW l \in LaunchRec, l.to \in Devices, AfterStart(d, l)
      PROVE  env' \in [Devices -> Env] /\ heir' \in [Devices -> Devices \union {None}]
  <2>1. /\ env' = [env EXCEPT ![d] = Blank, ![l.to] = [runner |-> l.runner, asked |-> None]]
        /\ heir' = heir \/ heir' = [heir EXCEPT ![d] = l.to]
    BY <1>8 DEF AfterStart
  <2>2. env' \in [Devices -> Env]
    BY <1>1, <1>2, <1>8, <2>1
  <2> QED
    BY <1>1, <1>8, <2>1, <2>2
<1>9. ASSUME NEW l \in LaunchRec, l.to \in Devices, LeaseReady(p, d, l) PROVE PoolTypeOK'
  <2>1. env' \in [Devices -> Env] /\ heir' \in [Devices -> Devices \union {None}]
    BY <1>8, <1>9 DEF LeaseReady
  <2> QED
    BY <1>1, <1>4, <1>9, <2>1 DEF LeaseReady, PoolTypeOK
<1>10. ASSUME NEW l \in LaunchRec, l.to \in Devices, LaunchRaised(d, l) PROVE PoolTypeOK'
  <2>1. env' \in [Devices -> Env] /\ heir' \in [Devices -> Devices \union {None}]
    BY <1>8, <1>10 DEF LaunchRaised
  <2> QED
    BY <1>1, <1>10, <2>1 DEF LaunchRaised, PoolTypeOK
<1>11. ASSUME NEW l \in LaunchRec, l.to \in Devices, PutBack(p, d, l) PROVE PoolTypeOK'
  <2>1. env' \in [Devices -> Env]
    BY <1>1, <1>2, <1>5, <1>11 DEF PutBack
  <2>2. free' \in [Pools -> Seq(Devices)] /\ collectors' \subseteq Devices
    BY <1>3, <1>4, <1>11 DEF PutBack
  <2> QED
    BY <1>1, <1>11, <2>1, <2>2 DEF PutBack, PoolTypeOK
<1>12. ASSUME NEW end \in Ends, Release(p, d, end) PROVE PoolTypeOK'
  <2>1. env' \in [Devices -> Env]
    BY <1>1, <1>2, <1>5, <1>12 DEF Release
  <2>2. free' \in [Pools -> Seq(Devices)] /\ defect' \in BOOLEAN
    BY <1>3, <1>12 DEF Release
  <2> QED
    BY <1>1, <1>12, <2>1, <2>2 DEF Release, PoolTypeOK
<1> QED
  BY <1>6, <1>7, <1>9, <1>10, <1>11, <1>12

\* So does a pool's end.
LEMMA ShutTyped ==
  ASSUME PoolTypeOK, NEW p, NEW faulty \in BOOLEAN, Shutdown(p, faulty)
  PROVE  PoolTypeOK'
<1> DEFINE Env == [runner : {"none", "alive", "dead"}, asked : Nat]
<1>1. /\ free \in [Pools -> Seq(Devices)] /\ warm \subseteq Devices /\ collectors \subseteq Devices
      /\ heir \in [Devices -> Devices \union {None}] /\ env \in [Devices -> Env] /\ defect \in BOOLEAN
  BY DEF PoolTypeOK
<1>2. env' \in [Devices -> Env]
  <2>1. Blank \in Env
    BY DEF Blank, None
  <2> QED
    BY <1>1, <2>1 DEF Shutdown
<1>3. defect' \in BOOLEAN /\ warm' \subseteq Devices /\ collectors' \subseteq Devices
  BY <1>1 DEF Shutdown
<1> QED
  BY <1>1, <1>2, <1>3 DEF Shutdown, PoolTypeOK

\* A step of one worker leaves the others as they were shaped.
LEMMA ShapedOne ==
  ASSUME Shaped, NEW w \in Workers, Alone(w), UNCHANGED plan,
         worker'[w].pc \in {"launch", "putback"} <=> worker'[w].dev # None,
         worker'[w].pc # "putback" => worker'[w].launch = NoLaunch,
         worker'[w].pc = "putback" => worker'[w].launch.to # None /\ worker'[w].exc # "none",
         worker'[w].pc \in {"idle", "caught"} => worker'[w].held = << >>,
         worker'[w].pc = "idle" => worker'[w] = Idle,
         worker'[w].pc # "idle" => worker'[w].s # None
  PROVE  Shaped'
<1>1. Workers' = Workers /\ \A v \in Workers \ {w} : worker'[v] = worker[v]
  BY PlanStays DEF Alone
<1> DEFINE Shape(r) == /\ r.pc \in {"launch", "putback"} <=> r.dev # None
                       /\ r.pc # "putback" => r.launch = NoLaunch
                       /\ r.pc = "putback" => r.launch.to # None /\ r.exc # "none"
                       /\ r.pc \in {"idle", "caught"} => r.held = << >>
                       /\ r.pc = "idle" => r = Idle
                       /\ r.pc # "idle" => r.s # None
<1>2. \A v \in Workers : Shape(worker[v])
  BY DEF Shaped
<1>3. Shape(worker'[w])
  OBVIOUS
<1> HIDE DEF Shape
<1>4. \A v \in Workers : Shape(worker'[v])
  BY <1>1, <1>2, <1>3
<1> USE DEF Shape
<1> QED
  BY <1>1, <1>4 DEF Shaped, NoLaunch, Idle, Launched

\* Types and shapes are kept by a worker's step.
LEMMA WorkerTyped ==
  ASSUME Typed, Shaped, Placed, NEW w \in Workers, WorkerStep(w)
  PROVE  Typed' /\ Shaped'
<1>1. /\ plan \in Plans /\ PoolTypeOK /\ worker[w] \in Worker /\ next \in 1..(Scenarios + 1)
      /\ main \in [pc : {"open", "run", "close", "over"}, todo : SUBSET Pools, opened : SUBSET Pools, raised : BOOLEAN]
      /\ result \in [Scenario -> Ended \union {"none"}] /\ spent \in 0..RunBudget
      /\ givenUp \in {"no", "timeout", "budget"} /\ cancelled \in BOOLEAN
      /\ \A v \in Workers : worker[v].attempt <= plan.retries + 1
      /\ plan.retries \in Nat /\ worker[w].attempt \in Nat
  BY RunnerAssumption DEF Typed, Worker
<1>2. /\ worker[w].pc \in {"launch", "putback"} <=> worker[w].dev # None
      /\ worker[w].pc # "putback" => worker[w].launch = NoLaunch
      /\ worker[w].pc \in {"idle", "caught"} => worker[w].held = << >>
      /\ worker[w].pc # "idle" => worker[w].s # None
  BY DEF Shaped
<1>3. \A how \in Ended \union {"none"} : \A s : [result EXCEPT ![s] = how] \in [Scenario -> Ended \union {"none"}]
  BY <1>1
<1>4. ASSUME UNCHANGED plan, PoolTypeOK', Alone(w), worker'[w].attempt <= plan.retries + 1,
             UNCHANGED <<main, cancelled>>, next' \in 1..(Scenarios + 1),
             result' \in [Scenario -> Ended \union {"none"}],
             spent' \in 0..RunBudget, givenUp' \in {"no", "timeout", "budget"}
      PROVE  Typed'
  <2>1. Workers' = Workers
    BY <1>4, PlanStays
  <2>2. worker' \in [Workers -> Worker] /\ \A v \in Workers : worker'[v].attempt <= plan.retries + 1
    BY <1>1, <1>4 DEF Alone
  <2> QED
    BY <1>1, <1>4, <2>1, <2>2 DEF Typed
<1>5. UNCHANGED poolVars => UNCHANGED plan /\ PoolTypeOK'
  BY <1>1 DEF poolVars, PoolTypeOK
<1>6. /\ Idle \in Worker /\ Idle.pc = "idle" /\ Idle.s = None /\ Idle.held = << >> /\ Idle.dev = None
      /\ Idle.launch = NoLaunch /\ Idle.attempt = 0
  BY IdleFacts
<1>7. CASE Take(w)
  <2>1. /\ next \in Scenario /\ next' \in 1..(Scenarios + 1) /\ worker[w].pc = "idle"
        /\ Early(next) \in {"refused", "cancelled", "skipped", "none"}
        /\ result' = [result EXCEPT ![next] = Early(next)]
        /\ UNCHANGED <<poolVars, main, spent, givenUp, cancelled>>
        /\ \/ worker' = worker
           \/ /\ Alone(w) /\ Still(w)
              /\ worker'[w].pc = "lease" /\ worker'[w].s = next /\ worker'[w].attempt = 1
    BY <1>7, TakeEffect
  <2>2. result' \in [Scenario -> Ended \union {"none"}]
    BY <1>3, <2>1 DEF Ended
  <2>3. CASE worker' = worker
    <3>1. Alone(w) /\ worker'[w] = worker[w]
      BY <2>3 DEF Alone, Typed
    <3>2. Shaped'
      <4>1. Workers' = Workers
        BY <1>5, <2>1, PlanStays
      <4> QED
        BY <2>3, <4>1 DEF Shaped, NoLaunch, Idle, Launched
    <3> QED
      BY <1>1, <1>4, <1>5, <2>1, <2>2, <3>1, <3>2
  <2>4. CASE worker' # worker
    <3>1. Alone(w) /\ Still(w) /\ worker'[w].pc = "lease" /\ worker'[w].s = next /\ worker'[w].attempt = 1
      BY <2>1, <2>4
    <3>2. next # None
      BY <2>1 DEF Scenario, None
    <3>3. Shaped'
      BY <1>2, <1>5, <2>1, <3>1, <3>2, ShapedOne DEF Still
    <3>4. 1 <= plan.retries + 1
      BY <1>1
    <3> QED
      BY <1>1, <1>4, <1>5, <2>1, <2>2, <3>1, <3>3, <3>4
  <2> QED
    BY <2>3, <2>4
<1>8. CASE Lease(w)
  <2>1. PICK p \in Pools, d \in Devices :
           /\ worker[w].pc = "lease" /\ GetDevice(p, d)
           /\ Alone(w) /\ worker'[w].pc = "launch" /\ worker'[w].dev = d
           /\ worker'[w].held = worker[w].held /\ worker'[w].launch = worker[w].launch /\ Knows(w)
           /\ UNCHANGED <<main, next, result, spent, givenUp, cancelled>>
    BY <1>8, LeaseEffect
  <2>2. PoolTypeOK' /\ UNCHANGED plan
    BY <1>1, <2>1, PoolTyped DEF GetDevice
  <2>3. d # None
    BY PoolAssumption
  <2>4. Shaped'
    BY <1>2, <2>1, <2>2, <2>3, ShapedOne DEF Knows
  <2> QED
    BY <1>1, <1>4, <2>1, <2>2, <2>4 DEF Knows
<1>9. CASE Launch(w)
  <2>1. PICK d \in Devices : \E l \in Start(PoolOf(d), d, Erases(w)) :
           /\ worker[w].pc = "launch" /\ worker[w].dev = d /\ worker[w].launch = NoLaunch
           /\ l \in LaunchRec /\ l.to \in Devices
           /\ Alone(w) /\ Knows(w)
           /\ UNCHANGED <<main, next, result, givenUp, cancelled>>
           /\ \/ /\ LeaseReady(PoolOf(d), d, l) /\ worker'[w].dev = None /\ worker'[w].launch = worker[w].launch
                 /\ worker'[w].pc \in {"run", "lease"} /\ spent' \in 0..RunBudget
              \/ /\ LaunchRaised(d, l) /\ worker'[w].dev = worker[w].dev /\ worker'[w].launch = l
                 /\ worker'[w].pc = "putback" /\ worker'[w].exc = l.exc /\ l.exc # "none" /\ UNCHANGED spent
    BY <1>9, LaunchEffect
  <2>2. PICK l \in LaunchRec :
           /\ l.to \in Devices
           /\ \/ /\ LeaseReady(PoolOf(d), d, l) /\ worker'[w].dev = None /\ worker'[w].launch = worker[w].launch
                 /\ worker'[w].pc \in {"run", "lease"} /\ spent' \in 0..RunBudget
              \/ /\ LaunchRaised(d, l) /\ worker'[w].dev = worker[w].dev /\ worker'[w].launch = l
                 /\ worker'[w].pc = "putback" /\ worker'[w].exc = l.exc /\ l.exc # "none" /\ UNCHANGED spent
    BY <2>1
  <2>3. PoolOf(d) \in Pools /\ d # None /\ l.to # None
    BY <1>1, <2>2, PoolFacts, PoolAssumption
  <2>4. PoolTypeOK' /\ UNCHANGED plan
    <3>1. CASE LeaseReady(PoolOf(d), d, l)
      BY <1>1, <2>2, <2>3, <3>1, PoolTyped DEF LeaseReady
    <3>2. CASE LaunchRaised(d, l)
      BY <1>1, <2>2, <2>3, <3>2, PoolTyped DEF LaunchRaised
    <3> QED
      BY <2>2, <3>1, <3>2
  <2>5. Shaped'
    BY <1>2, <2>1, <2>2, <2>3, <2>4, ShapedOne DEF Knows
  <2> QED
    BY <1>1, <1>4, <2>1, <2>2, <2>4, <2>5 DEF Knows
<1>10. CASE FailedLease(w)
  <2>1. PICK d \in Devices, l \in LaunchRec :
           /\ l.to \in Devices /\ PutBack(PoolOf(d), d, l)
           /\ worker[w].pc = "putback" /\ Alone(w) /\ Knows(w)
           /\ worker'[w].pc = "release" /\ worker'[w].dev = None /\ worker'[w].launch = NoLaunch
           /\ UNCHANGED <<main, next, result, spent, givenUp, cancelled>>
    BY <1>10, FailedLeaseEffect
  <2>2. PoolTypeOK' /\ UNCHANGED plan
    BY <1>1, <2>1, PoolTyped, PoolFacts DEF PutBack
  <2>3. Shaped'
    BY <1>2, <2>1, <2>2, ShapedOne DEF Knows
  <2> QED
    BY <1>1, <1>4, <2>1, <2>2, <2>3 DEF Knows
<1>11. CASE Run(w)
  <2>1. /\ worker[w].pc = "run" /\ Alone(w) /\ Still(w)
        /\ worker'[w].pc = "release" /\ worker'[w].s = worker[w].s /\ worker'[w].attempt = worker[w].attempt
        /\ UNCHANGED <<plan, free, warm, heir, collectors, defect, main, next, result, spent, givenUp, cancelled>>
        /\ UNCHANGED env \/ \E d \in Devices : env' = [env EXCEPT ![d].runner = "dead"]
    BY <1>11, RunEffect
  <2>2. PoolTypeOK'
    <3>1. env' \in [Devices -> [runner : {"none", "alive", "dead"}, asked : Nat]]
      BY <1>1, <2>1 DEF PoolTypeOK
    <3> QED
      BY <1>1, <2>1, <3>1 DEF PoolTypeOK
  <2>3. Shaped'
    BY <1>2, <2>1, ShapedOne DEF Still
  <2> QED
    BY <1>1, <1>4, <2>1, <2>2, <2>3
<1>12. CASE ReleaseNext(w)
  <2>1. PICK d \in Devices, end \in Ends :
           /\ worker[w].pc = "release" /\ Release(PoolOf(d), d, end) /\ Alone(w) /\ Knows(w)
           /\ worker'[w].pc = "release" /\ worker'[w].dev = None /\ worker'[w].launch = NoLaunch
           /\ UNCHANGED <<main, next, result, spent, givenUp, cancelled>>
    BY <1>12, ReleaseNextEffect
  <2>2. PoolTypeOK' /\ UNCHANGED plan
    BY <1>1, <2>1, PoolTyped, PoolFacts DEF Release
  <2>3. Shaped'
    BY <1>2, <2>1, <2>2, ShapedOne DEF Knows
  <2> QED
    BY <1>1, <1>4, <2>1, <2>2, <2>3 DEF Knows
<1>13. ASSUME UNCHANGED plan, Alone(w), worker'[w] = Idle PROVE Shaped' /\ worker'[w].attempt <= plan.retries + 1
  BY <1>1, <1>6, <1>13, ShapedOne
<1>14. CASE Released(w)
  <2>1. /\ worker[w].pc = "release" /\ worker[w].held = << >> /\ Alone(w) /\ Still(w)
        /\ UNCHANGED <<poolVars, main, next, spent, givenUp, cancelled>>
        /\ \/ worker'[w] = Idle /\ result' = [result EXCEPT ![worker[w].s] = "verdict"]
           \/ worker'[w].pc = "caught" /\ Knows(w) /\ UNCHANGED result
    BY <1>14, ReleasedEffect
  <2>2. CASE worker'[w] = Idle /\ result' = [result EXCEPT ![worker[w].s] = "verdict"]
    <3>1. result' \in [Scenario -> Ended \union {"none"}]
      BY <1>3, <2>2 DEF Ended
    <3> QED
      BY <1>1, <1>4, <1>5, <1>13, <2>1, <2>2, <3>1
  <2>3. CASE worker'[w].pc = "caught" /\ Knows(w) /\ UNCHANGED result
    <3>1. Shaped'
      BY <1>2, <1>5, <2>1, <2>3, ShapedOne DEF Still, Knows
    <3> QED
      BY <1>1, <1>4, <1>5, <2>1, <2>3, <3>1 DEF Knows
  <2> QED
    BY <2>1, <2>2, <2>3
<1>15. CASE Wedged(w) \/ Escape(w)
  <2>1. PICK how \in {"timeout", "down", "raised"} :
           /\ Alone(w) /\ worker'[w] = Idle /\ result' = [result EXCEPT ![worker[w].s] = how]
           /\ spent' \in 0..RunBudget /\ givenUp' \in {givenUp, "timeout"}
           /\ UNCHANGED <<poolVars, main, next, cancelled>>
    BY <1>15, EndEffect
  <2>2. result' \in [Scenario -> Ended \union {"none"}]
    BY <1>3, <2>1 DEF Ended
  <2> QED
    BY <1>1, <1>4, <1>5, <1>13, <2>1, <2>2
<1>16. CASE Degrade(w)
  <2>1. /\ worker[w].pc = "caught" /\ Alone(w) /\ Still(w) /\ Knows(w) /\ worker'[w].pc = "lease"
        /\ UNCHANGED <<poolVars, main, next, result, spent, givenUp, cancelled>>
    BY <1>16, DegradeEffect
  <2>2. Shaped'
    BY <1>2, <1>5, <2>1, ShapedOne DEF Still, Knows
  <2> QED
    BY <1>1, <1>4, <1>5, <2>1, <2>2 DEF Knows
<1>17. CASE Crashed(w)
  <2>1. /\ worker[w].pc = "caught" /\ Alone(w) /\ Still(w)
        /\ UNCHANGED <<plan, free, warm, heir, collectors, defect, main, next, cancelled>>
        /\ spent' \in 0..RunBudget /\ givenUp' \in {givenUp, "budget"}
        /\ UNCHANGED env \/ (worker[w].lz \in warm /\ env' = [env EXCEPT ![worker[w].lz].asked = worker[w].s])
        /\ \/ /\ worker'[w].pc = "lease" /\ worker'[w].s = worker[w].s
              /\ worker'[w].attempt <= plan.retries + 1 /\ UNCHANGED result
           \/ worker'[w] = Idle /\ \E how \in Ended : result' = [result EXCEPT ![worker[w].s] = how]
    <3>1. "exhausted" \in Ended
      BY DEF Ended
    <3> QED
      BY <1>17, <3>1, CrashedEffect
  <2>2. PoolTypeOK'
    <3>1. warm \subseteq Devices /\ worker[w].s \in Nat
      BY <1>1 DEF PoolTypeOK, Worker, Scenario, None
    <3>2. env' \in [Devices -> [runner : {"none", "alive", "dead"}, asked : Nat]]
      <4>1. env \in [Devices -> [runner : {"none", "alive", "dead"}, asked : Nat]]
        BY <1>1 DEF PoolTypeOK
      <4>2. ASSUME NEW d \in Devices, NEW s \in Nat, env' = [env EXCEPT ![d].asked = s]
            PROVE  env' \in [Devices -> [runner : {"none", "alive", "dead"}, asked : Nat]]
        BY <4>1, <4>2
      <4> QED
        BY <2>1, <3>1, <4>1, <4>2
    <3> QED
      BY <1>1, <2>1, <3>2 DEF PoolTypeOK
  <2>3. result' \in [Scenario -> Ended \union {"none"}]
    BY <1>1, <1>3, <2>1
  <2>4. Shaped' /\ worker'[w].attempt <= plan.retries + 1
    BY <1>2, <1>13, <2>1, ShapedOne DEF Still
  <2> QED
    BY <1>1, <1>4, <2>1, <2>2, <2>3, <2>4
<1> QED
  BY <1>7, <1>8, <1>9, <1>10, <1>11, <1>12, <1>14, <1>15, <1>16, <1>17 DEF WorkerStep

\* So are they by a step of the run's own thread, and by a cancel.
LEMMA MainTyped ==
  ASSUME Typed, Shaped, MainStep \/ Cancel \/ UNCHANGED vars
  PROVE  Typed' /\ Shaped'
<1> DEFINE Main == [pc : {"open", "run", "close", "over"}, todo : SUBSET Pools, opened : SUBSET Pools, raised : BOOLEAN]
<1>1. /\ plan \in Plans /\ PoolTypeOK /\ main \in Main
      /\ main.todo \subseteq Pools /\ main.opened \subseteq Pools /\ main.raised \in BOOLEAN
  BY DEF Typed
<1>2. ASSUME UNCHANGED <<plan, next, result, spent, givenUp, worker>>, PoolTypeOK', main' \in Main, cancelled' \in BOOLEAN
      PROVE  Typed' /\ Shaped'
  <2>1. Workers' = Workers
    BY <1>2, PlanStays
  <2>2. Typed'
    BY <1>2, <2>1 DEF Typed
  <2>3. Shaped'
    BY <1>2, <2>1 DEF Shaped, NoLaunch, Idle, Launched
  <2> QED
    BY <2>2, <2>3
<1>3. UNCHANGED poolVars => UNCHANGED plan /\ PoolTypeOK'
  BY <1>1 DEF poolVars, PoolTypeOK
<1>4. CASE Collect \/ Joined \/ Closed
  <2>1. main' \in Main
    <3>1. \A b \in BOOLEAN, k \in {"close", "over"}, s \in SUBSET Pools :
            /\ [main EXCEPT !.raised = b] \in Main /\ [main EXCEPT !.pc = k, !.raised = b] \in Main
            /\ [main EXCEPT !.pc = k, !.todo = s, !.raised = b] \in Main
      BY <1>1
    <3>2. CASE Collect
      BY <3>1, <3>2 DEF Collect
    <3>3. CASE Joined
      <4> DEFINE b == main.raised \/ Raised
      <4>1. b \in BOOLEAN /\ main' = [main EXCEPT !.pc = "close", !.todo = main.opened, !.raised = b]
        BY <3>3 DEF Joined, Raised
      <4> HIDE DEF b
      <4> QED
        BY <1>1, <3>1, <4>1
    <3>4. CASE Closed
      <4> DEFINE b == main.raised \/ defect
      <4>1. b \in BOOLEAN /\ main' = [main EXCEPT !.pc = "over", !.raised = b]
        BY <3>4 DEF Closed
      <4> HIDE DEF b
      <4> QED
        BY <1>1, <3>1, <4>1
    <3> QED
      BY <1>4, <3>2, <3>3, <3>4
  <2> QED
    BY <1>2, <1>3, <1>4, <2>1 DEF Collect, Joined, Closed, Typed
<1>5. CASE Cancel \/ UNCHANGED vars
  BY <1>1, <1>2, <1>3, <1>5 DEF Cancel, vars, runVars, Typed
<1>6. ASSUME NEW p \in Pools, Open(p) PROVE Typed' /\ Shaped'
  <2>1. PICK ok \in BOOLEAN :
          /\ OpenPool(p, ok)
          /\ main' = IF ok
                     THEN [main EXCEPT !.todo = main.todo \ {p}, !.opened = main.opened \union {p},
                                       !.pc = IF main.todo = {p} THEN "run" ELSE "open"]
                     ELSE [main EXCEPT !.todo = main.opened, !.pc = "close", !.raised = TRUE]
    BY <1>6 DEF Open
  <2>2. main' \in Main
    <3> DEFINE k == IF main.todo = {p} THEN "run" ELSE "open"
    <3>1. k \in {"run", "open"} /\ main.todo \ {p} \subseteq Pools /\ main.opened \union {p} \subseteq Pools
      BY <1>1
    <3>2. main' = [main EXCEPT !.todo = main.todo \ {p}, !.opened = main.opened \union {p}, !.pc = k]
          \/ main' = [main EXCEPT !.todo = main.opened, !.pc = "close", !.raised = TRUE]
      BY <2>1
    <3> HIDE DEF k
    <3> QED
      BY <1>1, <3>1, <3>2
  <2>3. PoolTypeOK' /\ UNCHANGED plan
    <3>1. Lanes(p) \subseteq Devices
      BY <1>1, PoolFacts DEF Lanes
    <3> QED
      BY <1>1, <2>1, <3>1 DEF OpenPool, PoolTypeOK
  <2> QED
    BY <1>2, <1>6, <2>2, <2>3 DEF Open, Typed
<1>7. ASSUME NEW p \in Pools, Close(p) PROVE Typed' /\ Shaped'
  <2>1. PICK faulty \in BOOLEAN : Shutdown(p, faulty)
    BY <1>7 DEF Close
  <2>2. main' \in Main
    BY <1>1, <1>7 DEF Close
  <2>3. PoolTypeOK' /\ UNCHANGED plan
    BY <1>1, <2>1, ShutTyped DEF Shutdown
  <2> QED
    BY <1>2, <1>7, <2>2, <2>3 DEF Close, Typed
<1> QED
  BY <1>4, <1>5, <1>6, <1>7 DEF MainStep

\* The run starts typed.
LEMMA TypedInit ==
  ASSUME Init
  PROVE  Typed /\ Shaped
<1>1. /\ plan \in Plans /\ free = [p \in Pools |-> plan.lanes[p]] /\ warm = {} /\ heir = [d \in Devices |-> None]
      /\ collectors = {} /\ defect = FALSE
      /\ env = [d \in Devices |-> Blank] /\ worker = [w \in Workers |-> Idle]
      /\ main = [pc |-> "open", todo |-> {p \in Pools : Demand(p) > 0}, opened |-> {}, raised |-> FALSE]
      /\ next = 1 /\ result = [s \in Scenario |-> "none"] /\ spent = 0 /\ givenUp = "no" /\ cancelled = FALSE
  BY DEF Init, PoolInit
<1>2. PoolTypeOK
  BY <1>1, PoolFacts DEF PoolTypeOK, Blank, None
<1>3. worker \in [Workers -> Worker] /\ \A w \in Workers : worker[w] = Idle
  BY <1>1, IdleFacts
<1>4. plan.retries \in Nat /\ 1 \in 1..(Scenarios + 1) /\ 0 \in 0..RunBudget
  BY <1>1, RunnerAssumption
<1>5. main \in [pc : {"open", "run", "close", "over"}, todo : SUBSET Pools, opened : SUBSET Pools, raised : BOOLEAN]
  BY <1>1
<1>6. Typed
  <2>1. \A w \in Workers : worker[w].attempt <= plan.retries + 1
    BY <1>3, <1>4, IdleFacts
  <2> QED
    BY <1>1, <1>2, <1>3, <1>4, <1>5, <2>1 DEF Typed
<1>7. Shaped
  BY <1>3, IdleFacts DEF Shaped
<1> QED
  BY <1>6, <1>7

----------------------------------------------------------------------------
(* Scenarios and their results *)

\* A step of a worker goes on with its scenario, takes one, or ends it.
LEMMA StepKinds ==
  ASSUME Typed, Shaped, Placed, Numbered, NEW w \in Workers, WorkerStep(w)
  PROVE  /\ UNCHANGED <<plan, main>>
         /\ worker' = worker \/ Alone(w)
         /\ \/ /\ UNCHANGED <<next, result, givenUp>> /\ worker[w].pc # "idle"
               /\ worker'[w].pc # "idle" /\ worker'[w].s = worker[w].s
            \/ /\ next \in Scenario /\ next' = next + 1 /\ worker[w].pc = "idle" /\ main.pc = "run" /\ (Serial => ~Raised)
               /\ UNCHANGED givenUp
               /\ \/ worker' = worker /\ result' = [result EXCEPT ![next] = Early(next)]
                     /\ Early(next) \in {"refused", "cancelled", "skipped"}
                  \/ worker'[w].pc = "lease" /\ worker'[w].s = next /\ result' = result
            \/ /\ UNCHANGED next /\ worker[w].pc # "idle" /\ worker'[w] = Idle
               /\ \E how \in Ended :
                    /\ result' = [result EXCEPT ![worker[w].s] = how]
                    /\ \/ UNCHANGED givenUp
                       \/ how = "timeout" /\ givenUp' = "timeout"
                       \/ how = "exhausted" /\ givenUp' = "budget"
<1>1. CASE Take(w)
  <2>1. UNCHANGED <<plan, main>>
    BY <1>1, TakeEffect DEF poolVars
  <2>2. Early(next) = "none" => result' = result
    <3>1. next \in Scenario /\ result \in [Scenario -> Ended \union {"none"}] /\ result[next] = "none"
      BY <1>1, TakeEffect DEF Typed, Numbered, Scenario
    <3>2. result' = [result EXCEPT ![next] = Early(next)]
      BY <1>1, TakeEffect
    <3> QED
      BY <3>1, <3>2
  <2> QED
    BY <1>1, <2>1, <2>2, TakeEffect
<1>2. CASE Lease(w)
  BY <1>2, LeaseEffect DEF GetDevice, Knows
<1>3. CASE Launch(w)
  <2>1. /\ worker[w].pc = "launch" /\ Alone(w) /\ worker'[w].s = worker[w].s /\ UNCHANGED <<main, next, result, givenUp>>
        /\ worker'[w].pc \in {"run", "lease", "putback"} /\ UNCHANGED plan
    BY <1>3, LaunchEffect DEF LeaseReady, LaunchRaised, Knows
  <2> QED
    BY <2>1
<1>4. CASE FailedLease(w)
  BY <1>4, FailedLeaseEffect DEF PutBack, Knows
<1>5. CASE Run(w)
  BY <1>5, RunEffect
<1>6. CASE ReleaseNext(w)
  BY <1>6, ReleaseNextEffect DEF Release, Knows
<1>7. CASE Released(w)
  BY <1>7, ReleasedEffect DEF poolVars, Knows, Ended
<1>8. CASE Wedged(w) \/ Escape(w)
  <2>1. PICK how \in {"timeout", "down", "raised"} :
           /\ worker[w].pc = "caught" /\ Alone(w) /\ worker'[w] = Idle
           /\ result' = [result EXCEPT ![worker[w].s] = how]
           /\ givenUp' = givenUp \/ (how = "timeout" /\ givenUp' = "timeout")
           /\ UNCHANGED <<poolVars, main, next>>
    BY <1>8, EndEffect
  <2>2. how \in Ended
    BY DEF Ended
  <2> QED
    BY <2>1, <2>2 DEF poolVars
<1>9. CASE Degrade(w)
  BY <1>9, DegradeEffect DEF poolVars, Knows
<1>10. CASE Crashed(w)
  <2>1. "exhausted" \in Ended
    BY DEF Ended
  <2> QED
    BY <1>10, <2>1, CrashedEffect
<1> QED
  BY <1>1, <1>2, <1>3, <1>4, <1>5, <1>6, <1>7, <1>8, <1>9, <1>10 DEF WorkerStep

\* A scenario is run once, by one worker, and ends once.
LEMMA NumberedNext ==
  ASSUME Typed, Shaped, Placed, Numbered, LatchIsEarned, NEW w \in Workers, WorkerStep(w)
  PROVE  /\ Numbered' /\ LatchIsEarned'
         /\ \A s \in Scenario : result[s] # "none" => result'[s] = result[s]
<1>1. /\ next \in 1..(Scenarios + 1) /\ result \in [Scenario -> Ended \union {"none"}] /\ worker \in [Workers -> Worker]
      /\ UNCHANGED <<plan, main>> /\ (worker' = worker \/ Alone(w)) /\ Scenarios \in Nat
  BY StepKinds, RunnerAssumption DEF Typed
<1>2. Workers' = Workers /\ \A v \in Workers : v # w => worker'[v] = worker[v]
  BY <1>1, PlanStays DEF Alone
<1>3. /\ \A s \in Scenario : s >= next => result[s] = "none"
      /\ \A v \in Workers : worker[v].pc # "idle" =>
           /\ worker[v].s \in Scenario /\ worker[v].s < next /\ result[worker[v].s] = "none"
           /\ \A u \in Workers : worker[u].s = worker[v].s => u = v
  BY DEF Numbered
<1>4. \A v \in Workers : worker[v].pc = "idle" => worker[v].s = None
  BY IdleFacts DEF Shaped
<1>5. None \notin Scenario /\ Idle.pc = "idle" /\ Idle.s = None
  BY IdleFacts DEF Scenario, None
<1>6. ASSUME \A s \in Scenario : result[s] # "none" => result'[s] = result[s],
             \/ UNCHANGED givenUp
             \/ \E s \in Scenario : result'[s] = IF givenUp' = "timeout" THEN "timeout" ELSE "exhausted"
      PROVE  LatchIsEarned'
  BY <1>6 DEF LatchIsEarned
<1>7. CASE /\ UNCHANGED <<next, result, givenUp>> /\ worker[w].pc # "idle"
           /\ worker'[w].pc # "idle" /\ worker'[w].s = worker[w].s
  <2>1. \A v \in Workers : (worker'[v].pc = "idle" <=> worker[v].pc = "idle") /\ worker'[v].s = worker[v].s
    BY <1>2, <1>7
  <2>2. Numbered'
    BY <1>2, <1>3, <1>7, <2>1 DEF Numbered
  <2> QED
    BY <1>6, <1>7, <2>2
<1>8. CASE /\ next \in Scenario /\ next' = next + 1 /\ worker[w].pc = "idle" /\ UNCHANGED givenUp
           /\ worker' = worker /\ result' = [result EXCEPT ![next] = Early(next)]
  <2>1. \A s \in Scenario : s # next => result'[s] = result[s]
    BY <1>1, <1>8
  <2>2. \A s \in Scenario : s \in Nat /\ (s >= next + 1 => s >= next /\ s # next) /\ (s < next => s # next /\ s < next + 1)
    BY <1>1 DEF Scenario
  <2>3. Numbered'
    BY <1>2, <1>3, <1>8, <2>1, <2>2 DEF Numbered
  <2>4. \A s \in Scenario : result[s] # "none" => result'[s] = result[s]
    BY <1>3, <1>8, <2>1, <2>2
  <2> QED
    BY <1>6, <1>8, <2>3, <2>4
<1>9. CASE /\ next \in Scenario /\ next' = next + 1 /\ worker[w].pc = "idle" /\ UNCHANGED givenUp
           /\ worker'[w].pc = "lease" /\ worker'[w].s = next /\ result' = result
  <2>1. \A s \in Scenario : s \in Nat /\ (s >= next + 1 => s >= next) /\ (s < next => s # next /\ s < next + 1) /\ next < next + 1 /\ next >= next
    BY <1>1 DEF Scenario
  <2>2. ASSUME NEW v \in Workers, worker'[v].pc # "idle"
        PROVE  /\ worker'[v].s \in Scenario /\ worker'[v].s < next' /\ result'[worker'[v].s] = "none"
               /\ \A u \in Workers : worker'[u].s = worker'[v].s => u = v
    <3>1. CASE v = w
      <4>1. \A u \in Workers : u # w => worker'[u].s # next
        BY <1>2, <1>3, <1>4, <1>5, <1>9, <2>1
      <4> QED
        BY <1>3, <1>9, <2>1, <3>1, <4>1
    <3>2. CASE v # w
      BY <1>2, <1>3, <1>9, <2>1, <2>2, <3>2
    <3> QED
      BY <3>1, <3>2
  <2>3. Numbered'
    BY <1>2, <1>3, <1>9, <2>1, <2>2 DEF Numbered
  <2> QED
    BY <1>6, <1>9, <2>3
<1>10. CASE /\ UNCHANGED next /\ worker[w].pc # "idle" /\ worker'[w] = Idle
            /\ \E how \in Ended :
                 /\ result' = [result EXCEPT ![worker[w].s] = how]
                 /\ \/ UNCHANGED givenUp
                    \/ how = "timeout" /\ givenUp' = "timeout"
                    \/ how = "exhausted" /\ givenUp' = "budget"
  <2>1. worker[w].s \in Scenario /\ worker[w].s < next /\ result[worker[w].s] = "none"
    BY <1>3, <1>10
  <2>2. \A s \in Scenario : s # worker[w].s => result'[s] = result[s]
    BY <1>1, <1>10, <2>1
  <2>3. \A s \in Scenario : result[s] # "none" => result'[s] = result[s]
    BY <2>1, <2>2
  <2>4. \A s \in Scenario : s >= next => s # worker[w].s
    BY <1>1, <2>1 DEF Scenario
  <2>5. \A v \in Workers : worker'[v].pc # "idle" =>
           /\ worker'[v].s \in Scenario /\ worker'[v].s < next' /\ result'[worker'[v].s] = "none"
           /\ \A u \in Workers : worker'[u].s = worker'[v].s => u = v
    BY <1>2, <1>3, <1>5, <1>10, <2>1, <2>2
  <2>6. Numbered'
    BY <1>2, <1>3, <1>10, <2>2, <2>4, <2>5 DEF Numbered
  <2>7. \/ UNCHANGED givenUp
        \/ \E s \in Scenario : result'[s] = IF givenUp' = "timeout" THEN "timeout" ELSE "exhausted"
    BY <1>1, <1>10, <2>1
  <2> QED
    BY <1>6, <2>3, <2>6, <2>7
<1> QED
  BY <1>7, <1>8, <1>9, <1>10, StepKinds

----------------------------------------------------------------------------
(* What a scenario needs *)

\* A device missing from a lease is one its scenario needs.
LEMMA MissingFacts ==
  ASSUME Typed, NEW w \in Workers, NEW p \in Pools, worker[w].s \in Scenario
  PROVE  /\ HeldFrom(w, p) \in Nat
         /\ Missing(w, p) => plan.need[worker[w].s][p] > 0
         /\ (\A d \in Kept(w) : PoolOf(d) = p) => HeldFrom(w, p) = Len(worker[w].held)
<1> DEFINE held == worker[w].held
           from == {i \in DOMAIN held : PoolOf(held[i]) = p}
<1>1. held \in Seq(Devices) /\ Len(held) \in Nat /\ DOMAIN held = 1..Len(held)
  BY DEF Typed, Worker
<1>2. IsFiniteSet(1..Len(held)) /\ Cardinality(1..Len(held)) = Len(held)
  <2>1. Len(held) \in Int /\ 1 \in Int
    BY <1>1
  <2>2. IsFiniteSet(1..Len(held)) /\ Cardinality(1..Len(held)) = IF 1 > Len(held) THEN 0 ELSE Len(held) - 1 + 1
    BY <2>1, FS_Interval
  <2> QED
    BY <1>1, <2>2
<1>3. IsFiniteSet(from) /\ Cardinality(from) \in Nat
  <2>1. from \subseteq 1..Len(held)
    BY <1>1
  <2> QED
    BY <1>2, <2>1, FS_Subset, FS_CardinalityType
<1>4. HeldFrom(w, p) = Cardinality(from)
  BY DEF HeldFrom
<1>5. plan.need[worker[w].s][p] \in Nat
  BY DemandCovers DEF Typed
<1>6. ASSUME \A d \in Kept(w) : PoolOf(d) = p PROVE from = 1..Len(held)
  BY <1>1, <1>6 DEF Kept, ToSet
<1> HIDE DEF held, from
<1>7. HeldFrom(w, p) \in Nat
  BY <1>3, <1>4
<1>8. Missing(w, p) => plan.need[worker[w].s][p] > 0
  BY <1>5, <1>7 DEF Missing
<1>9. (\A d \in Kept(w) : PoolOf(d) = p) => HeldFrom(w, p) = Len(held)
  BY <1>2, <1>4, <1>6
<1> QED
  BY <1>7, <1>8, <1>9 DEF held

\* One worker's lease, scenario and options.
NeededBy(w) ==
  worker[w].pc # "idle" =>
    /\ \A d \in Held(w) : plan.need[worker[w].s][PoolOf(d)] > 0
    /\ worker[w].lz # None => plan.need[worker[w].s]["xcuitest"] > 0
    /\ worker[w].forced => worker[w].crashed /\ plan.need[worker[w].s]["playwright"] = 0

\* What a scenario holds it needs, and only its crash forces an erase.
LEMMA NeededNext ==
  ASSUME Typed, Shaped, Devs, Numbered, Needed, NEW w \in Workers, WorkerStep(w)
  PROVE  Needed'
<1>1. Placed /\ UNCHANGED plan /\ (worker' = worker \/ Alone(w))
  BY StepKinds DEF Devs
<1>2. Workers' = Workers /\ \A d \in Devices \union {None} : PoolOf(d)' = PoolOf(d)
  BY <1>1, PlanStays
<1>3. NeededBy(w)
  BY DEF Needed, NeededBy
<1>4. SUFFICES ASSUME Alone(w) PROVE
        worker'[w].pc # "idle" =>
          /\ \A d \in Held(w)' : plan.need[worker'[w].s][PoolOf(d)] > 0
          /\ worker'[w].lz # None => plan.need[worker'[w].s]["xcuitest"] > 0
          /\ worker'[w].forced => worker'[w].crashed /\ plan.need[worker'[w].s]["playwright"] = 0
  <2>1. CASE worker' = worker
    <3>1. \A v \in Workers : Held(v)' = Held(v) /\ Held(v) \subseteq Devices
      BY <2>1, HeldStays, HeldTypes DEF Still
    <3> QED
      BY <1>1, <1>2, <2>1, <3>1 DEF Needed
  <2>2. CASE Alone(w)
    <3>1. ASSUME NEW v \in Workers, worker'[v].pc # "idle"
          PROVE  /\ \A d \in Held(v)' : plan.need[worker'[v].s][PoolOf(d)'] > 0
                 /\ worker'[v].lz # None => plan.need[worker'[v].s]["xcuitest"] > 0
                 /\ worker'[v].forced => worker'[v].crashed /\ plan.need[worker'[v].s]["playwright"] = 0
      <4>1. Held(v)' \subseteq Devices
        <5>1. worker'[v] \in Worker
          BY <2>2 DEF Alone
        <5>2. worker'[v].held \in Seq(Devices) /\ worker'[v].dev \in Devices \union {None}
          BY <5>1 DEF Worker
        <5> QED
          BY <5>2 DEF Held, ToSet
      <4>2. CASE v = w
        BY <1>2, <1>4, <2>2, <3>1, <4>1, <4>2
      <4>3. CASE v # w
        <5>1. worker'[v] = worker[v] /\ Held(v)' = Held(v)
          BY <2>2, <4>3, OthersKeep
        <5> QED
          BY <1>2, <3>1, <4>1, <5>1 DEF Needed
      <4> QED
        BY <4>2, <4>3
    <3> QED
      BY <1>1, <1>2, <3>1 DEF Needed
  <2> QED
    BY <1>1, <2>1, <2>2
<1>5. worker[w].pc # "idle" => worker[w].s \in Scenario
  BY DEF Numbered
<1>6. Held(w) = Kept(w) \union ({worker[w].dev} \ {None}) /\ None \notin Devices
  BY HeldTypes
<1>7. Idle.pc = "idle"
  BY IdleFacts
<1>8. CASE Take(w)
  <2>1. worker' = worker \/ (Still(w) /\ worker'[w].lz = None /\ ~worker'[w].forced)
    BY <1>8, TakeEffect
  <2>2. worker[w].pc = "idle" /\ Held(w) = {}
    <3>1. worker[w].pc = "idle" /\ worker[w].held = << >> /\ worker[w].dev = None
      BY <1>8 DEF Take, Shaped
    <3> QED
      BY <1>6, <3>1 DEF Kept, ToSet
  <2>3. Still(w) => Held(w)' = Held(w)
    BY HeldStays
  <2> QED
    BY <2>1, <2>2, <2>3
<1>9. CASE Lease(w)
  <2>1. PICK p \in Pools, d \in Devices :
           /\ worker[w].pc = "lease" /\ Wanted(w, p) /\ GetDevice(p, d)
           /\ worker'[w].dev = d /\ worker'[w].held = worker[w].held /\ Knows(w)
    BY <1>9, LeaseEffect
  <2>2. PoolOf(d) = p
    <3>1. d \in Free(p)
      <4>1. free[p] \in Seq(Devices) /\ free[p] # << >> /\ d = Head(free[p])
        BY <2>1 DEF GetDevice, Typed, PoolTypeOK
      <4> QED
        BY <4>1, TailFacts DEF Free
    <3> QED
      BY <1>1, <3>1 DEF Placed
  <2>3. plan.need[worker[w].s][PoolOf(d)] > 0
    BY <1>5, <2>1, <2>2, MissingFacts DEF Wanted
  <2>4. Held(w)' \subseteq Held(w) \union {d}
    BY <2>1 DEF Held
  <2> QED
    BY <1>3, <2>1, <2>3, <2>4 DEF Knows, NeededBy
<1>10. CASE Launch(w)
  <2>1. PICK d \in Devices : \E l \in Start(PoolOf(d), d, Erases(w)) :
           /\ worker[w].pc = "launch" /\ worker[w].dev = d /\ l \in LaunchRec /\ l.to \in Devices /\ Knows(w)
           /\ worker[w].launch = NoLaunch
           /\ \/ /\ LeaseReady(PoolOf(d), d, l)
                 /\ worker'[w].held = Append(worker[w].held, l.to) /\ worker'[w].dev = None
              \/ worker'[w].held = worker[w].held /\ worker'[w].dev = worker[w].dev
    BY <1>10, LaunchEffect
  <2>2. PICK l \in Start(PoolOf(d), d, Erases(w)) :
           /\ l \in LaunchRec /\ l.to \in Devices
           /\ \/ /\ LeaseReady(PoolOf(d), d, l)
                 /\ worker'[w].held = Append(worker[w].held, l.to) /\ worker'[w].dev = None
              \/ worker'[w].held = worker[w].held /\ worker'[w].dev = worker[w].dev
    BY <2>1
  <2>3. d \in Held(w)
    BY <1>6, <2>1
  <2>4. \A e \in Held(w)' : e \in Held(w) \/ (e \in Devices /\ PoolOf(e) = PoolOf(d))
    <3>1. CASE worker'[w].held = worker[w].held /\ worker'[w].dev = worker[w].dev
      BY <3>1 DEF Held
    <3>2. CASE /\ LeaseReady(PoolOf(d), d, l)
               /\ worker'[w].held = Append(worker[w].held, l.to) /\ worker'[w].dev = None
      <4>1. PoolOf(l.to) = PoolOf(d)
        BY <2>1, <2>2, <3>2, TargetFacts DEF LeaseReady
      <4>2. worker[w].held \in Seq(Devices)
        BY DEF Typed, Worker
      <4>3. Held(w)' = Kept(w) \union {l.to}
        BY <2>2, <3>2, <4>2, AppendFacts DEF Held, Kept
      <4> QED
        BY <1>6, <2>2, <4>1, <4>3
    <3> QED
      BY <2>2, <3>1, <3>2
  <2> QED
    BY <1>3, <2>1, <2>3, <2>4 DEF Knows, NeededBy
<1>11. CASE FailedLease(w)
  <2>1. worker[w].pc = "putback" /\ Knows(w) /\ worker'[w].dev = None /\ worker'[w].held = worker[w].held
    BY <1>11, FailedLeaseEffect
  <2>2. Held(w)' \subseteq Held(w)
    BY <2>1 DEF Held
  <2> QED
    BY <1>3, <2>1, <2>2 DEF Knows, NeededBy
<1>12. CASE Run(w)
  <2>1. /\ worker[w].pc = "run" /\ Still(w) /\ worker'[w].s = worker[w].s
        /\ worker'[w].forced = worker[w].forced /\ worker'[w].crashed = worker[w].crashed
        /\ worker'[w].lz = worker[w].lz \/ \E d \in Kept(w) : d \in Devices /\ PoolOf(d) = "xcuitest"
    BY <1>12, RunEffect
  <2>2. Held(w)' = Held(w)
    BY <2>1, HeldStays
  <2> QED
    BY <1>3, <1>6, <2>1, <2>2 DEF NeededBy
<1>13. CASE ReleaseNext(w)
  <2>1. worker[w].pc = "release" /\ Knows(w) /\ worker'[w].dev = None /\ ToSet(worker'[w].held) \subseteq Kept(w)
    BY <1>1, <1>13, ReleaseNextEffect
  <2>2. Held(w)' \subseteq Held(w)
    BY <1>6, <2>1 DEF Held
  <2> QED
    BY <1>3, <2>1, <2>2 DEF Knows, NeededBy
<1>14. CASE Released(w)
  <2>1. worker[w].pc = "release" /\ Still(w) /\ (worker'[w] = Idle \/ Knows(w))
    BY <1>14, ReleasedEffect
  <2>2. Held(w)' = Held(w)
    BY <2>1, HeldStays
  <2> QED
    BY <1>3, <1>7, <2>1, <2>2 DEF Knows, NeededBy
<1>15. CASE Wedged(w) \/ Escape(w)
  BY <1>7, <1>15, EndEffect
<1>16. CASE Degrade(w)
  <2>1. worker[w].pc = "caught" /\ Still(w) /\ Knows(w)
    BY <1>16, DegradeEffect
  <2>2. Held(w)' = Held(w)
    BY <2>1, HeldStays
  <2> QED
    BY <1>3, <2>1, <2>2 DEF Knows, NeededBy
<1>17. CASE Crashed(w)
  <2>1. /\ worker[w].pc = "caught" /\ Still(w)
        /\ \/ /\ worker'[w].s = worker[w].s
              /\ worker'[w].lz = None /\ worker'[w].crashed /\ worker'[w].forced = Forces(worker[w].s)
           \/ worker'[w] = Idle
    BY <1>17, CrashedEffect
  <2>2. Held(w)' = Held(w)
    BY <2>1, HeldStays
  <2> QED
    BY <1>3, <1>7, <2>1, <2>2 DEF NeededBy, Forces
<1> QED
  BY <1>8, <1>9, <1>10, <1>11, <1>12, <1>13, <1>14, <1>15, <1>16, <1>17 DEF WorkerStep

----------------------------------------------------------------------------
(* The phases of a run *)

\* A step of a worker warms only a Simulator it holds, and a collector only
\* follows its device.
LEMMA WarmStep ==
  ASSUME Typed, Shaped, Devs, NEW w \in Workers, WorkerStep(w)
  PROVE  /\ \A d \in warm' \ warm : \E x \in Held(w) : PoolOf(x) = "xcuitest" /\ worker[w].pc = "launch"
         /\ \A c \in collectors' : c \in collectors \/ (c \in Devices /\ \E d \in collectors : PoolOf(c) = PoolOf(d))
         /\ collectors' # {} => collectors # {}
<1>1. Placed /\ warm \subseteq Devices /\ collectors \subseteq Devices
  BY DEF Devs, Typed, PoolTypeOK
<1>2. \A d, e : Adopted(d, e) = collectors \/ (d \in collectors /\ Adopted(d, e) = (collectors \ {d}) \union {e})
  BY DEF Adopted
<1>3. CASE Launch(w)
  <2>1. PICK d \in Devices : \E l \in Start(PoolOf(d), d, Erases(w)) :
           /\ worker[w].pc = "launch" /\ worker[w].dev = d /\ worker[w].launch = NoLaunch
           /\ l \in LaunchRec /\ l.to \in Devices
           /\ LeaseReady(PoolOf(d), d, l) \/ LaunchRaised(d, l)
    BY <1>3, LaunchEffect
  <2>2. PICK l \in Start(PoolOf(d), d, Erases(w)) :
           /\ l \in LaunchRec /\ l.to \in Devices
           /\ LeaseReady(PoolOf(d), d, l) \/ LaunchRaised(d, l)
    BY <2>1
  <2>3. d \in Held(w)
    BY <2>1, HeldTypes
  <2>4. CASE LaunchRaised(d, l)
    BY <2>4 DEF LaunchRaised
  <2>5. CASE LeaseReady(PoolOf(d), d, l)
    <3>1. PoolOf(l.to) = PoolOf(d)
      BY <2>1, <2>2, <2>5, TargetFacts DEF LeaseReady
    <3>2. /\ warm' = (warm \ {d}) \union (IF PoolOf(d) = "xcuitest" THEN {l.to} ELSE {})
          /\ collectors' = Adopted(d, l.to)
      BY <2>5 DEF LeaseReady
    <3> QED
      BY <1>2, <2>1, <2>2, <2>3, <3>1, <3>2
  <2> QED
    BY <2>2, <2>4, <2>5
<1>4. CASE FailedLease(w)
  <2>1. PICK d \in Devices, l \in LaunchRec :
           /\ d = worker[w].dev /\ l = worker[w].launch /\ l.to \in Devices /\ PutBack(PoolOf(d), d, l)
    BY <1>4, FailedLeaseEffect
  <2>2. PoolOf(l.to) = PoolOf(d)
    BY <1>1, <2>1 DEF Placed
  <2>3. warm' = warm \ {d} /\ collectors' = Adopted(d, l.to)
    BY <2>1 DEF PutBack
  <2> QED
    BY <1>2, <2>1, <2>2, <2>3
<1>5. CASE ReleaseNext(w)
  <2>1. PICK d \in Devices, end \in Ends : Release(PoolOf(d), d, end)
    BY <1>1, <1>5, ReleaseNextEffect
  <2> QED
    BY <2>1 DEF Release
<1>6. CASE UNCHANGED <<warm, collectors>>
  BY <1>6
<1>7. Take(w) \/ Released(w) \/ Wedged(w) \/ Escape(w) \/ Degrade(w) => UNCHANGED <<warm, collectors>>
  BY DEF Take, Released, Wedged, Escape, Degrade, poolVars
<1>8. Lease(w) \/ Run(w) \/ Crashed(w) => UNCHANGED <<warm, collectors>>
  BY DEF Lease, GetDevice, Run, Crashed
<1> QED
  BY <1>3, <1>4, <1>5, <1>6, <1>7, <1>8 DEF WorkerStep

\* While the workers run every pool the scenarios need is open.
LEMMA PhasedWorker ==
  ASSUME Typed, Shaped, Devs, Phased, Numbered, Needed, NEW w \in Workers, WorkerStep(w)
  PROVE  Phased'
<1>1. Placed
  BY DEF Devs
<1>2. UNCHANGED <<plan, main>> /\ (worker[w].pc # "idle" \/ main.pc = "run")
  BY <1>1, StepKinds
<1>3. main.pc = "run" /\ main.opened = Wanting /\ (warm \union collectors # {} => "xcuitest" \in Wanting)
  BY <1>2 DEF Phased, Answers
<1>4. Wanting' = Wanting /\ main' = main /\ \A d \in Devices : PoolOf(d)' = PoolOf(d)
  BY <1>2, PlanStays
<1>5. collectors \subseteq Devices /\ \A c \in collectors : PoolOf(c) = "xcuitest"
  BY DEF Typed, PoolTypeOK, Phased
<1>6. \A c \in collectors' : PoolOf(c)' = "xcuitest"
  BY <1>4, <1>5, WarmStep
<1>7. ASSUME NEW x \in Held(w), PoolOf(x) = "xcuitest", worker[w].pc = "launch" PROVE "xcuitest" \in Wanting
  <2>1. plan.need[worker[w].s]["xcuitest"] > 0 /\ worker[w].s \in Scenario
    BY <1>7 DEF Needed, Numbered
  <2>2. "xcuitest" \in Pools
    BY DEF Pools
  <2>3. /\ plan.need[worker[w].s]["xcuitest"] \in Nat /\ Demand("xcuitest") \in Nat
        /\ plan.need[worker[w].s]["xcuitest"] <= Demand("xcuitest")
    BY <2>1, <2>2, DemandCovers DEF Typed
  <2> QED
    BY <2>1, <2>2, <2>3 DEF Wanting
<1>8. warm' \union collectors' # {} => "xcuitest" \in Wanting
  BY <1>3, <1>7, WarmStep
<1> QED
  BY <1>3, <1>4, <1>6, <1>8 DEF Phased, Answers

\* The command opens every pool, runs, and closes every pool.
LEMMA PhasedMain ==
  ASSUME Typed, Shaped, Devs, Phased, MainStep \/ Cancel \/ UNCHANGED vars
  PROVE  Phased'
<1>1. UNCHANGED <<plan, worker>>
  BY DEF MainStep, Cancel, vars, poolVars, runVars, Collect, Joined, Closed, Open, Close, OpenPool, Shutdown
<1>2. Workers' = Workers /\ Wanting' = Wanting /\ \A d \in Devices : PoolOf(d)' = PoolOf(d)
  BY <1>1, PlanStays
<1>3. /\ main \in [pc : {"open", "run", "close", "over"}, todo : SUBSET Pools, opened : SUBSET Pools, raised : BOOLEAN]
      /\ warm \subseteq Devices /\ collectors \subseteq Devices /\ \A c \in collectors : PoolOf(c) = "xcuitest"
      /\ \A d \in warm : PoolOf(d) = "xcuitest"
  BY DEF Typed, PoolTypeOK, Phased, Devs, WarmPlaced
<1>4. /\ main.pc # "run" => \A w \in Workers : worker[w].pc = "idle"
      /\ main.pc = "open" => warm = {} /\ main.todo \union main.opened = Wanting
      /\ main.pc = "run" => main.opened = Wanting
      /\ main.pc = "over" => main.todo = {}
      /\ warm \union collectors # {} => "xcuitest" \in Answers
  BY DEF Phased
<1>5. CASE UNCHANGED <<warm, collectors>> /\ main' = main
  BY <1>1, <1>2, <1>3, <1>4, <1>5 DEF Phased, Answers
<1>6. CASE Collect
  <2>1. UNCHANGED <<warm, collectors>> /\ main' = [main EXCEPT !.raised = TRUE]
    BY <1>6 DEF Collect, poolVars
  <2>2. main'.pc = main.pc /\ main'.todo = main.todo /\ main'.opened = main.opened
    BY <1>3, <2>1
  <2> QED
    BY <1>1, <1>2, <1>3, <1>4, <2>1, <2>2 DEF Phased, Answers
<1>7. CASE Joined
  <2>1. /\ UNCHANGED <<warm, collectors>> /\ main.pc = "run" /\ \A w \in Workers : worker[w].pc = "idle"
        /\ main' = [main EXCEPT !.pc = "close", !.todo = main.opened, !.raised = @ \/ Raised]
    BY <1>7 DEF Joined, poolVars
  <2>2. main'.pc = "close" /\ main'.todo = main.opened /\ main'.opened = main.opened
    BY <1>3, <2>1
  <2> QED
    BY <1>1, <1>2, <1>3, <1>4, <2>1, <2>2 DEF Phased, Answers
<1>8. CASE Closed
  <2>1. /\ UNCHANGED <<warm, collectors>> /\ main.pc = "close" /\ main.todo = {}
        /\ main' = [main EXCEPT !.pc = "over", !.raised = @ \/ defect]
    BY <1>8 DEF Closed, poolVars
  <2>2. main'.pc = "over" /\ main'.todo = main.todo /\ main'.opened = main.opened
    BY <1>3, <2>1
  <2> QED
    BY <1>1, <1>2, <1>3, <1>4, <2>1, <2>2 DEF Phased, Answers
<1>9. ASSUME NEW p \in Pools, Open(p) PROVE Phased'
  <2>1. PICK ok \in BOOLEAN :
          /\ OpenPool(p, ok) /\ main.pc = "open" /\ p \in main.todo
          /\ main' = IF ok
                     THEN [main EXCEPT !.todo = @ \ {p}, !.opened = @ \union {p},
                                       !.pc = IF main.todo = {p} THEN "run" ELSE "open"]
                     ELSE [main EXCEPT !.todo = main.opened, !.pc = "close", !.raised = TRUE]
    BY <1>9 DEF Open
  <2>2. warm' = {} /\ warm = {} /\ main.todo \union main.opened = Wanting /\ \A w \in Workers : worker[w].pc = "idle"
    BY <1>4, <2>1 DEF OpenPool
  <2>3. CASE ok
    <3>1. /\ main'.todo = main.todo \ {p} /\ main'.opened = main.opened \union {p}
          /\ main'.pc = IF main.todo = {p} THEN "run" ELSE "open"
      BY <1>3, <2>1, <2>3
    <3>2. collectors' = IF p = "xcuitest" THEN collectors \union Lanes(p) ELSE collectors
      BY <2>1, <2>3 DEF OpenPool
    <3>3. \A c \in Lanes(p) : c \in Devices /\ PoolOf(c) = p
      BY PoolFacts DEF Lanes, Typed
    <3>4. \A c \in collectors' : PoolOf(c)' = "xcuitest"
      BY <1>2, <1>3, <3>2, <3>3
    <3>5. collectors' # {} => "xcuitest" \in main'.opened
      BY <1>4, <2>1, <3>1, <3>2 DEF Answers
    <3>6. main'.todo \union main'.opened = Wanting /\ (main'.pc = "run" => main'.opened = Wanting)
      BY <2>1, <2>2, <3>1
    <3> QED
      BY <1>1, <1>2, <2>2, <3>1, <3>4, <3>5, <3>6 DEF Phased, Answers
  <2>4. CASE ~ok
    <3>1. main'.todo = main.opened /\ main'.opened = main.opened /\ main'.pc = "close"
      BY <1>3, <2>1, <2>4
    <3>2. collectors' = collectors
      BY <2>1, <2>4 DEF OpenPool
    <3> QED
      BY <1>1, <1>2, <1>3, <1>4, <2>1, <2>2, <3>1, <3>2 DEF Phased, Answers
  <2> QED
    BY <2>3, <2>4
<1>10. ASSUME NEW p \in Pools, Close(p) PROVE Phased'
  <2>1. PICK faulty \in BOOLEAN : Shutdown(p, faulty) /\ main.pc = "close" /\ main' = [main EXCEPT !.todo = @ \ {p}]
    BY <1>10 DEF Close
  <2>2. main'.pc = "close" /\ main'.todo = main.todo \ {p}
    BY <1>3, <2>1
  <2>3. warm' = warm \ {d \in warm : PoolOf(d) = p} /\ collectors' = {d \in collectors : PoolOf(d) # p}
    BY <2>1 DEF Shutdown
  <2>4. warm' \subseteq warm /\ collectors' \subseteq collectors /\ (p = "xcuitest" => warm' = {} /\ collectors' = {})
    BY <1>3, <2>3
  <2> QED
    BY <1>1, <1>2, <1>3, <1>4, <2>1, <2>2, <2>4 DEF Phased, Answers
<1>11. CASE Cancel \/ UNCHANGED vars
  BY <1>5, <1>11 DEF Cancel, vars, poolVars, runVars
<1> QED
  BY <1>6, <1>7, <1>8, <1>9, <1>10, <1>11 DEF MainStep

\* The command records no scenario's end and moves no worker.
LEMMA MainKeeps ==
  ASSUME Typed, Numbered, Needed, LatchIsEarned, MainStep \/ Cancel \/ UNCHANGED vars
  PROVE  Numbered' /\ Needed' /\ LatchIsEarned' /\ UNCHANGED <<plan, result, worker>>
<1>1. UNCHANGED <<plan, next, result, givenUp, worker>>
  BY DEF MainStep, Cancel, vars, poolVars, runVars, Collect, Joined, Closed, Open, Close, OpenPool, Shutdown
<1>2. Workers' = Workers /\ \A d \in Devices \union {None} : PoolOf(d)' = PoolOf(d)
  BY <1>1, PlanStays
<1>3. Numbered' /\ LatchIsEarned'
  BY <1>1, <1>2 DEF Numbered, LatchIsEarned
<1>4. \A w \in Workers : Held(w)' = Held(w) /\ Held(w) \subseteq Devices
  BY <1>1, HeldTypes, HeldStays DEF Still
<1>5. Needed'
  BY <1>1, <1>2, <1>4 DEF Needed
<1> QED
  BY <1>1, <1>3, <1>5

----------------------------------------------------------------------------
(* The device asked for *)

\* The queue of Simulators when there is only one of them.
LEMMA OnlyOne ==
  ASSUME Typed, Devs, Len(plan.lanes["xcuitest"]) = 1, NEW d \in Free("xcuitest")
  PROVE  /\ free["xcuitest"] # << >> /\ Head(free["xcuitest"]) = d
         /\ \A w \in Workers : \A x \in Held(w) : PoolOf(x) = "playwright"
<1>1. "xcuitest" \in Pools
  BY DEF Pools
<1>2. free["xcuitest"] \in Seq(Devices) /\ \A w \in Workers : Held(w) \subseteq Devices
  BY <1>1, HeldTypes
<1>3. /\ IsFiniteSet(Out("xcuitest"))
      /\ Len(free["xcuitest"]) + Cardinality(Out("xcuitest")) = 1
  BY <1>1 DEF Devs, Conserved
<1>4. Len(free["xcuitest"]) \in Nat /\ DOMAIN free["xcuitest"] = 1..Len(free["xcuitest"])
  BY <1>2
<1>5. PICK i \in 1..Len(free["xcuitest"]) : free["xcuitest"][i] = d
  BY <1>4 DEF Free, ToSet
<1>6. Cardinality(Out("xcuitest")) \in Nat
  BY <1>3, FS_CardinalityType
<1>7. Len(free["xcuitest"]) = 1 /\ Cardinality(Out("xcuitest")) = 0
  <2> DEFINE n == Len(free["xcuitest"])
             c == Cardinality(Out("xcuitest"))
  <2>1. n \in Nat /\ c \in Nat /\ n + c = 1 /\ i \in 1..n
    BY <1>3, <1>4, <1>5, <1>6
  <2> HIDE DEF n, c
  <2>2. n = 1 /\ c = 0
    BY <2>1
  <2> QED
    BY <2>2 DEF n, c
<1>8. Out("xcuitest") = {}
  BY <1>3, <1>7, FS_EmptySet
<1>9. free["xcuitest"] # << >> /\ Head(free["xcuitest"]) = d
  BY <1>2, <1>5, <1>7
<1>10. ASSUME NEW w \in Workers, NEW x \in Held(w) PROVE PoolOf(x) = "playwright"
  <2>1. <<w, x>> \in Workers \X Devices
    BY <1>2, <1>10
  <2>2. PoolOf(x) # "xcuitest"
    BY <1>8, <1>10, <2>1 DEF Out
  <2> QED
    BY <2>2, PoolFacts DEF Typed
<1> QED
  BY <1>9, <1>10

\* A worker that waits for the device its scenario asked for still does.
LEMMA WaitsBy ==
  ASSUME UNCHANGED plan, NEW d \in Devices, env'[d].asked = env[d].asked,
         worker' \in [Workers -> Worker], 1 \in Workers,
         worker'[1].s = env[d].asked, plan.need[env[d].asked]["xcuitest"] > 0,
         worker'[1].pc \in {"lease", "launch", "putback", "release", "caught"},
         worker'[1].pc \in {"putback", "release", "caught"} => worker'[1].exc = "device" /\ ~worker'[1].forced,
         \A e \in ToSet(worker'[1].held) : PoolOf(e) = "playwright",
         d \in ToSet(free'["xcuitest"]) \/ (worker'[1].pc = "launch" /\ worker'[1].dev = d),
         \A e \in Devices : worker'[1].pc = "launch" /\ worker'[1].dev = e /\ PoolOf(e) = "playwright" =>
           Len(worker'[1].held) < plan.need[env[d].asked]["playwright"]
  PROVE  Waits(d)'
<1>1. \A e \in Devices \union {None} : PoolOf(e)' = PoolOf(e)
  BY PlanStays
<1>2. ToSet(worker'[1].held) \subseteq Devices
  <2>1. worker'[1].held \in Seq(Devices)
    BY DEF Worker
  <2> QED
    BY <2>1 DEF ToSet
<1>3. \A e \in Kept(1)' : PoolOf(e)' = "playwright"
  BY <1>1, <1>2 DEF Kept
<1>4. d \in Free("xcuitest")' \/ (worker'[1].pc = "launch" /\ worker'[1].dev = d)
  BY DEF Free
<1>5. \A e \in Devices : worker'[1].pc = "launch" /\ worker'[1].dev = e /\ PoolOf(e)' = "playwright" =>
        Len(worker'[1].held) < plan'.need[env'[d].asked]["playwright"]
  BY <1>1
<1> QED
  BY <1>3, <1>4, <1>5 DEF Waits

\* Until its own scenario serves it or fails with it, a request waits.
LEMMA WaitsOn ==
  ASSUME Typed, Shaped, Devs, Numbered, Needed, WorkerStep(1), Workers = {1},
         NEW d \in Devices, env[d].asked # None, env'[d].asked = env[d].asked,
         PoolOf(d) = "xcuitest", Len(plan.lanes["xcuitest"]) = 1, Waits(d)
  PROVE  Raised' \/ Waits(d)'
<1> DEFINE s == env[d].asked
<1>1. Placed /\ UNCHANGED plan /\ 1 \in Workers
  BY StepKinds DEF Devs
<1>2. /\ worker[1].s = s /\ plan.need[s]["xcuitest"] > 0
      /\ worker[1].pc \in {"lease", "launch", "putback", "release", "caught"}
      /\ worker[1].pc \in {"putback", "release", "caught"} => worker[1].exc = "device" /\ ~worker[1].forced
      /\ \A e \in Kept(1) : PoolOf(e) = "playwright"
      /\ d \in Free("xcuitest") \/ (worker[1].pc = "launch" /\ worker[1].dev = d)
      /\ \A e \in Devices : worker[1].pc = "launch" /\ worker[1].dev = e /\ PoolOf(e) = "playwright" =>
           Len(worker[1].held) < plan.need[s]["playwright"]
  BY DEF Waits
<1>3. s \in Scenario /\ {"xcuitest", "playwright"} = Pools
  BY <1>1, <1>2 DEF Numbered, Pools
<1>4. plan.need[s]["xcuitest"] \in Nat /\ plan.need[s]["playwright"] \in Nat
  BY <1>3, DemandCovers DEF Typed
<1>5. /\ free["xcuitest"] \in Seq(Devices) /\ worker[1].held \in Seq(Devices) /\ free \in [Pools -> Seq(Devices)]
      /\ env \in [Devices -> [runner : {"none", "alive", "dead"}, asked : Nat]] /\ worker[1] \in Worker
  BY <1>1, <1>3 DEF Typed, PoolTypeOK, Worker
<1> HIDE DEF s
<1>6. ASSUME worker' \in [Workers -> Worker], worker'[1].s = s,
             worker'[1].pc \in {"lease", "launch", "putback", "release", "caught"},
             worker'[1].pc \in {"putback", "release", "caught"} => worker'[1].exc = "device" /\ ~worker'[1].forced,
             \A e \in ToSet(worker'[1].held) : PoolOf(e) = "playwright",
             d \in ToSet(free'["xcuitest"]) \/ (worker'[1].pc = "launch" /\ worker'[1].dev = d),
             \A e \in Devices : worker'[1].pc = "launch" /\ worker'[1].dev = e /\ PoolOf(e) = "playwright" =>
               Len(worker'[1].held) < plan.need[s]["playwright"]
      PROVE  Waits(d)'
  BY <1>1, <1>2, <1>6, WaitsBy DEF s
<1>7. CASE Take(1)
  BY <1>2, <1>7 DEF Take
<1>8. CASE Lease(1)
  <2>1. PICK p \in Pools, x \in Devices :
           /\ worker[1].pc = "lease" /\ Wanted(1, p) /\ GetDevice(p, x)
           /\ Alone(1) /\ worker'[1].pc = "launch" /\ worker'[1].dev = x
           /\ worker'[1].held = worker[1].held /\ Knows(1)
    BY <1>1, <1>8, LeaseEffect
  <2>2. d \in Free("xcuitest")
    BY <1>2, <2>1
  <2>3. free[p] # << >> /\ x = Head(free[p]) /\ free' = [free EXCEPT ![p] = Tail(free[p])]
    BY <2>1 DEF GetDevice
  <2>4. PoolOf(x) = p
    <3>1. x \in Free(p)
      BY <1>5, <2>3, TailFacts DEF Free
    <3> QED
      BY <1>1, <3>1 DEF Placed
  <2>5. d \in ToSet(free'["xcuitest"]) \/ x = d
    <3>1. CASE p = "xcuitest"
      BY <2>2, <2>3, <3>1, OnlyOne
    <3>2. CASE p # "xcuitest"
      <4>1. free'["xcuitest"] = free["xcuitest"]
        BY <1>3, <1>5, <2>3, <3>2
      <4> QED
        BY <2>2, <4>1 DEF Free
    <3> QED
      BY <3>1, <3>2
  <2>6. p = "playwright" => Len(worker[1].held) < plan.need[s]["playwright"]
    <3>1. ASSUME p = "playwright" PROVE Len(worker[1].held) < plan.need[s]["playwright"]
      <4>1. HeldFrom(1, p) = Len(worker[1].held)
        BY <1>1, <1>2, <1>3, <3>1, MissingFacts
      <4> QED
        BY <1>2, <2>1, <3>1, <4>1 DEF Wanted, Missing
    <3> QED
      BY <3>1
  <2> QED
    BY <1>2, <1>6, <2>1, <2>4, <2>5, <2>6 DEF Alone, Knows, Kept
<1>9. CASE Launch(1)
  <2>1. PICK x \in Devices : \E l \in Start(PoolOf(x), x, Erases(1)) :
           /\ worker[1].pc = "launch" /\ worker[1].dev = x
           /\ l \in LaunchRec /\ l.to \in Devices
           /\ Alone(1) /\ Knows(1)
           /\ \/ /\ LeaseReady(PoolOf(x), x, l)
                 /\ worker'[1].held = Append(worker[1].held, l.to)
                 /\ worker'[1].pc = IF Len(worker[1].held) + 1 = plan.need[worker[1].s]["playwright"] + plan.need[worker[1].s]["xcuitest"]
                                    THEN "run" ELSE "lease"
              \/ /\ LaunchRaised(x, l)
                 /\ worker'[1].held = worker[1].held
                 /\ worker'[1].pc = "putback" /\ worker'[1].exc = l.exc /\ l.exc # "none"
    BY <1>1, <1>9, LaunchEffect
  <2>2. PICK l \in Start(PoolOf(x), x, Erases(1)) :
           /\ l \in LaunchRec /\ l.to \in Devices
           /\ \/ /\ LeaseReady(PoolOf(x), x, l)
                 /\ worker'[1].held = Append(worker[1].held, l.to)
                 /\ worker'[1].pc = IF Len(worker[1].held) + 1 = plan.need[worker[1].s]["playwright"] + plan.need[worker[1].s]["xcuitest"]
                                    THEN "run" ELSE "lease"
              \/ /\ LaunchRaised(x, l)
                 /\ worker'[1].held = worker[1].held
                 /\ worker'[1].pc = "putback" /\ worker'[1].exc = l.exc /\ l.exc # "none"
    BY <2>1
  <2>3. AfterStart(x, l) /\ free' = free
    BY <2>2 DEF LeaseReady, LaunchRaised
  <2>4. x # d
    <3>1. ASSUME x = d PROVE env'[d].asked = None
      BY <1>5, <2>2, <2>3, <3>1 DEF AfterStart, Blank
    <3> QED
      BY <3>1
  <2>5. d \in Free("xcuitest")
    BY <1>2, <2>1, <2>4
  <2>6. x \in Held(1) /\ PoolOf(x) = "playwright"
    <3>1. x \in Held(1)
      BY <1>1, <2>1, HeldTypes
    <3> QED
      BY <1>1, <2>5, <3>1, OnlyOne
  <2>7. l.to = x /\ l.exc \in {"none", "device"}
    BY <2>2, <2>6, StartFacts DEF Typed
  <2>8. ~worker[1].forced
    <3>1. plan.need[s]["playwright"] > 0
      BY <1>1, <1>2, <2>6 DEF Needed
    <3> QED
      BY <1>1, <1>2, <1>4, <3>1 DEF Needed
  <2>9. d \in ToSet(free'["xcuitest"])
    BY <2>3, <2>5 DEF Free
  <2>10. CASE /\ worker'[1].held = Append(worker[1].held, l.to)
              /\ worker'[1].pc = IF Len(worker[1].held) + 1 = plan.need[worker[1].s]["playwright"] + plan.need[worker[1].s]["xcuitest"]
                                 THEN "run" ELSE "lease"
    <3>1. Len(worker[1].held) < plan.need[s]["playwright"] /\ Len(worker[1].held) \in Nat
      BY <1>2, <1>5, <2>1, <2>6
    <3>2. Len(worker[1].held) + 1 # plan.need[s]["playwright"] + plan.need[s]["xcuitest"]
      <4> DEFINE n == Len(worker[1].held)
                 b == plan.need[s]["playwright"]
                 sims == plan.need[s]["xcuitest"]
      <4>1. n \in Nat /\ b \in Nat /\ sims \in Nat /\ n < b /\ sims > 0
        BY <1>2, <1>4, <3>1
      <4> HIDE DEF n, b, sims
      <4>2. n + 1 # b + sims
        BY <4>1
      <4> QED
        BY <4>2 DEF n, b, sims
    <3>3. worker'[1].pc = "lease"
      BY <1>2, <2>10, <3>2
    <3>4. ToSet(worker'[1].held) = Kept(1) \union {x}
      BY <1>5, <2>7, <2>10, AppendFacts DEF Kept
    <3> QED
      BY <1>2, <1>6, <2>1, <2>6, <2>9, <3>3, <3>4 DEF Alone, Knows
  <2>11. CASE /\ worker'[1].held = worker[1].held
              /\ worker'[1].pc = "putback" /\ worker'[1].exc = l.exc /\ l.exc # "none"
    BY <1>2, <1>6, <2>1, <2>7, <2>8, <2>9, <2>11 DEF Alone, Knows, Kept
  <2> QED
    BY <2>2, <2>10, <2>11
<1>10. CASE FailedLease(1)
  <2>1. PICK x \in Devices, l \in LaunchRec :
           /\ worker[1].pc = "putback" /\ l.to \in Devices /\ PutBack(PoolOf(x), x, l)
           /\ Alone(1) /\ Knows(1) /\ worker'[1].exc = worker[1].exc
           /\ worker'[1].pc = "release" /\ worker'[1].held = worker[1].held
    BY <1>1, <1>10, FailedLeaseEffect
  <2>2. free' = [free EXCEPT ![PoolOf(x)] = Append(free[PoolOf(x)], l.to)]
    BY <2>1 DEF PutBack
  <2>3. ToSet(free["xcuitest"]) \subseteq ToSet(free'["xcuitest"])
    <3>1. CASE PoolOf(x) = "xcuitest"
      BY <1>3, <1>5, <2>1, <2>2, <3>1, AppendFacts
    <3>2. CASE PoolOf(x) # "xcuitest"
      BY <1>3, <1>5, <2>2, <3>2
    <3> QED
      BY <3>1, <3>2
  <2> QED
    BY <1>2, <1>6, <2>1, <2>3 DEF Alone, Knows, Kept, Free
<1>11. CASE Run(1)
  BY <1>2, <1>11 DEF Run
<1>12. CASE ReleaseNext(1)
  <2>1. PICK x \in Devices, end \in Ends :
           /\ worker[1].pc = "release" /\ Release(PoolOf(x), x, end)
           /\ Alone(1) /\ Knows(1) /\ worker'[1].exc = worker[1].exc
           /\ worker'[1].pc = "release" /\ ToSet(worker'[1].held) = Kept(1) \ {x}
    BY <1>1, <1>12, ReleaseNextEffect
  <2>2. free' = [free EXCEPT ![PoolOf(x)] = Append(free[PoolOf(x)], x)]
    BY <2>1 DEF Release
  <2>3. ToSet(free["xcuitest"]) \subseteq ToSet(free'["xcuitest"])
    <3>1. CASE PoolOf(x) = "xcuitest"
      BY <1>3, <1>5, <2>1, <2>2, <3>1, AppendFacts
    <3>2. CASE PoolOf(x) # "xcuitest"
      BY <1>3, <1>5, <2>2, <3>2
    <3> QED
      BY <3>1, <3>2
  <2> QED
    BY <1>2, <1>6, <2>1, <2>3 DEF Alone, Knows, Free
<1>13. CASE Released(1)
  <2>1. /\ worker[1].pc = "release" /\ Alone(1) /\ Still(1) /\ free' = free
        /\ \/ worker[1].exc = "none"
           \/ worker'[1].pc = "caught" /\ Knows(1) /\ worker'[1].exc = worker[1].exc
    BY <1>1, <1>13, ReleasedEffect DEF poolVars
  <2> QED
    BY <1>2, <1>6, <2>1 DEF Alone, Still, Knows, Kept, Free
<1>14. CASE Wedged(1) \/ Escape(1)
  <2>1. PICK how \in {"timeout", "down", "raised"} :
           /\ worker[1].pc = "caught" /\ result' = [result EXCEPT ![worker[1].s] = how]
           /\ how = "timeout" => worker[1].forced
    BY <1>1, <1>14, EndEffect
  <2>2. how \in {"down", "raised"} /\ result'[s] = how
    BY <1>2, <1>3, <2>1 DEF Typed
  <2> QED
    BY <1>3, <2>2 DEF Raised
<1>15. CASE Degrade(1)
  BY <1>1, <1>2, <1>15, DegradeEffect
<1>16. CASE Crashed(1)
  BY <1>1, <1>2, <1>16, CrashedEffect
<1> QED
  BY <1>7, <1>8, <1>9, <1>10, <1>11, <1>12, <1>13, <1>14, <1>15, <1>16 DEF WorkerStep

\* Only a crash asks for another device, and only for one the pool keeps.
LEMMA AskedStep ==
  ASSUME Typed, Shaped, Placed, NEW w \in Workers, WorkerStep(w), NEW d \in Devices, env'[d].asked # None
  PROVE  \/ env'[d].asked = env[d].asked
         \/ /\ worker[w].pc = "caught" /\ Alone(w) /\ Still(w) /\ UNCHANGED <<plan, free>>
            /\ plan.booted /\ worker[w].lz = d /\ d \in warm /\ env'[d].asked = worker[w].s
            /\ worker'[w].pc = "lease" /\ worker'[w].s = worker[w].s
<1>1. env \in [Devices -> [runner : {"none", "alive", "dead"}, asked : Nat]] /\ Blank.asked = None
  BY DEF Typed, PoolTypeOK, Blank
<1>2. CASE Take(w) \/ Released(w) \/ Degrade(w) \/ Wedged(w) \/ Escape(w)
  BY <1>2 DEF Take, Released, Degrade, Wedged, Escape, poolVars
<1>3. CASE Lease(w)
  <2>1. PICK p \in Pools, x \in Devices : GetDevice(p, x)
    BY <1>3, LeaseEffect
  <2> QED
    BY <1>1, <2>1 DEF GetDevice
<1>4. CASE Launch(w)
  <2>1. PICK x \in Devices : \E l \in Start(PoolOf(x), x, Erases(w)) :
           l.to \in Devices /\ (LeaseReady(PoolOf(x), x, l) \/ LaunchRaised(x, l))
    BY <1>4, LaunchEffect
  <2>2. PICK l \in Start(PoolOf(x), x, Erases(w)) :
           l.to \in Devices /\ (LeaseReady(PoolOf(x), x, l) \/ LaunchRaised(x, l))
    BY <2>1
  <2>3. env' = [env EXCEPT ![x] = Blank, ![l.to] = [runner |-> l.runner, asked |-> None]]
    BY <2>2 DEF LeaseReady, LaunchRaised, AfterStart
  <2> QED
    BY <1>1, <2>2, <2>3
<1>5. CASE FailedLease(w)
  <2>1. PICK x \in Devices, l \in LaunchRec : l.to \in Devices /\ PutBack(PoolOf(x), x, l)
    BY <1>5, FailedLeaseEffect
  <2> QED
    BY <1>1, <2>1 DEF PutBack
<1>6. CASE Run(w)
  <2>1. UNCHANGED env \/ \E x \in Devices : env' = [env EXCEPT ![x].runner = "dead"]
    BY <1>6, RunEffect
  <2> QED
    BY <1>1, <2>1
<1>7. CASE ReleaseNext(w)
  <2>1. PICK x \in Devices, end \in Ends : Release(PoolOf(x), x, end)
    BY <1>7, ReleaseNextEffect
  <2> QED
    BY <1>1, <2>1 DEF Release
<1>8. CASE Crashed(w)
  <2>1. CASE UNCHANGED env
    BY <2>1
  <2>2. CASE ~UNCHANGED env
    <3>1. /\ worker[w].pc = "caught" /\ Alone(w) /\ Still(w) /\ UNCHANGED <<plan, free>>
          /\ worker'[w].pc = "lease" /\ worker'[w].s = worker[w].s
          /\ plan.booted /\ worker[w].lz \in warm
          /\ env' = [env EXCEPT ![worker[w].lz].asked = worker[w].s]
      <4>1. worker'[w].pc # Idle.pc \/ UNCHANGED env
        BY <1>8, CrashedEffect, IdleFacts
      <4> QED
        BY <1>8, <2>2, <4>1, CrashedEffect
    <3>2. worker[w].lz \in Devices
      BY <3>1 DEF Typed, PoolTypeOK
    <3>3. CASE d = worker[w].lz
      BY <1>1, <3>1, <3>2, <3>3
    <3>4. CASE d # worker[w].lz
      BY <1>1, <3>1, <3>2, <3>4
    <3> QED
      BY <3>3, <3>4
  <2> QED
    BY <2>1, <2>2
<1> QED
  BY <1>2, <1>3, <1>4, <1>5, <1>6, <1>7, <1>8 DEF WorkerStep

\* A replacement is asked for by the only worker of a run with one Simulator,
\* and waits for its scenario.
LEMMA PendingWorker ==
  ASSUME Typed, Shaped, Devs, Numbered, Needed, LatchIsEarned, Pending, NEW w \in Workers, WorkerStep(w)
  PROVE  Pending'
<1>1. Placed /\ UNCHANGED plan
  BY StepKinds DEF Devs
<1>2. /\ Workers' = Workers /\ (Serial' <=> Serial)
      /\ \A d \in Devices \union {None} : PoolOf(d)' = PoolOf(d)
  BY <1>1, PlanStays
<1>3. Raised => Raised'
  <2>1. \A s \in Scenario : result[s] # "none" => result'[s] = result[s]
    BY <1>1, NumberedNext
  <2> QED
    BY <2>1 DEF Raised
<1>4. Serial => w = 1 /\ Workers = {1}
  BY DEF Serial
<1>5. ASSUME Serial, Raised' PROVE worker'[1].pc = "idle"
  <2>1. w = 1
    BY <1>4, <1>5
  <2>2. result' = result => Raised
    BY <1>5 DEF Raised
  <2>3. worker[w].pc # "idle" => ~Raised
    BY <1>5, <2>1 DEF Pending
  <2>4. CASE result' = result
    BY <1>1, <1>5, <2>2, <2>3, <2>4, StepKinds, IdleFacts, <2>1
  <2>5. CASE next \in Scenario /\ result' = [result EXCEPT ![next] = Early(next)]
             /\ Early(next) \in {"refused", "cancelled", "skipped"} /\ ~Raised
    <3>1. \A s \in Scenario : result'[s] \notin {"raised", "down"}
      BY <2>5 DEF Raised, Typed
    <3> QED
      BY <1>5, <3>1 DEF Raised
  <2>6. CASE worker'[w] = Idle
    BY <2>1, <2>6, IdleFacts
  <2> QED
    BY <1>1, <1>5, <2>4, <2>5, <2>6, StepKinds
<1>6. ASSUME NEW d \in Devices, env'[d].asked # None
      PROVE  /\ Serial /\ PoolOf(d) = "xcuitest" /\ Len(plan.lanes["xcuitest"]) = 1
             /\ Raised' \/ Waits(d)'
  <2>1. CASE env'[d].asked = env[d].asked
    <3>1. /\ Serial /\ PoolOf(d) = "xcuitest" /\ Len(plan.lanes["xcuitest"]) = 1
          /\ Raised \/ Waits(d)
      BY <1>6, <2>1 DEF Pending
    <3>2. Workers = {1} /\ WorkerStep(1)
      BY <1>4, <3>1
    <3>3. Waits(d) => Raised' \/ Waits(d)'
      BY <1>6, <2>1, <3>1, <3>2, WaitsOn
    <3> QED
      BY <1>3, <3>1, <3>3
  <2>2. CASE /\ worker[w].pc = "caught" /\ Alone(w) /\ Still(w) /\ UNCHANGED <<plan, free>>
             /\ plan.booted /\ worker[w].lz = d /\ d \in warm /\ env'[d].asked = worker[w].s
             /\ worker'[w].pc = "lease" /\ worker'[w].s = worker[w].s
    <3> DEFINE s == worker[w].s
    <3>1. s \in Scenario /\ plan.need[s]["xcuitest"] > 0
      <4>1. d # None
        BY HeldTypes
      <4> QED
        BY <2>2, <4>1 DEF Needed, Numbered
    <3>2. Serial /\ Len(plan.lanes["xcuitest"]) = 1
      BY <2>2, <3>1, BootedIsSerial DEF Typed
    <3>3. w = 1 /\ Workers = {1}
      BY <1>4, <3>2
    <3>4. worker[w].held = << >> /\ worker[w].dev = None /\ Held(w) = {}
      <4>1. worker[w].held = << >> /\ worker[w].dev = None
        BY <2>2 DEF Shaped, Typed, Worker
      <4> QED
        BY <4>1 DEF Held, ToSet
    <3>5. PoolOf(d) = "xcuitest" /\ d \in Free("xcuitest")
      BY <2>2, <3>3, <3>4 DEF Devs, WarmPlaced
    <3>6. Kept(1)' = {} /\ Free("xcuitest")' = Free("xcuitest")
      BY <2>2, <3>3, <3>4 DEF Still, Kept, ToSet, Free
    <3>7. Waits(d)'
      BY <2>2, <3>1, <3>3, <3>5, <3>6 DEF Waits
    <3> QED
      BY <3>2, <3>5, <3>7
  <2> QED
    BY <1>1, <1>6, <2>1, <2>2, AskedStep
<1> QED
  BY <1>1, <1>2, <1>5, <1>6 DEF Pending

\* The command serves no request and makes none.
LEMMA PendingMain ==
  ASSUME Typed, Shaped, Devs, Phased, Pending, MainStep \/ Cancel \/ UNCHANGED vars
  PROVE  Pending'
<1>1. UNCHANGED <<plan, free, result, worker>>
  BY DEF MainStep, Cancel, vars, poolVars, runVars, Collect, Joined, Closed, Open, Close, OpenPool, Shutdown
<1>2. Workers' = Workers /\ (Serial' <=> Serial) /\ \A d \in Devices \union {None} : PoolOf(d)' = PoolOf(d)
  BY <1>1, PlanStays
<1>3. \A d \in Devices : env'[d].asked # None => env'[d].asked = env[d].asked
  <2>1. UNCHANGED env \/ \E p \in Pools : Close(p)
    BY DEF MainStep, Cancel, vars, poolVars, Collect, Joined, Closed, Open, OpenPool
  <2>2. ASSUME NEW p \in Pools, Close(p), NEW d \in Devices, env'[d].asked # None PROVE env'[d].asked = env[d].asked
    <3>1. PICK faulty \in BOOLEAN : Shutdown(p, faulty)
      BY <2>2 DEF Close
    <3> QED
      BY <2>2, <3>1 DEF Shutdown, Blank
  <2> QED
    BY <2>1, <2>2
<1>4. Raised' <=> Raised
  BY <1>1 DEF Raised
<1>5. ASSUME NEW d \in Devices, env'[d].asked # None
      PROVE  /\ Serial /\ PoolOf(d) = "xcuitest" /\ Len(plan.lanes["xcuitest"]) = 1
             /\ Raised \/ Waits(d)'
  <2>1. env'[d].asked = env[d].asked
    BY <1>3, <1>5
  <2>2. /\ Serial /\ PoolOf(d) = "xcuitest" /\ Len(plan.lanes["xcuitest"]) = 1
        /\ Raised \/ Waits(d)
    BY <1>5, <2>1 DEF Pending
  <2>3. 1 \in Workers
    BY <2>2 DEF Serial
  <2>4. worker' \in [Workers -> Worker]
    BY <1>1 DEF Typed
  <2>5. Waits(d) => Waits(d)'
    <3>1. SUFFICES ASSUME Waits(d) PROVE Waits(d)'
      OBVIOUS
    <3>2. /\ worker'[1].s = env[d].asked /\ plan.need[env[d].asked]["xcuitest"] > 0
          /\ worker'[1].pc \in {"lease", "launch", "putback", "release", "caught"}
          /\ worker'[1].pc \in {"putback", "release", "caught"} => worker'[1].exc = "device" /\ ~worker'[1].forced
          /\ \A e \in ToSet(worker'[1].held) : PoolOf(e) = "playwright"
          /\ d \in ToSet(free'["xcuitest"]) \/ (worker'[1].pc = "launch" /\ worker'[1].dev = d)
          /\ \A e \in Devices : worker'[1].pc = "launch" /\ worker'[1].dev = e /\ PoolOf(e) = "playwright" =>
               Len(worker'[1].held) < plan.need[env[d].asked]["playwright"]
      BY <1>1, <3>1 DEF Waits, Kept, Free
    <3> QED
      BY <1>1, <2>1, <2>3, <2>4, <3>2, WaitsBy
  <2> QED
    BY <2>2, <2>5
<1> QED
  BY <1>1, <1>2, <1>4, <1>5 DEF Pending

----------------------------------------------------------------------------
(* The invariant, and what it gives *)

\* It holds before the pools are opened.
LEMMA InvInit ==
  ASSUME Init
  PROVE  Inv
<1>1. Typed /\ Shaped /\ Devs
  BY TypedInit, DevsInit
<1>2. /\ main = [pc |-> "open", todo |-> {p \in Pools : Demand(p) > 0}, opened |-> {}, raised |-> FALSE]
      /\ warm = {} /\ collectors = {} /\ env = [d \in Devices |-> Blank] /\ worker = [w \in Workers |-> Idle]
      /\ result = [s \in Scenario |-> "none"] /\ givenUp = "no"
  BY DEF Init, PoolInit
<1>3. \A w \in Workers : worker[w].pc = "idle"
  BY <1>2, IdleFacts
<1>4. Phased
  BY <1>2, <1>3 DEF Phased, Wanting
<1>5. Numbered /\ Needed /\ LatchIsEarned
  BY <1>2, <1>3 DEF Numbered, Needed, LatchIsEarned
<1>6. Pending
  <2>1. \A d \in Devices : env[d].asked = None
    BY <1>2 DEF Blank
  <2>2. ~Raised
    BY <1>2 DEF Raised
  <2> QED
    BY <2>1, <2>2 DEF Pending
<1> QED
  BY <1>1, <1>4, <1>5, <1>6 DEF Inv, Devs

\* Every step keeps it.
LEMMA InvNext ==
  ASSUME Inv, [Next]_vars
  PROVE  Inv'
<1>1. /\ Typed /\ Shaped /\ Placed /\ Devs /\ Phased /\ Numbered /\ Needed /\ Pending /\ LatchIsEarned
  BY DEF Inv, Devs
<1>2. Devs'
  BY <1>1, DevsNext
<1>3. ASSUME NEW w \in Workers, WorkerStep(w)
      PROVE  Typed' /\ Shaped' /\ Phased' /\ Numbered' /\ Needed' /\ Pending' /\ LatchIsEarned'
  <2>1. Typed' /\ Shaped'
    BY <1>1, <1>3, WorkerTyped
  <2>2. Phased' /\ Needed'
    BY <1>1, <1>3, PhasedWorker, NeededNext
  <2>3. Numbered' /\ LatchIsEarned'
    BY <1>1, <1>3, NumberedNext
  <2>4. Pending'
    BY <1>1, <1>3, PendingWorker
  <2> QED
    BY <2>1, <2>2, <2>3, <2>4
<1>4. ASSUME MainStep \/ Cancel \/ UNCHANGED vars
      PROVE  Typed' /\ Shaped' /\ Phased' /\ Numbered' /\ Needed' /\ Pending' /\ LatchIsEarned'
  <2>1. Typed' /\ Shaped'
    BY <1>1, <1>4, MainTyped
  <2>2. Phased' /\ Pending'
    BY <1>1, <1>4, PhasedMain, PendingMain
  <2>3. Numbered' /\ Needed' /\ LatchIsEarned'
    BY <1>1, <1>4, MainKeeps
  <2> QED
    BY <2>1, <2>2, <2>3
<1>5. (MainStep \/ Cancel \/ UNCHANGED vars) \/ \E w \in Workers : WorkerStep(w)
  BY DEF Next
<1>6. Typed' /\ Shaped' /\ Phased' /\ Numbered' /\ Needed' /\ Pending' /\ LatchIsEarned'
  BY <1>3, <1>4, <1>5
<1> QED
  BY <1>2, <1>6 DEF Inv, Devs

\* A set with at most one member counts at most one.
LEMMA AtMostOne ==
  ASSUME NEW S, \A x, y \in S : x = y
  PROVE  Cardinality(S) \in {0, 1} /\ (S = {} => Cardinality(S) = 0)
<1>1. CASE S = {}
  BY <1>1, FS_EmptySet
<1>2. CASE S # {}
  <2>1. PICK x \in S : S = {x}
    BY <1>2
  <2> QED
    BY <2>1, FS_Singleton
<1> QED
  BY <1>1, <1>2

\* The invariant says where every device is.
LEMMA InvIsSound ==
  ASSUME Inv
  PROVE  DevicesAreSound
<1>1. Typed /\ Shaped /\ Placed /\ Gone /\ Conserved
  BY DEF Inv
<1>2. TypeOK
  <2>1. \A w \in Workers : worker[w] \in Worker /\ worker[w].attempt <= plan.retries + 1
    BY <1>1 DEF Typed
  <2>2. plan.retries \in Nat
    BY <1>1, RunnerAssumption DEF Typed
  <2>3. \A w \in Workers :
          /\ worker[w].pc \in {"idle", "lease", "launch", "putback", "run", "release", "caught"}
          /\ worker[w].s \in Scenario \union {None}
          /\ worker[w].exc \in {"none", "crash", "device", "timeout", "down"}
          /\ worker[w].held \in Seq(Devices) /\ worker[w].dev \in Devices \union {None}
    BY <2>1 DEF Worker, WorkerPc, Faults
  <2>4. \A w \in Workers : worker[w].attempt \in 0..(plan.retries + 1)
    BY <2>1, <2>2 DEF Worker
  <2> QED
    BY <1>1, <2>3, <2>4 DEF TypeOK, Typed
<1>3. ASSUME NEW d \in Devices
      PROVE  /\ Queued(d) + Cardinality({w \in Workers : d \in Held(w)}) <= 1
             /\ (\A p \in Pools : d \notin Free(p)) => Queued(d) = 0
  <2>1. PICK p \in Pools : p = PoolOf(d)
    BY <1>1, PoolFacts DEF Typed
  <2> DEFINE Q == {i \in 1..Len(free[p]) : free[p][i] = d}
             H == {w \in Workers : d \in Held(w)}
  <2>2. free[p] \in Seq(Devices) /\ DOMAIN free[p] = 1..Len(free[p])
    BY <1>1, HeldTypes
  <2>3. \A i, j \in Q : i = j
    BY <1>1, <2>2 DEF Placed, Distinct
  <2>4. \A v, w \in H : v = w
    BY <1>1 DEF Placed, Has
  <2>5. Q # {} => H = {} /\ d \in Free(p)
    <3>1. Q # {} => d \in Free(p)
      BY <2>2 DEF Free, ToSet
    <3> QED
      BY <1>1, <3>1 DEF Placed, Has
  <2>6. Queued(d) = Cardinality(Q)
    BY <2>1 DEF Queued
  <2>7. /\ Cardinality(Q) \in {0, 1} /\ (Q = {} => Cardinality(Q) = 0)
        /\ Cardinality(H) \in {0, 1} /\ (H = {} => Cardinality(H) = 0)
    <3> HIDE DEF Q, H
    <3> QED
      BY <2>3, <2>4, AtMostOne
  <2> HIDE DEF Q
  <2>8. Cardinality(Q) + Cardinality(H) <= 1
    <3> HIDE DEF H
    <3> QED
      BY <2>5, <2>7
  <2>9. (\A q \in Pools : d \notin Free(q)) => Cardinality(Q) = 0
    BY <2>5, <2>7
  <2> QED
    BY <2>6, <2>8, <2>9
<1>4. DevicesAreWhole
  BY <1>1, <1>3 DEF DevicesAreWhole, Conserved
<1>5. ReplacedStaysOut
  <2>1. ASSUME NEW d \in Devices, heir[d] # None, NEW w \in Workers, d \in Held(w)
        PROVE  worker[w].dev = d /\ worker[w].launch.to = heir[d]
    BY <1>1, <2>1 DEF Gone, Held, Kept
  <2>2. ASSUME NEW d \in Devices, heir[d] # None PROVE Queued(d) = 0
    BY <1>1, <1>3, <2>2 DEF Gone
  <2> QED
    BY <2>1, <2>2 DEF ReplacedStaysOut
<1> QED
  BY <1>2, <1>4, <1>5 DEF DevicesAreSound

\* The invariant says who answers for every runner.
LEMMA InvEndsRunners ==
  ASSUME Inv
  PROVE  RunnersEnd
<1>1. Typed /\ Shaped /\ Runners /\ Phased
  BY DEF Inv
<1>2. NoRunnerLeaks
  BY <1>1 DEF Runners, NoRunnerLeaks, Held, Kept
<1>3. ASSUME main.pc = "over" PROVE collectors = {} /\ \A d \in Devices : env[d].runner # "alive"
  <2>1. warm = {} /\ collectors = {} /\ \A w \in Workers : worker[w] = Idle
    BY <1>1, <1>3 DEF Phased, Answers, Shaped
  <2>2. \A w \in Workers : Kept(w) = {} /\ worker[w].launch.to = None
    BY <2>1, IdleFacts DEF Kept, ToSet
  <2>3. None \notin Devices
    BY <1>1, HeldTypes
  <2> QED
    BY <1>1, <2>1, <2>2, <2>3 DEF Runners
<1> QED
  BY <1>2, <1>3 DEF RunnersEnd, NothingLeftUp

\* The invariant says whose request and whose erase it is.
LEMMA InvRecovers ==
  ASSUME Inv
  PROVE  RecoveryIsOwn
<1>1. Typed /\ Shaped /\ Numbered /\ Needed /\ Pending /\ LatchIsEarned
  BY DEF Inv
<1>2. ASSUME NEW w \in Workers, worker[w].pc = "launch" PROVE env[worker[w].dev].asked \in {None, worker[w].s}
  <2>1. PICK d \in Devices : d = worker[w].dev
    BY <1>1, <1>2, HeldTypes DEF Shaped
  <2>2. CASE env[d].asked # None
    <3>1. Serial /\ (Raised \/ Waits(d))
      BY <1>1, <2>2 DEF Pending
    <3>2. w = 1
      BY <3>1 DEF Serial
    <3>3. Waits(d)
      BY <1>1, <1>2, <3>1, <3>2 DEF Pending
    <3> QED
      BY <2>1, <3>2, <3>3 DEF Waits
  <2> QED
    BY <2>1, <2>2
<1>3. ASSUME NEW w \in Workers, worker[w].forced PROVE worker[w].crashed
  <2>1. CASE worker[w].pc = "idle"
    BY <1>1, <1>3, <2>1, IdleFacts DEF Shaped
  <2>2. CASE worker[w].pc # "idle"
    BY <1>1, <1>3, <2>2 DEF Needed
  <2> QED
    BY <2>1, <2>2
<1> QED
  BY <1>1, <1>2, <1>3 DEF RecoveryIsOwn, RequestIsOwn, ErasedAfterCrash

----------------------------------------------------------------------------
(* The theorems *)

\* Whatever the lanes, the needs, the failures and the cancels, every device is
\* in one place, every runner has somebody to end it, and a replacement waits
\* for its own scenario.
THEOREM RunnerInvariant == Spec => []Inv
<1>1. Init => Inv
  BY InvInit
<1>2. Inv /\ [Next]_vars => Inv'
  BY InvNext
<1> QED
  BY <1>1, <1>2, PTL DEF Spec

\* A device is queued once or leased once, no lane is lost whatever failed
\* between free.get and free.put, and a device that was replaced never comes
\* back.
THEOREM DevicesAreSoundHolds == Spec => []DevicesAreSound
<1>1. Inv => DevicesAreSound
  BY InvIsSound
<1> QED
  BY <1>1, RunnerInvariant, PTL

\* Somebody answers for every runner that is up, and when the command returns
\* no runner and no collector is left.
THEOREM RunnersEndHolds == Spec => []RunnersEnd
<1>1. Inv => RunnersEnd
  BY InvEndsRunners
<1> QED
  BY <1>1, RunnerInvariant, PTL

\* A replacement device is served to the scenario that asked for it, only a
\* retry after a crash erases, and recovery is given up for the run only where
\* a scenario failed for it.
THEOREM RecoveryIsOwnHolds == Spec => []RecoveryIsOwn
<1>1. Inv => RecoveryIsOwn
  BY InvRecovers
<1> QED
  BY <1>1, RunnerInvariant, PTL
=============================================================================
