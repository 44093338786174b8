---------------------------- MODULE WorkerProofs -----------------------------
(***************************************************************************)
(* Theorems about two parts of the worker program.                         *)
(* Slots: for any number of places and leases, no two jobs in flight share *)
(* a place or a directory, and a stop meets every job on whichever side of *)
(* it the job attached.                                                    *)
(* HandoffRelay: for any number of pages, requests and lost answers, a     *)
(* request is resumed once.                                                *)
(***************************************************************************)
EXTENDS Slots, HandoffRelay, FiniteSetTheorems, WellFoundedInduction, TLAPS

----------------------------------------------------------------------------
(* The inductive invariant *)

\* Where the thread of a lease can be, and what it has by then.
StagedAt(s) ==
  /\ slot[s].pc = "none" <=> s > main.leases
  /\ slot[s].pc = "leased" <=> main.pc \in {"count", "start"} /\ s = main.leases
  /\ slot[s].pc \in {"none", "leased", "new"} => slot[s].dir = None
  /\ slot[s].pc \in {"none", "leased", "new", "attach", "attaching"} => slot[s].run = "none"
  /\ slot[s].freed => slot[s].pc \in {"upload", "end", "release", "over"}
  /\ slot[s].pc \in {"upload", "release"} => slot[s].freed

Staged ==
  /\ main.pc \in {"count", "start"} => main.leases # 0
  /\ \A s \in Leases : StagedAt(s)

\* The leases whose place is counted: all in flight, but for the one the main
\* thread is about to count.
Counted(s) == /\ slot[s].pc \notin {"none", "over"} /\ ~slot[s].freed
              /\ ~(main.pc = "count" /\ s = main.leases)
Occupied == {s \in Leases : Counted(s)}

PlacesCounted ==
  /\ busy = Cardinality(Occupied)
  /\ main.pc \in {"lease", "count"} => busy < Slots

\* The directories handed out are the free ones and those of the holders.
HoldsDir(s) == slot[s].pc # "over" /\ slot[s].dir # None
Holders == {s \in Leases : HoldsDir(s)}

DirsCounted ==
  /\ next - 1 = Cardinality(free) + Cardinality(Holders)
  /\ \A d \in free : d < next
  /\ \A s \in Holders : slot[s].dir < next

\* A stopper that copied the set answers for every attached slot: it was told,
\* will be, or attached behind the copy and has seen the stop.
Told(s) == slot[s].lost \/ (slot[s].pc = "attaching" /\ slot[s].late)
AnswersFor(t) == \A s \in attached : Told(s) \/ s \in stopper[t].todo

Answered ==
  /\ \A t \in Stoppers : /\ stopper[t].pc # "idle" => stopping /\ AnswersFor(t)
                         /\ stopper[t].pc = "over" => stopper[t].todo = {}
  /\ stopper["main"].pc = "notify" => main.pc = "stop"
  /\ main.pc \in {"join", "over"} => stopper["main"].pc = "over"

\* A late lease was given up before its run started.
LateAt(s) == slot[s].late => slot[s].run # "device" /\ (slot[s].run # "none" => slot[s].lost)
LateIsLost == \A s \in Leases : LateAt(s)

IInv ==
  /\ TypeOK /\ Staged /\ PlacesCounted /\ DirsCounted /\ OwnDirectory
  /\ Answered /\ LateIsLost

----------------------------------------------------------------------------
(* What a step does to the slot it takes *)

Slot == [pc : SlotPc, dir : 0..MaxLeases, late : BOOLEAN, lost : BOOLEAN,
         run : {"none", "fetch", "device", "ended", "transient"},
         abandoned : BOOLEAN, freed : BOOLEAN]

\* The least of a set of numbers.
LEMMA LeastIsLeast ==
  ASSUME NEW S \in SUBSET Nat, S # {}
  PROVE  Least(S) \in S /\ \A e \in S : Least(S) <= e
<1> DEFINE T == {0..d : d \in S}
<1>1. T \subseteq FiniteSubsetsOf(Nat) /\ T # {}
  <2>1. ASSUME NEW d \in S PROVE 0..d \in FiniteSubsetsOf(Nat)
    BY FS_Interval, d \in Int, 0 \in Int DEF FiniteSubsetsOf
  <2> QED
    BY <2>1
<1>2. PICK D \in T : \A E \in T : <<E, D>> \notin StrictSubsetOrdering(Nat)
  BY <1>1, FS_StrictSubsetOrderingWellFounded, WFMin
<1>3. PICK d \in S : D = 0..d
  OBVIOUS
<1>4. ASSUME NEW e \in S, e < d PROVE FALSE
  <2>1. 0..e \in T /\ 0..e \in SUBSET Nat /\ 0..d \in SUBSET Nat /\ 0..e \subseteq 0..d
    BY <1>4
  <2>2. d \in 0..d /\ d \notin 0..e
    BY <1>4
  <2> QED
    BY <1>2, <1>3, <2>1, <2>2 DEF StrictSubsetOrdering
<1>5. d \in S /\ \A e \in S : d <= e
  BY <1>4
<1> QED
  BY <1>5 DEF Least

\* The slot becomes r, the others are left alone.
Becomes(s, r) ==
  /\ slot' \in [Leases -> Slot] /\ slot'[s] = r
  /\ \A u \in Leases \ {s} : slot'[u] = slot[u]

LEMMA OneWrite ==
  ASSUME slot \in [Leases -> Slot], NEW s \in Leases, NEW r \in Slot, slot' = [slot EXCEPT ![s] = r]
  PROVE  Becomes(s, r)
  BY DEF Becomes

\* The directory the next slot gets.
FreshDir == IF free # {} THEN Least(free) ELSE next

\* What each step of a slot writes.
LEMMA SlotWrites ==
  ASSUME TypeOK, NEW s \in Leases
  PROVE  /\ Acquire(s) /\ FreshDir <= MaxLeases => Becomes(s, [slot[s] EXCEPT !.pc = "attach", !.dir = FreshDir])
         /\ Malformed(s) => Becomes(s, [slot[s] EXCEPT !.pc = "end"])
         /\ Attach(s) => Becomes(s, [slot[s] EXCEPT !.pc = "attaching", !.late = stopping])
         /\ Attached(s) => Becomes(s, [slot[s] EXCEPT !.pc = "run", !.run = "fetch", !.lost = @ \/ slot[s].late])
         /\ Detach(s) => Becomes(s, [slot[s] EXCEPT !.pc = "finish"])
         /\ RunJoined(s) => Becomes(s, [slot[s] EXCEPT !.pc = "detach", !.abandoned = slot[s].lost])
         /\ SlotFails(s) => Becomes(s, [slot[s] EXCEPT !.pc = "end"])
         /\ Finish(s) => Becomes(s, [slot[s] EXCEPT !.pc = IF slot[s].abandoned \/ slot[s].run = "transient" THEN "end" ELSE "posted"])
         /\ PostDone(s) => Becomes(s, [slot[s] EXCEPT !.pc = "upload", !.freed = TRUE])
         /\ Uploaded(s) => Becomes(s, [slot[s] EXCEPT !.pc = "end"])
         /\ End(s) => Becomes(s, [slot[s] EXCEPT !.pc = "release", !.freed = TRUE])
         /\ Release(s) => Becomes(s, [slot[s] EXCEPT !.pc = "over"])
         /\ BeatLost(s) => Becomes(s, [slot[s] EXCEPT !.pc = "abandon", !.lost = TRUE])
         /\ RunEnds(s) => Becomes(s, [slot[s] EXCEPT !.run = "ended"])
         /\ Fetched(s) => \/ Becomes(s, [slot[s] EXCEPT !.run = IF slot[s].lost THEN "ended" ELSE "device"])
                          \/ Becomes(s, [slot[s] EXCEPT !.run = "transient"])
<1>1. slot \in [Leases -> Slot] /\ slot[s] \in Slot /\ stopping \in BOOLEAN
  BY DEF TypeOK, Slot
<1>2. ASSUME Acquire(s), FreshDir <= MaxLeases
      PROVE  Becomes(s, [slot[s] EXCEPT !.pc = "attach", !.dir = FreshDir])
  <2>1. slot' = [slot EXCEPT ![s] = [slot[s] EXCEPT !.pc = "attach", !.dir = FreshDir]]
    BY <1>1, <1>2 DEF Acquire, FreshDir, Slot
  <2>2. FreshDir \in 0..MaxLeases
    <3>1. free \in SUBSET Nat /\ next \in Nat
      BY SlotsAssumption DEF TypeOK, Leases
    <3>2. free # {} => Least(free) \in free
      BY <3>1, LeastIsLeast
    <3>3. FreshDir \in Nat
      BY <3>1, <3>2 DEF FreshDir
    <3> QED
      BY <1>2, <3>3, SlotsAssumption
  <2> QED
    BY <1>1, <2>1, <2>2, OneWrite DEF Slot, SlotPc
<1>3. ASSUME Malformed(s) PROVE Becomes(s, [slot[s] EXCEPT !.pc = "end"])
  <2>1. slot' = [slot EXCEPT ![s] = [slot[s] EXCEPT !.pc = "end"]]
    BY <1>1, <1>3 DEF Malformed, Slot
  <2> QED
    BY <1>1, <2>1, OneWrite DEF Slot, SlotPc
<1>4. ASSUME Attach(s) PROVE Becomes(s, [slot[s] EXCEPT !.pc = "attaching", !.late = stopping])
  <2>1. slot' = [slot EXCEPT ![s] = [slot[s] EXCEPT !.pc = "attaching", !.late = stopping]]
    BY <1>1, <1>4 DEF Attach, Slot
  <2> QED
    BY <1>1, <2>1, OneWrite DEF Slot, SlotPc
<1>5. ASSUME Attached(s) PROVE Becomes(s, [slot[s] EXCEPT !.pc = "run", !.run = "fetch", !.lost = @ \/ slot[s].late])
  <2>1. slot' = [slot EXCEPT ![s] = [slot[s] EXCEPT !.pc = "run", !.run = "fetch", !.lost = @ \/ slot[s].late]]
    BY <1>1, <1>5 DEF Attached, Slot
  <2> QED
    BY <1>1, <2>1, OneWrite DEF Slot, SlotPc
<1>6. ASSUME Detach(s) PROVE Becomes(s, [slot[s] EXCEPT !.pc = "finish"])
  <2>1. slot' = [slot EXCEPT ![s] = [slot[s] EXCEPT !.pc = "finish"]]
    BY <1>1, <1>6 DEF Detach, Slot
  <2> QED
    BY <1>1, <2>1, OneWrite DEF Slot, SlotPc
<1>7. ASSUME RunJoined(s) PROVE Becomes(s, [slot[s] EXCEPT !.pc = "detach", !.abandoned = slot[s].lost])
  <2>1. slot' = [slot EXCEPT ![s] = [slot[s] EXCEPT !.pc = "detach", !.abandoned = slot[s].lost]]
    BY <1>1, <1>7 DEF RunJoined, Slot
  <2> QED
    BY <1>1, <2>1, OneWrite DEF Slot, SlotPc
<1>8. ASSUME SlotFails(s) PROVE Becomes(s, [slot[s] EXCEPT !.pc = "end"])
  <2>1. slot' = [slot EXCEPT ![s] = [slot[s] EXCEPT !.pc = "end"]]
    BY <1>1, <1>8 DEF SlotFails, Slot
  <2> QED
    BY <1>1, <2>1, OneWrite DEF Slot, SlotPc
<1>9. ASSUME Finish(s) PROVE Becomes(s, [slot[s] EXCEPT !.pc = IF slot[s].abandoned \/ slot[s].run = "transient" THEN "end" ELSE "posted"])
  <2>1. slot' = [slot EXCEPT ![s] = [slot[s] EXCEPT !.pc = IF slot[s].abandoned \/ slot[s].run = "transient" THEN "end" ELSE "posted"]]
    BY <1>1, <1>9 DEF Finish, Slot
  <2> QED
    BY <1>1, <2>1, OneWrite DEF Slot, SlotPc
<1>10. ASSUME PostDone(s) PROVE Becomes(s, [slot[s] EXCEPT !.pc = "upload", !.freed = TRUE])
  <2>1. slot' = [slot EXCEPT ![s] = [slot[s] EXCEPT !.pc = "upload", !.freed = TRUE]]
    BY <1>1, <1>10 DEF PostDone, Slot
  <2> QED
    BY <1>1, <2>1, OneWrite DEF Slot, SlotPc
<1>11. ASSUME Uploaded(s) PROVE Becomes(s, [slot[s] EXCEPT !.pc = "end"])
  <2>1. slot' = [slot EXCEPT ![s] = [slot[s] EXCEPT !.pc = "end"]]
    BY <1>1, <1>11 DEF Uploaded, Slot
  <2> QED
    BY <1>1, <2>1, OneWrite DEF Slot, SlotPc
<1>12. ASSUME End(s) PROVE Becomes(s, [slot[s] EXCEPT !.pc = "release", !.freed = TRUE])
  <2>1. slot' = [slot EXCEPT ![s] = [slot[s] EXCEPT !.pc = "release", !.freed = TRUE]]
    BY <1>1, <1>12 DEF End, Slot
  <2> QED
    BY <1>1, <2>1, OneWrite DEF Slot, SlotPc
<1>13. ASSUME Release(s) PROVE Becomes(s, [slot[s] EXCEPT !.pc = "over"])
  <2>1. slot' = [slot EXCEPT ![s] = [slot[s] EXCEPT !.pc = "over"]]
    BY <1>1, <1>13 DEF Release, Slot
  <2> QED
    BY <1>1, <2>1, OneWrite DEF Slot, SlotPc
<1>14. ASSUME BeatLost(s) PROVE Becomes(s, [slot[s] EXCEPT !.pc = "abandon", !.lost = TRUE])
  <2>1. slot' = [slot EXCEPT ![s] = [slot[s] EXCEPT !.pc = "abandon", !.lost = TRUE]]
    BY <1>1, <1>14 DEF BeatLost, Slot
  <2> QED
    BY <1>1, <2>1, OneWrite DEF Slot, SlotPc
<1>15. ASSUME RunEnds(s) PROVE Becomes(s, [slot[s] EXCEPT !.run = "ended"])
  <2>1. slot' = [slot EXCEPT ![s] = [slot[s] EXCEPT !.run = "ended"]]
    BY <1>1, <1>15 DEF RunEnds, Slot
  <2> QED
    BY <1>1, <2>1, OneWrite DEF Slot, SlotPc
<1>16. ASSUME Fetched(s)
      PROVE  \/ Becomes(s, [slot[s] EXCEPT !.run = IF slot[s].lost THEN "ended" ELSE "device"])
             \/ Becomes(s, [slot[s] EXCEPT !.run = "transient"])
  <2>1. \/ slot' = [slot EXCEPT ![s] = [slot[s] EXCEPT !.run = IF slot[s].lost THEN "ended" ELSE "device"]]
        \/ slot' = [slot EXCEPT ![s] = [slot[s] EXCEPT !.run = "transient"]]
    BY <1>1, <1>16 DEF Fetched, Slot
  <2> QED
    BY <1>1, <2>1, OneWrite DEF Slot, SlotPc
<1> QED
  BY <1>2, <1>3, <1>4, <1>5, <1>6, <1>7, <1>8, <1>9, <1>10, <1>11, <1>12, <1>13, <1>14, <1>15, <1>16

\* A step of a slot's own: it moves that slot only, keeps it in a stage, and
\* tells what it does to the slot's place, its directory and its flags.
Effect(s) ==
  /\ slot' \in [Leases -> Slot] /\ \A u \in Leases \ {s} : slot'[u] = slot[u]
  /\ UNCHANGED <<main, signalled, stopping, now, stopper>>
  /\ StagedAt(s)' /\ LateAt(s)'
  /\ \/ UNCHANGED busy /\ Counted(s)' = Counted(s)
     \/ busy' = busy - 1 /\ Counted(s) /\ ~Counted(s)'
  /\ attached' \subseteq attached \union {s}
  /\ s \in attached' => \/ s \in attached /\ (Told(s) => Told(s)')
                        \/ slot'[s].pc = "attaching" /\ slot'[s].late = stopping

\* What a step does to the directory its slot holds.
KeepsDir(s) ==
  /\ UNCHANGED <<free, next>> /\ slot'[s].dir = slot[s].dir
  /\ HoldsDir(s)' = HoldsDir(s)
ReturnsDir(s) ==
  /\ UNCHANGED next /\ free' = free \union {slot[s].dir}
  /\ HoldsDir(s) /\ ~HoldsDir(s)'

LEMMA SlotEffect ==
  ASSUME IInv, NEW s \in Leases,
         SlotStep(s) \/ BeatLost(s) \/ Fetched(s) \/ RunEnds(s), ~Acquire(s)
  PROVE  Effect(s) /\ (KeepsDir(s) \/ ReturnsDir(s))
<1> /\ TypeOK /\ slot \in [Leases -> Slot] /\ StagedAt(s) /\ LateAt(s) /\ stopping \in BOOLEAN
    /\ free \subseteq Leases /\ attached \subseteq Leases
  BY DEF IInv, TypeOK, Slot, Staged, LateIsLost
<1> USE DEF Effect, KeepsDir, ReturnsDir, StagedAt, LateAt, Counted, HoldsDir, Told, Slot
<1>1. CASE Malformed(s)
  <2>1. Becomes(s, [slot[s] EXCEPT !.pc = "end"])
    BY <1>1, SlotWrites
  <2> QED
    BY <1>1, <2>1 DEF Becomes, Malformed
<1>2. CASE Attach(s)
  <2>1. Becomes(s, [slot[s] EXCEPT !.pc = "attaching", !.late = stopping])
    BY <1>2, SlotWrites
  <2> QED
    BY <1>2, <2>1 DEF Becomes, Attach
<1>3. CASE Attached(s)
  <2>1. Becomes(s, [slot[s] EXCEPT !.pc = "run", !.run = "fetch", !.lost = @ \/ slot[s].late])
    BY <1>3, SlotWrites
  <2> QED
    BY <1>3, <2>1 DEF Becomes, Attached
<1>4. CASE Detach(s)
  <2>1. Becomes(s, [slot[s] EXCEPT !.pc = "finish"])
    BY <1>4, SlotWrites
  <2> QED
    BY <1>4, <2>1 DEF Becomes, Detach
<1>5. CASE RunJoined(s)
  <2>1. Becomes(s, [slot[s] EXCEPT !.pc = "detach", !.abandoned = slot[s].lost])
    BY <1>5, SlotWrites
  <2> QED
    BY <1>5, <2>1 DEF Becomes, RunJoined, Ended
<1>6. CASE SlotFails(s)
  <2>1. Becomes(s, [slot[s] EXCEPT !.pc = "end"])
    BY <1>6, SlotWrites
  <2> QED
    BY <1>6, <2>1 DEF Becomes, SlotFails
<1>7. CASE Finish(s)
  <2>1. Becomes(s, [slot[s] EXCEPT !.pc = IF slot[s].abandoned \/ slot[s].run = "transient" THEN "end" ELSE "posted"])
    BY <1>7, SlotWrites
  <2> QED
    BY <1>7, <2>1 DEF Becomes, Finish
<1>8. CASE PostDone(s)
  <2>1. Becomes(s, [slot[s] EXCEPT !.pc = "upload", !.freed = TRUE])
    BY <1>8, SlotWrites
  <2> QED
    BY <1>8, <2>1 DEF Becomes, PostDone
<1>9. CASE Uploaded(s)
  <2>1. Becomes(s, [slot[s] EXCEPT !.pc = "end"])
    BY <1>9, SlotWrites
  <2> QED
    BY <1>9, <2>1 DEF Becomes, Uploaded
<1>10. CASE End(s)
  <2>1. Becomes(s, [slot[s] EXCEPT !.pc = "release", !.freed = TRUE])
    BY <1>10, SlotWrites
  <2> QED
    BY <1>10, <2>1 DEF Becomes, End
<1>11. CASE Release(s)
  <2>1. Becomes(s, [slot[s] EXCEPT !.pc = "over"])
    BY <1>11, SlotWrites
  <2> QED
    BY <1>11, <2>1 DEF Becomes, Release
<1>12. CASE BeatLost(s)
  <2>1. Becomes(s, [slot[s] EXCEPT !.pc = "abandon", !.lost = TRUE])
    BY <1>12, SlotWrites
  <2> QED
    BY <1>12, <2>1 DEF Becomes, BeatLost, Ended
<1>13. CASE RunEnds(s)
  <2>1. Becomes(s, [slot[s] EXCEPT !.run = "ended"])
    BY <1>13, SlotWrites
  <2> QED
    BY <1>13, <2>1 DEF Becomes, RunEnds
<1>14. CASE Fetched(s)
  <2>1. \/ Becomes(s, [slot[s] EXCEPT !.run = IF slot[s].lost THEN "ended" ELSE "device"])
        \/ Becomes(s, [slot[s] EXCEPT !.run = "transient"])
    BY <1>14, SlotWrites
  <2> QED
    BY <1>14, <2>1 DEF Becomes, Fetched
<1> QED
  BY <1>1, <1>2, <1>3, <1>4, <1>5, <1>6, <1>7, <1>8, <1>9, <1>10, <1>11, <1>12, <1>13, <1>14 DEF SlotStep

\* A slot that takes a directory: a free one, or a new one when none is free.
TakesDir(s) ==
  /\ ~HoldsDir(s) /\ HoldsDir(s)'
  /\ \/ /\ slot'[s].dir \in free /\ free' = free \ {slot'[s].dir} /\ UNCHANGED next
     \/ /\ free = {} /\ UNCHANGED free
        /\ next <= MaxLeases /\ slot'[s].dir = next /\ next' = next + 1

LEMMA LeasesAreFinite == IsFiniteSet(Leases) /\ Cardinality(Leases) = MaxLeases
  BY FS_Interval, SlotsAssumption DEF Leases

\* With no directory free every one handed out has a holder, so there are
\* fewer than leases.
LEMMA FreshDirExists ==
  ASSUME IInv, NEW s \in Leases, slot[s].pc = "new"
  PROVE  /\ free # {} => FreshDir \in free
         /\ free = {} => FreshDir = next /\ next <= MaxLeases
<1>1. CASE free # {}
  <2>1. free \in SUBSET Nat
    BY DEF IInv, TypeOK, Leases
  <2> QED
    BY <1>1, <2>1, LeastIsLeast DEF FreshDir
<1>2. CASE free = {}
  <2>2. IsFiniteSet(Leases \ {s}) /\ Cardinality(Leases \ {s}) = MaxLeases - 1
    BY LeasesAreFinite, FS_RemoveElement
  <2>3. Holders \subseteq Leases \ {s}
    BY DEF IInv, Staged, StagedAt, Holders, HoldsDir
  <2>4. Cardinality(Holders) <= MaxLeases - 1
    BY <2>2, <2>3, FS_Subset
  <2>5. next - 1 = Cardinality(Holders)
    BY <1>2, FS_EmptySet, <2>2, <2>3, FS_Subset, FS_CardinalityType DEF IInv, DirsCounted
  <2> QED
    BY <1>2, <2>4, <2>5, SlotsAssumption DEF FreshDir, IInv, TypeOK
<1> QED
  BY <1>1, <1>2

LEMMA AcquireEffect ==
  ASSUME IInv, NEW s \in Leases, Acquire(s)
  PROVE  Effect(s) /\ TakesDir(s)
<1>1. /\ TypeOK /\ slot \in [Leases -> Slot] /\ StagedAt(s) /\ LateAt(s)
      /\ free \subseteq Leases /\ attached \subseteq Leases /\ next \in 1..(MaxLeases + 1)
      /\ slot[s].pc = "new"
  BY DEF IInv, TypeOK, Slot, Staged, LateIsLost, Acquire
<1>2. /\ free # {} => FreshDir \in free
      /\ free = {} => FreshDir = next /\ next <= MaxLeases
  BY <1>1, FreshDirExists
<1>3. FreshDir \in 1..MaxLeases
  <2>1. CASE free # {}
    BY <1>1, <1>2, <2>1 DEF Leases
  <2>2. CASE free = {}
    BY <1>1, <1>2, <2>2, SlotsAssumption
  <2> QED
    BY <2>1, <2>2
<1>4. Becomes(s, [slot[s] EXCEPT !.pc = "attach", !.dir = FreshDir])
  <2>1. FreshDir <= MaxLeases
    BY <1>3, SlotsAssumption
  <2> QED
    BY <1>1, <2>1, SlotWrites
<1>5. Effect(s)
  BY <1>1, <1>4 DEF Acquire, Becomes, Effect, StagedAt, LateAt, Counted, Told, Slot
<1>6. TakesDir(s)
  <2>1. slot'[s].dir = FreshDir /\ slot'[s].pc = "attach" /\ slot[s].dir = None /\ FreshDir # None
    BY <1>1, <1>3, <1>4 DEF Becomes, Slot, StagedAt, None
  <2>2. ~HoldsDir(s) /\ HoldsDir(s)'
    BY <2>1 DEF HoldsDir
  <2>3. CASE free # {}
    BY <1>2, <2>1, <2>2, <2>3 DEF Acquire, TakesDir, FreshDir
  <2>4. CASE free = {}
    BY <1>2, <2>1, <2>2, <2>4 DEF Acquire, TakesDir
  <2> QED
    BY <2>3, <2>4
<1> QED
  BY <1>5, <1>6

----------------------------------------------------------------------------
(* Each part of the invariant under a slot's step *)

LEMMA SlotKeepsPlaces ==
  ASSUME IInv, NEW s \in Leases, Effect(s)
  PROVE  PlacesCounted' /\ busy' \in 0..Slots
<1>1. /\ busy \in 0..Slots /\ busy = Cardinality(Occupied) /\ Slots \in Nat
      /\ main.pc \in {"lease", "count"} => busy < Slots
  BY SlotsAssumption DEF IInv, TypeOK, PlacesCounted
<1>2. IsFiniteSet(Occupied)
  BY LeasesAreFinite, FS_Subset DEF Occupied
<1>3. \A u \in Leases \ {s} : Counted(u)' = Counted(u)
  BY DEF Effect, Counted
<1>4. CASE UNCHANGED busy /\ Counted(s)' = Counted(s)
  <2>1. Occupied' = Occupied
    BY <1>3, <1>4 DEF Occupied
  <2> QED
    BY <1>1, <1>4, <2>1 DEF PlacesCounted, Effect
<1>5. CASE busy' = busy - 1 /\ Counted(s) /\ ~Counted(s)'
  <2>1. Occupied' = Occupied \ {s} /\ s \in Occupied
    BY <1>3, <1>5 DEF Occupied
  <2>2. Cardinality(Occupied') = busy - 1 /\ Cardinality(Occupied') \in Nat
    BY <1>1, <1>2, <2>1, FS_RemoveElement, FS_CardinalityType
  <2> QED
    BY <1>1, <1>5, <2>2 DEF PlacesCounted, Effect
<1> QED
  BY <1>4, <1>5 DEF Effect

LEMMA SlotKeepsDirs ==
  ASSUME IInv, NEW s \in Leases, Effect(s), KeepsDir(s) \/ ReturnsDir(s) \/ TakesDir(s)
  PROVE  DirsCounted' /\ OwnDirectory' /\ free' \subseteq Leases /\ next' \in 1..(MaxLeases + 1)
<1>1. /\ free \subseteq Leases /\ next \in 1..(MaxLeases + 1) /\ MaxLeases \in Nat
      /\ slot \in [Leases -> Slot]
      /\ DirsCounted /\ OwnDirectory
  BY SlotsAssumption DEF IInv, TypeOK, Slot
<1>2. IsFiniteSet(Holders) /\ IsFiniteSet(free)
  BY <1>1, LeasesAreFinite, FS_Subset DEF Holders
<1>3. Cardinality(Holders) \in Nat /\ Cardinality(free) \in Nat
  BY <1>2, FS_CardinalityType
<1>4. \A u \in Leases \ {s} : HoldsDir(u)' = HoldsDir(u) /\ slot'[u] = slot[u]
  BY DEF Effect, HoldsDir
<1>5. CASE KeepsDir(s)
  <2>1. Holders' = Holders
    BY <1>4, <1>5 DEF KeepsDir, Holders
  <2>2. \A u \in Leases : slot'[u].dir = slot[u].dir
    BY <1>4, <1>5 DEF KeepsDir
  <2>3. DirsCounted'
    BY <1>1, <1>5, <2>1, <2>2 DEF DirsCounted, KeepsDir, Holders
  <2>4. OwnDirectory'
    BY <1>1, <1>5, <2>1, <2>2 DEF OwnDirectory, KeepsDir, Holders, HoldsDir, Leases, None
  <2> QED
    BY <1>1, <1>5, <2>3, <2>4 DEF KeepsDir
<1>6. CASE ReturnsDir(s)
  <2>1. Holders' = Holders \ {s} /\ s \in Holders
    BY <1>4, <1>6 DEF ReturnsDir, Holders
  <2>2. slot[s].dir \in Leases /\ slot[s].dir \notin free /\ slot[s].dir < next
    BY <1>1, <1>6, <2>1 DEF ReturnsDir, OwnDirectory, HoldsDir, Slot, Leases, None, DirsCounted
  <2>3. Cardinality(Holders') = Cardinality(Holders) - 1 /\ Cardinality(free') = Cardinality(free) + 1
    BY <1>2, <1>6, <2>1, <2>2, FS_RemoveElement, FS_AddElement DEF ReturnsDir
  <2>4. DirsCounted'
    BY <1>1, <1>3, <1>4, <1>6, <2>1, <2>2, <2>3 DEF DirsCounted, ReturnsDir, Holders
  <2>5. OwnDirectory'
    BY <1>1, <1>4, <1>6, <2>2 DEF OwnDirectory, ReturnsDir, HoldsDir, Leases, None
  <2> QED
    BY <1>1, <1>6, <2>2, <2>4, <2>5 DEF ReturnsDir
<1>7. CASE TakesDir(s)
  <2>1. Holders' = Holders \union {s} /\ s \notin Holders
    BY <1>4, <1>7 DEF TakesDir, Holders
  <2>2. Cardinality(Holders') = Cardinality(Holders) + 1
    BY <1>2, <2>1, FS_AddElement
  <2>3. CASE free = {} /\ UNCHANGED free /\ next <= MaxLeases /\ slot'[s].dir = next /\ next' = next + 1
    <3>1. DirsCounted'
      <4>1. next' - 1 = Cardinality(free') + Cardinality(Holders')
        BY <1>1, <1>3, <2>2, <2>3 DEF DirsCounted
      <4>2. \A u \in Holders' : slot'[u].dir < next'
        BY <1>1, <1>4, <2>1, <2>3 DEF DirsCounted, Holders, Slot
      <4> QED
        BY <2>3, <4>1, <4>2 DEF DirsCounted
    <3>2. OwnDirectory'
      BY <1>1, <1>4, <1>7, <2>3 DEF OwnDirectory, HoldsDir, TakesDir, Leases, None, DirsCounted, Holders
    <3> QED
      BY <1>1, <2>3, <3>1, <3>2
  <2>4. CASE slot'[s].dir \in free /\ free' = free \ {slot'[s].dir} /\ UNCHANGED next
    <3>1. Cardinality(free') = Cardinality(free) - 1
      BY <1>2, <2>4, FS_RemoveElement
    <3>2. DirsCounted'
      BY <1>1, <1>3, <1>4, <2>1, <2>2, <2>4, <3>1 DEF DirsCounted, Holders
    <3>3. OwnDirectory'
      BY <1>1, <1>4, <1>7, <2>4 DEF OwnDirectory, HoldsDir, TakesDir, Leases, None
    <3> QED
      BY <1>1, <2>4, <3>2, <3>3
  <2> QED
    BY <1>7, <2>3, <2>4 DEF TakesDir
<1> QED
  BY <1>5, <1>6, <1>7

LEMMA SlotKeepsAnswers ==
  ASSUME IInv, NEW s \in Leases, Effect(s)
  PROVE  Answered'
<1>1. Answered /\ attached \subseteq Leases
  BY DEF IInv, TypeOK
<1>2. ASSUME NEW t \in Stoppers, stopper[t].pc # "idle" PROVE AnswersFor(t)'
  <2>1. stopping /\ AnswersFor(t) /\ stopper' = stopper
    BY <1>1, <1>2 DEF Answered, Effect
  <2>2. ASSUME NEW u \in attached' \ {s} PROVE Told(u)' \/ u \in stopper[t].todo
    <3>1. u \in attached /\ slot'[u] = slot[u]
      BY <1>1, <2>2 DEF Effect
    <3> QED
      BY <2>1, <3>1 DEF AnswersFor, Told
  <2>3. s \in attached' => Told(s)' \/ s \in stopper[t].todo
    BY <2>1 DEF Effect, AnswersFor, Told
  <2> QED
    BY <2>1, <2>2, <2>3 DEF AnswersFor
<1> QED
  BY <1>1, <1>2 DEF Answered, Effect

LEMMA SlotKeepsInvariant ==
  ASSUME IInv, NEW s \in Leases, SlotStep(s) \/ BeatLost(s) \/ Fetched(s) \/ RunEnds(s)
  PROVE  IInv'
<1>1. Effect(s) /\ (KeepsDir(s) \/ ReturnsDir(s) \/ TakesDir(s))
  BY SlotEffect, AcquireEffect DEF SlotStep
<1>2. PlacesCounted' /\ busy' \in 0..Slots
  BY <1>1, SlotKeepsPlaces
<1>3. DirsCounted' /\ OwnDirectory' /\ free' \subseteq Leases /\ next' \in 1..(MaxLeases + 1)
  BY <1>1, SlotKeepsDirs
<1>4. Answered'
  BY <1>1, SlotKeepsAnswers
<1>5. TypeOK'
  BY <1>1, <1>2, <1>3 DEF IInv, TypeOK, Effect, Slot
<1>6. Staged'
  BY <1>1 DEF IInv, Staged, StagedAt, Effect
<1>7. LateIsLost'
  BY <1>1 DEF IInv, LateIsLost, LateAt, Effect
<1> QED
  BY <1>2, <1>3, <1>4, <1>5, <1>6, <1>7 DEF IInv

----------------------------------------------------------------------------
(* The main thread's and the stoppers' steps *)

\* A step that moves no directory.
SameDirs ==
  /\ UNCHANGED <<free, next>>
  /\ \A u \in Leases : slot'[u].dir = slot[u].dir /\ HoldsDir(u)' = HoldsDir(u)

LEMMA DirsUntouched ==
  ASSUME IInv, SameDirs
  PROVE  DirsCounted' /\ OwnDirectory'
<1>1. /\ free \subseteq Leases /\ DirsCounted /\ OwnDirectory
  BY DEF IInv, TypeOK
<1>2. Holders' = Holders
  BY DEF SameDirs, Holders
<1>3. DirsCounted'
  BY <1>1, <1>2 DEF DirsCounted, SameDirs, Holders
<1>4. OwnDirectory'
  BY <1>1 DEF OwnDirectory, SameDirs, HoldsDir, Leases, None
<1> QED
  BY <1>3, <1>4

\* The slot's thread moves to p and nothing else of it changes.
Moves(n, p) ==
  /\ slot' \in [Leases -> Slot] /\ slot'[n].pc = p
  /\ slot'[n].dir = slot[n].dir /\ slot'[n].late = slot[n].late /\ slot'[n].lost = slot[n].lost
  /\ slot'[n].run = slot[n].run /\ slot'[n].freed = slot[n].freed
  /\ \A u \in Leases \ {n} : slot'[u] = slot[u]

LEMMA OneMove ==
  ASSUME slot \in [Leases -> Slot], NEW n \in Leases, NEW p \in SlotPc, slot' = [slot EXCEPT ![n].pc = p]
  PROVE  Moves(n, p)
<1>1. slot' = [slot EXCEPT ![n] = [slot[n] EXCEPT !.pc = p]] /\ [slot[n] EXCEPT !.pc = p] \in Slot
  BY DEF Slot
<1>2. Becomes(n, [slot[n] EXCEPT !.pc = p])
  BY <1>1, OneWrite
<1> QED
  BY <1>2 DEF Becomes, Moves, Slot

\* A lease the main thread leases, starts or gives up has no directory, no run
\* and no stop to see.
LEMMA MoveKeeps ==
  ASSUME IInv, NEW n \in Leases, NEW p \in SlotPc, Moves(n, p), slot[n].pc \in {"none", "leased"},
         UNCHANGED <<free, next, attached, stopper>>
  PROVE  /\ DirsCounted' /\ OwnDirectory' /\ LateIsLost'
         /\ \A t \in Stoppers : AnswersFor(t) => AnswersFor(t)'
<1>1. slot[n].dir = None /\ LateIsLost /\ attached \subseteq Leases
  BY DEF IInv, TypeOK, Staged, StagedAt, LateIsLost
<1>2. SameDirs
  BY <1>1 DEF SameDirs, Moves, HoldsDir
<1>3. LateIsLost'
  BY <1>1 DEF LateIsLost, LateAt, Moves
<1>4. \A u \in Leases : Told(u) => Told(u)'
  BY DEF Told, Moves
<1>5. \A t \in Stoppers : AnswersFor(t) => AnswersFor(t)'
  BY <1>1, <1>4 DEF AnswersFor
<1> QED
  BY <1>2, <1>3, <1>5, DirsUntouched

\* A step of the main thread moves the last lease or none, and its place.
LEMMA MainKeepsInvariant ==
  ASSUME IInv, MainStep
  PROVE  IInv'
<1> USE SlotsAssumption
<1>1. /\ TypeOK /\ Staged /\ PlacesCounted /\ DirsCounted /\ OwnDirectory /\ Answered /\ LateIsLost
      /\ slot \in [Leases -> Slot]
  BY DEF IInv, TypeOK, Slot
<1>2. IsFiniteSet(Occupied)
  BY LeasesAreFinite, FS_Subset DEF Occupied
<1>3. CASE Turn \/ Join \/ (Lease /\ main' = [main EXCEPT !.pc = "check"] /\ UNCHANGED slot)
  <2>1. UNCHANGED <<signalled, busy, free, next, stopping, attached, now, stopper, slot>>
    BY <1>3 DEF Turn, Join, Lease
  <2>2. /\ main' \in [pc : {"check", "lease", "count", "start", "stop", "join", "over"}, leases : 0..MaxLeases]
        /\ main'.leases = main.leases /\ main.pc \notin {"count", "start"} /\ main'.pc \notin {"count", "start"}
        /\ main'.pc = "lease" => busy < Slots
        /\ main.pc # "stop" /\ (main'.pc \in {"join", "over"} => main.pc = "join")
    BY <1>1, <1>3 DEF Turn, Join, Lease, TypeOK
  <2>3. TypeOK' /\ Staged' /\ DirsCounted' /\ OwnDirectory' /\ LateIsLost'
    BY <1>1, <2>1, <2>2 DEF TypeOK, Staged, StagedAt, DirsCounted, Holders, HoldsDir, OwnDirectory, LateIsLost, LateAt
  <2>4. Occupied' = Occupied
    BY <2>1, <2>2 DEF Occupied, Counted
  <2>5. PlacesCounted'
    BY <1>1, <2>1, <2>2, <2>4 DEF PlacesCounted
  <2>6. Answered'
    BY <1>1, <2>1, <2>2 DEF Answered, AnswersFor, Told
  <2> QED
    BY <2>3, <2>5, <2>6 DEF IInv
<1>4. CASE /\ Lease /\ main.leases < MaxLeases /\ main' = [pc |-> "count", leases |-> main.leases + 1]
           /\ slot' = [slot EXCEPT ![main.leases + 1].pc = "leased"]
  <2>1. /\ UNCHANGED <<signalled, busy, free, next, stopping, attached, now, stopper>>
        /\ main.pc = "lease" /\ main.leases + 1 \in Leases /\ main.leases \in Nat
    BY <1>1, <1>4 DEF Lease, TypeOK, Leases
  <2>2. PICK n \in Leases : n = main.leases + 1
    BY <2>1
  <2>3. slot[n].pc = "none" /\ ~slot[n].freed
    BY <1>1, <2>1, <2>2 DEF Staged, StagedAt
  <2>4. Moves(n, "leased")
    BY <1>1, <1>4, <2>2, OneMove DEF SlotPc
  <2>5. DirsCounted' /\ OwnDirectory' /\ LateIsLost' /\ \A t \in Stoppers : AnswersFor(t) => AnswersFor(t)'
    BY <2>1, <2>3, <2>4, MoveKeeps DEF SlotPc
  <2>6. main'.pc = "count" /\ main'.leases = n
    BY <1>4, <2>2
  <2>7. TypeOK'
    BY <1>1, <1>4, <2>1, <2>2, <2>4 DEF TypeOK, Moves, Slot
  <2>8. Staged'
    <3>1. StagedAt(n)'
      BY <1>1, <2>2, <2>3, <2>4, <2>6 DEF Staged, StagedAt, Moves
    <3>2. ASSUME NEW u \in Leases \ {n} PROVE StagedAt(u)'
      <4>1. slot'[u] = slot[u] /\ (u > n <=> u > main.leases)
        BY <2>1, <2>2, <2>4 DEF Moves, Leases
      <4>2. slot[u].pc # "leased"
        BY <1>1, <2>1 DEF Staged, StagedAt
      <4> QED
        BY <1>1, <2>6, <4>1, <4>2 DEF Staged, StagedAt
    <3> QED
      BY <2>2, <2>6, <3>1, <3>2 DEF Staged, Leases
  <2>9. Occupied' = Occupied
    BY <1>1, <2>1, <2>3, <2>4, <2>6 DEF Occupied, Counted, Moves
  <2>10. PlacesCounted'
    BY <1>1, <2>1, <2>9 DEF PlacesCounted
  <2>11. Answered'
    BY <1>1, <2>1, <2>5, <2>6 DEF Answered
  <2> QED
    BY <2>5, <2>7, <2>8, <2>10, <2>11 DEF IInv
<1>5. CASE Count
  <2>1. /\ UNCHANGED <<signalled, free, next, stopping, attached, now, stopper, slot>>
        /\ busy' = busy + 1 /\ main.pc = "count" /\ main' = [main EXCEPT !.pc = "start"]
        /\ main'.pc = "start" /\ main'.leases = main.leases
        /\ main.leases \in Leases
    BY <1>1, <1>5 DEF Count, TypeOK, Staged, Leases
  <2>2. Occupied' = Occupied \union {main.leases} /\ main.leases \notin Occupied
    BY <1>1, <2>1 DEF Occupied, Counted, Staged, StagedAt
  <2>3. Cardinality(Occupied') = Cardinality(Occupied) + 1
    BY <1>2, <2>2, FS_AddElement
  <2>4. busy = Cardinality(Occupied) /\ busy < Slots /\ busy \in 0..Slots
    BY <1>1, <2>1 DEF PlacesCounted, TypeOK
  <2>5. PlacesCounted' /\ busy' \in 0..Slots
    BY <2>1, <2>3, <2>4 DEF PlacesCounted
  <2>6. TypeOK' /\ Staged' /\ DirsCounted' /\ OwnDirectory' /\ LateIsLost'
    BY <1>1, <2>1, <2>5 DEF TypeOK, Staged, StagedAt, DirsCounted, Holders, HoldsDir, OwnDirectory, LateIsLost, LateAt
  <2>7. Answered'
    BY <1>1, <2>1 DEF Answered, AnswersFor, Told
  <2> QED
    BY <2>5, <2>6, <2>7 DEF IInv
<1>6. CASE Start \/ StartFails
  <2>1. PICK n \in Leases : n = main.leases
    BY <1>1, <1>6 DEF Start, StartFails, TypeOK, Staged, Leases
  <2>2. PICK p \in SlotPc : /\ slot' = [slot EXCEPT ![n].pc = p]
                            /\ (Start /\ p = "new") \/ (StartFails /\ p = "over")
    BY <1>6, <2>1 DEF Start, StartFails, SlotPc
  <2>3. /\ UNCHANGED <<signalled, free, next, stopping, attached, now, stopper>>
        /\ main.pc = "start" /\ main'.leases = n /\ main'.pc \in {"check", "stop"}
        /\ main' \in [pc : {"check", "lease", "count", "start", "stop", "join", "over"}, leases : 0..MaxLeases]
        /\ slot[n].pc = "leased"
    <3>1. /\ UNCHANGED <<signalled, free, next, stopping, attached, now, stopper>> /\ main.pc = "start"
          /\ main' = [main EXCEPT !.pc = "check"] \/ main' = [main EXCEPT !.pc = "stop"]
      BY <1>6 DEF Start, StartFails
    <3>2. main \in [pc : {"check", "lease", "count", "start", "stop", "join", "over"}, leases : 0..MaxLeases]
      BY <1>1 DEF TypeOK
    <3>3. slot[n].pc = "leased"
      BY <1>1, <2>1, <3>1 DEF Staged, StagedAt
    <3> QED
      BY <2>1, <3>1, <3>2, <3>3
  <2>4. Moves(n, p)
    BY <1>1, <2>2, OneMove
  <2>5. DirsCounted' /\ OwnDirectory' /\ LateIsLost' /\ \A t \in Stoppers : AnswersFor(t) => AnswersFor(t)'
    BY <2>3, <2>4, MoveKeeps
  <2>6. Staged'
    <3>1. StagedAt(n) /\ slot'[n].pc \in {"new", "over"}
      BY <1>1, <2>2, <2>4 DEF Staged, Moves
    <3>2. StagedAt(n)'
      BY <2>1, <2>2, <2>3, <2>4, <3>1 DEF StagedAt, Moves
    <3>3. ASSUME NEW u \in Leases \ {n} PROVE StagedAt(u)'
      <4>1. StagedAt(u) /\ slot'[u] = slot[u]
        BY <1>1, <2>4 DEF Staged, Moves
      <4> QED
        BY <2>1, <2>3, <4>1 DEF StagedAt
    <3> QED
      BY <2>3, <3>2, <3>3 DEF Staged
  <2>7. \A u \in Leases \ {n} : Counted(u)' = Counted(u)
    BY <2>3, <2>4 DEF Counted, Moves
  <2>8. Counted(n) /\ ~slot'[n].freed
    BY <1>1, <2>3, <2>4 DEF Counted, Staged, StagedAt, Moves
  <2>9. busy = Cardinality(Occupied) /\ busy \in 0..Slots
    BY <1>1 DEF PlacesCounted, TypeOK
  <2>10. PlacesCounted' /\ busy' \in 0..Slots
    <3>1. CASE Start /\ p = "new"
      <4>1. Counted(n)' /\ busy' = busy
        BY <2>2, <2>3, <2>4, <2>8, <3>1 DEF Counted, Moves, Start
      <4>2. Occupied' = Occupied
        BY <2>7, <2>8, <4>1 DEF Occupied
      <4> QED
        BY <2>3, <2>9, <4>1, <4>2 DEF PlacesCounted
    <3>2. CASE StartFails /\ p = "over"
      <4>1. ~Counted(n)' /\ busy' = busy - 1
        BY <2>2, <2>3, <2>4, <3>2 DEF Counted, Moves, StartFails
      <4>2. Occupied' = Occupied \ {n} /\ n \in Occupied
        BY <2>7, <2>8, <4>1 DEF Occupied
      <4>3. Cardinality(Occupied') = Cardinality(Occupied) - 1 /\ Cardinality(Occupied') \in Nat
        BY <1>2, <4>2, FS_RemoveElement, FS_CardinalityType
      <4> QED
        BY <2>3, <2>9, <4>1, <4>3 DEF PlacesCounted
    <3> QED
      BY <2>2, <3>1, <3>2
  <2>11. TypeOK'
    BY <1>1, <2>3, <2>4, <2>10 DEF TypeOK, Moves, Slot
  <2>12. Answered'
    BY <1>1, <2>3, <2>5 DEF Answered
  <2> QED
    BY <2>5, <2>6, <2>10, <2>11, <2>12 DEF IInv
<1> QED
  BY <1>3, <1>4, <1>5, <1>6 DEF MainStep, Lease

\* A stopper takes the set under the lock and tells its slots one by one.
LEMMA StopperKeepsInvariant ==
  ASSUME IInv, NEW t \in Stoppers, StopperStep(t)
  PROVE  IInv'
<1>1. /\ TypeOK /\ Staged /\ PlacesCounted /\ DirsCounted /\ OwnDirectory /\ Answered /\ LateIsLost
      /\ slot \in [Leases -> Slot] /\ stopper \in [Stoppers -> [pc : {"idle", "notify", "over"}, todo : SUBSET Leases]]
  BY DEF IInv, TypeOK, Slot
<1>2. CASE Request(t)
  <2>1. TypeOK' /\ Staged' /\ DirsCounted' /\ OwnDirectory' /\ LateIsLost'
    BY <1>1, <1>2 DEF Request, TypeOK, Staged, StagedAt, DirsCounted, Holders, HoldsDir, OwnDirectory, LateIsLost, LateAt
  <2>2. PlacesCounted'
    BY <1>1, <1>2 DEF Request, PlacesCounted, Occupied, Counted
  <2>3. /\ stopping' /\ UNCHANGED <<main, attached, slot>>
        /\ stopper'[t] = [pc |-> "notify", todo |-> attached]
        /\ t = "main" => main.pc = "stop"
        /\ \A u \in Stoppers \ {t} : stopper'[u] = stopper[u]
    BY <1>1, <1>2 DEF Request
  <2>4. ASSUME NEW u \in Stoppers, stopper'[u].pc # "idle" PROVE AnswersFor(u)' /\ (stopper'[u].pc = "over" => stopper'[u].todo = {})
    <3>1. CASE u = t
      BY <2>3, <3>1 DEF AnswersFor
    <3>2. CASE u # t
      BY <1>1, <2>3, <2>4, <3>2 DEF AnswersFor, Answered, Told
    <3> QED
      BY <3>1, <3>2
  <2>5. stopper["main"].pc = "over" => t # "main"
    BY <1>2 DEF Request
  <2>6. \A u \in Stoppers : stopper'[u].pc = "over" => stopper[u].pc = "over" /\ stopper'[u].todo = {}
    <3>1. \A u \in Stoppers : stopper'[u].pc = "over" => u # t
      BY <2>3
    <3> QED
      BY <1>1, <2>3, <3>1 DEF Answered
  <2>7. "main" \in Stoppers
    BY DEF Stoppers
  <2>8. Answered'
    <3>1. stopper'["main"].pc = "notify" => main.pc = "stop"
      BY <1>1, <2>3, <2>7 DEF Answered
    <3>2. main.pc \in {"join", "over"} => stopper'["main"].pc = "over"
      BY <1>1, <2>3, <2>5, <2>7 DEF Answered
    <3> QED
      BY <2>3, <2>4, <2>6, <3>1, <3>2 DEF Answered
  <2> QED
    BY <2>1, <2>2, <2>8 DEF IInv
<1>3. CASE Requested(t)
  <2>1. /\ UNCHANGED <<signalled, busy, free, next, stopping, attached, now, slot>>
        /\ stopper[t].pc = "notify" /\ stopper[t].todo = {}
        /\ stopper'[t].pc = "over" /\ stopper'[t].todo = {}
        /\ \A u \in Stoppers \ {t} : stopper'[u] = stopper[u]
        /\ stopper' \in [Stoppers -> [pc : {"idle", "notify", "over"}, todo : SUBSET Leases]]
    BY <1>1, <1>3 DEF Requested
  <2>2. t = "main" => main.pc = "stop"
    BY <1>1, <2>1 DEF Answered
  <2>3. /\ main' \in [pc : {"check", "lease", "count", "start", "stop", "join", "over"}, leases : 0..MaxLeases]
        /\ main'.leases = main.leases
        /\ main'.pc = main.pc \/ (t = "main" /\ main.pc = "stop" /\ main'.pc = "join")
        /\ t = "main" => main'.pc = "join"
    BY <1>1, <1>3, <2>2 DEF Requested, TypeOK
  <2>4. TypeOK' /\ Staged' /\ LateIsLost'
    BY <1>1, <2>1, <2>3 DEF TypeOK, Staged, StagedAt, LateIsLost, LateAt
  <2>5. DirsCounted' /\ OwnDirectory'
    BY <1>1, <2>1 DEF DirsCounted, Holders, HoldsDir, OwnDirectory
  <2>6. Occupied' = Occupied
    BY <2>1, <2>3 DEF Occupied, Counted
  <2>7. PlacesCounted'
    BY <1>1, <2>1, <2>3, <2>6 DEF PlacesCounted
  <2>8. Answered'
    <3>1. \A u \in Stoppers : /\ stopper'[u].todo = stopper[u].todo /\ (stopper'[u].pc # "idle" => stopper[u].pc # "idle")
                              /\ stopper'[u].pc = "over" => stopper'[u].todo = {}
      BY <1>1, <2>1 DEF Answered
    <3>2. \A u \in Stoppers : stopper'[u].pc # "idle" => stopping' /\ AnswersFor(u)'
      BY <1>1, <2>1, <3>1 DEF Answered, AnswersFor, Told
    <3>3. stopper'["main"].pc = "notify" => main'.pc = "stop"
      BY <1>1, <2>1, <2>3 DEF Answered, Stoppers
    <3>4. main'.pc \in {"join", "over"} => stopper'["main"].pc = "over"
      BY <1>1, <2>1, <2>3 DEF Answered, Stoppers
    <3> QED
      BY <3>1, <3>2, <3>3, <3>4 DEF Answered
  <2> QED
    BY <2>4, <2>5, <2>7, <2>8 DEF IInv
<1>4. ASSUME NEW s \in Leases, SetLost(t, s) PROVE IInv'
  <2>1. /\ UNCHANGED <<main, signalled, busy, free, next, stopping, attached, now>>
        /\ stopper'[t].pc = stopper[t].pc /\ stopper'[t].todo = stopper[t].todo \ {s}
        /\ \A u \in Stoppers \ {t} : stopper'[u] = stopper[u]
        /\ stopper' \in [Stoppers -> [pc : {"idle", "notify", "over"}, todo : SUBSET Leases]]
    BY <1>1, <1>4 DEF SetLost
  <2>2. Becomes(s, [slot[s] EXCEPT !.lost = TRUE])
    <3>1. slot' = [slot EXCEPT ![s] = [slot[s] EXCEPT !.lost = TRUE]] /\ [slot[s] EXCEPT !.lost = TRUE] \in Slot
      BY <1>1, <1>4 DEF SetLost, Slot
    <3> QED
      BY <1>1, <3>1, OneWrite
  <2>3. /\ slot' \in [Leases -> Slot] /\ slot'[s].lost
        /\ \A u \in Leases : /\ slot'[u].pc = slot[u].pc /\ slot'[u].dir = slot[u].dir /\ slot'[u].run = slot[u].run
                             /\ slot'[u].late = slot[u].late /\ slot'[u].freed = slot[u].freed
                             /\ slot[u].lost => slot'[u].lost
    BY <1>1, <2>2 DEF Becomes, Slot
  <2>4. TypeOK'
    BY <1>1, <2>1, <2>3 DEF TypeOK, Slot
  <2>5. Staged' /\ LateIsLost'
    <3>1. \A u \in Leases : StagedAt(u)' /\ LateAt(u)'
      BY <1>1, <2>1, <2>3 DEF Staged, StagedAt, LateIsLost, LateAt
    <3> QED
      BY <1>1, <2>1, <3>1 DEF Staged, LateIsLost
  <2>6. SameDirs
    BY <2>1, <2>3 DEF SameDirs, HoldsDir
  <2>7. Occupied' = Occupied
    BY <2>1, <2>3 DEF Occupied, Counted
  <2>8. PlacesCounted'
    BY <1>1, <2>1, <2>7 DEF PlacesCounted
  <2>9. Answered'
    <3>1. attached \subseteq Leases
      BY <1>1 DEF TypeOK
    <3>2. \A u \in Leases : Told(u) => Told(u)'
      BY <2>3 DEF Told
    <3>3. Told(s)'
      BY <2>3 DEF Told
    <3>4. \A u \in Stoppers : stopper'[u].pc = stopper[u].pc /\ stopper[u].todo \ {s} \subseteq stopper'[u].todo
      BY <2>1
    <3>5. \A u \in Stoppers : AnswersFor(u) => AnswersFor(u)'
      BY <2>1, <3>1, <3>2, <3>3, <3>4 DEF AnswersFor
    <3>6. \A u \in Stoppers : stopper[u].todo = {} => stopper'[u].todo = {}
      BY <2>1
    <3> QED
      BY <1>1, <2>1, <3>4, <3>5, <3>6 DEF Answered, Stoppers
  <2> QED
    BY <2>4, <2>5, <2>6, <2>8, <2>9, DirsUntouched DEF IInv
<1> QED
  BY <1>2, <1>3, <1>4 DEF StopperStep

----------------------------------------------------------------------------
(* The theorems *)

\* The invariant holds initially and every step keeps it.
LEMMA InitInvariant == Init => IInv
<1> SUFFICES ASSUME Init PROVE IInv
  OBVIOUS
<1> USE SlotsAssumption
<1>1. \A s \in Leases : slot[s] = NewSlot
  BY DEF Init
<1>2. TypeOK
  <2>1. NewSlot \in Slot
    BY DEF Slot, SlotPc, NewSlot, None
  <2>2. slot \in [Leases -> Slot]
    BY <2>1 DEF Init
  <2>3. /\ main \in [pc : {"check", "lease", "count", "start", "stop", "join", "over"}, leases : 0..MaxLeases]
        /\ stopper \in [Stoppers -> [pc : {"idle", "notify", "over"}, todo : SUBSET Leases]]
    BY DEF Init
  <2>4. slot \in [Leases -> [pc : SlotPc, dir : 0..MaxLeases, late : BOOLEAN, lost : BOOLEAN,
                            run : {"none", "fetch", "device", "ended", "transient"},
                            abandoned : BOOLEAN, freed : BOOLEAN]]
    BY <2>2 DEF Slot
  <2>5. busy \in 0..Slots /\ next \in 1..(MaxLeases + 1)
    BY DEF Init
  <2> QED
    BY <2>3, <2>4, <2>5 DEF Init, TypeOK
<1>3. Staged /\ LateIsLost /\ Answered
  BY <1>1 DEF Init, Staged, StagedAt, LateIsLost, LateAt, Answered, NewSlot, None, Leases, Stoppers
<1>4. Occupied = {} /\ Holders = {} /\ Cardinality({}) = 0
  BY <1>1, FS_EmptySet DEF Occupied, Counted, Holders, HoldsDir, NewSlot
<1>5. PlacesCounted /\ DirsCounted /\ OwnDirectory
  BY <1>1, <1>4 DEF Init, PlacesCounted, DirsCounted, OwnDirectory, NewSlot
<1> QED
  BY <1>2, <1>3, <1>5 DEF IInv

LEMMA NextInvariant == IInv /\ [Next]_vars => IInv'
<1> SUFFICES ASSUME IInv, [Next]_vars PROVE IInv'
  OBVIOUS
<1>1. CASE Signal \/ SecondSignal \/ UNCHANGED vars
  <2>1. UNCHANGED <<main, busy, free, next, stopping, attached, stopper, slot>> /\ signalled' \in BOOLEAN /\ now' \in BOOLEAN
    BY <1>1 DEF Signal, SecondSignal, vars, IInv, TypeOK
  <2>2. TypeOK' /\ Staged' /\ DirsCounted' /\ OwnDirectory' /\ LateIsLost'
    BY <2>1 DEF IInv, TypeOK, Staged, StagedAt, DirsCounted, Holders, HoldsDir, OwnDirectory, LateIsLost, LateAt
  <2>3. PlacesCounted' /\ Answered'
    BY <2>1 DEF IInv, PlacesCounted, Occupied, Counted, Answered, AnswersFor, Told
  <2> QED
    BY <2>2, <2>3 DEF IInv
<1> QED
  BY <1>1, MainKeepsInvariant, StopperKeepsInvariant, SlotKeepsInvariant DEF Next

\* In flight are the counted leases and the one about to be, for which there is
\* a place left.
LEMMA PlacesFollow == IInv => PlacesHold
<1> SUFFICES ASSUME IInv PROVE PlacesHold
  OBVIOUS
<1>1. /\ busy \in 0..Slots /\ Slots \in Nat /\ busy = Cardinality(Occupied)
      /\ main.pc = "count" => busy < Slots
  BY SlotsAssumption DEF IInv, TypeOK, PlacesCounted
<1>2. IsFiniteSet(Occupied) /\ Cardinality(Occupied) \in Nat
  BY LeasesAreFinite, FS_Subset, FS_CardinalityType DEF Occupied
<1>3. CASE main.pc = "count"
  <2>1. InFlight \subseteq Occupied \union {main.leases}
    BY DEF InFlight, Occupied, Counted
  <2>2. IsFiniteSet(Occupied \union {main.leases}) /\ Cardinality(Occupied \union {main.leases}) <= Cardinality(Occupied) + 1
    BY <1>2, FS_AddElement
  <2>3. Cardinality(InFlight) <= Cardinality(Occupied) + 1 /\ Cardinality(InFlight) \in Nat
    <3>1. IsFiniteSet(InFlight) /\ Cardinality(InFlight) <= Cardinality(Occupied \union {main.leases})
      BY <2>1, <2>2, FS_Subset
    <3>2. Cardinality(InFlight) \in Nat /\ Cardinality(Occupied \union {main.leases}) \in Nat
      BY <2>2, <3>1, FS_CardinalityType
    <3> QED
      BY <1>2, <2>2, <3>1, <3>2
  <2> QED
    BY <1>1, <1>2, <1>3, <2>3 DEF PlacesHold
<1>4. CASE main.pc # "count"
  <2>1. InFlight \subseteq Occupied
    BY <1>4 DEF InFlight, Occupied, Counted
  <2>2. Cardinality(InFlight) <= Cardinality(Occupied) /\ Cardinality(InFlight) \in Nat
    BY <1>2, <2>1, FS_Subset, FS_CardinalityType
  <2> QED
    BY <1>1, <1>2, <2>2 DEF PlacesHold
<1> QED
  BY <1>3, <1>4

\* The main thread waits for the slots only when its own pass is over.
LEMMA StopFollows == IInv => StopIsSeen
<1> SUFFICES ASSUME IInv PROVE StopIsSeen
  OBVIOUS
<1>1. LateLeaseNeverRuns
  BY DEF IInv, LateIsLost, LateAt, LateLeaseNeverRuns
<1>2. StopReachesAll
  BY DEF IInv, Answered, AnswersFor, Told, Stoppers, StopReachesAll
<1> QED
  BY <1>1, <1>2 DEF StopIsSeen

\* The inductive invariant holds in every reachable state.
THEOREM SlotsInvariant == Spec => []IInv
  BY InitInvariant, NextInvariant, PTL DEF Spec

\* However many jobs are leased and however their threads, the main loop and a
\* failing thread start interleave, _serve_slots never has more jobs in flight
\* than --slots, and _SlotDirs never hands a directory to two live jobs.
THEOREM SlotsAreOwnHolds == Spec => []SlotsAreOwn
<1>1. IInv => SlotsAreOwn
  BY PlacesFollow DEF IInv, SlotsAreOwn
<1> QED
  BY <1>1, SlotsInvariant, PTL

\* _SlotShutdown's copy of the attached set loses no slot: when the main loop
\* joins, each attached slot was told or has seen the stop for itself, and a
\* slot that attached behind the stop never takes its run to a device.
THEOREM StopIsSeenHolds == Spec => []StopIsSeen
  BY StopFollows, SlotsInvariant, PTL

----------------------------------------------------------------------------
(* HandoffRelay: the inductive invariant *)

\* The request lines on their way to the relay are the ones it has not
\* offered, in order: HandoffRelay.offer meets each request once.
Lined ==
  /\ generation + Len(stdout) = record.request
  /\ \A i \in 1..Len(stdout) : stdout[i] = generation + i
  /\ \A g \in Requests : generation < g => relay[g].pc = "none"
  /\ stopped => record.pc = "ended" /\ stdout = << >>

\* A thread past its post: it opened its request, or gave up on it.
Posted(g) == relay[g].pc \notin {"none", "post"}

\* The server's open request was posted and nobody resumed it yet, and only
\* posted requests are resumed.
Opened ==
  /\ row.pending => asked \in Requests /\ Posted(asked) /\ resumed[asked] = 0
  /\ \A g \in Requests : resumed[g] # 0 => Posted(g) /\ resumed[g] = 1
  /\ \A g \in Requests : relay[g].pc = "answer" => relay[g].answer \in Requests

Inv == HandoffTypeOK /\ Lined /\ Opened

Relay == [pc : {"none", "post", "poll", "answer", "over"}, answer : 0..MaxRequests]
Row == [leased : BOOLEAN, cancel : BOOLEAN, pending : BOOLEAN, response : 0..MaxRequests]
Record == [pc : {"running", "waiting", "ended"}, request : 0..MaxRequests, heard : 0..MaxRequests]

----------------------------------------------------------------------------
\* HandoffTypeOK with the record sets named.
LEMMA Types ==
  HandoffTypeOK <=>
    /\ record \in Record /\ stdout \in Seq(Requests) /\ stdin \in Seq(Requests)
    /\ generation \in 0..MaxRequests /\ relay \in [Requests -> Relay] /\ stopped \in BOOLEAN
    /\ row \in Row /\ (row.pending => row.response = 0)
    /\ shown \subseteq Requests /\ asked \in 0..MaxRequests
    /\ page \in [Pages -> 0..MaxRequests] /\ resumed \in [Requests -> Nat] /\ lost \in 0..MaxLost
  BY DEF HandoffTypeOK, Record, Relay, Row

\* The first state: nothing asked, offered or answered.
LEMMA InitInv == HandoffInit => Inv
<1> SUFFICES ASSUME HandoffInit PROVE Inv
  OBVIOUS
<1>1. 0 \in 0..MaxRequests /\ 0 \in 0..MaxLost
  BY RelayAssumption
<1>2. << >> \in Seq(Requests) /\ Len(<< >>) = 0
  OBVIOUS
<1>3. HandoffTypeOK
  BY <1>1, <1>2 DEF HandoffInit, HandoffTypeOK
<1>4. 1..0 = {}
  OBVIOUS
<1>5. Lined
  BY <1>2, <1>4 DEF HandoffInit, Lined
<1>6. Opened
  BY DEF HandoffInit, Opened
<1> QED
  BY <1>3, <1>5, <1>6 DEF Inv

\* The record prints its next request behind the ones not yet offered.
LEMMA AskInv == ASSUME Inv, Ask PROVE Inv'
<1> DEFINE r == record.request
<1>1. /\ record \in Record /\ stdout \in Seq(Requests) /\ generation \in 0..MaxRequests
      /\ r \in 0..MaxRequests /\ r < MaxRequests
  BY Types DEF Inv, Ask, Record
<1>2. r + 1 \in Requests /\ r + 1 \in 0..MaxRequests /\ 0 \in 0..MaxRequests
  BY <1>1, RelayAssumption DEF Requests
<1>3. record' \in Record /\ record'.request = r + 1 /\ record'.pc = "waiting"
  BY <1>1, <1>2 DEF Ask, Record
<1>4. /\ stdout' \in Seq(Requests) /\ Len(stdout') = Len(stdout) + 1
      /\ \A i \in 1..Len(stdout) : stdout'[i] = stdout[i]
      /\ stdout'[Len(stdout) + 1] = r + 1
  BY <1>1, <1>2 DEF Ask
<1>5. UNCHANGED <<stdin, generation, relay, stopped, row, shown, page, asked, resumed, lost>>
  BY DEF Ask
<1>6. HandoffTypeOK'
  <2>1. HandoffTypeOK
    BY DEF Inv
  <2> QED
    BY <1>3, <1>4, <1>5, <2>1 DEF HandoffTypeOK, Record
<1>7. Lined'
  <2>1. Len(stdout) \in Nat /\ generation + Len(stdout) = r /\ ~stopped
    BY <1>1 DEF Inv, Lined, Ask
  <2>2. generation' + Len(stdout') = record'.request
    BY <1>1, <1>3, <1>4, <1>5, <2>1
  <2>3. \A i \in 1..Len(stdout') : stdout'[i] = generation' + i
    <3> SUFFICES ASSUME NEW i \in 1..Len(stdout') PROVE stdout'[i] = generation + i
      BY <1>5
    <3>1. CASE i \in 1..Len(stdout)
      BY <1>4, <3>1 DEF Inv, Lined
    <3>2. CASE i = Len(stdout) + 1
      BY <1>1, <1>4, <2>1, <3>2
    <3> QED
      BY <1>4, <2>1, <3>1, <3>2
  <2> QED
    BY <1>5, <2>1, <2>2, <2>3 DEF Inv, Lined
<1> QED
  BY <1>5, <1>6, <1>7 DEF Inv, Opened, Posted

\* A step that neither prints, offers nor posts keeps the lines in order.
LEMMA LinedKept ==
  ASSUME Inv, UNCHANGED <<stdout, generation, stopped>>, record'.request = record.request,
         record.pc = "ended" => record'.pc = "ended",
         \A g \in Requests : relay[g].pc = "none" => relay'[g].pc = "none"
  PROVE  Lined'
  BY DEF Inv, Lined

\* Nothing moves back to before its post.
LEMMA OpenedKept ==
  ASSUME Inv, \A g \in Requests : Posted(g) => Posted(g)',
         row'.pending => row.pending, UNCHANGED <<asked, resumed>>,
         \A g \in Requests : relay'[g].pc = "answer" => relay'[g].answer \in Requests
  PROVE  Opened'
  BY DEF Inv, Opened

\* The record reads an answer, or ends.
LEMMA RecordInv == ASSUME Inv, Hear \/ RecordEnds PROVE Inv'
<1>0. /\ record \in Record /\ stdin \in Seq(Requests)
      /\ UNCHANGED <<stdout, generation, relay, stopped, row, shown, page, asked, resumed, lost>>
  BY Types DEF Inv, Hear, RecordEnds
<1>1. /\ record' \in Record /\ record'.request = record.request
      /\ record.pc = "ended" => record'.pc = "ended"
      /\ stdin' \in Seq(Requests)
  <2>1. CASE Hear
    <3>1. Head(stdin) \in Requests /\ Tail(stdin) \in Seq(Requests)
      BY <1>0, <2>1 DEF Hear
    <3>2. Head(stdin) \in 0..MaxRequests
      BY <3>1 DEF Requests
    <3> QED
      BY <1>0, <2>1, <3>1, <3>2 DEF Hear, Record
  <2>2. CASE RecordEnds
    BY <1>0, <2>2 DEF RecordEnds, Record
  <2> QED
    BY <2>1, <2>2
<1>2. HandoffTypeOK'
  BY <1>0, <1>1 DEF Inv, HandoffTypeOK, Record
<1>3. Lined'
  BY <1>0, <1>1, LinedKept
<1>4. Opened'
  BY <1>0 DEF Inv, Opened, Posted
<1> QED
  BY <1>2, <1>3, <1>4 DEF Inv

\* The line offered is the next request's, whose thread starts only now.
LEMMA OfferInv == ASSUME Inv, Offer PROVE Inv'
<1> DEFINE g == Head(stdout)
<1>0. /\ stdout \in Seq(Requests) /\ stdout # << >> /\ generation \in 0..MaxRequests
      /\ relay \in [Requests -> Relay] /\ ~stopped
      /\ generation + Len(stdout) = record.request
      /\ \A i \in 1..Len(stdout) : stdout[i] = generation + i
      /\ \A h \in Requests : generation < h => relay[h].pc = "none"
      /\ UNCHANGED <<record, stdin, stopped, row, shown, page, asked, resumed, lost>>
  BY Types DEF Inv, Lined, Offer
<1>1. /\ Len(stdout) \in Nat \ {0} /\ stdout' = Tail(stdout) /\ stdout' \in Seq(Requests)
      /\ Len(stdout') = Len(stdout) - 1 /\ \A i \in 1..Len(stdout') : stdout'[i] = stdout[i + 1]
      /\ g = stdout[1] /\ g \in Requests
  BY <1>0 DEF Offer
<1>2. g = generation + 1
  BY <1>0, <1>1
<1>3. generation' = g /\ relay' = [relay EXCEPT ![g] = [relay[g] EXCEPT !.pc = "post"]]
  BY <1>0, <1>2 DEF Offer
<1>4. /\ relay' \in [Requests -> Relay] /\ relay'[g].pc = "post"
      /\ \A h \in Requests \ {g} : relay'[h] = relay[h]
  <2>1. /\ [relay[g] EXCEPT !.pc = "post"] \in Relay
        /\ [relay[g] EXCEPT !.pc = "post"].pc = "post"
    BY <1>0, <1>1 DEF Relay
  <2> HIDE DEF g
  <2> QED
    BY <1>0, <1>1, <1>3, <2>1
<1>5. HandoffTypeOK'
  <2>1. generation' \in 0..MaxRequests
    BY <1>1, <1>3 DEF Requests
  <2> QED
    BY <1>0, <1>1, <1>4, <2>1 DEF Inv, HandoffTypeOK, Relay
<1>6. Lined'
  <2>1. generation' + Len(stdout') = record'.request
    BY <1>0, <1>1, <1>2, <1>3
  <2>2. \A i \in 1..Len(stdout') : stdout'[i] = generation' + i
    <3> SUFFICES ASSUME NEW i \in 1..Len(stdout') PROVE stdout'[i] = generation' + i
      OBVIOUS
    <3>1. i + 1 \in 1..Len(stdout) /\ i \in Nat
      BY <1>1
    <3>2. stdout'[i] = stdout[i + 1] /\ stdout[i + 1] = generation + (i + 1)
      BY <1>0, <1>1, <3>1
    <3> QED
      BY <1>0, <1>2, <1>3, <3>1, <3>2
  <2>3. \A h \in Requests : generation' < h => relay'[h].pc = "none"
    BY <1>0, <1>2, <1>3, <1>4 DEF Requests
  <2> QED
    BY <1>0, <2>1, <2>2, <2>3 DEF Lined
<1>7. Opened'
  <2>1. relay[g].pc = "none"
    BY <1>0, <1>1, <1>2
  <2>2. \A h \in Requests : Posted(h) => h # g /\ relay'[h] = relay[h]
    BY <1>4, <2>1 DEF Posted
  <2>3. \A h \in Requests : Posted(h) => Posted(h)'
    BY <2>2 DEF Posted
  <2>4. \A h \in Requests : relay'[h].pc = "answer" => relay'[h].answer \in Requests
    BY <1>4 DEF Inv, Opened
  <2> QED
    BY <1>0, <2>3, <2>4, OpenedKept
<1> QED
  BY <1>5, <1>6, <1>7 DEF Inv

\* A relay thread's step on its own entry, at or past its post.
ThreadMoves(g) ==
  /\ relay' = [relay EXCEPT ![g] = relay'[g]] /\ relay'[g] \in Relay
  /\ relay[g].pc # "none" /\ Posted(g)'
  /\ relay'[g].pc = "answer" => relay'[g].answer \in Requests

\* Read as what it keeps.
LEMMA ThreadKeeps ==
  ASSUME Inv, NEW g \in Requests, ThreadMoves(g)
  PROVE  /\ relay' \in [Requests -> Relay]
         /\ \A h \in Requests : relay[h].pc = "none" => relay'[h].pc = "none"
         /\ \A h \in Requests : Posted(h) => Posted(h)'
         /\ \A h \in Requests : relay'[h].pc = "answer" => relay'[h].answer \in Requests
<1>1. relay \in [Requests -> Relay]
  BY Types DEF Inv
<1>2. \A h \in Requests \ {g} : relay'[h] = relay[h]
  BY <1>1 DEF ThreadMoves
<1>3. relay' \in [Requests -> Relay]
  BY <1>1 DEF ThreadMoves
<1> QED
  BY <1>2, <1>3 DEF ThreadMoves, Posted, Inv, Opened
\* A thread's step that leaves the row and the record's request alone.
LEMMA ThreadInv ==
  ASSUME Inv, NEW g \in Requests, ThreadMoves(g),
         UNCHANGED <<stdout, generation, stopped, row, shown, page, asked, resumed>>,
         record' \in Record, record'.request = record.request,
         record.pc = "ended" => record'.pc = "ended",
         stdin' \in Seq(Requests), lost' \in 0..MaxLost
  PROVE  Inv'
<1>1. HandoffTypeOK'
  BY ThreadKeeps DEF Inv, HandoffTypeOK, Record, Relay
<1>2. Lined'
  BY ThreadKeeps, LinedKept
<1>3. Opened'
  BY ThreadKeeps, OpenedKept
<1> QED
  BY <1>1, <1>2, <1>3 DEF Inv

\* open_handoff: the request opened is one nobody has answered, because its
\* thread posts once.
LEMMA PostInv == ASSUME Inv, NEW g \in Requests, PostRequest(g) PROVE Inv'
<1>0. /\ relay \in [Requests -> Relay] /\ relay[g].pc = "post" /\ row \in Row
      /\ UNCHANGED <<record, stdout, stdin, generation, stopped, page, resumed>>
      /\ record \in Record /\ stdin \in Seq(Requests) /\ lost \in 0..MaxLost
  BY Types DEF Inv, PostRequest
<1>1. \E pc \in {"poll", "over"} : relay' = [relay EXCEPT ![g] = [relay[g] EXCEPT !.pc = pc]]
  BY DEF PostRequest, Answers
<1>2. PICK pc \in {"poll", "over"} : relay' = [relay EXCEPT ![g] = [relay[g] EXCEPT !.pc = pc]]
  BY <1>1
<1>3. [relay[g] EXCEPT !.pc = pc] \in Relay /\ [relay[g] EXCEPT !.pc = pc].pc = pc
  BY <1>0 DEF Relay
<1>4. relay'[g] = [relay[g] EXCEPT !.pc = pc]
  BY <1>0, <1>2
<1>5. ThreadMoves(g)
  BY <1>0, <1>2, <1>3, <1>4 DEF ThreadMoves, Posted
<1>6. lost' \in 0..MaxLost
  BY <1>0, RelayAssumption DEF PostRequest, Answers
<1>7. CASE UNCHANGED <<row, shown, asked>>
  BY <1>0, <1>5, <1>6, <1>7, ThreadInv
<1>8. CASE /\ row' = [row EXCEPT !.pending = TRUE, !.response = 0]
           /\ shown' = shown \union {g} /\ asked' = g
  <2>1. row' \in Row /\ row'.response = 0
    <3>1. 0 \in 0..MaxRequests
      BY RelayAssumption
    <3>2. [row EXCEPT !.pending = TRUE, !.response = 0] \in Row
          /\ [row EXCEPT !.pending = TRUE, !.response = 0].response = 0
      <4>1. \A r \in Row, a \in 0..MaxRequests :
              LET set == [r EXCEPT !.pending = TRUE, !.response = a] IN
              set \in Row /\ set.response = a
        BY DEF Row
      <4> QED
        BY <4>1, <1>0, <3>1
    <3> QED
      BY <1>8, <3>2
  <2>2. g \in 0..MaxRequests
    BY DEF Requests
  <2>3. HandoffTypeOK'
    BY <1>0, <1>5, <1>6, <1>8, <2>1, <2>2, ThreadKeeps DEF Inv, HandoffTypeOK, Row, Relay
  <2>4. Lined'
    BY <1>0, <1>5, ThreadKeeps, LinedKept
  <2>5. resumed[g] = 0
    BY <1>0 DEF Inv, Opened, Posted
  <2>6. Opened'
    BY <1>0, <1>5, <1>8, <2>5, ThreadKeeps DEF Inv, Opened, ThreadMoves
  <2> QED
    BY <2>3, <2>4, <2>6 DEF Inv
<1> QED
  BY <1>7, <1>8 DEF PostRequest

\* A poll that ends: superseded, timed out, or refused.
LEMMA PollOverInv ==
  ASSUME Inv, NEW g \in Requests, PollEnds(g) \/ PollTimesOut(g) \/ PollRefused(g)
  PROVE  Inv'
<1>0. /\ relay \in [Requests -> Relay] /\ record \in Record /\ stdin \in Seq(Requests)
      /\ lost \in 0..MaxLost
  BY Types DEF Inv
<1>1. /\ relay[g].pc = "poll"
      /\ relay' = [relay EXCEPT ![g] = [relay[g] EXCEPT !.pc = "over"]]
      /\ UNCHANGED <<stdout, stdin, generation, stopped, row, shown, page, asked, resumed, lost>>
  BY DEF PollEnds, PollTimesOut, PollRefused
<1>2. [relay[g] EXCEPT !.pc = "over"] \in Relay /\ [relay[g] EXCEPT !.pc = "over"].pc = "over"
  BY <1>0 DEF Relay
<1>3. ThreadMoves(g)
  BY <1>0, <1>1, <1>2 DEF ThreadMoves, Posted
<1>4. record' = record \/ record' = [record EXCEPT !.pc = "ended"]
  BY DEF PollEnds, PollTimesOut, PollRefused
<1>5. /\ record' \in Record /\ record'.request = record.request
      /\ record.pc = "ended" => record'.pc = "ended"
  BY <1>0, <1>4 DEF Record
<1> QED
  BY <1>0, <1>1, <1>3, <1>5, ThreadInv

\* take_handoff_response: the answer leaves the row, for the thread or for
\* nobody.
LEMMA TakeInv == ASSUME Inv, NEW g \in Requests, PollTakes(g) PROVE Inv'
<1>0. /\ relay \in [Requests -> Relay] /\ relay[g].pc = "poll" /\ row \in Row /\ row.response # 0
      /\ UNCHANGED <<record, stdout, stdin, generation, stopped, shown, page, asked, resumed>>
      /\ lost \in 0..MaxLost /\ row' = [row EXCEPT !.response = 0]
  BY Types DEF Inv, PollTakes
<1>1. /\ row' \in Row /\ row'.pending = row.pending /\ row'.response = 0
      /\ row.response \in Requests /\ row.response \in 0..MaxRequests
  BY <1>0, RelayAssumption DEF Row, Requests
<1>2. lost' \in 0..MaxLost
  BY <1>0, RelayAssumption DEF PollTakes
<1>3. /\ relay' \in [Requests -> Relay]
      /\ \A h \in Requests : relay[h].pc = "none" => relay'[h].pc = "none"
      /\ \A h \in Requests : Posted(h) => Posted(h)'
      /\ \A h \in Requests : relay'[h].pc = "answer" => relay'[h].answer \in Requests
  <2>1. CASE UNCHANGED relay
    BY <1>0, <2>1 DEF Inv, Opened, Posted
  <2>2. CASE relay' = [relay EXCEPT ![g].answer = row.response, ![g].pc = "answer"]
    <3> DEFINE new == [relay[g] EXCEPT !.answer = row.response, !.pc = "answer"]
    <3>1. relay' = [relay EXCEPT ![g] = new]
      BY <2>2
    <3>2. new \in Relay /\ new.pc = "answer" /\ new.answer = row.response
      <4>1. relay[g] \in Relay
        BY <1>0
      <4>2. \A r \in Relay, a \in 0..MaxRequests :
              LET set == [r EXCEPT !.answer = a, !.pc = "answer"] IN
              set \in Relay /\ set.pc = "answer" /\ set.answer = a
        BY DEF Relay
      <4> QED
        BY <4>1, <4>2, <1>1
    <3> HIDE DEF new
    <3>3. relay'[g] = new
      BY <1>0, <3>1
    <3>4. ThreadMoves(g)
      BY <1>0, <1>1, <3>1, <3>2, <3>3 DEF ThreadMoves, Posted
    <3> QED
      BY <3>4, ThreadKeeps
  <2> QED
    BY <2>1, <2>2 DEF PollTakes
<1>4. HandoffTypeOK'
  BY <1>0, <1>1, <1>2, <1>3 DEF Inv, HandoffTypeOK, Row, Relay
<1>5. Lined'
  BY <1>0, <1>3, LinedKept
<1>6. Opened'
  BY <1>0, <1>1, <1>3, OpenedKept
<1> QED
  BY <1>4, <1>5, <1>6 DEF Inv

\* _answer: the thread writes its answer, or drops it, and is over.
LEMMA WriteInv == ASSUME Inv, NEW g \in Requests, WriteAnswer(g) PROVE Inv'
<1>0. /\ relay \in [Requests -> Relay] /\ record \in Record /\ stdin \in Seq(Requests)
      /\ lost \in 0..MaxLost /\ relay[g].pc = "answer"
      /\ relay' = [relay EXCEPT ![g] = [pc |-> "over", answer |-> 0]]
      /\ UNCHANGED <<record, stdout, generation, stopped, row, shown, page, asked, resumed, lost>>
  BY Types DEF Inv, WriteAnswer
<1>1. [pc |-> "over", answer |-> 0] \in Relay
  BY RelayAssumption DEF Relay
<1>2. relay'[g] = [pc |-> "over", answer |-> 0]
  BY <1>0
<1>3. ThreadMoves(g)
  BY <1>0, <1>1, <1>2 DEF ThreadMoves, Posted
<1>4. relay[g].answer \in Requests
  BY <1>0 DEF Inv, Opened
<1>5. stdin' \in Seq(Requests)
  BY <1>0, <1>4 DEF WriteAnswer
<1> QED
  BY <1>0, <1>3, <1>5, ThreadInv

\* stop: the record has ended and every line was offered.
LEMMA StopInv == ASSUME Inv, Stop PROVE Inv'
<1>1. HandoffTypeOK'
  BY DEF Stop, Inv, HandoffTypeOK
<1>2. Lined'
  BY DEF Stop, Inv, Lined
<1>3. Opened'
  BY DEF Stop, Inv, Opened, Posted
<1> QED
  BY <1>1, <1>2, <1>3 DEF Inv

\* A page shows the newest request.
LEMMA ShowInv == ASSUME Inv, NEW p \in Pages, Show(p) PROVE Inv'
<1>1. PICK g \in shown : page' = [page EXCEPT ![p] = g]
  BY DEF Show
<1>2. g \in 0..MaxRequests
  BY <1>1 DEF Inv, HandoffTypeOK, Requests
<1>3. UNCHANGED <<record, stdout, stdin, generation, relay, stopped, row, shown, asked, resumed, lost>>
  BY DEF Show
<1>4. HandoffTypeOK'
  BY <1>1, <1>2, <1>3 DEF Inv, HandoffTypeOK
<1> QED
  BY <1>3, <1>4 DEF Inv, Lined, Opened, Posted

\* answer_handoff closes the request it resumes, so the next answer finds
\* none open.
LEMMA AnswerInv == ASSUME Inv, NEW p \in Pages, AnswerHandoff(p) PROVE Inv'
<1>0. /\ row \in Row /\ page \in [Pages -> 0..MaxRequests] /\ resumed \in [Requests -> Nat]
      /\ page[p] # 0 /\ page' = [page EXCEPT ![p] = 0]
      /\ UNCHANGED <<record, stdout, stdin, generation, relay, stopped, shown, asked, lost>>
  BY Types DEF Inv, AnswerHandoff
<1>1. page' \in [Pages -> 0..MaxRequests]
  BY <1>0, RelayAssumption
<1>2. Lined'
  BY <1>0, LinedKept
<1>3. CASE UNCHANGED <<row, resumed>>
  BY <1>0, <1>1, <1>2, <1>3 DEF Inv, HandoffTypeOK, Opened, Posted
<1>4. CASE /\ row.pending /\ row' = [row EXCEPT !.pending = FALSE, !.response = page[p]]
           /\ resumed' = [resumed EXCEPT ![asked] = @ + 1]
  <2>1. row' \in Row /\ ~row'.pending
    BY <1>0, <1>4 DEF Row
  <2>2. asked \in Requests /\ Posted(asked) /\ resumed[asked] = 0
    BY <1>4 DEF Inv, Opened
  <2>3. /\ resumed' \in [Requests -> Nat] /\ resumed'[asked] = 1
        /\ \A g \in Requests \ {asked} : resumed'[g] = resumed[g]
    BY <1>0, <1>4, <2>2
  <2>4. HandoffTypeOK'
    BY <1>0, <1>1, <2>1, <2>3 DEF Inv, HandoffTypeOK, Row
  <2>5. Opened'
    BY <1>0, <2>1, <2>2, <2>3 DEF Inv, Opened, Posted
  <2> QED
    BY <1>2, <2>4, <2>5 DEF Inv
<1> QED
  BY <1>3, <1>4 DEF AnswerHandoff

\* A cancel, or a lost lease, which forgets the handoff.
LEMMA RowInv == ASSUME Inv, CancelJob \/ LoseLease PROVE Inv'
<1>0. /\ row \in Row
      /\ UNCHANGED <<record, stdout, stdin, generation, relay, stopped, shown, page, asked, resumed, lost>>
  BY Types DEF Inv, CancelJob, LoseLease
<1>1. row' \in Row /\ (row'.pending => row.pending /\ row'.response = row.response)
  <2>1. CASE CancelJob
    BY <1>0, <2>1 DEF CancelJob, Row
  <2>2. CASE LoseLease
    <3>1. 0 \in 0..MaxRequests
      BY RelayAssumption
    <3>2. [leased |-> FALSE, cancel |-> FALSE, pending |-> FALSE, response |-> 0] \in Row
      BY <3>1 DEF Row
    <3> QED
      BY <2>2, <3>2 DEF LoseLease
  <2> QED
    BY <2>1, <2>2
<1>2. HandoffTypeOK'
  BY <1>0, <1>1 DEF Inv, HandoffTypeOK, Row
<1>3. Lined'
  BY <1>0, LinedKept
<1>4. Opened'
  BY <1>0, <1>1 DEF Inv, Opened, Posted
<1> QED
  BY <1>2, <1>3, <1>4 DEF Inv

\* Every step keeps the invariant.
LEMMA NextInv == Inv /\ [HandoffNext]_handoffVars => Inv'
<1> SUFFICES ASSUME Inv, [HandoffNext]_handoffVars PROVE Inv'
  OBVIOUS
<1>1. CASE UNCHANGED handoffVars
  BY <1>1 DEF handoffVars, Inv, HandoffTypeOK, Lined, Opened, Posted
<1>2. ASSUME NEW g \in Requests, RelayStep(g) \/ PollTimesOut(g) PROVE Inv'
  BY <1>2, PostInv, PollOverInv, TakeInv, WriteInv DEF RelayStep
<1>3. ASSUME NEW p \in Pages, Show(p) \/ AnswerHandoff(p) PROVE Inv'
  BY <1>3, ShowInv, AnswerInv
<1> QED
  BY <1>1, <1>2, <1>3, AskInv, RecordInv, OfferInv, StopInv, RowInv DEF HandoffNext

----------------------------------------------------------------------------
\* The types, the order of the request lines and the open request.
THEOREM RelayInvariant == HandoffSpec => []Inv
  BY InitInv, NextInv, PTL DEF HandoffSpec

\* One request, one answer: of all the pages that show a request, at most one
\* is told that its answer resumed the record (answer_handoff's conditional
\* UPDATE, against retried posts and reopened requests).
THEOREM AnsweredOnceHolds == HandoffSpec => []AnsweredOnce
<1>1. Inv => AnsweredOnce
  <2>1. Inv => HandoffTypeOK /\ Opened /\ resumed \in [Requests -> Nat]
    BY Types DEF Inv
  <2> QED
    BY <2>1 DEF Opened, AnsweredOnce, ResumedOnce
<1> QED
  BY <1>1, RelayInvariant, PTL
=============================================================================
