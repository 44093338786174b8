---------------------------- MODULE ServerProofs -----------------------------
(***************************************************************************)
(* Theorems about two parts of serve.                                      *)
(* Dispatch: the concurrency caps hold however many start requests race,   *)
(* no id is handed out twice across restarts, and a cancel answered true   *)
(* reaches the job's row.                                                  *)
(* JobProcess: the cancel is delivered once, misses no child, asks the     *)
(* leader of a cooperative run before its group, and leaves no driver      *)
(* behind, for any number of threads that ask for it.                      *)
(***************************************************************************)
EXTENDS Dispatch, JobProcess, FiniteSetTheorems, TLAPS

----------------------------------------------------------------------------
(* Dispatch: the inductive invariants *)

\* Every id in use is one the counter has passed.
IdsPassed == \A j \in Jobs : status[j] # "absent" \/ registry[j].registered => j <= seq

StartsPassed ==
  \A s \in Starts :
    /\ start[s].pc \in {"insert", "check", "carry", "close"} => start[s].id # None
    /\ start[s].id # None => start[s].id <= seq

OneStartPerId == \A s, u \in Starts : start[s].id = start[u].id /\ start[s].id # None => s = u

\* A cancel that has met its job, in memory or in the table.
Met(c) ==
  \/ cancel[c].known \/ cancel[c].in_process \/ cancel[c].answer = TRUE
  \/ cancel[c].pc \in {"flag", "reread", "row", "mark", "close"}

CancelsPassed ==
  \A c \in Cancels : /\ cancel[c].pc # "idle" => cancel[c].id # None
                     /\ Met(c) => cancel[c].id # None /\ cancel[c].id <= seq

Fresh == IdsPassed /\ StartsPassed /\ OneStartPerId /\ CancelsPassed /\ IdsAreFresh

\* Request s inserts j's row and has yet to look at the job.
Looks(s, j) == start[s].id = j /\ start[s].pc \in {"insert", "check", "carry"}
Looking(j) == \E s \in Starts : Looks(s, j)

\* The row is over, or flagged for its worker.
Stopped(j) == status[j] \in Terminal \/ (status[j] = "leased" /\ cancel_requested[j])

\* What a cancel request knows at each of its steps.
Knows(c) ==
  LET j == cancel[c].id IN
  /\ cancel[c].pc = "reread" \/ cancel[c].in_process => registry[j].cancelled
  /\ cancel[c].pc \in {"row", "mark", "close"} => status[j] # "absent"
  /\ cancel[c].pc \in {"mark", "close"} => Stopped(j)
  /\ cancel[c].answer = TRUE =>
       \/ Stopped(j)
       \/ registry[j].cancelled /\ Looking(j)
       \/ status[j] = "absent" /\ ~Looking(j)

Reaches == \A c \in Cancels : Knows(c)

\* The caps as the registry counts them.
Counted ==
  /\ IsFiniteSet(Running)
  /\ MaxConcurrent > 0 => Cardinality(Running) <= MaxConcurrent
  /\ MaxPerOrg > 0 => \A org \in Orgs : Cardinality(OfOrg(org)) <= MaxPerOrg
----------------------------------------------------------------------------
(* Type correctness *)

TableTypeOK ==
  /\ status \in [Jobs -> {"absent", "queued", "leased"} \union Terminal]
  /\ attempts \in [Jobs -> Nat] /\ leases \in [Jobs -> Nat]
  /\ cancel_requested \in [Jobs -> BOOLEAN]

\* What one step of the table does to the rows.
RowMoves(j) ==
  /\ TableTypeOK'
  /\ \A i \in Jobs \ {j} : status'[i] = status[i] /\ cancel_requested'[i] = cancel_requested[i]
  /\ status[j] \notin Terminal /\ status'[j] # "absent"
  /\ Stopped(j) => Stopped(j)'

\* Every operation on one job's row moves that row only, and stops nothing
\* from being over or flagged.
LEMMA TableStep ==
  ASSUME TypeOK, NEW j \in Jobs, Table!JobNext(j)
  PROVE  RowMoves(j)
<1> TableTypeOK
  BY DEF TypeOK, TableTypeOK
<1> USE DEF RowMoves, TableTypeOK, Stopped, Terminal, Table!Moves
<1>1. CASE Table!Enqueue(j)
  BY <1>1 DEF Table!Enqueue
<1>2. CASE Table!Lease(j)
  BY <1>2 DEF Table!Lease
<1>3. CASE Table!Lose(j)
  BY <1>3 DEF Table!Lose, Table!AfterLoss
<1>4. CASE Table!Finish(j)
  BY <1>4 DEF Table!Finish
<1>5. CASE Table!CancelQueued(j)
  BY <1>5 DEF Table!CancelQueued
<1>6. CASE Table!FlagLeased(j)
  BY <1>6 DEF Table!FlagLeased
<1> QED
  BY <1>1, <1>2, <1>3, <1>4, <1>5, <1>6 DEF Table!JobNext

\* A cancel of a row leaves it over or flagged.
LEMMA CancelRowMoves ==
  ASSUME TypeOK, NEW j \in Jobs, NEW moved \in BOOLEAN, CancelRow(j, moved)
  PROVE  /\ RowMoves(j) \/ (status[j] \in Terminal /\ UNCHANGED table)
         /\ Stopped(j)'
         /\ status[j] # "absent"
<1> USE DEF TypeOK, Terminal, Stopped, Table!Moves
<1>1. CASE Table!CancelQueued(j)
  BY <1>1, TableStep DEF Table!JobNext, Table!CancelQueued
<1>2. CASE Table!FlagLeased(j)
  BY <1>2, TableStep DEF Table!JobNext, Table!FlagLeased
<1>3. CASE status[j] \in Terminal /\ UNCHANGED table
  BY <1>3 DEF table
<1> QED
  BY <1>1, <1>2, <1>3 DEF CancelRow

\* The workers only move rows that exist.
LEMMA WorkersMove ==
  ASSUME TypeOK, WorkersStep
  PROVE  \E j \in Jobs : RowMoves(j) /\ status[j] # "absent"
<1>1. PICK j \in Jobs : Table!Lease(j) \/ Table!Lose(j) \/ Table!Finish(j)
  BY DEF WorkersStep
<1>2. status[j] # "absent"
  BY <1>1 DEF Table!Lease, Table!Lose, Table!Finish, Table!Moves
<1> QED
  BY <1>1, <1>2, TableStep DEF Table!JobNext

\* All four hold before the first request.
LEMMA InitHolds == Init => TypeOK /\ Fresh /\ Reaches /\ Counted
<1> SUFFICES ASSUME Init PROVE TypeOK /\ Fresh /\ Reaches /\ Counted
  OBVIOUS
<1> USE DispatchAssumption
<1>1. TypeOK
  <2>1. NoEntry \in Entry /\ NoStart \in Start /\ NoCancel \in Cancel
    BY DEF NoEntry, Entry, NoStart, Start, NoCancel, Cancel
  <2> QED
    BY <2>1 DEF Init, Table!Init, TypeOK, NoEntry
<1>2. Fresh
  BY DEF Init, Table!Init, Fresh, IdsPassed, StartsPassed, OneStartPerId, CancelsPassed, Met,
       IdsAreFresh, NoEntry, NoStart, NoCancel
<1>3. Reaches
  BY DEF Init, Reaches, Knows, NoCancel
<1>4. Counted
  <2>1. Running = {} /\ \A org \in Orgs : OfOrg(org) = {}
    BY DEF Init, NoEntry, Running, OfOrg
  <2> QED
    BY <2>1, FS_EmptySet DEF Counted
<1> QED
  BY <1>1, <1>2, <1>3, <1>4

\* What the requests write into their locals keeps them in their type.
LEMMA StartUpdates ==
  /\ NoStart \in Start
  /\ \A r \in Start : /\ [r EXCEPT !.pc = "check"] \in Start
                      /\ [r EXCEPT !.pc = "carry"] \in Start
                      /\ [r EXCEPT !.pc = "close"] \in Start
  BY DEF NoStart, Start

\* The same for a cancel request.
LEMMA CancelUpdates ==
  ASSUME NEW r \in Cancel
  PROVE  /\ \A pc \in {"flag", "row", "close"} : [r EXCEPT !.pc = pc] \in Cancel
         /\ [r EXCEPT !.pc = "reread", !.in_process = TRUE] \in Cancel
         /\ \A moved \in BOOLEAN : [r EXCEPT !.pc = "mark", !.moved = moved] \in Cancel
         /\ [r EXCEPT !.pc = "close", !.moved = TRUE] \in Cancel
         /\ \A answer \in BOOLEAN \union {None} :
              [r EXCEPT !.pc = "answered", !.answer = answer] \in Cancel
  BY DEF Cancel

\* A step that writes one start request's locals, or one cancel's.
LEMMA StartOnly ==
  ASSUME TypeOK, NEW s \in Starts, NEW r \in Start, start' = [start EXCEPT ![s] = r],
         UNCHANGED <<table, registry, seq, cancel, restarts>>, closed' \subseteq Jobs
  PROVE  TypeOK'
  BY DEF TypeOK, table

\* The same for one cancel request's locals.
LEMMA CancelOnly ==
  ASSUME TypeOK, NEW c \in Cancels, NEW r \in Cancel, cancel' = [cancel EXCEPT ![c] = r],
         UNCHANGED <<table, registry, seq, start, restarts>>, closed' \subseteq Jobs
  PROVE  TypeOK'
  BY DEF TypeOK, table

\* One step per action keeps the types.
LEMMA TypeNext == TypeOK /\ Fresh /\ [Next]_vars => TypeOK'
<1> SUFFICES ASSUME TypeOK, Fresh, [Next]_vars PROVE TypeOK'
  OBVIOUS
<1> USE DispatchAssumption
<1>start. ASSUME NEW s \in Starts PROVE start[s] \in Start
  BY DEF TypeOK
<1>cancel. ASSUME NEW c \in Cancels PROVE cancel[c] \in Cancel
  BY DEF TypeOK
<1>read. ASSUME NEW s \in Starts, NEW org \in Orgs, ReadLive(s, org) PROVE TypeOK'
  <2>1. [NoStart EXCEPT !.pc = "probe", !.org = org, !.live = Running] \in Start
    BY DEF NoStart, Start, Running
  <2> QED
    BY <1>read, <2>1, StartOnly DEF ReadLive, TypeOK
<1>release. ASSUME NEW s \in Starts, ReleaseFinished(s) PROVE TypeOK'
  <2>1. start' \in [Starts -> Start]
    <3>1. [start[s] EXCEPT !.pc = "count", !.live = {}] \in Start
      BY <1>start DEF Start
    <3> QED
      BY <1>release, <3>1 DEF ReleaseFinished, TypeOK
  <2>2. /\ registry' \in [Jobs -> Entry]
        /\ \A j \in Jobs : registry'[j].released => registry[j].released \/ status[j] \in Terminal
    <3>1. \A j \in Jobs : [registry[j] EXCEPT !.released = TRUE] \in Entry /\ registry[j] \in Entry
      BY DEF TypeOK, Entry
    <3> QED
      BY <1>release, <3>1 DEF ReleaseFinished, FinishedIds
  <2> QED
    BY <1>release, <2>1, <2>2 DEF ReleaseFinished, TypeOK, table
<1>register. ASSUME NEW s \in Starts, TryRegister(s) PROVE TypeOK'
  <2>1. start' \in [Starts -> Start]
    <3>1. [start[s] EXCEPT !.pc = "insert", !.id = seq + 1] \in Start
      BY <1>start, <1>register DEF TryRegister, Start
    <3> QED
      BY <1>register, <3>1 DEF TryRegister, TypeOK
  <2>2. [NoEntry EXCEPT !.registered = TRUE, !.org = start[s].org] \in Entry
    BY <1>start DEF NoEntry, Entry, Start
  <2>3. ~[NoEntry EXCEPT !.registered = TRUE, !.org = start[s].org].released
    BY DEF NoEntry
  <2> QED
    BY <1>register, <2>1, <2>2, <2>3 DEF TryRegister, TypeOK, table
<1>over. ASSUME NEW s \in Starts, Capped(s) \/ InsertRaises(s) \/ CloseCarried(s) PROVE TypeOK'
  <2>1. start' = [start EXCEPT ![s] = NoStart] /\ UNCHANGED <<table, registry, seq, cancel, restarts>>
    BY <1>over DEF Capped, InsertRaises, CloseCarried
  <2>2. closed' \subseteq Jobs
    <3>1. CASE CloseCarried(s)
      <4>1. start[s].id \in Jobs
        BY <3>1, <1>start DEF CloseCarried, Fresh, StartsPassed, Start
      <4> QED
        BY <3>1, <4>1 DEF CloseCarried, TypeOK
    <3> QED
      BY <1>over, <3>1 DEF Capped, InsertRaises, TypeOK
  <2> QED
    BY <2>1, <2>2, StartUpdates, StartOnly
<1>check. ASSUME NEW s \in Starts, CheckCancelled(s) PROVE TypeOK'
  <2> DEFINE r == IF registry[start[s].id].cancelled THEN [start[s] EXCEPT !.pc = "carry"] ELSE NoStart
  <2>1. r \in Start
    BY <1>start, StartUpdates
  <2>2. start' = [start EXCEPT ![s] = r]
    BY <1>check DEF CheckCancelled
  <2> HIDE DEF r
  <2> QED
    BY <1>check, <2>1, <2>2, StartOnly DEF CheckCancelled, TypeOK
<1>insert. ASSUME NEW s \in Starts, InsertRow(s) PROVE TypeOK'
  <2>1. PICK j \in Jobs : j = start[s].id
    BY <1>insert, <1>start DEF InsertRow, Fresh, StartsPassed, Start
  <2>3. RowMoves(j)
    BY <1>insert, <2>1, TableStep DEF InsertRow, Table!JobNext
  <2>2. start' \in [Starts -> Start]
    <3>1. [start[s] EXCEPT !.pc = "check"] \in Start
      BY <1>start, StartUpdates
    <3> QED
      BY <1>insert, <3>1 DEF InsertRow, TypeOK
  <2> QED
    BY <1>insert, <2>2, <2>3 DEF InsertRow, RowMoves, TableTypeOK, TypeOK
<1>carry. ASSUME NEW s \in Starts, CarryCancel(s) PROVE TypeOK'
  <2>1. PICK j \in Jobs : j = start[s].id
    BY <1>carry, <1>start DEF CarryCancel, Fresh, StartsPassed, Start
  <2>2. RowMoves(j) \/ UNCHANGED table
    BY <1>carry, <2>1, CancelRowMoves DEF CarryCancel
  <2>3. start' \in [Starts -> Start]
    <3>1. [start[s] EXCEPT !.pc = "close"] \in Start /\ NoStart \in Start
      BY <1>start, StartUpdates
    <3>2. \/ start' = [start EXCEPT ![s] = [start[s] EXCEPT !.pc = "close"]]
          \/ start' = [start EXCEPT ![s] = NoStart]
      BY <1>carry DEF CarryCancel
    <3> QED
      BY <3>1, <3>2 DEF TypeOK
  <2> QED
    BY <1>carry, <2>1, <2>2, <2>3 DEF CarryCancel, RowMoves, TableTypeOK, TypeOK, table
<1>look. ASSUME NEW c \in Cancels, NEW j \in Jobs, LookInMemory(c, j) PROVE TypeOK'
  <2>1. [NoCancel EXCEPT !.pc = "look", !.id = j, !.known = registry[j].registered] \in Cancel
    BY DEF NoCancel, Cancel, TypeOK, Entry
  <2> QED
    BY <1>look, <2>1, CancelOnly DEF LookInMemory, TypeOK
<1>row. ASSUME NEW c \in Cancels, LookForRow(c) \/ RereadRow(c) PROVE TypeOK'
  <2>1. \E r \in Cancel : cancel' = [cancel EXCEPT ![c] = r]
    BY <1>row, <1>cancel, CancelUpdates DEF LookForRow, RereadRow, Answered
  <2> QED
    BY <1>row, <2>1, CancelOnly DEF LookForRow, RereadRow, TypeOK
<1>mark. ASSUME NEW c \in Cancels, FlagInMemory(c) \/ MarkInMemory(c) PROVE TypeOK'
  <2>1. cancel' \in [Cancels -> Cancel]
    <3>1. CASE FlagInMemory(c)
      <4>1. cancel' = [cancel EXCEPT ![c] = [cancel[c] EXCEPT !.pc = "reread", !.in_process = TRUE]]
        BY <3>1 DEF FlagInMemory, TypeOK
      <4> QED
        BY <4>1, <1>cancel, CancelUpdates DEF TypeOK
    <3>2. CASE MarkInMemory(c)
      <4>1. \/ cancel' = [cancel EXCEPT ![c] = [cancel[c] EXCEPT !.pc = "close"]]
            \/ cancel' = [cancel EXCEPT ![c] = Answered(c, TRUE)]
        BY <3>2 DEF MarkInMemory
      <4>2. Answered(c, TRUE) \in Cancel /\ [cancel[c] EXCEPT !.pc = "close"] \in Cancel
        BY <1>cancel, CancelUpdates DEF Answered
      <4> QED
        BY <4>1, <4>2 DEF TypeOK
    <3> QED
      BY <1>mark, <3>1, <3>2
  <2>2. /\ registry' \in [Jobs -> Entry]
        /\ \A j \in Jobs : registry'[j].released = registry[j].released
    <3>0. cancel[c].id \in Jobs
      BY <1>mark, <1>cancel DEF FlagInMemory, MarkInMemory, Fresh, CancelsPassed, Cancel
    <3>1. \A j \in Jobs : /\ [registry[j] EXCEPT !.cancelled = TRUE] \in Entry
                          /\ [registry[j] EXCEPT !.cancelled = TRUE].released = registry[j].released
      BY DEF TypeOK, Entry
    <3>2. registry' = [registry EXCEPT ![cancel[c].id] = [registry[cancel[c].id] EXCEPT !.cancelled = TRUE]]
      BY <1>mark, <3>0 DEF FlagInMemory, MarkInMemory, TypeOK
    <3> QED
      BY <3>0, <3>1, <3>2 DEF TypeOK
  <2> QED
    BY <1>mark, <2>1, <2>2 DEF FlagInMemory, MarkInMemory, TypeOK, table
<1>table. ASSUME NEW c \in Cancels, CancelInTable(c) PROVE TypeOK'
  <2>1. PICK j \in Jobs : j = cancel[c].id
    BY <1>table, <1>cancel DEF CancelInTable, Fresh, CancelsPassed, Cancel
  <2>2. RowMoves(j) \/ UNCHANGED table
    BY <1>table, <2>1, CancelRowMoves DEF CancelInTable
  <2>3. cancel' \in [Cancels -> Cancel]
    <3>1. PICK moved \in BOOLEAN :
            \/ cancel' = [cancel EXCEPT ![c] = Answered(c, cancel[c].in_process)]
            \/ cancel' = [cancel EXCEPT ![c] = [cancel[c] EXCEPT !.pc = "mark", !.moved = moved]]
            \/ cancel' = [cancel EXCEPT ![c] = [cancel[c] EXCEPT !.pc = "close", !.moved = TRUE]]
            \/ cancel' = [cancel EXCEPT ![c] = Answered(c, TRUE)]
      BY <1>table, <2>1 DEF CancelInTable
    <3>2. /\ Answered(c, cancel[c].in_process) \in Cancel /\ Answered(c, TRUE) \in Cancel
          /\ [cancel[c] EXCEPT !.pc = "mark", !.moved = moved] \in Cancel
          /\ [cancel[c] EXCEPT !.pc = "close", !.moved = TRUE] \in Cancel
      <4>1. cancel[c].in_process \in BOOLEAN
        BY <1>cancel DEF Cancel
      <4> QED
        BY <4>1, <1>cancel, CancelUpdates DEF Answered
    <3> QED
      BY <3>1, <3>2 DEF TypeOK
  <2> QED
    BY <1>table, <2>1, <2>2, <2>3 DEF CancelInTable, RowMoves, TableTypeOK, TypeOK, table
<1>close. ASSUME NEW c \in Cancels, CloseCancelled(c) PROVE TypeOK'
  <2>1. \E r \in Cancel : cancel' = [cancel EXCEPT ![c] = r]
    BY <1>close, <1>cancel, CancelUpdates DEF CloseCancelled, Answered
  <2>2. closed' \subseteq Jobs
    BY <1>close, <1>cancel DEF CloseCancelled, Fresh, CancelsPassed, TypeOK, Cancel
  <2> QED
    BY <1>close, <2>1, <2>2, CancelOnly DEF CloseCancelled
<1>workers. CASE WorkersStep
  <2>1. PICK j \in Jobs : RowMoves(j)
    BY <1>workers, TableStep DEF WorkersStep, Table!JobNext
  <2> QED
    BY <1>workers, <2>1 DEF WorkersStep, RowMoves, TableTypeOK, TypeOK
<1>restart. CASE Restart
  <2>1. NoEntry \in Entry /\ NoStart \in Start /\ NoCancel \in Cancel /\ ~NoEntry.released
    BY DEF NoEntry, Entry, NoStart, Start, NoCancel, Cancel
  <2>2. seq' \in Nat /\ restarts' \in 0..MaxRestarts
    BY <1>restart DEF Restart, SeedSeq, TypeOK
  <2>3. UNCHANGED <<status, attempts, leases, cancel_requested, closed>>
    BY <1>restart DEF Restart, table
  <2>4. /\ registry' \in [Jobs -> Entry] /\ \A k \in Jobs : ~registry'[k].released
        /\ start' \in [Starts -> Start] /\ cancel' \in [Cancels -> Cancel]
    BY <1>restart, <2>1 DEF Restart
  <2> QED
    BY <2>2, <2>3, <2>4 DEF TypeOK
<1>stutter. CASE UNCHANGED vars
  BY <1>stutter DEF vars, TypeOK, table
<1> QED
  BY <1>read, <1>release, <1>register, <1>over, <1>check, <1>insert, <1>carry, <1>look, <1>row,
     <1>mark, <1>table, <1>close, <1>workers, <1>restart, <1>stutter
     DEF Next, StartStep, CancelStep

----------------------------------------------------------------------------
(* No id is handed out twice *)

Busy == {"insert", "check", "carry", "close"}

\* A step that hands out no id and sends no start request back to its INSERT.
StartKeeps(s) ==
  \/ /\ start'[s].id = start[s].id
     /\ start'[s].pc \in Busy => start[s].pc \in Busy
     /\ start'[s].pc = "insert" => start[s].pc = "insert"
  \/ start'[s].id = None /\ start'[s].pc \notin Busy

CancelKeeps(c) ==
  /\ cancel'[c].pc # "idle" => cancel'[c].id # None
  /\ Met(c)' => cancel'[c].id # None /\ cancel'[c].id <= seq

\* Such steps keep every id in use below the counter.
LEMMA FreshFrame ==
  ASSUME TypeOK, Fresh, seq' = seq,
         \A j \in Jobs : registry'[j].registered => registry[j].registered,
         \A s \in Starts : StartKeeps(s),
         \A c \in Cancels : CancelKeeps(c),
         \A j \in Jobs : status'[j] # "absent" =>
           \/ status[j] # "absent"
           \/ j <= seq /\ \A s \in Starts : start'[s].pc = "insert" => start'[s].id # j
  PROVE  Fresh'
<1>1. IdsPassed'
  BY DEF Fresh, IdsPassed
<1>2. StartsPassed'
  BY DEF Fresh, StartsPassed, StartKeeps, Busy
<1>3. OneStartPerId'
  BY DEF Fresh, OneStartPerId, StartKeeps
<1>4. CancelsPassed'
  BY DEF CancelsPassed, CancelKeeps
<1>5. IdsAreFresh'
  <2> SUFFICES ASSUME NEW s \in Starts, start'[s].pc = "insert" PROVE status'[start'[s].id] = "absent"
    BY DEF IdsAreFresh
  <2>1. start'[s].id = start[s].id /\ start[s].pc = "insert"
    BY DEF StartKeeps, Busy
  <2>2. status[start[s].id] = "absent" /\ start[s].id \in Jobs
    BY <2>1 DEF Fresh, IdsAreFresh, StartsPassed, TypeOK, Start
  <2> QED
    BY <2>1, <2>2
<1> QED
  BY <1>1, <1>2, <1>3, <1>4, <1>5 DEF Fresh

\* A step that leaves the cancel requests alone.
LEMMA CancelsKept ==
  ASSUME Fresh, UNCHANGED cancel
  PROVE  \A c \in Cancels : CancelKeeps(c)
  BY DEF Fresh, CancelsPassed, CancelKeeps, Met

\* A start request of its own that does not register.
LEMMA StartStepKeeps ==
  ASSUME TypeOK, Fresh, NEW s \in Starts,
         StartStep(s) \/ \E org \in Orgs : ReadLive(s, org), ~TryRegister(s)
  PROVE  \A u \in Starts : StartKeeps(u)
<1> SUFFICES ASSUME NEW u \in Starts PROVE StartKeeps(u)
  OBVIOUS
<1> USE DEF StartKeeps, Busy
<1>1. CASE u # s
  BY <1>1 DEF StartStep, ReadLive, ReleaseFinished, Capped, InsertRow, InsertRaises, CheckCancelled,
              CarryCancel, CloseCarried, TypeOK
<1>2. CASE u = s
  <2>1. start[s] \in Start /\ NoStart.id = None /\ NoStart.pc = "idle"
    BY DEF TypeOK, NoStart
  <2>2. \/ start'[s] = NoStart
        \/ \E org \in Orgs : start'[s] = [NoStart EXCEPT !.pc = "probe", !.org = org, !.live = Running]
        \/ start'[s] = [start[s] EXCEPT !.pc = "count", !.live = {}]
        \/ start[s].pc \in Busy /\ \E pc \in {"check", "carry", "close"} :
              start'[s] = [start[s] EXCEPT !.pc = pc]
    BY DEF StartStep, ReadLive, ReleaseFinished, Capped, InsertRow, InsertRaises, CheckCancelled,
           CarryCancel, CloseCarried, TypeOK
  <2>3. CASE start'[s] = NoStart
    BY <1>2, <2>1, <2>3
  <2>4. CASE \E org \in Orgs : start'[s] = [NoStart EXCEPT !.pc = "probe", !.org = org, !.live = Running]
    <3>1. start'[s].id = None /\ start'[s].pc = "probe"
      BY <2>4 DEF NoStart
    <3> QED
      BY <1>2, <3>1
  <2>5. CASE start'[s] = [start[s] EXCEPT !.pc = "count", !.live = {}]
    <3>1. start'[s].id = start[s].id /\ start'[s].pc = "count"
      BY <2>1, <2>5 DEF Start
    <3> QED
      BY <1>2, <3>1
  <2>6. ASSUME start[s].pc \in Busy, NEW pc \in {"check", "carry", "close"},
               start'[s] = [start[s] EXCEPT !.pc = pc]
        PROVE  StartKeeps(u)
    <3>1. start'[s].id = start[s].id /\ start'[s].pc = pc
      BY <2>1, <2>6 DEF Start
    <3> QED
      BY <1>2, <2>6, <3>1
  <2> QED
    BY <2>2, <2>3, <2>4, <2>5, <2>6
<1> QED
  BY <1>1, <1>2

\* A cancel request of its own.
LEMMA CancelStepKeeps ==
  ASSUME TypeOK, Fresh, NEW c \in Cancels, CancelStep(c) \/ \E j \in Jobs : LookInMemory(c, j)
  PROVE  \A d \in Cancels : CancelKeeps(d)
<1> SUFFICES ASSUME NEW d \in Cancels PROVE CancelKeeps(d)
  OBVIOUS
<1> USE DispatchAssumption
<1>0. cancel[c] \in Cancel
  BY DEF TypeOK
<1>1. CASE d # c
  <2>1. cancel'[d] = cancel[d]
    BY <1>1 DEF CancelStep, LookInMemory, LookForRow, FlagInMemory, RereadRow, CancelInTable,
                MarkInMemory, CloseCancelled, TypeOK
  <2> QED
    BY <2>1 DEF CancelKeeps, Met, Fresh, CancelsPassed
<1>2. CASE d = c /\ \E j \in Jobs : LookInMemory(c, j)
  <2>1. PICK j \in Jobs : cancel' = [cancel EXCEPT ![c] = [NoCancel EXCEPT !.pc = "look", !.id = j,
                                                         !.known = registry[j].registered]]
    BY <1>2 DEF LookInMemory
  <2>2. /\ cancel'[c].pc = "look" /\ cancel'[c].id = j /\ cancel'[c].known = registry[j].registered
        /\ ~cancel'[c].in_process /\ cancel'[c].answer = None
    BY <2>1 DEF TypeOK, NoCancel
  <2> QED
    BY <1>2, <2>2 DEF CancelKeeps, Met, Fresh, IdsPassed
<1>3. CASE d = c /\ CancelStep(c)
  <2>1. cancel'[c].id = cancel[c].id
    <3>1. \/ \E pc \in {"row", "flag", "close"} : cancel'[c] = [cancel[c] EXCEPT !.pc = pc]
          \/ \E yes \in BOOLEAN \union {None} : cancel'[c] = Answered(c, yes)
          \/ cancel'[c] = [cancel[c] EXCEPT !.pc = "reread", !.in_process = TRUE]
          \/ \E moved \in BOOLEAN : cancel'[c] = [cancel[c] EXCEPT !.pc = "mark", !.moved = moved]
          \/ cancel'[c] = [cancel[c] EXCEPT !.pc = "close", !.moved = TRUE]
      <4>1. cancel[c].in_process \in BOOLEAN
        BY <1>0 DEF Cancel
      <4>2. CASE LookForRow(c)
        BY <4>2 DEF LookForRow, TypeOK
      <4>5. CASE RereadRow(c)
        BY <4>5 DEF RereadRow, TypeOK
      <4>3. CASE FlagInMemory(c) \/ MarkInMemory(c) \/ CloseCancelled(c)
        BY <4>3 DEF FlagInMemory, MarkInMemory, CloseCancelled, TypeOK
      <4>4. CASE CancelInTable(c)
        <5>1. PICK moved \in BOOLEAN : cancel' = [cancel EXCEPT ![c] =
                 IF status[cancel[c].id] \in Terminal THEN Answered(c, @.in_process)
                 ELSE IF @.known THEN [@ EXCEPT !.pc = "mark", !.moved = moved]
                 ELSE IF moved THEN [@ EXCEPT !.pc = "close", !.moved = TRUE]
                 ELSE Answered(c, TRUE)]
          BY <4>4 DEF CancelInTable
        <5> QED
          BY <4>1, <5>1 DEF TypeOK
      <4> QED
        BY <1>3, <4>2, <4>3, <4>4, <4>5 DEF CancelStep
    <3>2. ASSUME NEW yes \in BOOLEAN \union {None} PROVE Answered(c, yes).id = cancel[c].id
      BY <1>0 DEF Answered, Cancel
    <3>3. ASSUME NEW pc, NEW moved
          PROVE  /\ [cancel[c] EXCEPT !.pc = pc].id = cancel[c].id
                 /\ [cancel[c] EXCEPT !.pc = pc, !.in_process = TRUE].id = cancel[c].id
                 /\ [cancel[c] EXCEPT !.pc = pc, !.moved = moved].id = cancel[c].id
      BY <1>0 DEF Cancel
    <3>4. ASSUME NEW pc \in {"row", "flag", "close"}, cancel'[c] = [cancel[c] EXCEPT !.pc = pc]
          PROVE  cancel'[c].id = cancel[c].id
      BY <3>3, <3>4
    <3>5. ASSUME NEW moved \in BOOLEAN,
                 cancel'[c] = [cancel[c] EXCEPT !.pc = "mark", !.moved = moved]
          PROVE  cancel'[c].id = cancel[c].id
      BY <3>3, <3>5
    <3>6. CASE cancel'[c] = [cancel[c] EXCEPT !.pc = "close", !.moved = TRUE]
      BY <3>3, <3>6
    <3>7. CASE cancel'[c] = [cancel[c] EXCEPT !.pc = "reread", !.in_process = TRUE]
      BY <3>3, <3>7
    <3>8. ASSUME NEW yes \in BOOLEAN \union {None}, cancel'[c] = Answered(c, yes)
          PROVE  cancel'[c].id = cancel[c].id
      BY <3>2, <3>8
    <3> QED
      BY <3>1, <3>4, <3>5, <3>6, <3>7, <3>8
  <2>2. cancel[c].pc # "idle" /\ cancel[c].id \in Jobs
    BY <1>3, <1>0 DEF CancelStep, LookForRow, FlagInMemory, RereadRow, CancelInTable, MarkInMemory,
                      CloseCancelled, Fresh, CancelsPassed, Cancel
  <2>3. CASE LookForRow(c)
    <3>1. CASE status[cancel[c].id] # "absent"
      BY <1>3, <2>1, <2>2, <3>1 DEF CancelKeeps, Fresh, IdsPassed
    <3>2. CASE status[cancel[c].id] = "absent" /\ cancel[c].known
      BY <1>3, <2>1, <2>2, <3>2 DEF CancelKeeps, Fresh, CancelsPassed, Met
    <3>3. CASE status[cancel[c].id] = "absent" /\ ~cancel[c].known
      <4>1. cancel' = [cancel EXCEPT ![c] = Answered(c, None)]
        BY <2>3, <3>3 DEF LookForRow
      <4>2. Met(c)' => Met(c)
        BY <4>1, <1>0 DEF Met, Answered, TypeOK, Cancel
      <4> QED
        BY <1>3, <2>1, <2>2, <4>2 DEF CancelKeeps, Fresh, CancelsPassed
    <3> QED
      BY <3>1, <3>2, <3>3
  <2>4. CASE ~LookForRow(c)
    <3>1. Met(c)
      BY <1>3, <2>4 DEF CancelStep, FlagInMemory, RereadRow, CancelInTable, MarkInMemory,
                        CloseCancelled, Met
    <3> QED
      BY <1>3, <2>1, <2>2, <3>1 DEF CancelKeeps, Fresh, CancelsPassed
  <2> QED
    BY <2>3, <2>4
<1> QED
  BY <1>1, <1>2, <1>3

\* A request's step on a row leaves no row behind it; only an INSERT makes one.
LEMMA RowsStayUsed ==
  ASSUME TypeOK, Fresh, NEW j \in Jobs, RowMoves(j) \/ UNCHANGED table,
         status[j] # "absent"
  PROVE  \A i \in Jobs : status'[i] # "absent" => status[i] # "absent"
  BY DEF RowMoves, table

\* Only TryRegister takes an id, and it takes the next one.
LEMMA FreshNext == TypeOK /\ Fresh /\ [Next]_vars => Fresh'
<1> SUFFICES ASSUME TypeOK, Fresh, [Next]_vars PROVE Fresh'
  OBVIOUS
<1> USE DispatchAssumption
<1>ids. /\ \A s \in Starts : start[s] \in Start /\ (start[s].pc \in Busy => start[s].id \in Jobs)
        /\ \A c \in Cancels : cancel[c].pc # "idle" => cancel[c].id \in Jobs
  BY DEF TypeOK, Fresh, StartsPassed, CancelsPassed, Start, Cancel, Busy
<1>register. ASSUME NEW s \in Starts, TryRegister(s) PROVE Fresh'
  <2>1. start'[s].id = seq + 1 /\ start'[s].pc = "insert" /\ seq' = seq + 1 /\ seq \in Nat
    BY <1>register, <1>ids DEF TryRegister, TypeOK, Start
  <2>2. \A u \in Starts \ {s} : start'[u] = start[u]
    BY <1>register DEF TryRegister, TypeOK
  <2>3. /\ UNCHANGED <<cancel, status>> /\ seq + 1 \in Jobs
        /\ \A j \in Jobs \ {seq + 1} : registry'[j] = registry[j]
    BY <1>register DEF TryRegister, TypeOK, table
  <2>4. \A j \in Jobs : j \in Nat
    BY DEF DispatchAssumption
  <2>5. \A u \in Starts : start[u].id \in Jobs \union {None}
    BY <1>ids DEF Start
  <2>6. IdsPassed'
    BY <2>1, <2>3, <2>4 DEF Fresh, IdsPassed
  <2>7. StartsPassed'
    <3> SUFFICES ASSUME NEW u \in Starts
                 PROVE  /\ start'[u].pc \in Busy => start'[u].id # None
                        /\ start'[u].id # None => start'[u].id <= seq + 1
      BY <2>1 DEF StartsPassed, Busy
    <3>1. CASE u = s
      BY <2>1, <2>3, <3>1
    <3>2. CASE u # s
      <4>1. start'[u] = start[u] /\ (start[u].id # None => start[u].id \in Nat /\ start[u].id <= seq)
        BY <2>2, <2>4, <2>5, <3>2 DEF Fresh, StartsPassed
      <4>2. start[u].pc \in Busy => start[u].id # None
        BY DEF Fresh, StartsPassed, Busy
      <4>3. \A n \in Nat : n <= seq => n <= seq + 1
        BY <2>1
      <4> QED
        BY <4>1, <4>2, <4>3
    <3> QED
      BY <3>1, <3>2
  <2>8. OneStartPerId'
    BY <2>1, <2>2, <2>3, <2>4, <2>5 DEF Fresh, StartsPassed, OneStartPerId
  <2>9. CancelsPassed'
    <3> SUFFICES ASSUME NEW c \in Cancels
                 PROVE  /\ cancel[c].pc # "idle" => cancel[c].id # None
                        /\ Met(c) => cancel[c].id # None /\ cancel[c].id <= seq + 1
      BY <2>1, <2>3 DEF CancelsPassed, Met
    <3>1. cancel[c].id \in Jobs \union {None}
      BY DEF TypeOK, Cancel
    <3>2. Met(c) => cancel[c].id \in Nat /\ cancel[c].id <= seq
      BY <2>4, <3>1 DEF Fresh, CancelsPassed
    <3>3. \A n \in Nat : n <= seq => n <= seq + 1
      BY <2>1
    <3> QED
      BY <3>1, <3>2, <3>3 DEF Fresh, CancelsPassed
  <2>10. IdsAreFresh'
    BY <2>1, <2>2, <2>3, <2>4 DEF Fresh, IdsAreFresh, IdsPassed
  <2> QED
    BY <2>6, <2>7, <2>8, <2>9, <2>10 DEF Fresh
<1>start. ASSUME NEW s \in Starts, ~TryRegister(s),
                 StartStep(s) \/ \E org \in Orgs : ReadLive(s, org)
          PROVE  Fresh'
  <2>1. /\ \A u \in Starts : StartKeeps(u)
        /\ \A c \in Cancels : CancelKeeps(c)
        /\ seq' = seq
    <3>1. seq' = seq /\ UNCHANGED cancel
      BY <1>start DEF StartStep, ReadLive, ReleaseFinished, Capped, InsertRow, InsertRaises,
                      CheckCancelled, CarryCancel, CloseCarried
    <3> QED
      BY <1>start, <3>1, StartStepKeeps, CancelsKept
  <2>2. \A j \in Jobs : registry'[j].registered => registry[j].registered
    <3>1. CASE ReleaseFinished(s)
      <4>1. \A j \in Jobs : [registry[j] EXCEPT !.released = TRUE].registered = registry[j].registered
        BY DEF TypeOK, Entry
      <4> QED
        BY <3>1, <4>1 DEF ReleaseFinished
    <3>2. CASE ~ReleaseFinished(s)
      BY <1>start, <3>2 DEF StartStep, ReadLive, Capped, InsertRow, InsertRaises, CheckCancelled,
                            CarryCancel, CloseCarried
    <3> QED
      BY <3>1, <3>2
  <2>3. CASE InsertRow(s)
    <3>0. PICK j \in Jobs : j = start[s].id
      BY <1>ids, <2>3 DEF InsertRow, Busy
    <3>1. RowMoves(j) /\ j <= seq
      BY <2>3, <3>0, TableStep DEF InsertRow, Table!JobNext, Fresh, StartsPassed
    <3>2. \A u \in Starts : start'[u].pc = "insert" => start'[u].id # j
      BY <1>ids, <2>3, <2>1, <3>0 DEF InsertRow, StartKeeps, Fresh, OneStartPerId, StartsPassed, TypeOK, Start, Busy
    <3> QED
      BY <2>1, <2>2, <3>1, <3>2, FreshFrame DEF RowMoves
  <2>4. CASE CarryCancel(s)
    <3>1. PICK j \in Jobs : j = start[s].id
      BY <1>ids, <2>4 DEF CarryCancel, Busy
    <3>2. (RowMoves(j) \/ UNCHANGED table) /\ status[j] # "absent"
      BY <2>4, <3>1, CancelRowMoves DEF CarryCancel
    <3> QED
      BY <2>1, <2>2, <3>1, <3>2, RowsStayUsed, FreshFrame
  <2>5. CASE ~InsertRow(s) /\ ~CarryCancel(s)
    <3>1. status' = status
      BY <1>start, <2>5 DEF StartStep, ReadLive, ReleaseFinished, Capped, InsertRaises,
                            CheckCancelled, CloseCarried, table
    <3> QED
      BY <2>1, <2>2, <3>1, FreshFrame
  <2> QED
    BY <2>3, <2>4, <2>5
<1>cancel. ASSUME NEW c \in Cancels, CancelStep(c) \/ \E j \in Jobs : LookInMemory(c, j)
           PROVE  Fresh'
  <2>1. /\ \A s \in Starts : StartKeeps(s)
        /\ \A d \in Cancels : CancelKeeps(d)
        /\ seq' = seq
    <3>1. seq' = seq /\ UNCHANGED start
      BY <1>cancel DEF CancelStep, LookInMemory, LookForRow, FlagInMemory, RereadRow, CancelInTable,
                       MarkInMemory, CloseCancelled
    <3> QED
      BY <1>cancel, <3>1, CancelStepKeeps DEF StartKeeps
  <2>2. \A j \in Jobs : registry'[j].registered => registry[j].registered
    <3>1. CASE FlagInMemory(c) \/ MarkInMemory(c)
      <4>1. cancel[c].id \in Jobs
        BY <1>ids, <3>1 DEF FlagInMemory, MarkInMemory
      <4>2. /\ \A j \in Jobs \ {cancel[c].id} : registry'[j] = registry[j]
            /\ registry'[cancel[c].id] = [registry[cancel[c].id] EXCEPT !.cancelled = TRUE]
        BY <3>1, <4>1 DEF FlagInMemory, MarkInMemory, TypeOK
      <4>3. registry'[cancel[c].id].registered = registry[cancel[c].id].registered
        BY <4>1, <4>2 DEF TypeOK, Entry
      <4> QED
        BY <4>2, <4>3
    <3>2. CASE ~FlagInMemory(c) /\ ~MarkInMemory(c)
      BY <1>cancel, <3>2 DEF CancelStep, LookInMemory, LookForRow, RereadRow, CancelInTable, CloseCancelled
    <3> QED
      BY <3>1, <3>2
  <2>3. CASE CancelInTable(c)
    <3>1. PICK j \in Jobs : j = cancel[c].id
      BY <1>ids, <2>3 DEF CancelInTable
    <3>2. (RowMoves(j) \/ UNCHANGED table) /\ status[j] # "absent"
      BY <2>3, <3>1, CancelRowMoves DEF CancelInTable
    <3> QED
      BY <2>1, <2>2, <3>1, <3>2, RowsStayUsed, FreshFrame
  <2>4. CASE ~CancelInTable(c)
    <3>1. status' = status
      BY <1>cancel, <2>4 DEF CancelStep, LookInMemory, LookForRow, FlagInMemory, RereadRow,
                             MarkInMemory, CloseCancelled, table
    <3> QED
      BY <2>1, <2>2, <3>1, FreshFrame
  <2> QED
    BY <2>3, <2>4
<1>workers. CASE WorkersStep
  <2>1. PICK j \in Jobs : RowMoves(j) /\ status[j] # "absent"
    BY <1>workers, WorkersMove
  <2>2. UNCHANGED <<registry, seq, start, cancel>>
    BY <1>workers DEF WorkersStep
  <2>3. \A s \in Starts : StartKeeps(s)
    BY <2>2 DEF StartKeeps
  <2> QED
    BY <2>1, <2>2, <2>3, RowsStayUsed, CancelsKept, FreshFrame
<1>restart. CASE Restart
  <2>1. /\ \A s \in Starts : start'[s].id = None /\ start'[s].pc = "idle"
        /\ \A c \in Cancels : /\ cancel'[c].pc = "idle" /\ ~cancel'[c].known
                              /\ ~cancel'[c].in_process /\ cancel'[c].answer = None
        /\ \A j \in Jobs : ~registry'[j].registered
    BY <1>restart DEF Restart, NoStart, NoCancel, NoEntry
  <2>2. status' = status /\ \A j \in Jobs : status[j] # "absent" => j <= seq'
    BY <1>restart DEF Restart, SeedSeq, MaxJobId, table
  <2> QED
    BY <2>1, <2>2 DEF Fresh, IdsPassed, StartsPassed, OneStartPerId, CancelsPassed, Met, IdsAreFresh
<1>stutter. CASE UNCHANGED vars
  BY <1>stutter DEF vars, table, Fresh, IdsPassed, StartsPassed, OneStartPerId, CancelsPassed, Met, IdsAreFresh
<1> QED
  BY <1>register, <1>start, <1>cancel, <1>workers, <1>restart, <1>stutter DEF Next

----------------------------------------------------------------------------
(* A cancel answered true reaches the row *)

\* What no step undoes for a job whose id was handed out.
Keeps(j) ==
  /\ registry[j].cancelled => registry'[j].cancelled
  /\ status[j] # "absent" => status'[j] # "absent"
  /\ Stopped(j) => Stopped(j)'
  /\ registry[j].cancelled /\ Looking(j) =>
       Looking(j)' \/ Stopped(j)' \/ (status'[j] = "absent" /\ ~Looking(j)')
  /\ status[j] = "absent" /\ ~Looking(j) => status'[j] = "absent" /\ ~Looking(j)'

\* What a step on one row leaves of every row.
LEMMA RowMovesKeep ==
  ASSUME TypeOK, NEW i \in Jobs, NEW j \in Jobs, RowMoves(i) \/ UNCHANGED table
  PROVE  /\ Stopped(j) => Stopped(j)'
         /\ j # i => status'[j] = status[j]
         /\ status[j] # "absent" => status'[j] # "absent"
<1>1. CASE UNCHANGED table
  BY <1>1 DEF Stopped, table
<1>2. CASE RowMoves(i) /\ j = i
  BY <1>2 DEF RowMoves
<1>3. CASE RowMoves(i) /\ j # i
  BY <1>3 DEF RowMoves, Stopped
<1> QED
  BY <1>1, <1>2, <1>3

\* Keeps, when a step leaves the start requests alone.
LEMMA StartsStill ==
  ASSUME TypeOK, Fresh, UNCHANGED start, NEW i \in Jobs,
         (RowMoves(i) /\ status[i] # "absent") \/ UNCHANGED table,
         NEW j \in Jobs, registry[j].cancelled => registry'[j].cancelled
  PROVE  Keeps(j)
<1>1. Looking(j)' = Looking(j)
  BY DEF Looking, Looks
<1>2. status[j] = "absent" => status'[j] = "absent"
  BY RowMovesKeep DEF table
<1> QED
  BY <1>1, <1>2, RowMovesKeep DEF Keeps

\* A cancel request that does nothing keeps what it knows.
LEMMA KnowsStill ==
  ASSUME TypeOK, Fresh, NEW c \in Cancels, Knows(c), cancel'[c] = cancel[c],
         \A j \in Jobs : j <= seq => Keeps(j)
  PROVE  Knows(c)'
<1>1. CASE ~Met(c)
  BY <1>1 DEF Knows, Met
<1>2. CASE Met(c)
  <2>1. cancel[c].id \in Jobs /\ cancel[c].id <= seq
    BY <1>2 DEF Fresh, CancelsPassed, TypeOK, Cancel
  <2> QED
    BY <2>1 DEF Knows, Keeps
<1> QED
  BY <1>1, <1>2

\* A start request's step, by what it does to the jobs it looks at.
LEMMA StartKeepsJobs ==
  ASSUME TypeOK, Fresh, NEW s \in Starts,
         StartStep(s) \/ \E org \in Orgs : ReadLive(s, org)
  PROVE  \A j \in Jobs : j <= seq => Keeps(j)
<1> SUFFICES ASSUME NEW j \in Jobs, j <= seq PROVE Keeps(j)
  OBVIOUS
<1> USE DispatchAssumption
<1>1. /\ start[s] \in Start
      /\ start[s].pc \in Busy => start[s].id \in Jobs
      /\ \A u \in Starts \ {s} : Looks(s, j) => ~Looks(u, j)
  BY DEF TypeOK, Fresh, StartsPassed, OneStartPerId, Start, Busy, Looks
<1>2. \A u \in Starts \ {s} : start'[u] = start[u]
  BY DEF StartStep, ReadLive, ReleaseFinished, TryRegister, Capped, InsertRow, InsertRaises,
         CheckCancelled, CarryCancel, CloseCarried, TypeOK
<1>3. \A u \in Starts \ {s} : Looks(u, j)' = Looks(u, j)
  BY <1>2 DEF Looks
<1>still. ASSUME Looks(s, j)' = Looks(s, j) PROVE Looking(j)' = Looking(j)
  BY <1>3, <1>still DEF Looking
<1>read. CASE \E org \in Orgs : ReadLive(s, org)
  <2>1. Looks(s, j)' = Looks(s, j)
    <3>1. start[s].pc = "idle" /\ start'[s].pc = "probe"
      <4>1. PICK org \in Orgs : /\ start[s].pc = "idle"
                                /\ start'[s] = [NoStart EXCEPT !.pc = "probe", !.org = org, !.live = Running]
        BY <1>read DEF ReadLive, TypeOK
      <4> QED
        BY <4>1 DEF NoStart
    <3> QED
      BY <3>1 DEF Looks
  <2> QED
    BY <1>read, <1>still, <2>1 DEF ReadLive, Keeps, Stopped, table
<1>release. CASE ReleaseFinished(s)
  <2>1. start'[s].pc = "count" /\ start[s].pc = "probe"
    BY <1>release, <1>1 DEF ReleaseFinished, TypeOK, Start
  <2>2. Looks(s, j)' = Looks(s, j)
    BY <2>1 DEF Looks
  <2>3. registry'[j].cancelled = registry[j].cancelled
    <3>1. [registry[j] EXCEPT !.released = TRUE].cancelled = registry[j].cancelled
      BY DEF TypeOK, Entry
    <3> QED
      BY <1>release, <3>1 DEF ReleaseFinished
  <2> QED
    BY <1>release, <1>still, <2>2, <2>3 DEF ReleaseFinished, Keeps, Stopped, table
<1>register. CASE TryRegister(s)
  <2>1. start'[s].id = seq + 1 /\ start[s].pc = "count" /\ j # seq + 1
    BY <1>register, <1>1 DEF TryRegister, TypeOK, Start
  <2>2. Looks(s, j)' = Looks(s, j)
    BY <2>1 DEF Looks
  <2>3. registry'[j] = registry[j]
    BY <1>register, <2>1 DEF TryRegister, TypeOK
  <2> QED
    BY <1>register, <1>still, <2>2, <2>3 DEF TryRegister, Keeps, Stopped, table
<1>capped. CASE Capped(s) \/ CloseCarried(s)
  <2>1. Looks(s, j)' = Looks(s, j)
    BY <1>capped DEF Capped, CloseCarried, TypeOK, NoStart, Looks
  <2> QED
    BY <1>capped, <1>still, <2>1 DEF Capped, CloseCarried, Keeps, Stopped, table
<1>insert. CASE InsertRow(s)
  <2>0. PICK i \in Jobs : i = start[s].id
    BY <1>insert, <1>1 DEF InsertRow, Busy
  <2>1. RowMoves(i)
    BY <1>insert, <2>0, TableStep DEF InsertRow, Table!JobNext
  <2>2. /\ start'[s].id = start[s].id /\ start'[s].pc = "check" /\ start[s].pc = "insert"
        /\ registry' = registry
    BY <1>insert, <1>1 DEF InsertRow, TypeOK, Start
  <2>3. Looks(s, j)' = Looks(s, j)
    BY <2>2 DEF Looks
  <2>4. j = i => Looking(j)
    BY <2>0, <2>2 DEF Looking, Looks
  <2> QED
    BY <1>still, <2>1, <2>2, <2>3, <2>4, RowMovesKeep DEF Keeps
<1>raises. CASE InsertRaises(s)
  <2>1. /\ start[s].pc = "insert" /\ start'[s].id = None /\ start'[s].pc = "idle"
        /\ UNCHANGED <<table, registry>>
    BY <1>raises DEF InsertRaises, TypeOK, NoStart
  <2>2. status[start[s].id] = "absent"
    BY <2>1 DEF Fresh, IdsAreFresh
  <2>3. ~Looks(s, j)'
    BY <2>1 DEF Looks
  <2>4. Looking(j)' => Looking(j)
    BY <1>3, <2>3 DEF Looking
  <2>5. Looking(j) /\ ~Looking(j)' => j = start[s].id
    BY <1>3 DEF Looking, Looks
  <2> QED
    BY <2>1, <2>2, <2>4, <2>5 DEF Keeps, Stopped, table
<1>check. CASE CheckCancelled(s)
  <2>1. /\ UNCHANGED <<table, registry>> /\ start[s].pc = "check"
        /\ registry[start[s].id].cancelled => start'[s].id = start[s].id /\ start'[s].pc = "carry"
        /\ ~registry[start[s].id].cancelled => start'[s].pc = "idle"
    BY <1>check, <1>1 DEF CheckCancelled, TypeOK, NoStart, Start
  <2>2. registry[start[s].id].cancelled => Looks(s, j)' = Looks(s, j)
    BY <2>1 DEF Looks
  <2>3. ~registry[start[s].id].cancelled => ~Looks(s, j)' /\ Looks(s, start[s].id)
    BY <2>1 DEF Looks
  <2>4. Looking(j)' => Looking(j)
    BY <1>3, <2>2, <2>3 DEF Looking
  <2>5. registry[j].cancelled /\ Looking(j) => Looking(j)'
    BY <1>3, <2>2, <2>3 DEF Looking, Looks
  <2> QED
    BY <2>1, <2>4, <2>5 DEF Keeps, Stopped, table
<1>carry. CASE CarryCancel(s)
  <2>0. PICK i \in Jobs : i = start[s].id
    BY <1>carry, <1>1 DEF CarryCancel, Busy
  <2>1. start[s].pc = "carry" /\ registry' = registry
    BY <1>carry DEF CarryCancel
  <2>2. /\ RowMoves(i) \/ UNCHANGED table
        /\ Stopped(i)' /\ status[i] # "absent"
    <3>1. PICK moved \in BOOLEAN : CancelRow(i, moved)
      BY <1>carry, <2>0 DEF CarryCancel
    <3> QED
      BY <3>1, CancelRowMoves
  <2>3. start'[s].pc \in {"close", "idle"}
    BY <1>carry, <1>1 DEF CarryCancel, TypeOK, NoStart, Start
  <2>4. Looking(j)' => Looking(j)
    BY <1>3, <2>3 DEF Looking, Looks
  <2>5. Looking(j) /\ ~Looking(j)' => j = i
    BY <1>3, <2>0 DEF Looking, Looks
  <2> QED
    BY <2>1, <2>2, <2>4, <2>5, RowMovesKeep DEF Keeps
<1> QED
  BY <1>read, <1>release, <1>register, <1>capped, <1>insert, <1>raises, <1>check, <1>carry
     DEF StartStep

\* A cancel request's own step.
LEMMA CancelKnows ==
  ASSUME TypeOK, Fresh, NEW c \in Cancels, Knows(c),
         CancelStep(c) \/ \E j \in Jobs : LookInMemory(c, j)
  PROVE  Knows(c)' /\ \A j \in Jobs : Keeps(j)
<1> USE DispatchAssumption
<1>0. cancel[c] \in Cancel /\ (cancel[c].pc # "idle" => cancel[c].id \in Jobs)
  BY DEF TypeOK, Fresh, CancelsPassed, Cancel
<1>j. PICK j \in Jobs \union {None} : j = cancel[c].id
  BY <1>0 DEF Cancel
<1>look. CASE \E i \in Jobs : LookInMemory(c, i)
  <2>1. cancel'[c].pc = "look" /\ ~cancel'[c].in_process /\ cancel'[c].answer = None
    <3>1. PICK i \in Jobs : cancel'[c] = [NoCancel EXCEPT !.pc = "look", !.id = i,
                                                          !.known = registry[i].registered]
      BY <1>look DEF LookInMemory, TypeOK
    <3> QED
      BY <3>1 DEF NoCancel
  <2>2. \A i \in Jobs : Keeps(i)
    BY <1>look, StartsStill DEF LookInMemory
  <2> QED
    BY <2>1, <2>2 DEF Knows
<1>row. CASE LookForRow(c) \/ RereadRow(c)
  <2>1. \A i \in Jobs : Keeps(i)
    BY <1>row, StartsStill DEF LookForRow, RereadRow
  <2>2. /\ UNCHANGED <<table, registry, start>> /\ j \in Jobs
        /\ cancel'[c].id = j /\ cancel'[c].in_process = cancel[c].in_process
    <3>1. \/ \E pc \in {"row", "flag"} : cancel'[c] = [cancel[c] EXCEPT !.pc = pc]
          \/ \E yes \in {TRUE, None} : cancel'[c] = [cancel[c] EXCEPT !.pc = "answered", !.answer = yes]
      BY <1>row DEF LookForRow, RereadRow, TypeOK, Answered
    <3> QED
      BY <1>0, <1>j, <1>row, <3>1 DEF LookForRow, RereadRow, Cancel
  <2>3. Looking(j)' = Looking(j) /\ Stopped(j)' = Stopped(j)
    BY <2>2 DEF Looking, Looks, Stopped, table
  <2>4. CASE status[j] # "absent"
    <3>1. cancel'[c].pc = "row" /\ cancel'[c].answer = cancel[c].answer
      BY <1>0, <1>j, <1>row, <2>4 DEF LookForRow, RereadRow, TypeOK, Cancel
    <3> QED
      BY <1>j, <2>1, <2>2, <2>3, <2>4, <3>1 DEF Knows, table
  <2>5. CASE status[j] = "absent" /\ LookForRow(c)
    <3>1. cancel'[c].pc \in {"flag", "answered"} /\ cancel'[c].answer \in {cancel[c].answer, None}
      BY <1>0, <1>j, <2>5 DEF LookForRow, TypeOK, Cancel, Answered
    <3> QED
      BY <1>j, <2>1, <2>2, <2>3, <3>1 DEF Knows, table
  <2>6. CASE status[j] = "absent" /\ RereadRow(c)
    <3>1. cancel'[c].pc = "answered" /\ registry[j].cancelled
      BY <1>0, <1>j, <2>6 DEF RereadRow, TypeOK, Cancel, Answered, Knows
    <3> QED
      BY <1>j, <2>1, <2>2, <2>3, <2>6, <3>1 DEF Knows, table
  <2> QED
    BY <1>row, <2>4, <2>5, <2>6
<1>flag. CASE FlagInMemory(c) \/ MarkInMemory(c)
  <2>1. j \in Jobs /\ UNCHANGED <<table, start>>
    BY <1>flag, <1>0, <1>j DEF FlagInMemory, MarkInMemory
  <2>2. registry'[j].cancelled /\ \A i \in Jobs : registry[i].cancelled => registry'[i].cancelled
    <3>1. /\ \A i \in Jobs \ {j} : registry'[i] = registry[i]
          /\ registry'[j] = [registry[j] EXCEPT !.cancelled = TRUE]
      BY <1>flag, <1>j, <2>1 DEF FlagInMemory, MarkInMemory, TypeOK
    <3>2. registry'[j].cancelled
      BY <2>1, <3>1 DEF TypeOK, Entry
    <3> QED
      BY <3>1, <3>2
  <2>3. \A i \in Jobs : Keeps(i)
    BY <2>1, <2>2, StartsStill
  <2>4. Looking(j)' = Looking(j) /\ Stopped(j)' = Stopped(j)
    BY <2>1 DEF Looking, Looks, Stopped, table
  <2>5. CASE FlagInMemory(c)
    <3>1. cancel'[c] = [cancel[c] EXCEPT !.pc = "reread", !.in_process = TRUE]
      BY <2>5 DEF FlagInMemory, TypeOK
    <3>2. cancel'[c].pc = "reread" /\ cancel'[c].id = j /\ cancel'[c].answer = cancel[c].answer
      BY <1>0, <1>j, <3>1 DEF Cancel
    <3> QED
      BY <1>j, <2>1, <2>2, <2>3, <2>4, <3>2 DEF Knows, table
  <2>6. CASE MarkInMemory(c)
    <3>1. /\ cancel[c].pc = "mark"
          /\ \/ cancel'[c] = [cancel[c] EXCEPT !.pc = "close"]
             \/ cancel'[c] = [cancel[c] EXCEPT !.pc = "answered", !.answer = TRUE]
      BY <2>6 DEF MarkInMemory, TypeOK, Answered
    <3>2. cancel'[c].id = j /\ cancel'[c].pc \in {"close", "answered"}
      BY <1>0, <1>j, <3>1 DEF Cancel
    <3>3. Stopped(j) /\ status[j] # "absent"
      BY <1>j, <3>1 DEF Knows
    <3> QED
      BY <2>1, <2>2, <2>3, <2>4, <3>2, <3>3 DEF Knows, table
  <2> QED
    BY <1>flag, <2>5, <2>6
<1>table. CASE CancelInTable(c)
  <2>1. j \in Jobs /\ UNCHANGED <<registry, start>>
    BY <1>table, <1>0, <1>j DEF CancelInTable
  <2>2. PICK moved \in BOOLEAN :
          /\ CancelRow(j, moved)
          /\ \/ /\ status[j] \in Terminal
                /\ cancel'[c] = [cancel[c] EXCEPT !.pc = "answered", !.answer = cancel[c].in_process]
             \/ cancel'[c] = [cancel[c] EXCEPT !.pc = "mark", !.moved = moved]
             \/ cancel'[c] = [cancel[c] EXCEPT !.pc = "close", !.moved = TRUE]
             \/ cancel'[c] = [cancel[c] EXCEPT !.pc = "answered", !.answer = TRUE]
    BY <1>table, <1>j DEF CancelInTable, TypeOK, Answered
  <2>3. (RowMoves(j) \/ UNCHANGED table) /\ Stopped(j)' /\ status[j] # "absent"
    BY <2>1, <2>2, CancelRowMoves
  <2>4. \A i \in Jobs : Keeps(i)
    BY <2>1, <2>3, StartsStill
  <2>5. status'[j] # "absent"
    BY <2>1, <2>3, RowMovesKeep
  <2>6. /\ cancel'[c].id = j /\ cancel'[c].in_process = cancel[c].in_process
        /\ cancel'[c].pc \in {"answered", "mark", "close"}
    BY <1>0, <1>j, <2>2 DEF Cancel
  <2> QED
    BY <1>j, <2>1, <2>3, <2>4, <2>5, <2>6 DEF Knows
<1>close. CASE CloseCancelled(c)
  <2>1. /\ cancel[c].pc = "close" /\ UNCHANGED <<table, registry, start>>
        /\ cancel'[c] = [cancel[c] EXCEPT !.pc = "answered", !.answer = TRUE]
    BY <1>close DEF CloseCancelled, TypeOK, Answered
  <2>2. /\ cancel'[c].id = j /\ cancel'[c].in_process = cancel[c].in_process
        /\ cancel'[c].pc = "answered" /\ j \in Jobs
    BY <1>0, <1>j, <2>1 DEF Cancel
  <2>3. Stopped(j)'
    BY <1>j, <2>1 DEF Knows, Stopped, table
  <2>4. \A i \in Jobs : Keeps(i)
    BY <2>1, <2>2, StartsStill
  <2> QED
    BY <1>j, <2>1, <2>2, <2>3, <2>4 DEF Knows
<1> QED
  BY <1>look, <1>row, <1>flag, <1>table, <1>close DEF CancelStep

\* No step makes a cancel's knowledge wrong.
LEMMA ReachesNext == TypeOK /\ Fresh /\ Reaches /\ [Next]_vars => Reaches'
<1> SUFFICES ASSUME TypeOK, Fresh, Reaches, [Next]_vars, NEW c \in Cancels PROVE Knows(c)'
  BY DEF Reaches
<1> USE DispatchAssumption
<1>1. Knows(c)
  BY DEF Reaches
<1>start. ASSUME NEW s \in Starts, StartStep(s) \/ \E org \in Orgs : ReadLive(s, org)
          PROVE  Knows(c)'
  <2>1. cancel' = cancel
    BY <1>start DEF StartStep, ReadLive, ReleaseFinished, TryRegister, Capped, InsertRow,
                    InsertRaises, CheckCancelled, CarryCancel, CloseCarried
  <2> QED
    BY <1>1, <1>start, <2>1, StartKeepsJobs, KnowsStill
<1>cancel. ASSUME NEW d \in Cancels, CancelStep(d) \/ \E j \in Jobs : LookInMemory(d, j)
           PROVE  Knows(c)'
  <2>1. Knows(d)' /\ \A j \in Jobs : Keeps(j)
    BY <1>cancel, CancelKnows DEF Reaches
  <2>2. c # d => cancel'[c] = cancel[c]
    BY <1>cancel DEF CancelStep, LookInMemory, LookForRow, FlagInMemory, RereadRow, CancelInTable,
                     MarkInMemory, CloseCancelled, TypeOK
  <2> QED
    BY <1>1, <2>1, <2>2, KnowsStill
<1>workers. CASE WorkersStep
  <2>1. \A j \in Jobs : Keeps(j)
    BY <1>workers, WorkersMove, StartsStill DEF WorkersStep
  <2> QED
    BY <1>1, <1>workers, <2>1, KnowsStill DEF WorkersStep
<1>restart. CASE Restart
  <2>1. cancel'[c].pc = "idle" /\ ~cancel'[c].in_process /\ cancel'[c].answer = None
    BY <1>restart DEF Restart, NoCancel
  <2> QED
    BY <2>1 DEF Knows
<1>stutter. CASE UNCHANGED vars
  BY <1>1, <1>stutter DEF vars, table, Knows, Stopped, Looking, Looks
<1> QED
  BY <1>start, <1>cancel, <1>workers, <1>restart, <1>stutter DEF Next

----------------------------------------------------------------------------
(* The caps *)

\* Steps that start no job keep the counts within the caps.
LEMMA NoMoreRunning ==
  ASSUME Counted,
         \A j \in Running' : j \in Running /\ registry'[j].org = registry[j].org
  PROVE  Counted'
<1>1. IsFiniteSet(Running') /\ Cardinality(Running') <= Cardinality(Running)
  BY FS_Subset DEF Counted
<1>2. ASSUME NEW org \in Orgs PROVE Cardinality(OfOrg(org)') <= Cardinality(OfOrg(org))
  <2>1. OfOrg(org)' \subseteq OfOrg(org) /\ OfOrg(org) \subseteq Running
    BY DEF OfOrg
  <2>2. IsFiniteSet(OfOrg(org))
    BY <2>1, FS_Subset DEF Counted
  <2> QED
    BY <2>1, <2>2, FS_Subset
<1>3. /\ Cardinality(Running) \in Nat /\ Cardinality(Running') \in Nat
      /\ \A org \in Orgs : Cardinality(OfOrg(org)) \in Nat /\ Cardinality(OfOrg(org)') \in Nat
  <2>1. \A org \in Orgs : OfOrg(org) \subseteq Running /\ OfOrg(org)' \subseteq Running'
    BY DEF OfOrg
  <2> QED
    BY <1>1, <2>1, FS_Subset, FS_CardinalityType DEF Counted
<1> QED
  BY <1>1, <1>2, <1>3, DispatchAssumption DEF Counted

\* Which holds when no job is registered anew and none gets its slot back.
LEMMA SlotsKept ==
  ASSUME Counted,
         \A j \in Jobs : /\ registry'[j].registered => registry[j].registered
                         /\ registry[j].released => registry'[j].released
                         /\ registry'[j].org = registry[j].org
  PROVE  Counted'
<1>1. \A j \in Running' : j \in Running /\ registry'[j].org = registry[j].org
  BY DEF Running
<1> QED
  BY <1>1, NoMoreRunning

\* Only TryRegister takes a slot, and it counts under the lock.
LEMMA CountedNext == TypeOK /\ Fresh /\ Counted /\ [Next]_vars => Counted'
<1> SUFFICES ASSUME TypeOK, Fresh, Counted, [Next]_vars PROVE Counted'
  OBVIOUS
<1> USE DispatchAssumption
<1>register. ASSUME NEW s \in Starts, TryRegister(s) PROVE Counted'
  <2> DEFINE o == start[s].org
  <2>1. PICK id \in Jobs : id = seq + 1
    BY <1>register DEF TryRegister
  <2>2. /\ \A j \in Jobs \ {id} : registry'[j] = registry[j]
        /\ registry'[id].registered /\ ~registry'[id].released /\ registry'[id].org = o
    BY <1>register, <2>1 DEF TryRegister, TypeOK, NoEntry
  <2>3. id \notin Running
    BY <2>1 DEF Fresh, IdsPassed, Running, TypeOK
  <2>4. Running' = Running \union {id}
    BY <2>2 DEF Running
  <2>5. \A org \in Orgs : OfOrg(org)' = IF org = o THEN OfOrg(org) \union {id} ELSE OfOrg(org)
    BY <2>2, <2>3, <2>4 DEF OfOrg, Running
  <2>6. /\ IsFiniteSet(Running)
        /\ \A org \in Orgs : IsFiniteSet(OfOrg(org)) /\ id \notin OfOrg(org)
    <3>1. \A org \in Orgs : OfOrg(org) \subseteq Running
      BY DEF OfOrg
    <3> QED
      BY <2>3, <3>1, FS_Subset DEF Counted
  <2>7. /\ IsFiniteSet(Running') /\ Cardinality(Running') = Cardinality(Running) + 1
        /\ Cardinality(Running) \in Nat
    BY <2>3, <2>4, <2>6, FS_AddElement, FS_CardinalityType
  <2>8. \A org \in Orgs :
          /\ Cardinality(OfOrg(org)) \in Nat
          /\ Cardinality(OfOrg(org)') = IF org = o THEN Cardinality(OfOrg(org)) + 1
                                        ELSE Cardinality(OfOrg(org))
    BY <2>5, <2>6, FS_AddElement, FS_CardinalityType
  <2>9. /\ MaxConcurrent > 0 => Cardinality(Running) < MaxConcurrent
        /\ MaxPerOrg > 0 => Cardinality(OfOrg(o)) < MaxPerOrg
    BY <1>register DEF TryRegister, UnderCaps, Under
  <2> HIDE DEF o
  <2>10. MaxConcurrent > 0 => Cardinality(Running') <= MaxConcurrent
    BY <2>7, <2>9
  <2>11. MaxPerOrg > 0 => \A org \in Orgs : Cardinality(OfOrg(org)') <= MaxPerOrg
    BY <2>8, <2>9 DEF Counted
  <2> QED
    BY <2>7, <2>10, <2>11 DEF Counted
<1>release. ASSUME NEW s \in Starts, ReleaseFinished(s) PROVE Counted'
  <2>1. \A j \in Jobs : LET r == [registry[j] EXCEPT !.released = TRUE]
                        IN  r.registered = registry[j].registered /\ r.released /\ r.org = registry[j].org
    BY DEF TypeOK, Entry
  <2>2. \A j \in Jobs : \/ registry'[j] = registry[j]
                        \/ registry'[j] = [registry[j] EXCEPT !.released = TRUE]
    BY <1>release DEF ReleaseFinished
  <2>3. \A j \in Jobs : /\ registry'[j].registered => registry[j].registered
                        /\ registry[j].released => registry'[j].released
                        /\ registry'[j].org = registry[j].org
    BY <2>1, <2>2
  <2> QED
    BY <2>3, SlotsKept
<1>flag. ASSUME NEW c \in Cancels, FlagInMemory(c) \/ MarkInMemory(c) PROVE Counted'
  <2>1. PICK i \in Jobs : i = cancel[c].id
    BY <1>flag DEF FlagInMemory, MarkInMemory, Fresh, CancelsPassed, TypeOK, Cancel
  <2>2. /\ \A j \in Jobs \ {i} : registry'[j] = registry[j]
        /\ registry'[i] = [registry[i] EXCEPT !.cancelled = TRUE]
    BY <1>flag, <2>1 DEF FlagInMemory, MarkInMemory, TypeOK
  <2>3. /\ registry'[i].registered = registry[i].registered
        /\ registry'[i].released = registry[i].released /\ registry'[i].org = registry[i].org
    BY <2>2 DEF TypeOK, Entry
  <2> QED
    BY <2>2, <2>3, SlotsKept
<1>restart. CASE Restart
  <2>1. Running' = {}
    BY <1>restart DEF Restart, NoEntry, Running
  <2> QED
    BY <2>1, NoMoreRunning
<1>same. CASE UNCHANGED registry
  BY <1>same, SlotsKept
<1> QED
  BY <1>register, <1>release, <1>flag, <1>restart, <1>same
     DEF Next, StartStep, CancelStep, ReadLive, Capped, InsertRow, InsertRaises, CheckCancelled,
         CarryCancel, CloseCarried, LookInMemory, LookForRow, RereadRow, CancelInTable,
         CloseCancelled, WorkersStep, vars

----------------------------------------------------------------------------
(* The theorems *)

\* The inductive invariant of every theorem below.
THEOREM DispatchInvariant == Spec => [](TypeOK /\ Fresh /\ Reaches /\ Counted)
<1> DEFINE Inv == TypeOK /\ Fresh /\ Reaches /\ Counted
<1>1. Init => Inv
  BY InitHolds
<1>2. Inv /\ [Next]_vars => Inv'
  BY TypeNext, FreshNext, ReachesNext, CountedNext
<1> QED
  BY <1>1, <1>2, PTL DEF Spec

\* The requests' locals, the registry and the table stay well formed; a job's
\* slot is released only once its row is over.
THEOREM DispatchTypeCorrect == Spec => []TypeOK
  BY DispatchInvariant, PTL

\* The counter never hands out an id that has a row, however often the server
\* process restarts (SeedSeq, seed_seq).
THEOREM IdsAreFreshHolds == Spec => []IdsAreFresh
<1>1. Fresh => IdsAreFresh
  BY DEF Fresh
<1> QED
  BY <1>1, DispatchInvariant, PTL

\* A cancel answered true reaches its job's row, whichever statement of the
\* start request it falls behind (DbQueueExecutor.dispatch, cancel_job).
THEOREM CancelReachesTheRowHolds == Spec => []CancelReachesTheRow
<1>1. TypeOK /\ Reaches => CancelReachesTheRow
  BY DEF Reaches, Knows, CancelReachesTheRow, Stopped, Looking, Looks
<1> QED
  BY <1>1, DispatchInvariant, PTL

\* Racing start requests never pass a cap (try_register).
THEOREM CapsHoldHolds == Spec => []CapsHold
<1>1. TypeOK /\ Counted => CapsHold
  <2> SUFFICES ASSUME TypeOK, Counted PROVE CapsHold
    OBVIOUS
  <2> DEFINE inFlight == {j \in Jobs : registry[j].registered /\ status[j] \notin Terminal}
             of(org) == {j \in inFlight : registry[j].org = org}
  <2>1. inFlight \subseteq Running /\ \A org \in Orgs : of(org) \subseteq OfOrg(org)
    BY DEF TypeOK, Running, OfOrg
  <2>2. IsFiniteSet(Running) /\ \A org \in Orgs : IsFiniteSet(OfOrg(org))
    <3>1. \A org \in Orgs : OfOrg(org) \subseteq Running
      BY DEF OfOrg
    <3> QED
      BY <3>1, FS_Subset DEF Counted
  <2> HIDE DEF inFlight, of
  <2>3. /\ Cardinality(inFlight) <= Cardinality(Running)
        /\ Cardinality(inFlight) \in Nat /\ Cardinality(Running) \in Nat
    BY <2>1, <2>2, FS_Subset, FS_CardinalityType
  <2>4. \A org \in Orgs : /\ Cardinality(of(org)) <= Cardinality(OfOrg(org))
                          /\ Cardinality(of(org)) \in Nat /\ Cardinality(OfOrg(org)) \in Nat
    BY <2>1, <2>2, FS_Subset, FS_CardinalityType
  <2>5. MaxConcurrent > 0 => Cardinality(inFlight) <= MaxConcurrent
    BY <2>3, DispatchAssumption DEF Counted
  <2>6. MaxPerOrg > 0 => \A org \in Orgs : Cardinality(of(org)) <= MaxPerOrg
    BY <2>4, DispatchAssumption DEF Counted
  <2> QED
    BY <2>5, <2>6 DEF CapsHold, inFlight, of
<1> QED
  BY <1>1, DispatchInvariant, PTL

----------------------------------------------------------------------------
(* JobProcess: the inductive invariants *)

\* Thread t has taken the cancel to deliver it.
Took(t) == ask[t].pc \notin {"idle", "over"} \/ ask[t].proc # NoChild

\* Who may deliver: an asker that found the job bound, or else the run thread
\* that bound it.
OneTakes ==
  /\ run.pc \in {"fetch", "bind"} => ~relay.bound
  /\ ~relay.bound => ~run.pending
  /\ ~relay.bound \/ ~relay.requested => \A t \in Threads : ~Took(t)
  /\ IF run.pending THEN relay.requested /\ \A t \in Askers : ~Took(t) ELSE ~Took(RunThread)
  /\ \A t, u \in Threads : Took(t) /\ Took(u) => t = u

\* Nobody has a hold on the run's process yet.
RunUntouched ==
  /\ child["run"].sent = {}
  /\ kill.proc # "run"
  /\ \A t \in Threads : ask[t].proc # "run"

New == {"fetch", "bind", "bound", "deliver", "boot", "build", "spawn", "register"}
Held == {"stop", "reap", "wait"}

\* The run thread's place tells which child is registered, and how.
Placed ==
  /\ run.pc \in New => job.proc # "run" /\ RunUntouched
  /\ job.proc = "build" => RunUntouched
  /\ run.pc \in Held => job.proc # NoChild
  /\ job.proc = "run" => run.pc \in Held
  /\ Live("run") => run.pc = "register" \/ job.proc = "run"
  /\ job.proc_graceful => run.pc = "wait" /\ job.proc = "run"
  /\ run.pc = "wait" /\ job.proc = "run" /\ job.graceful_cancel => job.proc_graceful

\* What a delivery on its way to the run knows of it.
Informed ==
  \A t \in Threads : ask[t].proc = "run" =>
    /\ ask[t].graceful /\ Live("run") => job.proc_graceful /\ job.cancelled
    /\ run.pc = "wait" /\ job.graceful_cancel => ask[t].graceful
    /\ ask[t].pc \in {"grace", "unwind"} /\ Live("run") => "stop" \in child["run"].sent

\* Where the run thread is once the run was asked to stop.
Asked ==
  "stop" \in child["run"].sent =>
    /\ run.pc \in {"wait", "sweep", "done"}
    /\ run.pc = "wait" => job.cancelled /\ job.proc_graceful
    /\ run.pc = "done" => ~child["run"].helper

StopInv == Placed /\ Informed /\ Asked /\ LeaderIsAskedFirst /\ CancelMissesNoChild
----------------------------------------------------------------------------
(* Type correctness *)

\* The types hold before the job starts.
LEMMA ProcessTypeInit == ProcessInit => ProcessTypeOK
<1> SUFFICES ASSUME ProcessInit PROVE ProcessTypeOK
  OBVIOUS
<1>1. PICK g \in BOOLEAN : job = [cancelled |-> FALSE, kill_requested |-> FALSE,
                                  graceful_cancel |-> g, proc |-> NoChild, proc_graceful |-> FALSE]
  BY DEF ProcessInit
<1>2. child \in [Children -> Child]
  BY DEF ProcessInit, Child
<1> QED
  BY <1>1, <1>2 DEF ProcessInit, ProcessTypeOK, Place

\* Whether a child has a helper process is a field of its own.
LEMMA HelperIsTyped ==
  ASSUME child \in [Children -> Child], NEW c, NEW helper \in BOOLEAN,
         child' = [child EXCEPT ![c].helper = helper]
  PROVE  child' \in [Children -> Child]
  BY DEF Child

\* So does what a signal leaves of the processes.
LEMMA SendsAreTyped ==
  ASSUME child \in [Children -> Child], NEW c, NEW signal \in {"term", "kill"}
  PROVE  /\ SendLeader(c) => child' \in [Children -> Child]
         /\ SendGroup(c, signal) => child' \in [Children -> Child]
<1>1. SendLeader(c) /\ Live(c) => child' \in [Children -> Child]
  <2>1. SendLeader(c) /\ Live(c) => child' = [child EXCEPT ![c].sent = @ \union {"stop"}]
    BY DEF SendLeader
  <2> QED
    BY <2>1 DEF Child
<1>2. SendLeader(c) /\ ~Live(c) => child' \in [Children -> Child]
  <2>1. SendLeader(c) /\ ~Live(c) => child' = [child EXCEPT ![c].sent = @]
    BY DEF SendLeader
  <2> QED
    BY <2>1 DEF Child
<1>3. SendGroup(c, signal) => child' \in [Children -> Child]
  <2>1. CASE Live(c) /\ SendGroup(c, signal)
    <3>1. child' = [child EXCEPT ![c] = [child[c] EXCEPT !.sent = @ \union {signal}, !.helper = FALSE]]
      BY <2>1 DEF SendGroup
    <3>2. c \in Children => [child[c] EXCEPT !.sent = @ \union {signal}, !.helper = FALSE] \in Child
      BY DEF Child
    <3> QED
      BY <3>1, <3>2
  <2>2. CASE ~Live(c) /\ SendGroup(c, signal)
    BY <2>2 DEF SendGroup
  <2> QED
    BY <2>1, <2>2
<1> QED
  BY <1>1, <1>2, <1>3

\* One step per action keeps the types.
LEMMA ProcessTypeNext == ProcessTypeOK /\ [ProcessNext]_processVars => ProcessTypeOK'
<1> SUFFICES ASSUME ProcessTypeOK, [ProcessNext]_processVars PROVE ProcessTypeOK'
  OBVIOUS
<1> USE DEF Threads
<1>1. CASE RunStep
  <2>1. CASE Fetched
    BY <2>1 DEF Fetched, Goes, ProcessTypeOK, Place
  <2>2. CASE Bind
    BY <2>2 DEF Bind, ProcessTypeOK, Place
  <2>3. CASE BoundJob
    BY <2>3 DEF BoundJob, Goes, ProcessTypeOK, Place
  <2>4. CASE Delivered
    BY <2>4 DEF Delivered, Goes, ProcessTypeOK, Place
  <2>5. CASE Boot
    BY <2>5 DEF Boot, Goes, ProcessTypeOK, Place
  <2>6. CASE SpawnBuild \/ SpawnRun
    BY <2>6 DEF SpawnBuild, SpawnRun, Spawn, Goes, ProcessTypeOK, Place, Child
  <2>7. CASE StartFails
    BY <2>7 DEF StartFails, Goes, ProcessTypeOK, Place
  <2>8. CASE Register
    <3>1. run' \in [pc : Place, pending : BOOLEAN, hard : BOOLEAN]
      BY <2>8 DEF Register, ProcessTypeOK, Place
    <3>2. Spawned \in Children \union {NoChild}
      BY DEF Spawned, Children
    <3>3. (Graceful /\ ~(job.cancelled \/ job.kill_requested)) \in BOOLEAN
      OBVIOUS
    <3>4. job' = [job EXCEPT !.proc = Spawned,
                             !.proc_graceful = Graceful /\ ~(job.cancelled \/ job.kill_requested)]
      BY <2>8 DEF Register
    <3>5. UNCHANGED <<relay, ask, kill, child>>
      BY <2>8 DEF Register
    <3>6. /\ job' \in [cancelled : BOOLEAN, kill_requested : BOOLEAN, graceful_cancel : BOOLEAN,
                      proc : Children \union {NoChild}, proc_graceful : BOOLEAN]
          /\ job'.proc = Spawned
      BY <3>2, <3>3, <3>4 DEF ProcessTypeOK
    <3>7. job'.proc # NoChild
      BY <3>6, NoChildAssumption DEF Spawned, Children
    <3> QED
      BY <3>1, <3>5, <3>6, <3>7 DEF ProcessTypeOK
  <2>9. CASE StopChild
    <3>1. child' \in [Children -> Child]
      BY <2>9, SendsAreTyped DEF StopChild, ProcessTypeOK
    <3> QED
      BY <2>9, <3>1 DEF StopChild, Goes, ProcessTypeOK, Place
  <2>10. CASE StoppedChildExits
    BY <2>10 DEF StoppedChildExits, Ended, Goes, ProcessTypeOK, Place
  <2>11. CASE BuildExits
    BY <2>11 DEF BuildExits, Goes, ProcessTypeOK, Place
  <2>12. CASE RunExits
    BY <2>12 DEF RunExits, Ended, Goes, ProcessTypeOK, Place
  <2>13. CASE SweepGroup
    <3>1. child' \in [Children -> Child]
      BY <2>13, HelperIsTyped DEF SweepGroup, ProcessTypeOK
    <3> QED
      BY <2>13, <3>1 DEF SweepGroup, Goes, ProcessTypeOK, Place
  <2> QED
    BY <1>1, <2>1, <2>2, <2>3, <2>4, <2>5, <2>6, <2>7, <2>8, <2>9, <2>10, <2>11, <2>12, <2>13
       DEF RunStep
<1>2. ASSUME NEW t \in Askers, Request(t) PROVE ProcessTypeOK'
  <2>1. relay' = [relay EXCEPT !.requested = TRUE] /\ UNCHANGED <<job, run, kill, child>>
    BY <1>2 DEF Request
  <2>2. PICK pc \in {"flag", "over"} : ask' = [ask EXCEPT ![t].pc = pc]
    BY <1>2 DEF Request
  <2>3. ask' \in [Threads -> [pc : {"idle", "flag", "signal", "grace", "unwind", "over"},
                             proc : Children \union {NoChild}, graceful : BOOLEAN]]
    <3>1. ask' = [ask EXCEPT ![t] = [ask[t] EXCEPT !.pc = pc]]
      BY <2>2 DEF ProcessTypeOK
    <3> QED
      BY <3>1 DEF ProcessTypeOK
  <2>4. relay' \in [requested : BOOLEAN, bound : BOOLEAN, kill_requested : BOOLEAN]
    BY <2>1 DEF ProcessTypeOK
  <2> QED
    BY <2>1, <2>3, <2>4 DEF ProcessTypeOK
<1>3. ASSUME NEW t \in Threads, FlagJob(t) PROVE ProcessTypeOK'
  <2>1. CASE JobDone
    BY <1>3, <2>1 DEF FlagJob, ProcessTypeOK
  <2>2. CASE ~JobDone
    <3> DEFINE answer == [pc |-> IF job.proc = NoChild THEN "over" ELSE "signal",
                          proc |-> job.proc, graceful |-> job.proc_graceful]
    <3>1. /\ job' = [job EXCEPT !.cancelled = TRUE]
          /\ ask' = [ask EXCEPT ![t] = answer]
          /\ UNCHANGED <<relay, run, kill, child>>
      BY <1>3, <2>2 DEF FlagJob
    <3>2. answer \in [pc : {"idle", "flag", "signal", "grace", "unwind", "over"},
                      proc : Children \union {NoChild}, graceful : BOOLEAN]
      BY DEF ProcessTypeOK
    <3> HIDE DEF answer
    <3> QED
      BY <3>1, <3>2 DEF ProcessTypeOK
  <2> QED
    BY <2>1, <2>2
<1>4. ASSUME NEW t \in Threads, SignalChild(t) \/ GraceOver(t) \/ UnwoundOver(t) PROVE ProcessTypeOK'
  <2>1. child' \in [Children -> Child]
    BY <1>4, SendsAreTyped DEF SignalChild, GraceOver, UnwoundOver, ProcessTypeOK
  <2> QED
    BY <1>4, <2>1 DEF SignalChild, GraceOver, UnwoundOver, ProcessTypeOK
<1>5. CASE KillUnbound \/ KillBound \/ KillLatch
  <2>1. CASE KillUnbound \/ KillBound
    BY <1>5, <2>1 DEF KillUnbound, KillBound, ProcessTypeOK
  <2>2. CASE KillLatch /\ job.proc # NoChild /\ Live(job.proc)
    BY <1>5, <2>2 DEF KillLatch, ProcessTypeOK
  <2>3. CASE KillLatch /\ ~(job.proc # NoChild /\ Live(job.proc))
    BY <1>5, <2>3 DEF KillLatch, ProcessTypeOK
  <2> QED
    BY <1>5, <2>1, <2>2, <2>3
<1>6. CASE KillChild
  <2>1. child' \in [Children -> Child]
    BY <1>6, SendsAreTyped DEF KillChild, ProcessTypeOK
  <2> QED
    BY <1>6, <2>1 DEF KillChild, ProcessTypeOK
<1>7. ASSUME NEW c \in Children, Exit(c) \/ StartHelper(c) \/ HelperEnds(c) PROVE ProcessTypeOK'
  <2>1. child' \in [Children -> Child]
    <3>1. child \in [Children -> Child]
      BY DEF ProcessTypeOK
    <3>2. CASE Exit(c)
      <4>1. PICK life \in {"ok", "bad"} : child' = [child EXCEPT ![c].life = life]
        BY <3>2 DEF Exit
      <4> QED
        BY <3>1, <4>1 DEF Child
    <3>3. CASE StartHelper(c) \/ HelperEnds(c)
      BY <3>1, <3>3, HelperIsTyped DEF StartHelper, HelperEnds
    <3> QED
      BY <1>7, <3>2, <3>3
  <2> QED
    BY <1>7, <2>1 DEF Exit, StartHelper, HelperEnds, ProcessTypeOK
<1>8. CASE UNCHANGED processVars
  BY <1>8 DEF processVars, ProcessTypeOK
<1> QED
  BY <1>1, <1>2, <1>3, <1>4, <1>5, <1>6, <1>7, <1>8 DEF ProcessNext, Deliver

\* Every variable keeps its type (one job's fields, its relay, its processes
\* and every thread that may cancel it: Job, CancelRelay).
THEOREM ProcessTypeCorrect == ProcessSpec => []ProcessTypeOK
  BY ProcessTypeInit, ProcessTypeNext, PTL DEF ProcessSpec

----------------------------------------------------------------------------
(* The cancel is delivered once *)

\* Nobody has taken the cancel at the start.
LEMMA OneInit == ProcessInit => OneTakes
  BY ThreadsAssumption DEF ProcessInit, OneTakes, Took, Threads

\* A step that lets nobody take the cancel.
LEMMA NobodyTakes ==
  ASSUME ProcessTypeOK, OneTakes,
         UNCHANGED relay, run'.pending = run.pending,
         run'.pc \in {"fetch", "bind"} => run.pc \in {"fetch", "bind"},
         \A t \in Threads : Took(t)' => Took(t)
  PROVE  OneTakes'
  BY DEF OneTakes, Threads

\* Only the lock's holder takes it, once.
LEMMA OneNext == ProcessTypeOK /\ OneTakes /\ [ProcessNext]_processVars => OneTakes'
<1> SUFFICES ASSUME ProcessTypeOK, OneTakes, [ProcessNext]_processVars PROVE OneTakes'
  OBVIOUS
<1>1. CASE RunStep
  <2>1. CASE Bind
    <3>1. \A t \in Threads : ~Took(t) /\ ~Took(t)'
      BY <2>1 DEF Bind, OneTakes, Took
    <3>2. /\ relay'.bound /\ relay'.requested = relay.requested
          /\ run'.pc = "bound" /\ run'.pending = relay.requested
      BY <2>1 DEF Bind, ProcessTypeOK
    <3> QED
      BY <3>1, <3>2 DEF OneTakes, Threads
  <2>2. CASE BoundJob
    <3>1. run.pc = "bound" /\ run'.pc = "deliver" /\ run'.pending = run.pending /\ relay' = relay
      BY <2>2 DEF BoundJob, Goes, ProcessTypeOK
    <3>2. CASE ~run.pending
      BY <2>2, <3>1, <3>2, NobodyTakes DEF BoundJob, Took, ProcessTypeOK, Threads
    <3>3. CASE run.pending
      <4>1. \A t \in Askers : ~Took(t)'
        BY <2>2, <3>3, ThreadsAssumption DEF BoundJob, OneTakes, Took, ProcessTypeOK, Threads
      <4> QED
        BY <3>1, <3>3, <4>1 DEF OneTakes, Threads
    <3> QED
      BY <3>2, <3>3 DEF ProcessTypeOK
  <2>3. CASE ~Bind /\ ~BoundJob
    <3>1. UNCHANGED <<relay, ask>>
      BY <1>1, <2>3
         DEF RunStep, Fetched, Delivered, Boot, SpawnBuild, SpawnRun, Spawn, StartFails, Register,
             StopChild, StoppedChildExits, BuildExits, RunExits, SweepGroup
    <3>2. run'.pending = run.pending /\ (run'.pc \in {"fetch", "bind"} => run.pc \in {"fetch", "bind"})
      BY <1>1, <2>3
         DEF RunStep, Fetched, Delivered, Boot, SpawnBuild, SpawnRun, Spawn, StartFails, Register,
             StopChild, StoppedChildExits, BuildExits, RunExits, SweepGroup, Goes, ProcessTypeOK
    <3> QED
      BY <3>1, <3>2, NobodyTakes DEF Took
  <2> QED
    BY <2>1, <2>2, <2>3
<1>2. ASSUME NEW t \in Askers, Request(t) PROVE OneTakes'
  <2>1. /\ ~relay.requested /\ relay'.requested /\ relay'.bound = relay.bound /\ run' = run
        /\ \A u \in Threads \ {t} : ask'[u] = ask[u]
        /\ ask'[t].proc = ask[t].proc
        /\ ask'[t].pc = IF relay.bound THEN "flag" ELSE "over"
    BY <1>2 DEF Request, ProcessTypeOK, Threads
  <2>2. \A u \in Threads : ~Took(u)
    BY <2>1 DEF OneTakes
  <2>3. ~run.pending
    BY <2>1 DEF OneTakes
  <2>4. \A u \in Threads \ {t} : ~Took(u)'
    BY <2>1, <2>2 DEF Took
  <2>5. ~relay.bound => ~Took(t)'
    BY <2>1, <2>2 DEF Took, Threads
  <2> QED
    BY <2>1, <2>3, <2>4, <2>5, ThreadsAssumption DEF OneTakes, Threads
<1>3. ASSUME NEW t \in Threads, Deliver(t) PROVE OneTakes'
  <2>1. UNCHANGED <<relay, run>> /\ Took(t) /\ \A u \in Threads \ {t} : ask'[u] = ask[u]
    BY <1>3 DEF Deliver, FlagJob, SignalChild, GraceOver, UnwoundOver, ProcessTypeOK, Took
  <2> QED
    BY <2>1, NobodyTakes DEF Took
<1>4. CASE \/ KillUnbound \/ KillBound \/ KillLatch \/ KillChild
           \/ \E c \in Children : Exit(c) \/ StartHelper(c) \/ HelperEnds(c)
           \/ UNCHANGED processVars
  <2>1. UNCHANGED <<run, ask>> /\ relay'.requested = relay.requested /\ relay'.bound = relay.bound
    BY <1>4 DEF KillUnbound, KillBound, KillLatch, KillChild, Exit, StartHelper, HelperEnds, processVars, ProcessTypeOK
  <2> QED
    BY <2>1 DEF OneTakes, Took
<1> QED
  BY <1>1, <1>2, <1>3, <1>4 DEF ProcessNext

\* bind, the heartbeat and a signal's helper race to deliver the cancel, and
\* one of them does, once (CancelRelay).
THEOREM DeliveredOnceHolds == ProcessSpec => []DeliveredOnce
<1>1. OneTakes => DeliveredOnce
  BY DEF OneTakes, DeliveredOnce, Took
<1> QED
  BY <1>1, ProcessTypeInit, ProcessTypeNext, OneInit, OneNext, PTL DEF ProcessSpec

----------------------------------------------------------------------------
(* The cancel reaches the child, the right way *)

\* Nothing is to be stopped at the start.
LEMMA StopInit == ProcessInit => StopInv
  BY NoChildAssumption DEF ProcessInit, StopInv, Placed, Informed, Asked, LeaderIsAskedFirst, CancelMissesNoChild, RunUntouched, New, Held, Live, ProcessTypeOK, Children

\* What a stopping thread's signal leaves of the processes and the threads.
Signalled(t) ==
  LET c == ask[t].proc IN
  /\ UNCHANGED <<job, run, kill>>
  /\ \A u \in Threads : ask'[u].proc = ask[u].proc /\ ask'[u].graceful = ask[u].graceful
  /\ \A u \in Threads : u # t => ask'[u].pc = ask[u].pc
  /\ \A d \in Children : /\ child'[d].life = child[d].life
                         /\ child[d].sent \subseteq child'[d].sent
                         /\ child'[d].helper => child[d].helper
                         /\ d # c => child'[d].sent = child[d].sent

\* The three signals of a stopping thread, by what they add to what was sent.
LEMMA SignalsAre ==
  ASSUME ProcessTypeOK, NEW t \in Threads, NEW c, c = ask[t].proc
  PROVE  /\ SignalChild(t) =>
              /\ Signalled(t)
              /\ ask[t].pc = "signal" /\ ask'[t].pc = IF ask[t].graceful THEN "grace" ELSE "over"
              /\ c \in Children => child'[c].sent = IF ~Live(c) THEN child[c].sent
                   ELSE child[c].sent \union {IF ask[t].graceful THEN "stop" ELSE "term"}
         /\ GraceOver(t) =>
              /\ Signalled(t)
              /\ ask[t].pc = "grace" /\ ask'[t].pc \in {"unwind", "over"}
              /\ c \in Children /\ ~Live(c) => child'[c].sent = child[c].sent
              /\ c \in Children /\ Live(c) => child'[c].sent = child[c].sent \union {"term"}
         /\ UnwoundOver(t) =>
              /\ Signalled(t)
              /\ ask[t].pc = "unwind" /\ ask'[t].pc = "over"
              /\ c \in Children => child'[c].sent \subseteq child[c].sent \union {"kill"}
<1>types. /\ ask[t] \in [pc : {"idle", "flag", "signal", "grace", "unwind", "over"},
                        proc : Children \union {NoChild}, graceful : BOOLEAN]
          /\ \A d \in Children : child[d] \in Child
          /\ ask = [u \in Threads |-> ask[u]] /\ child = [d \in Children |-> child[d]]
  BY DEF ProcessTypeOK
<1>ask. ASSUME NEW pc, ask' = [ask EXCEPT ![t].pc = pc]
        PROVE  /\ \A u \in Threads : ask'[u].proc = ask[u].proc /\ ask'[u].graceful = ask[u].graceful
               /\ \A u \in Threads : u # t => ask'[u].pc = ask[u].pc
               /\ ask'[t].pc = pc
  <2>1. ask' = [ask EXCEPT ![t] = [ask[t] EXCEPT !.pc = pc]]
    BY <1>ask, <1>types
  <2>2. \A u \in Threads \ {t} : ask'[u] = ask[u]
    BY <1>types, <2>1
  <2>3. ask'[t] = [ask[t] EXCEPT !.pc = pc]
    BY <1>types, <2>1
  <2>4. ask'[t].proc = ask[t].proc /\ ask'[t].graceful = ask[t].graceful /\ ask'[t].pc = pc
    BY <1>types, <2>3
  <2> QED
    BY <2>2, <2>4
<1>sent. ASSUME NEW d \in Children, NEW new, child' = [child EXCEPT ![d] = new],
                new.life = child[d].life, child[d].sent \subseteq new.sent,
                new.helper => child[d].helper
         PROVE  /\ child'[d] = new
                /\ \A e \in Children : /\ child'[e].life = child[e].life
                                       /\ child[e].sent \subseteq child'[e].sent
                                       /\ child'[e].helper => child[e].helper
                                       /\ e # d => child'[e].sent = child[e].sent
  BY <1>sent, <1>types
<1>still. ASSUME child' = child
          PROVE  \A e \in Children : /\ child'[e].life = child[e].life
                                     /\ child[e].sent \subseteq child'[e].sent
                                     /\ child'[e].helper => child[e].helper
                                     /\ child'[e].sent = child[e].sent
  BY <1>still
<1>group. ASSUME NEW signal, SendGroup(c, signal)
          PROVE  /\ \A e \in Children : /\ child'[e].life = child[e].life
                                        /\ child[e].sent \subseteq child'[e].sent
                                        /\ child'[e].helper => child[e].helper
                                        /\ e # c => child'[e].sent = child[e].sent
                 /\ c \in Children => child'[c].sent = IF Live(c) THEN child[c].sent \union {signal}
                                                       ELSE child[c].sent
  <2>1. CASE c \notin Children \/ ~Live(c)
    <3>1. child' = child
      BY <1>group, <1>types, <2>1 DEF SendGroup
    <3> QED
      BY <1>still, <2>1, <3>1
  <2>2. CASE c \in Children /\ Live(c)
    <3> DEFINE new == [child[c] EXCEPT !.sent = @ \union {signal}, !.helper = FALSE]
    <3>1. child' = [child EXCEPT ![c] = new]
      BY <1>group, <2>2 DEF SendGroup
    <3>2. new.life = child[c].life /\ new.sent = child[c].sent \union {signal} /\ ~new.helper
      BY <1>types, <2>2 DEF Child
    <3> HIDE DEF new
    <3> QED
      BY <1>sent, <2>2, <3>1, <3>2
  <2> QED
    BY <2>1, <2>2
<1>leader. ASSUME SendLeader(c)
           PROVE  /\ \A e \in Children : /\ child'[e].life = child[e].life
                                         /\ child[e].sent \subseteq child'[e].sent
                                         /\ child'[e].helper => child[e].helper
                                         /\ e # c => child'[e].sent = child[e].sent
                  /\ c \in Children => child'[c].sent = IF Live(c) THEN child[c].sent \union {"stop"}
                                                        ELSE child[c].sent
  <2>1. CASE c \notin Children
    <3>1. child' = child
      BY <1>leader, <1>types, <2>1 DEF SendLeader
    <3> QED
      BY <1>still, <2>1, <3>1
  <2>2. CASE c \in Children
    <3> DEFINE sent == IF Live(c) THEN child[c].sent \union {"stop"} ELSE child[c].sent
               new == [child[c] EXCEPT !.sent = sent]
    <3>0. child[c].sent \subseteq sent
      OBVIOUS
    <3> HIDE DEF sent
    <3>1. child' = [child EXCEPT ![c] = new]
      BY <1>leader, <2>2 DEF SendLeader, sent
    <3>2. new.life = child[c].life /\ new.sent = sent /\ new.helper = child[c].helper
      BY <1>types, <2>2 DEF Child
    <3> HIDE DEF new
    <3>3. /\ child'[c] = new
          /\ \A e \in Children : /\ child'[e].life = child[e].life
                                 /\ child[e].sent \subseteq child'[e].sent
                                 /\ child'[e].helper => child[e].helper
                                 /\ e # c => child'[e].sent = child[e].sent
      <4>1. child[c].sent \subseteq new.sent /\ (new.helper => child[c].helper)
        BY <3>0, <3>2
      <4> QED
        BY <1>sent, <2>2, <3>1, <3>2, <4>1
    <3> QED
      BY <2>2, <3>2, <3>3 DEF sent
  <2> QED
    BY <2>1, <2>2
<1>1. ASSUME SignalChild(t)
      PROVE  /\ Signalled(t)
             /\ ask[t].pc = "signal" /\ ask'[t].pc = IF ask[t].graceful THEN "grace" ELSE "over"
             /\ c \in Children => child'[c].sent = IF ~Live(c) THEN child[c].sent
                  ELSE child[c].sent \union {IF ask[t].graceful THEN "stop" ELSE "term"}
  BY <1>1, <1>ask, <1>group, <1>leader DEF SignalChild, Signalled
<1>2. ASSUME GraceOver(t)
      PROVE  /\ Signalled(t)
             /\ ask[t].pc = "grace" /\ ask'[t].pc \in {"unwind", "over"}
             /\ c \in Children /\ ~Live(c) => child'[c].sent = child[c].sent
             /\ c \in Children /\ Live(c) => child'[c].sent = child[c].sent \union {"term"}
  BY <1>2, <1>ask, <1>group DEF GraceOver, Signalled
<1>3. ASSUME UnwoundOver(t)
      PROVE  /\ Signalled(t)
             /\ ask[t].pc = "unwind" /\ ask'[t].pc = "over"
             /\ c \in Children => child'[c].sent \subseteq child[c].sent \union {"kill"}
  BY <1>3, <1>ask, <1>group DEF UnwoundOver, Signalled
<1> QED
  BY <1>1, <1>2, <1>3

\* One step per action keeps the chain from cancel to sweep.
LEMMA StopNext == ProcessTypeOK /\ StopInv /\ [ProcessNext]_processVars => StopInv'
<1> SUFFICES ASSUME ProcessTypeOK, StopInv, [ProcessNext]_processVars PROVE StopInv'
  OBVIOUS
<1>4. ASSUME NEW t \in Threads, SignalChild(t) PROVE StopInv'
  <2>0. PICK c \in Children \union {NoChild} : c = ask[t].proc
    BY DEF ProcessTypeOK
  <2>1. /\ Signalled(t)
        /\ ask[t].pc = "signal" /\ ask'[t].pc = IF ask[t].graceful THEN "grace" ELSE "over"
        /\ c \in Children => child'[c].sent = IF ~Live(c) THEN child[c].sent
             ELSE child[c].sent \union {IF ask[t].graceful THEN "stop" ELSE "term"}
    BY <1>4, <2>0, SignalsAre
  <2>2. "run" \in Children /\ t \in Threads
    BY DEF Children
  <2>3. Placed' /\ Asked'
    <3>1. Placed'
      BY <2>0, <2>1, <2>2 DEF Signalled, Placed, RunUntouched, Live, StopInv, New, Held
    <3>2. Asked'
      BY <2>0, <2>1, <2>2 DEF Signalled, Placed, Informed, Asked, RunUntouched, Live, StopInv, New, Held
    <3> QED
      BY <3>1, <3>2
  <2>4. Informed'
    BY <2>0, <2>1, <2>2 DEF Signalled, Informed, Live, StopInv, Placed
  <2>5. LeaderIsAskedFirst'
    BY <2>0, <2>1, <2>2 DEF Signalled, LeaderIsAskedFirst, Informed, Live, StopInv
  <2>6. CancelMissesNoChild'
    <3>1. run.pc = "wait" => job.proc \in Children
      BY DEF StopInv, Placed, Held, ProcessTypeOK
    <3> QED
      BY <2>0, <2>1, <2>2, <3>1 DEF Signalled, CancelMissesNoChild, Live, StopInv
  <2> QED
    BY <2>3, <2>4, <2>5, <2>6 DEF StopInv
<1>5. ASSUME NEW t \in Threads, GraceOver(t) PROVE StopInv'
  <2>0. PICK c \in Children \union {NoChild} : c = ask[t].proc
    BY DEF ProcessTypeOK
  <2>1. /\ Signalled(t)
        /\ ask[t].pc = "grace" /\ ask'[t].pc \in {"unwind", "over"}
        /\ c \in Children /\ ~Live(c) => child'[c].sent = child[c].sent
        /\ c \in Children /\ Live(c) => child'[c].sent = child[c].sent \union {"term"}
    BY <1>5, <2>0, SignalsAre
  <2>2. "run" \in Children /\ t \in Threads
    BY DEF Children
  <2>3. Placed' /\ Asked'
    <3>1. Placed'
      BY <2>0, <2>1, <2>2 DEF Signalled, Placed, RunUntouched, Live, StopInv, New, Held
    <3>2. Asked'
      BY <2>0, <2>1, <2>2 DEF Signalled, Placed, Informed, Asked, RunUntouched, Live, StopInv, New, Held
    <3> QED
      BY <3>1, <3>2
  <2>4. Informed'
    BY <2>0, <2>1, <2>2 DEF Signalled, Informed, Live, StopInv, Placed
  <2>5. LeaderIsAskedFirst'
    BY <2>0, <2>1, <2>2 DEF Signalled, LeaderIsAskedFirst, Informed, Live, StopInv
  <2>6. CancelMissesNoChild'
    <3>1. run.pc = "wait" => job.proc \in Children
      BY DEF StopInv, Placed, Held, ProcessTypeOK
    <3> QED
      BY <2>0, <2>1, <2>2, <3>1 DEF Signalled, CancelMissesNoChild, Live, StopInv
  <2> QED
    BY <2>3, <2>4, <2>5, <2>6 DEF StopInv
<1>6. ASSUME NEW t \in Threads, UnwoundOver(t) PROVE StopInv'
  <2>0. PICK c \in Children \union {NoChild} : c = ask[t].proc
    BY DEF ProcessTypeOK
  <2>1. /\ Signalled(t)
        /\ ask[t].pc = "unwind" /\ ask'[t].pc = "over"
        /\ c \in Children => child'[c].sent \subseteq child[c].sent \union {"kill"}
    BY <1>6, <2>0, SignalsAre
  <2>2. "run" \in Children /\ t \in Threads
    BY DEF Children
  <2>3. Placed' /\ Asked'
    <3>1. Placed'
      BY <2>0, <2>1, <2>2 DEF Signalled, Placed, RunUntouched, Live, StopInv, New, Held
    <3>2. Asked'
      BY <2>0, <2>1, <2>2 DEF Signalled, Placed, Informed, Asked, RunUntouched, Live, StopInv, New, Held
    <3> QED
      BY <3>1, <3>2
  <2>4. Informed'
    BY <2>0, <2>1, <2>2 DEF Signalled, Informed, Live, StopInv, Placed
  <2>5. LeaderIsAskedFirst'
    BY <2>0, <2>1, <2>2 DEF Signalled, LeaderIsAskedFirst, Informed, Live, StopInv
  <2>6. CancelMissesNoChild'
    <3>1. run.pc = "wait" => job.proc \in Children
      BY DEF StopInv, Placed, Held, ProcessTypeOK
    <3> QED
      BY <2>0, <2>1, <2>2, <3>1 DEF Signalled, CancelMissesNoChild, Live, StopInv
  <2> QED
    BY <2>3, <2>4, <2>5, <2>6 DEF StopInv
<1> USE NoChildAssumption DEF StopInv, Placed, Informed, Asked, LeaderIsAskedFirst, CancelMissesNoChild, RunUntouched, New, Held, Live, ProcessTypeOK, Threads, Children, Child
<1>1. CASE RunStep
  <2>1. CASE Fetched
    BY <2>1 DEF Fetched, Goes
  <2>2. CASE Bind
    BY <2>2 DEF Bind
  <2>3. CASE BoundJob
    BY <2>3 DEF BoundJob, Goes
  <2>4. CASE Delivered
    BY <2>4 DEF Delivered, Goes
  <2>5. CASE Boot
    BY <2>5 DEF Boot, Goes
  <2>6. CASE SpawnBuild
    BY <2>6 DEF SpawnBuild, Spawn, Goes
  <2>7. CASE SpawnRun
    BY <2>7 DEF SpawnRun, Spawn, Goes
  <2>8. CASE StartFails
    BY <2>8 DEF StartFails, Goes
  <2>9. CASE Register
    BY <2>9 DEF Register, Spawned, Graceful
  <2>10. CASE StopChild
    BY <2>10 DEF StopChild, SendGroup, Goes
  <2>11. CASE StoppedChildExits
    BY <2>11 DEF StoppedChildExits, Ended, Goes
  <2>12. CASE BuildExits
    BY <2>12 DEF BuildExits, Goes
  <2>13. CASE RunExits
    BY <2>13 DEF RunExits, Ended, Goes
  <2>14. CASE SweepGroup
    BY <2>14 DEF SweepGroup, Goes
  <2> QED
    BY <1>1, <2>1, <2>2, <2>3, <2>4, <2>5, <2>6, <2>7, <2>8, <2>9, <2>10, <2>11, <2>12, <2>13, <2>14 DEF RunStep
<1>2. ASSUME NEW t \in Askers, Request(t) PROVE StopInv'
  BY <1>2 DEF Request
<1>3. ASSUME NEW t \in Threads, FlagJob(t) PROVE StopInv'
  BY <1>3 DEF FlagJob, JobDone
<1>7. CASE KillUnbound
  BY <1>7 DEF KillUnbound
<1>8. CASE KillBound
  BY <1>8 DEF KillBound
<1>9. CASE KillLatch
  BY <1>9 DEF KillLatch
<1>10. CASE KillChild
  BY <1>10 DEF KillChild, SendGroup
<1>11. ASSUME NEW c \in Children, Exit(c) PROVE StopInv'
  BY <1>11 DEF Exit
<1>12. ASSUME NEW c \in Children, StartHelper(c) PROVE StopInv'
  BY <1>12 DEF StartHelper
<1>13. ASSUME NEW c \in Children, HelperEnds(c) PROVE StopInv'
  BY <1>13 DEF HelperEnds
<1>14. CASE UNCHANGED processVars
  BY <1>14 DEF processVars
<1> QED
  BY <1>1, <1>2, <1>3, <1>4, <1>5, <1>6, <1>7, <1>8, <1>9, <1>10, <1>11, <1>12, <1>13, <1>14 DEF ProcessNext, Deliver

\* A child the run thread waits for under a cancelled job was signalled, or
\* is about to be (cancel_job, _register_proc).
THEOREM CancelMissesNoChildHolds == ProcessSpec => []CancelMissesNoChild
<1>1. StopInv => CancelMissesNoChild
  BY DEF StopInv
<1> QED
  BY <1>1, ProcessTypeInit, ProcessTypeNext, StopInit, StopNext, PTL DEF ProcessSpec

\* A cooperative run's group gets a SIGTERM only after its leader was asked
\* (_request_graceful_stop, _escalate).
THEOREM LeaderIsAskedFirstHolds == ProcessSpec => []LeaderIsAskedFirst
<1>1. StopInv => LeaderIsAskedFirst
  BY DEF StopInv
<1> QED
  BY <1>1, ProcessTypeInit, ProcessTypeNext, StopInit, StopNext, PTL DEF ProcessSpec

\* No driver outlives a run that was asked to stop (_run_job, _sweep_group).
THEOREM NoDriverIsLeftHolds == ProcessSpec => []NoDriverIsLeft
<1>1. StopInv => NoDriverIsLeft
  BY DEF StopInv, Asked, NoDriverIsLeft
<1> QED
  BY <1>1, ProcessTypeInit, ProcessTypeNext, StopInit, StopNext, PTL DEF ProcessSpec
=============================================================================
