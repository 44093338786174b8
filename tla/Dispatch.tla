------------------------------ MODULE Dispatch ------------------------------
(***************************************************************************)
(* The server process in front of the jobs table: a start request          *)
(* registers its job under the concurrency caps, inserts the row and       *)
(* carries a cancel that came in between; a cancel looks for the row, the  *)
(* in-memory Job, then the row again.  Requests run on the server's        *)
(* threads; the registry's lock, one Job field and one statement are each  *)
(* a step.  The table itself is JobLifecycle, which JobQueue implements.   *)
(***************************************************************************)
EXTENDS Naturals, FiniteSets

CONSTANTS
  Jobs,            \* job ids, in the order the counter hands them out
  Starts,          \* server threads that answer a start request
  Cancels,         \* server threads that answer a cancel
  Orgs,
  MaxConcurrent,   \* max_concurrent, 0 for no cap
  MaxPerOrg,       \* max_concurrent_per_org, 0 for no cap
  MaxAttempts,
  InsertFails,     \* the database may refuse the INSERT
  MaxRestarts,     \* how often the server restarts (bounds the state space)
  None

ASSUME DispatchAssumption ==
  /\ Jobs \subseteq Nat \ {0}
  /\ MaxConcurrent \in Nat /\ MaxPerOrg \in Nat /\ MaxRestarts \in Nat
  /\ InsertFails \in BOOLEAN
  /\ None \notin Jobs \union Orgs /\ None \notin BOOLEAN

VARIABLES
  status, attempts, leases, cancel_requested,  \* the jobs table
  registry,   \* the in-memory Jobs this process registered
  seq,        \* the registry's id counter
  start,      \* per start request: its locals
  cancel,     \* per cancel request: its locals
  closed,     \* jobs whose live stream was closed as cancelled
  restarts

table == <<status, attempts, leases, cancel_requested>>
vars == <<table, registry, seq, start, cancel, closed, restarts>>

Table == INSTANCE JobLifecycle

Terminal == {"done", "failed", "cancelled"}

\* A registered job's fields; its `status` stays "running" on the server.
Entry == [registered : BOOLEAN, released : BOOLEAN, cancelled : BOOLEAN,
          org : Orgs \union {None}]
NoEntry == [registered |-> FALSE, released |-> FALSE, cancelled |-> FALSE, org |-> None]

\* `live` are the ids _release_finished reads under the lock, then probes.
Start == [pc : {"idle", "probe", "count", "insert", "check", "carry", "close"},
          org : Orgs \union {None}, live : SUBSET Jobs, id : Jobs \union {None}]
NoStart == [pc |-> "idle", org |-> None, live |-> {}, id |-> None]

\* `known`: the Job was found in memory; `in_process`: it was stopped there;
\* `moved`: the cancel ended a queued row; `answer`: the reply's "cancelled",
\* None for a 404.
Cancel == [pc : {"idle", "look", "flag", "reread", "row", "mark", "close", "answered"},
           id : Jobs \union {None}, known : BOOLEAN, in_process : BOOLEAN,
           moved : BOOLEAN, answer : BOOLEAN \union {None}]
NoCancel == [pc |-> "idle", id |-> None, known |-> FALSE, in_process |-> FALSE,
             moved |-> FALSE, answer |-> None]

TypeOK ==
  /\ status \in [Jobs -> {"absent", "queued", "leased"} \union Terminal]
  /\ attempts \in [Jobs -> Nat] /\ leases \in [Jobs -> Nat]
  /\ cancel_requested \in [Jobs -> BOOLEAN]
  /\ registry \in [Jobs -> Entry]
  /\ \A j \in Jobs : registry[j].released => status[j] \in Terminal
  /\ seq \in Nat
  /\ start \in [Starts -> Start]
  /\ cancel \in [Cancels -> Cancel]
  /\ closed \subseteq Jobs
  /\ restarts \in 0..MaxRestarts

Init ==
  /\ Table!Init
  /\ registry = [j \in Jobs |-> NoEntry]
  /\ seq = 0
  /\ start = [s \in Starts |-> NoStart]
  /\ cancel = [c \in Cancels |-> NoCancel]
  /\ closed = {}
  /\ restarts = 0

----------------------------------------------------------------------------
(* The registry *)

\* The jobs that hold a slot of the concurrency caps.
Running == {j \in Jobs : registry[j].registered /\ ~registry[j].released}
OfOrg(org) == {j \in Running : registry[j].org = org}

Under(n, cap) == cap = 0 \/ n < cap
UnderCaps(org) ==
  /\ Under(Cardinality(Running), MaxConcurrent)
  /\ Under(Cardinality(OfOrg(org)), MaxPerOrg)

\* try_register begins with _release_finished: which jobs to ask about.
ReadLive(s, org) ==
  /\ start[s].pc = "idle"
  /\ start' = [start EXCEPT ![s] = [NoStart EXCEPT !.pc = "probe", !.org = org, !.live = Running]]
  /\ UNCHANGED <<table, registry, seq, cancel, closed, restarts>>

\* Mutant: a job with no row counts as finished.
FinishedOrAbsent(live) == {j \in live : status[j] \in Terminal \union {"absent"}}

\* The probe of the jobs table, outside the lock.
FinishedIds(live) == {j \in live : status[j] \in Terminal}

ReleaseFinished(s) ==
  /\ start[s].pc = "probe"
  /\ registry' = [j \in Jobs |-> IF j \in FinishedIds(start[s].live)
                                 THEN [registry[j] EXCEPT !.released = TRUE] ELSE registry[j]]
  /\ start' = [start EXCEPT ![s].pc = "count", ![s].live = {}]
  /\ UNCHANGED <<table, seq, cancel, closed, restarts>>

\* Count and insert under one lock; at a cap the request is answered 429.
TryRegister(s) ==
  LET id == seq + 1 IN
  /\ start[s].pc = "count" /\ UnderCaps(start[s].org) /\ id \in Jobs
  /\ seq' = id
  /\ registry' = [registry EXCEPT ![id] = [NoEntry EXCEPT !.registered = TRUE, !.org = start[s].org]]
  /\ start' = [start EXCEPT ![s].pc = "insert", ![s].id = id]
  /\ UNCHANGED <<table, cancel, closed, restarts>>

Capped(s) ==
  /\ start[s].pc = "count" /\ ~UnderCaps(start[s].org)
  /\ start' = [start EXCEPT ![s] = NoStart]
  /\ UNCHANGED <<table, registry, seq, cancel, closed, restarts>>

----------------------------------------------------------------------------
(* DbQueueExecutor.dispatch *)

InsertRow(s) ==
  /\ start[s].pc = "insert"
  /\ Table!Enqueue(start[s].id)
  /\ start' = [start EXCEPT ![s].pc = "check"]
  /\ UNCHANGED <<registry, seq, cancel, closed, restarts>>

\* The INSERT raises (a taken id, or the database is away): the request is
\* answered with an error, and the registered job stays as it is.
InsertRaises(s) ==
  /\ start[s].pc = "insert"
  /\ InsertFails \/ status[start[s].id] # "absent"
  /\ start' = [start EXCEPT ![s] = NoStart]
  /\ UNCHANGED <<table, registry, seq, cancel, closed, restarts>>

CheckCancelled(s) ==
  /\ start[s].pc = "check"
  /\ start' = [start EXCEPT ![s] = IF registry[start[s].id].cancelled
                                   THEN [@ EXCEPT !.pc = "carry"] ELSE NoStart]
  /\ UNCHANGED <<table, registry, seq, cancel, closed, restarts>>

\* Repository.cancel_job, and whether it moved a queued row.
CancelRow(j, moved) ==
  \/ Table!CancelQueued(j) /\ moved
  \/ Table!FlagLeased(j) /\ ~moved
  \/ status[j] \in Terminal /\ ~moved /\ UNCHANGED table

\* Mutant: the row's cancel is carried, its stream is left open.
CarryCancelOnly(s) ==
  /\ start[s].pc = "carry"
  /\ \E moved \in BOOLEAN : CancelRow(start[s].id, moved)
  /\ start' = [start EXCEPT ![s] = NoStart]
  /\ UNCHANGED <<registry, seq, cancel, closed, restarts>>

CarryCancel(s) ==
  /\ start[s].pc = "carry"
  /\ \E moved \in BOOLEAN :
       /\ CancelRow(start[s].id, moved)
       /\ start' = [start EXCEPT ![s] = IF moved THEN [@ EXCEPT !.pc = "close"] ELSE NoStart]
  /\ UNCHANGED <<registry, seq, cancel, closed, restarts>>

CloseCarried(s) ==
  /\ start[s].pc = "close"
  /\ closed' = closed \union {start[s].id}
  /\ start' = [start EXCEPT ![s] = NoStart]
  /\ UNCHANGED <<table, registry, seq, cancel, restarts>>

----------------------------------------------------------------------------
(* The cancel request; each thread answers one *)

LookInMemory(c, j) ==
  /\ cancel[c].pc = "idle"
  /\ cancel' = [cancel EXCEPT ![c] = [NoCancel EXCEPT !.pc = "look", !.id = j,
                                        !.known = registry[j].registered]]
  /\ UNCHANGED <<table, registry, seq, start, closed, restarts>>

Answered(c, yes) == [cancel[c] EXCEPT !.pc = "answered", !.answer = yes]

\* No row: only the in-memory Job can be stopped, if there is one.
LookForRow(c) ==
  LET j == cancel[c].id IN
  /\ cancel[c].pc = "look"
  /\ cancel' = [cancel EXCEPT ![c] =
                  IF status[j] # "absent" THEN [@ EXCEPT !.pc = "row"]
                  ELSE IF @.known THEN [@ EXCEPT !.pc = "flag"] ELSE Answered(c, None)]
  /\ UNCHANGED <<table, registry, seq, start, closed, restarts>>

FlagInMemory(c) ==
  /\ cancel[c].pc = "flag"
  /\ registry' = [registry EXCEPT ![cancel[c].id].cancelled = TRUE]
  /\ cancel' = [cancel EXCEPT ![c].pc = "reread", ![c].in_process = TRUE]
  /\ UNCHANGED <<table, seq, start, closed, restarts>>

\* Mutant: the row is not looked for a second time.
RereadNothing(c) ==
  /\ cancel[c].pc = "reread"
  /\ cancel' = [cancel EXCEPT ![c] = Answered(c, TRUE)]
  /\ UNCHANGED <<table, registry, seq, start, closed, restarts>>

RereadRow(c) ==
  /\ cancel[c].pc = "reread"
  /\ cancel' = [cancel EXCEPT ![c] = IF status[@.id] = "absent" THEN Answered(c, TRUE)
                                      ELSE [@ EXCEPT !.pc = "row"]]
  /\ UNCHANGED <<table, registry, seq, start, closed, restarts>>

CancelInTable(c) ==
  LET j == cancel[c].id
      applied == status[j] \notin Terminal IN
  /\ cancel[c].pc = "row"
  /\ \E moved \in BOOLEAN :
       /\ CancelRow(j, moved)
       /\ cancel' = [cancel EXCEPT ![c] =
                       IF ~applied THEN Answered(c, @.in_process)
                       ELSE IF @.known THEN [@ EXCEPT !.pc = "mark", !.moved = moved]
                       ELSE IF moved THEN [@ EXCEPT !.pc = "close", !.moved = TRUE]
                       ELSE Answered(c, TRUE)]
  /\ UNCHANGED <<registry, seq, start, closed, restarts>>

MarkInMemory(c) ==
  /\ cancel[c].pc = "mark"
  /\ registry' = [registry EXCEPT ![cancel[c].id].cancelled = TRUE]
  /\ cancel' = [cancel EXCEPT ![c] = IF @.moved THEN [@ EXCEPT !.pc = "close"]
                                      ELSE Answered(c, TRUE)]
  /\ UNCHANGED <<table, seq, start, closed, restarts>>

CloseCancelled(c) ==
  /\ cancel[c].pc = "close"
  /\ closed' = closed \union {cancel[c].id}
  /\ cancel' = [cancel EXCEPT ![c] = Answered(c, TRUE)]
  /\ UNCHANGED <<table, registry, seq, start, restarts>>

----------------------------------------------------------------------------
(* The workers' side of the table, and restarts *)

WorkersStep ==
  /\ \E j \in Jobs : Table!Lease(j) \/ Table!Lose(j) \/ Table!Finish(j)
  /\ UNCHANGED <<registry, seq, start, cancel, closed, restarts>>

\* Mutant: the counter starts over.
SeedNothing == seq' = 0

\* n is the highest id of a row, 0 when there is none.
MaxJobId(n) ==
  /\ n # 0 => status[n] # "absent"
  /\ \A j \in Jobs : status[j] # "absent" => j <= n

\* Before the new process answers anything; its counter starts at 0.
SeedSeq == \E n \in {0} \union Jobs : MaxJobId(n) /\ seq' = n

Restart ==
  /\ restarts < MaxRestarts
  /\ restarts' = restarts + 1
  /\ registry' = [j \in Jobs |-> NoEntry]
  /\ start' = [s \in Starts |-> NoStart]
  /\ cancel' = [c \in Cancels |-> NoCancel]
  /\ SeedSeq
  /\ UNCHANGED <<table, closed>>

----------------------------------------------------------------------------
StartStep(s) ==
  \/ ReleaseFinished(s) \/ TryRegister(s) \/ Capped(s)
  \/ InsertRow(s) \/ InsertRaises(s) \/ CheckCancelled(s) \/ CarryCancel(s) \/ CloseCarried(s)

CancelStep(c) ==
  \/ LookForRow(c) \/ FlagInMemory(c) \/ RereadRow(c)
  \/ CancelInTable(c) \/ MarkInMemory(c) \/ CloseCancelled(c)

Next ==
  \/ \E s \in Starts : StartStep(s) \/ \E org \in Orgs : ReadLive(s, org)
  \/ \E c \in Cancels : CancelStep(c) \/ \E j \in Jobs : LookInMemory(c, j)
  \/ WorkersStep
  \/ Restart

Fairness ==
  /\ \A s \in Starts : WF_vars(StartStep(s))
  /\ \A c \in Cancels : WF_vars(CancelStep(c))

Spec == Init /\ [][Next]_vars
FairSpec == Spec /\ Fairness

----------------------------------------------------------------------------
(* Properties *)

\* However many start requests race, with whatever stale probes, the jobs in
\* flight stay within both caps ("counting and inserting atomically under the
\* lock so two concurrent dispatches can't both slip past a cap").
CapsHold ==
  LET inFlight == {j \in Jobs : registry[j].registered /\ status[j] \notin Terminal} IN
  /\ MaxConcurrent > 0 => Cardinality(inFlight) <= MaxConcurrent
  /\ MaxPerOrg > 0 => \A org \in Orgs :
       Cardinality({j \in inFlight : registry[j].org = org}) <= MaxPerOrg

\* A cancel answered true is never lost between registration and the INSERT:
\* the row is over or flagged, or the request that inserts it is still on its
\* way to look at the job, or its INSERT failed and there is no row to run.
CancelReachesTheRow ==
  \A c \in Cancels : cancel[c].pc = "answered" /\ cancel[c].answer = TRUE =>
    LET j == cancel[c].id
        looking == \E s \in Starts :
                     start[s].id = j /\ start[s].pc \in {"insert", "check", "carry"} IN
      \/ status[j] \in Terminal
      \/ status[j] = "leased" /\ cancel_requested[j]
      \/ registry[j].cancelled /\ looking
      \/ status[j] = "absent" /\ ~looking

\* A fresh id never meets a row, across restarts of the one server process.
IdsAreFresh ==
  \A s \in Starts : start[s].pc = "insert" => status[start[s].id] = "absent"

\* No worker posts a result for a job cancelled before it was ever leased:
\* whichever request ended the row closes the job's live stream, unless the
\* server that serves the stream stops first.
CancelledStreamCloses ==
  \A j \in Jobs : status[j] = "cancelled" /\ leases[j] = 0 ~> j \in closed \/ restarts > 0
=============================================================================
