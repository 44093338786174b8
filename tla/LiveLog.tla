------------------------------ MODULE LiveLog -------------------------------
(***************************************************************************)
(* The server's live log on one replica: the log route tests the lease,    *)
(* spends the job's live budget and publishes to the in-memory bus; the    *)
(* result route closes the job's stream; viewers stream from the bus, poll *)
(* the jobs table while it is quiet and fall back to the uploaded          *)
(* console.log; finished jobs' channels are evicted.  Requests run on the  *)
(* server's threads, and the budget, a channel and the eviction order have *)
(* a lock each, so every use of one is a step.  A channel discarded under  *)
(* a viewer stays readable to it, as the Python object does.               *)
(***************************************************************************)
EXTENDS Naturals, Sequences, SequencesExt

CONSTANTS
  Jobs,
  Posts,         \* server threads that answer the log route
  Viewers,
  Output,        \* per job: the sizes of the lines an attempt prints
  MaxBatch,      \* lines of one post
  MaxAttempts,
  LinesPerJob,   \* DEFAULT_LIVE_LINES_PER_JOB
  BytesPerJob,   \* DEFAULT_LIVE_BYTES_PER_JOB
  MaxTracked,    \* _MAX_TRACKED_JOBS
  KeepClosed,    \* _KEEP_CLOSED
  Notice         \* LIVE_LOG_TRUNCATED

ASSUME LiveLogAssumption ==
  /\ \A j \in Jobs : Output[j] \in Seq(Nat \ {0})
  /\ \A n \in {MaxBatch, MaxAttempts, LinesPerJob, BytesPerJob} : n \in Nat
  /\ MaxTracked \in Nat \ {0} /\ KeepClosed \in Nat \ {0}

VARIABLES
  row,        \* per job: its status and the attempt that holds, or last held, the lease
  sent,       \* per job: the lines the current attempt's worker has posted
  late,       \* history: jobs one of whose posts outlived the worker's timeout or lease
  console,    \* per job: the uploaded console.log
  post,       \* per log request: its locals
  used,       \* LiveLineBudget._used: lines and bytes per job
  counted,    \* ... and its order, oldest first
  truncated,  \* LiveLineBudget._truncated
  forgotten,  \* history: jobs whose truncation the bound on the order dropped
  channels,   \* per job: every channel made for it
  current,    \* per job: the channel the bus holds, 0 for none
  tracked,    \* QueueLogBus._closed: its jobs, oldest first
  finished,   \* ... and those marked finished
  ender,      \* per job: the result request that ended it
  viewer      \* per viewer: its stream's locals

table == <<row, sent, late, console>>
budget == <<used, counted, truncated, forgotten>>
bus == <<channels, current>>
eviction == <<tracked, finished>>
vars == <<table, post, budget, bus, eviction, ender, viewer>>

Line == [attempt : 1..MaxAttempts, n : Nat, size : Nat]
Over == {"over", "failed"}
NoChannel == [lines |-> << >>, closed |-> FALSE]
NoPost == [pc |-> "idle", job |-> 0, attempt |-> 0, lines |-> << >>, victims |-> << >>]
NoUse == [lines |-> 0, bytes |-> 0]

ASSUME NoticeAssumption == Notice \notin Line

TypeOK ==
  /\ row \in [Jobs -> [status : {"queued", "leased"} \union Over, attempt : 0..MaxAttempts]]
  /\ \A j \in Jobs : sent[j] \in Seq(Line) /\ console[j] \in Seq(Line)
  /\ \A p \in Posts : /\ post[p].pc \in {"idle", "test", "admit", "publish", "track", "discard"}
                      /\ post[p].lines \in Seq(Line \union {Notice})
  /\ used \in [Jobs -> [lines : 0..LinesPerJob, bytes : 0..BytesPerJob]]
  /\ late \subseteq Jobs /\ ToSet(counted) \subseteq Jobs /\ truncated \subseteq Jobs
  /\ \A j \in Jobs : current[j] \in 0..Len(channels[j])
  /\ ToSet(tracked) \subseteq Jobs /\ finished \subseteq ToSet(tracked)
  /\ \A j \in Jobs : ender[j].pc \in {"none", "close", "retire", "discard", "forget", "over"}
  /\ \A v \in Viewers :
       viewer[v].pc \in {"idle", "attach", "read", "poll", "retire", "discard", "fallback",
                         "over", "gone"}

Init ==
  /\ row = [j \in Jobs |-> [status |-> "queued", attempt |-> 0]]
  /\ sent = [j \in Jobs |-> << >>] /\ late = {} /\ console = [j \in Jobs |-> << >>]
  /\ post = [p \in Posts |-> NoPost]
  /\ used = [j \in Jobs |-> NoUse] /\ counted = << >> /\ truncated = {} /\ forgotten = {}
  /\ channels = [j \in Jobs |-> << >>] /\ current = [j \in Jobs |-> 0]
  /\ tracked = << >> /\ finished = {}
  /\ ender = [j \in Jobs |-> [pc |-> "none", victims |-> << >>]]
  /\ viewer = [v \in Viewers |-> [pc |-> "idle", job |-> 0, channel |-> 0, read |-> 0,
                                  ending |-> FALSE, got |-> << >>, victims |-> << >>]]

\* An order without the jobs that leave it.
Without(order, gone) ==
  LET kept[i \in 0..Len(order)] ==
        IF i = 0 THEN << >>
        ELSE IF order[i] \in gone THEN kept[i - 1] ELSE Append(kept[i - 1], order[i])
  IN kept[Len(order)]

----------------------------------------------------------------------------
(* The jobs table, as the workers and the sweep move it (module JobQueue) *)

\* A log request of the attempt that holds the lease is under way.
InFlight(j) ==
  \E p \in Posts : post[p].pc # "idle" /\ post[p].job = j /\ post[p].attempt = row[j].attempt

Lease(j) ==
  /\ row[j].status = "queued" /\ row[j].attempt < MaxAttempts
  /\ row' = [row EXCEPT ![j] = [status |-> "leased", attempt |-> @.attempt + 1]]
  /\ sent' = [sent EXCEPT ![j] = << >>]
  /\ UNCHANGED <<late, console, post, budget, bus, eviction, ender, viewer>>

\* A lost lease; at the attempt cap the job fails and no stream is closed.
Reclaim(j) ==
  /\ row[j].status = "leased"
  /\ row' = [row EXCEPT ![j].status = IF row[j].attempt = MaxAttempts
                                      THEN "failed" ELSE "queued"]
  /\ late' = IF InFlight(j) THEN late \union {j} ELSE late
  /\ UNCHANGED <<sent, console, post, budget, bus, eviction, ender, viewer>>

\* The worker posts lines once the last post was answered or given up.
Send(p, j, n) ==
  LET first == Len(sent[j])
      lines == [i \in 1..n |-> [attempt |-> row[j].attempt, n |-> first + i, size |-> Output[j][first + i]]] IN
  /\ post[p].pc = "idle" /\ row[j].status = "leased"
  /\ late' = IF InFlight(j) THEN late \union {j} ELSE late
  /\ first + n <= Len(Output[j])
  /\ sent' = [sent EXCEPT ![j] = @ \o lines]
  /\ post' = [post EXCEPT ![p] = [pc |-> "test", job |-> j, attempt |-> row[j].attempt,
                                  lines |-> lines, victims |-> << >>]]
  /\ UNCHANGED <<row, console, budget, bus, eviction, ender, viewer>>

\* The result is applied to the row; console.log was uploaded before it, or
\* the upload failed.
Result(j, stored) ==
  /\ row[j].status = "leased"
  /\ late' = IF InFlight(j) THEN late \union {j} ELSE late
  /\ row' = [row EXCEPT ![j].status = "over"]
  /\ console' = [console EXCEPT ![j] = IF stored THEN sent[j] ELSE << >>]
  /\ \/ ender' = [ender EXCEPT ![j].pc = "close"]
     \/ ender' = [ender EXCEPT ![j].pc = "over"]   \* another replica closes its own bus
  /\ UNCHANGED <<sent, post, budget, bus, eviction, viewer>>

----------------------------------------------------------------------------
(* LiveLineBudget *)

\* The bytes of the first k lines.
Bytes(lines, k) ==
  LET sum[i \in 0..k] == IF i = 0 THEN 0 ELSE sum[i - 1] + lines[i].size IN sum[k]

\* Mutant: a line is let through while the caps are not yet reached.
FitsLate(u, lines, k) ==
  \/ k = 0
  \/ /\ u.lines + k <= LinesPerJob
     /\ u.bytes + Bytes(lines, k - 1) < BytesPerJob

\* How many of the lines, from the front, fit under both caps.
Fits(u, lines, k) ==
  /\ u.lines + k <= LinesPerJob
  /\ u.bytes + Bytes(lines, k) <= BytesPerJob
Allowed(u, lines) == CHOOSE k \in 0..Len(lines) :
  Fits(u, lines, k) /\ \A m \in (k + 1)..Len(lines) : ~Fits(u, lines, m)

Spent(u, lines, k) ==
  [lines |-> u.lines + k,
   bytes |-> u.bytes + Bytes(lines, k)]

\* Mutant: a job past its caps is weighed again for every batch.
AdmitAgain(p) ==
  LET j == post[p].job
      lines == post[p].lines
      k == Allowed(used[j], lines) IN
  /\ post[p].pc = "admit"
  /\ post' = [post EXCEPT ![p].pc = "publish", ![p].lines =
                IF k < Len(lines) /\ j \notin truncated THEN Append(SubSeq(lines, 1, k), Notice)
                ELSE SubSeq(lines, 1, k)]
  /\ used' = [used EXCEPT ![j] = Spent(@, lines, k)]
  /\ truncated' = IF k < Len(lines) THEN truncated \union {j} ELSE truncated
  /\ UNCHANGED <<table, counted, forgotten, bus, eviction, ender, viewer>>

\* admit: the job moves to the end of the order; past the bound the oldest
\* job's counts, and the note that it was truncated, are dropped.
Admit(p) ==
  LET j == post[p].job
      lines == post[p].lines
      k == Allowed(used[j], lines)
      order == Append(Without(counted, {j}), j)
      evicted == IF Len(order) > MaxTracked THEN {Head(order)} ELSE {} IN
  /\ post[p].pc = "admit"
  /\ IF j \in truncated
     THEN /\ post' = [post EXCEPT ![p].pc = "publish", ![p].lines = << >>]
          /\ UNCHANGED budget
     ELSE /\ post' = [post EXCEPT ![p].pc = "publish", ![p].lines =
                        SubSeq(lines, 1, k) \o IF k < Len(lines) THEN <<Notice>> ELSE << >>]
          /\ used' = [x \in Jobs |-> IF x \in evicted THEN NoUse
                                     ELSE IF x = j THEN Spent(used[j], lines, k) ELSE used[x]]
          /\ counted' = Without(order, evicted)
          /\ forgotten' = forgotten \union (evicted \intersect truncated)
          /\ truncated' = (truncated \ evicted) \union IF k < Len(lines) THEN {j} ELSE {}
  /\ UNCHANGED <<table, bus, eviction, ender, viewer>>

Forget(j) ==
  /\ ender[j].pc = "forget"
  /\ ender' = [ender EXCEPT ![j].pc = "over"]
  /\ used' = [used EXCEPT ![j] = NoUse]
  /\ counted' = Without(counted, {j})
  /\ truncated' = truncated \ {j}
  /\ UNCHANGED <<table, post, forgotten, bus, eviction, viewer>>

----------------------------------------------------------------------------
(* The bus and its eviction order *)

\* InMemoryLogBus._chan: the job's channel, made if there is none.
Channel(j) == IF current[j] = 0 THEN Len(channels[j]) + 1 ELSE current[j]
Made(j) == IF current[j] = 0 THEN Append(channels[j], NoChannel) ELSE channels[j]

Discard(victims) == current' = [j \in Jobs |-> IF j \in ToSet(victims) THEN 0 ELSE current[j]]

\* The oldest finished job, or the oldest of all when none is finished.
Victim(order, done) ==
  IF \E i \in 1..Len(order) : order[i] \in done
  THEN order[CHOOSE i \in 1..Len(order) :
               order[i] \in done /\ \A k \in 1..(i - 1) : order[k] \notin done]
  ELSE Head(order)

\* _evict; every caller adds at most one job, so at most one is past the bound.
Evicted(order, done) == IF Len(order) > KeepClosed THEN <<Victim(order, done)>> ELSE << >>

Ordered(order, done) ==
  LET gone == ToSet(Evicted(order, done)) IN
  /\ tracked' = Without(order, gone)
  /\ finished' = done \ gone

\* _retire(j), and the jobs it evicts.
Retired(j) == Append(Without(tracked, {j}), j)
Retire(j) == Ordered(Retired(j), finished \union {j})
RetireEvicts(j) == Evicted(Retired(j), finished \union {j})

----------------------------------------------------------------------------
(* worker_log *)

TestLease(p) ==
  LET j == post[p].job IN
  /\ post[p].pc = "test"
  /\ post' = [post EXCEPT ![p] =
                IF row[j].status = "leased" /\ row[j].attempt = @.attempt
                THEN [@ EXCEPT !.pc = "admit"] ELSE NoPost]
  /\ UNCHANGED <<table, budget, bus, eviction, ender, viewer>>

Publish(p) ==
  LET j == post[p].job IN
  /\ post[p].pc = "publish"
  /\ channels' = [channels EXCEPT ![j] = [Made(j) EXCEPT ![Channel(j)].lines = @ \o post[p].lines]]
  /\ current' = [current EXCEPT ![j] = Channel(j)]
  /\ post' = [post EXCEPT ![p].pc = "track"]
  /\ UNCHANGED <<table, budget, eviction, ender, viewer>>

\* Mutant: only a job's close enters it in the order.
TrackNothing(p) ==
  /\ post[p].pc = "track"
  /\ post' = [post EXCEPT ![p] = NoPost]
  /\ UNCHANGED <<table, budget, bus, eviction, ender, viewer>>

Track(p) ==
  LET j == post[p].job
      order == Append(tracked, j) IN
  /\ post[p].pc = "track"
  /\ IF j \in ToSet(tracked) THEN post' = [post EXCEPT ![p] = NoPost] /\ UNCHANGED eviction
     ELSE /\ Ordered(order, finished)
          /\ post' = [post EXCEPT ![p].pc = "discard", ![p].victims = Evicted(order, finished)]
  /\ UNCHANGED <<table, budget, bus, ender, viewer>>

PostDiscards(p) ==
  /\ post[p].pc = "discard"
  /\ Discard(post[p].victims)
  /\ post' = [post EXCEPT ![p] = NoPost]
  /\ UNCHANGED <<table, budget, channels, eviction, ender, viewer>>

----------------------------------------------------------------------------
(* worker_result, after the row was written *)

Close(j) ==
  /\ ender[j].pc = "close"
  /\ channels' = [channels EXCEPT ![j] = [Made(j) EXCEPT ![Channel(j)].closed = TRUE]]
  /\ current' = [current EXCEPT ![j] = Channel(j)]
  /\ ender' = [ender EXCEPT ![j].pc = "retire"]
  /\ UNCHANGED <<table, post, budget, eviction, viewer>>

CloseRetires(j) ==
  /\ ender[j].pc = "retire"
  /\ Retire(j)
  /\ ender' = [ender EXCEPT ![j] = [pc |-> "discard", victims |-> RetireEvicts(j)]]
  /\ UNCHANGED <<table, post, budget, bus, viewer>>

CloseDiscards(j) ==
  /\ ender[j].pc = "discard"
  /\ Discard(ender[j].victims)
  /\ ender' = [ender EXCEPT ![j] = [pc |-> "forget", victims |-> << >>]]
  /\ UNCHANGED <<table, post, budget, channels, eviction, viewer>>

----------------------------------------------------------------------------
(* QueueLogBus.stream *)

IsOver(j) == row[j].status \in Over
Unread(v) ==
  LET lines == channels[viewer[v].job][viewer[v].channel].lines IN
  SubSeq(lines, viewer[v].read + 1, Len(lines))

\* A finished job with a stored log is replayed from it.
Subscribe(v, j) ==
  /\ viewer[v].pc = "idle"
  /\ viewer' = [viewer EXCEPT ![v] =
                  IF IsOver(j) /\ console[j] # << >>
                  THEN [@ EXCEPT !.pc = "over", !.job = j, !.got = console[j]]
                  ELSE [@ EXCEPT !.pc = "attach", !.job = j]]
  /\ UNCHANGED <<table, post, budget, bus, eviction, ender>>

Attach(v) ==
  LET j == viewer[v].job IN
  /\ viewer[v].pc = "attach"
  /\ channels' = [channels EXCEPT ![j] = Made(j)]
  /\ current' = [current EXCEPT ![j] = Channel(j)]
  /\ viewer' = [viewer EXCEPT ![v].pc = "read", ![v].channel = Channel(j)]
  /\ UNCHANGED <<table, post, budget, eviction, ender>>

\* New lines, the end of a closed channel, or a quiet poll interval.
Read(v) ==
  LET batch == Unread(v)
      closed == channels[viewer[v].job][viewer[v].channel].closed IN
  /\ viewer[v].pc = "read"
  /\ viewer' = [viewer EXCEPT ![v] =
                  IF batch # << >>
                  THEN [@ EXCEPT !.got = viewer[v].got \o batch, !.read = viewer[v].read + Len(batch)]
                  ELSE [@ EXCEPT !.pc = IF closed \/ viewer[v].ending THEN "retire" ELSE "poll"]]
  /\ UNCHANGED <<table, post, budget, bus, eviction, ender>>

\* Mutant: a terminal row ends the stream at once.
PollEnds(v) ==
  /\ viewer[v].pc = "poll"
  /\ viewer' = [viewer EXCEPT ![v].pc = IF IsOver(viewer[v].job) THEN "retire" ELSE "read"]
  /\ UNCHANGED <<table, post, budget, bus, eviction, ender>>

\* Mutant: an idle stream does not look at the jobs table.
PollNothing(v) ==
  /\ viewer[v].pc = "poll"
  /\ viewer' = [viewer EXCEPT ![v].pc = "read"]
  /\ UNCHANGED <<table, post, budget, bus, eviction, ender>>

\* _terminal: one more pass over the bus, then the end.
Poll(v) ==
  /\ viewer[v].pc = "poll"
  /\ viewer' = [viewer EXCEPT ![v].pc = "read", ![v].ending = IsOver(viewer[v].job)]
  /\ UNCHANGED <<table, post, budget, bus, eviction, ender>>

ViewerRetires(v) ==
  LET j == viewer[v].job IN
  /\ viewer[v].pc = "retire"
  /\ Retire(j)
  /\ viewer' = [viewer EXCEPT ![v].pc = "discard", ![v].victims = RetireEvicts(j)]
  /\ UNCHANGED <<table, post, budget, bus, ender>>

ViewerDiscards(v) ==
  /\ viewer[v].pc = "discard"
  /\ Discard(viewer[v].victims)
  /\ viewer' = [viewer EXCEPT ![v].pc = "fallback", ![v].victims = << >>]
  /\ UNCHANGED <<table, post, budget, channels, eviction, ender>>

\* Mutant: the stored log follows whatever was streamed.
FallBackAlways(v) ==
  /\ viewer[v].pc = "fallback"
  /\ viewer' = [viewer EXCEPT ![v].pc = "over",
                              ![v].got = @ \o IF IsOver(viewer[v].job) THEN console[viewer[v].job]
                                              ELSE << >>]
  /\ UNCHANGED <<table, post, budget, bus, eviction, ender>>

\* When not one live line reached the viewer, the stored log is replayed.
FallBack(v) ==
  /\ viewer[v].pc = "fallback"
  /\ viewer' = [viewer EXCEPT ![v].pc = "over",
                              ![v].got = IF @ = << >> /\ IsOver(viewer[v].job)
                                         THEN console[viewer[v].job] ELSE @]
  /\ UNCHANGED <<table, post, budget, bus, eviction, ender>>

\* The page goes away: the stream is closed where it waits.
Disconnect(v) ==
  /\ viewer[v].pc \in {"read", "poll"}
  /\ viewer' = [viewer EXCEPT ![v].pc = "gone"]
  /\ UNCHANGED <<table, post, budget, bus, eviction, ender>>

----------------------------------------------------------------------------
PostStep(p) == TestLease(p) \/ Admit(p) \/ Publish(p) \/ Track(p) \/ PostDiscards(p)
EnderStep(j) == Close(j) \/ CloseRetires(j) \/ CloseDiscards(j) \/ Forget(j)
ViewerStep(v) ==
  \/ Attach(v) \/ Read(v) \/ Poll(v) \/ ViewerRetires(v) \/ ViewerDiscards(v) \/ FallBack(v)

Next ==
  \/ \E j \in Jobs : \/ Lease(j) \/ Reclaim(j) \/ EnderStep(j)
                     \/ \E stored \in BOOLEAN : Result(j, stored)
                     \/ \E p \in Posts, n \in 1..MaxBatch : Send(p, j, n)
                     \/ \E v \in Viewers : Subscribe(v, j)
  \/ \E p \in Posts : PostStep(p)
  \/ \E v \in Viewers : ViewerStep(v) \/ Disconnect(v)

Fairness ==
  /\ \A p \in Posts : WF_vars(PostStep(p))
  /\ \A j \in Jobs : WF_vars(EnderStep(j))
  /\ \A v \in Viewers : WF_vars(ViewerStep(v))

Spec == Init /\ [][Next]_vars
FairSpec == Spec /\ Fairness
----------------------------------------------------------------------------
(* Properties *)

\* "A smaller later line that would still fit under the byte cap must not
\* appear after the notice that ended the live log" (LiveLineBudget.admit).
NoLineAfterNotice ==
  \A j \in Jobs \ (late \union forgotten) : \A c \in 1..Len(channels[j]) :
    LET lines == channels[j][c].lines IN
    \A i \in 1..Len(lines) : lines[i] = Notice => i = Len(lines)

\* A viewer never sees a line twice: console.log is not replayed behind live
\* lines, whichever way the stream ended and whatever was evicted meanwhile.
NoLineTwice == \A v \in Viewers :
  LET got == viewer[v].got IN
  \A i, k \in 1..Len(got) : got[i] = got[k] /\ got[i] # Notice => i = k

\* A stream that ran to its end gave its viewer every line on its channel,
\* when the worker's posts were answered before its result: closed or not,
\* one more pass picks up what came after the last idle tick.
StreamIsDrained == \A v \in Viewers :
  LET j == viewer[v].job IN
  viewer[v].pc = "over" /\ viewer[v].channel # 0 /\ row[j].status = "over" /\ j \notin late =>
    \/ viewer[v].got = channels[j][viewer[v].channel].lines
    \/ viewer[v].read = 0 /\ viewer[v].got = console[j]

\* The live backlog does not grow for the server's lifetime: every channel
\* that holds lines is in the eviction order, or a request under way is about
\* to enter or to discard it.
BacklogIsTracked == \A j \in Jobs :
  current[j] # 0 /\ channels[j][current[j]].lines # << >> =>
    \/ j \in ToSet(tracked)
    \/ \E p \in Posts : post[p].pc = "track" /\ post[p].job = j
    \/ \E p \in Posts : j \in ToSet(post[p].victims)
    \/ \E k \in Jobs : j \in ToSet(ender[k].victims)
    \/ \E v \in Viewers : j \in ToSet(viewer[v].victims)

\* "So the bound is about memory": neither order outgrows its bound, also when
\* several requests evict at once.
OrdersAreBounded == Len(counted) <= MaxTracked /\ Len(tracked) <= KeepClosed

\* The bus holds what the budget admitted, and forgets it in the end.
BusIsSound == TypeOK /\ NoLineAfterNotice /\ BacklogIsTracked /\ OrdersAreBounded

\* A viewer gets each line of the log it attached to, once.
ViewersSeeTheLog == StreamIsDrained /\ NoLineTwice

\* Once a job is over every viewer's stream ends, also when nobody closes it
\* (a reclaim at the attempt cap, a result on another replica) and when its
\* channel was evicted under the viewer.
StreamsEnd == \A v \in Viewers, j \in Jobs :
  viewer[v].job = j /\ IsOver(j) ~> viewer[v].pc \in {"over", "gone"}
=============================================================================
