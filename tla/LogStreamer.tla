---------------------------- MODULE LogStreamer -----------------------------
(***************************************************************************)
(* The worker's `_LogStreamer`: the run's thread adds lines, a timed       *)
(* thread posts them in batches, and the heartbeat's thread stops it once  *)
(* the run is over and flushes the rest within a budget.  `pending` is     *)
(* guarded by one lock and a whole flush by another, so taking the batch,  *)
(* adding a line, putting lines back and one turn of the flush loop are    *)
(* each a step.                                                            *)
(***************************************************************************)
EXTENDS Naturals, Sequences, SequencesExt

CONSTANTS
  MaxPending,   \* _LOG_MAX_PENDING
  MaxBatch,     \* WORKER_LOG_MAX_LINES
  MaxLines,     \* how many lines the run prints (bounds the state space)
  MaxFaults     \* how often a post or the final budget fails (bounds it too)

ASSUME StreamerAssumption ==
  /\ MaxPending \in Nat \ {0} /\ MaxBatch \in Nat \ {0}
  /\ MaxLines \in Nat /\ MaxFaults \in Nat

VARIABLES
  printed,    \* lines the run printed; line n is the number n
  pending,    \* _pending
  dropped,    \* _dropped
  flush,      \* per flushing thread: its pc and what is left of its batch
  stop,       \* _stop
  tail,       \* the `flush` argument of stop
  lost,       \* _lost: the log route answered 409
  disabled,   \* _disabled: the control plane has no log route
  posted,     \* history: the lines put on the wire, in order
  faults      \* history: posts refused or unanswered, and budgets run out

vars == <<printed, pending, dropped, flush, stop, tail, lost, disabled, posted, faults>>

\* The timed thread and the caller of stop.
Flushers == {"timed", "final"}

Lines == Seq(1..MaxLines)

TypeOK ==
  /\ printed \in 0..MaxLines /\ dropped \in 0..MaxLines /\ faults \in 0..MaxFaults
  /\ ~stop => Len(pending) <= MaxPending
  /\ pending \in Lines /\ posted \in Lines
  /\ flush \in [Flushers -> [pc : {"waiting", "flushing", "over"}, batch : Lines]]
  /\ stop \in BOOLEAN /\ tail \in BOOLEAN /\ lost \in BOOLEAN /\ disabled \in BOOLEAN

Init ==
  /\ printed = 0 /\ dropped = 0 /\ faults = 0
  /\ pending = << >> /\ posted = << >>
  /\ flush = [f \in Flushers |-> [pc |-> "waiting", batch |-> << >>]]
  /\ stop = FALSE /\ tail = FALSE /\ lost = FALSE /\ disabled = FALSE

\* Mutant: one line more than the cap.
NewestAndOne(lines) == SubSeq(lines, Len(lines) - MaxPending, Len(lines))

\* The newest lines within the cap.
Newest(lines) == SubSeq(lines, Len(lines) - MaxPending + 1, Len(lines))

\* The tail is asked for only once the run's thread has ended.
Add ==
  LET queued == Append(pending, printed + 1)
      over == Len(queued) > MaxPending IN
  /\ ~(stop /\ tail) /\ printed < MaxLines
  /\ printed' = printed + 1
  /\ IF lost \/ disabled THEN UNCHANGED <<pending, dropped>>
     ELSE /\ pending' = IF over THEN Newest(queued) ELSE queued
          /\ dropped' = IF over THEN dropped + (Len(queued) - MaxPending) ELSE dropped
  /\ UNCHANGED <<flush, stop, tail, lost, disabled, posted, faults>>

\* Mutant: the thread does not look at stop.
TimedForever ==
  /\ flush["timed"].pc = "waiting"
  /\ flush' = [flush EXCEPT !["timed"] = [pc |-> "flushing", batch |-> pending]]
  /\ pending' = << >>
  /\ UNCHANGED <<printed, dropped, stop, tail, lost, disabled, posted, faults>>

\* _run: the next interval is up.
TimedFlush ==
  /\ flush["timed"].pc = "waiting" /\ ~stop
  /\ flush' = [flush EXCEPT !["timed"] = [pc |-> "flushing", batch |-> pending]]
  /\ pending' = << >>
  /\ UNCHANGED <<printed, dropped, stop, tail, lost, disabled, posted, faults>>

\* _run: the wait was ended by stop.
TimedOver ==
  /\ flush["timed"].pc = "waiting" /\ stop
  /\ flush' = [flush EXCEPT !["timed"].pc = "over"]
  /\ UNCHANGED <<printed, pending, dropped, stop, tail, lost, disabled, posted, faults>>

\* The run is over: a lost lease, or a heartbeat that raised, posts no tail.
Stop(last) ==
  /\ ~stop
  /\ stop' = TRUE /\ tail' = last
  /\ UNCHANGED <<printed, pending, dropped, flush, lost, disabled, posted, faults>>

\* stop joined the timed thread.
FinalFlush ==
  /\ stop /\ flush["timed"].pc = "over" /\ flush["final"].pc = "waiting"
  /\ IF tail THEN /\ flush' = [flush EXCEPT !["final"] = [pc |-> "flushing", batch |-> pending]]
                  /\ pending' = << >>
     ELSE flush' = [flush EXCEPT !["final"].pc = "over"] /\ UNCHANGED pending
  /\ UNCHANGED <<printed, dropped, stop, tail, lost, disabled, posted, faults>>

----------------------------------------------------------------------------
(* One turn of the loop in flush *)

\* The flush returns, with whatever of its batch it did not post.
Return(f) ==
  flush' = [flush EXCEPT ![f] = [pc |-> IF f = "timed" THEN "waiting" ELSE "over", batch |-> << >>]]

\* A background flush yields to stop.
Yields(f) == f = "timed" /\ stop

FlushEnds(f) ==
  /\ flush[f].pc = "flushing"
  /\ flush[f].batch = << >> \/ lost \/ disabled
  /\ Return(f)
  /\ UNCHANGED <<printed, pending, dropped, stop, tail, lost, disabled, posted, faults>>

\* Mutant: the lines go to the back of the queue.
PutLast(f) ==
  /\ flush[f].pc = "flushing" /\ flush[f].batch # << >> /\ ~lost /\ ~disabled /\ Yields(f)
  /\ pending' = pending \o flush[f].batch
  /\ Return(f)
  /\ UNCHANGED <<printed, dropped, stop, tail, lost, disabled, posted, faults>>

\* Mutant: the lines are dropped.
PutNothing(f) ==
  /\ flush[f].pc = "flushing" /\ flush[f].batch # << >> /\ ~lost /\ ~disabled /\ Yields(f)
  /\ Return(f)
  /\ UNCHANGED <<printed, pending, dropped, stop, tail, lost, disabled, posted, faults>>

PutBack(f) ==
  /\ flush[f].pc = "flushing" /\ flush[f].batch # << >> /\ ~lost /\ ~disabled /\ Yields(f)
  /\ pending' = flush[f].batch \o pending
  /\ Return(f)
  /\ UNCHANGED <<printed, dropped, stop, tail, lost, disabled, posted, faults>>

OutOfTime(f) ==
  /\ f = "final" /\ flush[f].pc = "flushing" /\ flush[f].batch # << >> /\ ~lost /\ ~disabled
  /\ faults < MaxFaults /\ faults' = faults + 1
  /\ Return(f)
  /\ UNCHANGED <<printed, pending, dropped, stop, tail, lost, disabled, posted>>

\* One post of n lines (_post_end); the batch goes on behind it.
Posts(f, n) ==
  /\ flush[f].pc = "flushing" /\ ~lost /\ ~disabled /\ ~Yields(f)
  /\ n \in 1..Len(flush[f].batch)
  /\ posted' = posted \o SubSeq(flush[f].batch, 1, n)

Rest(f, n) == SubSeq(flush[f].batch, n + 1, Len(flush[f].batch))

Posted(f, n) ==
  /\ Posts(f, n)
  /\ flush' = [flush EXCEPT ![f].batch = Rest(f, n)]
  /\ UNCHANGED <<printed, pending, dropped, stop, tail, lost, disabled, faults>>

\* A refusal that ends the lease, a missing route, or no answer: the rest of
\* the batch is dropped.  Any other answer (a 413, a 500) goes on.
PostFails(f, n) ==
  /\ Posts(f, n)
  /\ faults < MaxFaults /\ faults' = faults + 1
  /\ \/ lost' = TRUE /\ Return(f) /\ UNCHANGED disabled
     \/ disabled' = TRUE /\ Return(f) /\ UNCHANGED lost
     \/ Return(f) /\ UNCHANGED <<lost, disabled>>
     \/ flush' = [flush EXCEPT ![f].batch = Rest(f, n)] /\ UNCHANGED <<lost, disabled>>
  /\ UNCHANGED <<printed, pending, dropped, stop, tail>>

FlushStep(f) ==
  \/ FlushEnds(f) \/ PutBack(f) \/ OutOfTime(f)
  \/ \E n \in 1..MaxBatch : Posted(f, n) \/ PostFails(f, n)

Stopped == flush["final"].pc = "over" /\ UNCHANGED vars

Next ==
  \/ Add \/ TimedFlush \/ TimedOver \/ FinalFlush
  \/ \E last \in BOOLEAN : Stop(last)
  \/ \E f \in Flushers : FlushStep(f)
  \/ Stopped

Fairness ==
  /\ WF_vars(TimedOver) /\ WF_vars(FinalFlush)
  /\ \A f \in Flushers : WF_vars(FlushStep(f))

Spec == Init /\ [][Next]_vars
FairSpec == Spec /\ Fairness

----------------------------------------------------------------------------
(* Properties *)

Wire == INSTANCE OrderedLog WITH arrived <- posted

\* However the timed flush, its yield to stop and the final flush meet the
\* lines being added, "the server receives lines in the order the run printed
\* them", and none twice.
PostsInOrder == Wire!Spec

\* When no post failed, no line overflowed and the tail was asked for, every
\* line of the run was posted before stop returns, ahead of the result.
TailIsComplete ==
  flush["final"].pc = "over" /\ tail /\ faults = 0 /\ dropped = 0 =>
    posted = [n \in 1..printed |-> n]

\* Nothing the run printed is missing from what the result follows.
StreamIsWhole == TypeOK /\ TailIsComplete

\* stop waits for the timed thread, and a backlog never keeps it: it returns.
StopReturns == stop ~> flush["final"].pc = "over"
=============================================================================
