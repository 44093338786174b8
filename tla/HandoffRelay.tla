---------------------------- MODULE HandoffRelay ----------------------------
(***************************************************************************)
(* A `record` on a worker pauses for a person: it prints a request, the    *)
(* worker's HandoffRelay posts it to the server and polls for the answer   *)
(* on a thread per request, pages show the request and answer it, and the  *)
(* relay writes the answer to the record's standard input.  Every HTTP     *)
(* answer to the worker may be lost, the record stops waiting on its own,  *)
(* and the job may be cancelled, lose its lease or end at any time.        *)
(***************************************************************************)
EXTENDS Naturals, Sequences, FiniteSets

CONSTANTS
  Pages,         \* browser pages that watch the job
  MaxRequests,   \* how often the record pauses (bounds the state space)
  MaxLost        \* HTTP answers that get lost (bounds it too)

ASSUME RelayAssumption == MaxRequests \in Nat /\ MaxLost \in Nat

Requests == 1..MaxRequests

VARIABLES
  record,      \* the record: its pc, the request it waits on, the answer it read
  stdout,      \* the request lines it printed that the worker has not read
  stdin,       \* the answers written to it that it has not read
  generation,  \* HandoffRelay._generation
  relay,       \* per request: where its thread is, and the answer it carries
  stopped,     \* HandoffRelay._stop
  row,         \* the job's row: its lease, its cancel flag and the handoff columns
  shown,       \* the requests published to the job's stream
  page,        \* per page: the request its pane shows, 0 for none
  asked,       \* history: the requests the server opened
  resumed,     \* history: answers told "resumed", per request open at the time
  lost         \* history: HTTP answers lost

handoffVars == <<record, stdout, stdin, generation, relay, stopped, row, shown, page, asked, resumed, lost>>

\* An answer is the request its page showed; 0 stands for none.
HandoffTypeOK ==
  /\ record \in [pc : {"running", "waiting", "ended"}, request : 0..MaxRequests,
                 heard : 0..MaxRequests]
  /\ stdout \in Seq(Requests) /\ stdin \in Seq(Requests)
  /\ generation \in 0..MaxRequests
  /\ relay \in [Requests -> [pc : {"none", "post", "poll", "answer", "over"},
                             answer : 0..MaxRequests]]
  /\ stopped \in BOOLEAN
  /\ row \in [leased : BOOLEAN, cancel : BOOLEAN, pending : BOOLEAN, response : 0..MaxRequests]
  /\ row.pending => row.response = 0
  /\ shown \subseteq Requests /\ asked \in 0..MaxRequests
  /\ page \in [Pages -> 0..MaxRequests]
  /\ resumed \in [Requests -> Nat]
  /\ lost \in 0..MaxLost

HandoffInit ==
  /\ record = [pc |-> "running", request |-> 0, heard |-> 0]
  /\ stdout = << >> /\ stdin = << >>
  /\ generation = 0 /\ stopped = FALSE
  /\ relay = [g \in Requests |-> [pc |-> "none", answer |-> 0]]
  /\ row = [leased |-> TRUE, cancel |-> FALSE, pending |-> FALSE, response |-> 0]
  /\ shown = {} /\ page = [p \in Pages |-> 0]
  /\ asked = 0 /\ resumed = [r \in Requests |-> 0] /\ lost = 0

----------------------------------------------------------------------------
(* The record: StreamHandoff.request in the record loop *)

Ask ==
  /\ record.pc = "running" /\ record.request < MaxRequests
  /\ record' = [record EXCEPT !.pc = "waiting", !.request = @ + 1, !.heard = 0]
  /\ stdout' = Append(stdout, record.request + 1)
  /\ UNCHANGED <<stdin, generation, relay, stopped, row, shown, page, asked, resumed, lost>>

Hear ==
  /\ record.pc = "waiting" /\ stdin # << >>
  /\ record' = [record EXCEPT !.pc = "running", !.heard = Head(stdin)]
  /\ stdin' = Tail(stdin)
  /\ UNCHANGED <<stdout, generation, relay, stopped, row, shown, page, asked, resumed, lost>>

\* The wait's own timeout is a cancel, and a cancel stops the record; a
\* record also just finishes, or is stopped by its job's cancel.
RecordEnds ==
  /\ record.pc # "ended"
  /\ record' = [record EXCEPT !.pc = "ended"]
  /\ UNCHANGED <<stdout, stdin, generation, relay, stopped, row, shown, page, asked, resumed, lost>>

----------------------------------------------------------------------------
(* The relay on the worker *)

Offer ==
  /\ stdout # << >> /\ stdout' = Tail(stdout)
  /\ IF stopped THEN UNCHANGED <<generation, relay>>
     ELSE /\ generation' = generation + 1
          /\ relay' = [relay EXCEPT ![Head(stdout)].pc = "post"]
  /\ UNCHANGED <<record, stdin, stopped, row, shown, page, asked, resumed, lost>>

\* The job has ended; stop then joins the threads.
Stop ==
  /\ record.pc = "ended" /\ stdout = << >> /\ ~stopped
  /\ stopped' = TRUE
  /\ UNCHANGED <<record, stdout, stdin, generation, relay, row, shown, page, asked, resumed, lost>>

\* A thread whose HTTP answer was lost; the server has done its part.
Answers(g, pc) ==
  \/ relay' = [relay EXCEPT ![g].pc = pc] /\ UNCHANGED lost
  \/ lost < MaxLost /\ lost' = lost + 1 /\ relay' = [relay EXCEPT ![g].pc = "over"]

\* worker_handoff: open_handoff, then the publish.
PostRequest(g) ==
  /\ relay[g].pc = "post"
  /\ IF row.leased /\ ~row.pending
     THEN /\ row' = [row EXCEPT !.pending = TRUE, !.response = 0]
          /\ shown' = shown \union {g} /\ asked' = g
          /\ Answers(g, "poll")
     ELSE relay' = [relay EXCEPT ![g].pc = "over"] /\ UNCHANGED <<row, shown, asked, lost>>
  /\ UNCHANGED <<record, stdout, stdin, generation, stopped, page, resumed>>

\* Mutant: only a newer request ends a poll.
NewestOnly(g) == g = generation

Current(g) == g = generation /\ ~stopped

\* Superseded or stopped.
PollEnds(g) ==
  /\ relay[g].pc = "poll" /\ ~Current(g)
  /\ relay' = [relay EXCEPT ![g].pc = "over"]
  /\ UNCHANGED <<record, stdout, stdin, generation, stopped, row, shown, page, asked, resumed, lost>>

\* The poll's deadline is longer than the record's own wait.
PollTimesOut(g) ==
  /\ relay[g].pc = "poll" /\ record.pc = "ended"
  /\ relay' = [relay EXCEPT ![g].pc = "over"]
  /\ UNCHANGED <<record, stdout, stdin, generation, stopped, row, shown, page, asked, resumed, lost>>

\* worker_handoff_response on a job that lost its lease, or was cancelled:
\* a cancel stops the record at once.
PollRefused(g) ==
  /\ relay[g].pc = "poll" /\ (~row.leased \/ row.cancel)
  /\ relay' = [relay EXCEPT ![g].pc = "over"]
  /\ record' = IF row.leased THEN [record EXCEPT !.pc = "ended"] ELSE record
  /\ UNCHANGED <<stdout, stdin, generation, stopped, row, shown, page, asked, resumed, lost>>

\* An answer is removed as it is read; a poll whose HTTP answer is lost goes on
\* polling, and what it took is gone.
PollTakes(g) ==
  /\ relay[g].pc = "poll" /\ row.leased /\ ~row.cancel /\ row.response # 0
  /\ row' = [row EXCEPT !.response = 0]
  /\ \/ /\ relay' = [relay EXCEPT ![g].answer = row.response, ![g].pc = "answer"]
        /\ UNCHANGED lost
     \/ lost < MaxLost /\ lost' = lost + 1 /\ UNCHANGED relay
  /\ UNCHANGED <<record, stdout, stdin, generation, stopped, shown, page, asked, resumed>>

\* Mutant: the thread goes on polling.
WriteAndPoll(g) ==
  /\ relay[g].pc = "answer"
  /\ relay' = [relay EXCEPT ![g] = [pc |-> "poll", answer |-> 0]]
  /\ stdin' = IF g = generation /\ record.pc # "ended" THEN Append(stdin, relay[g].answer) ELSE stdin
  /\ UNCHANGED <<record, stdout, generation, stopped, row, shown, page, asked, resumed, lost>>

\* _answer: only the newest request's thread writes, and only to a live child.
WriteAnswer(g) ==
  /\ relay[g].pc = "answer"
  /\ relay' = [relay EXCEPT ![g] = [pc |-> "over", answer |-> 0]]
  /\ stdin' = IF g = generation /\ record.pc # "ended" THEN Append(stdin, relay[g].answer) ELSE stdin
  /\ UNCHANGED <<record, stdout, generation, stopped, row, shown, page, asked, resumed, lost>>

----------------------------------------------------------------------------
(* The pages *)

\* _stale_request drops a request the job no longer waits on.
Show(p) ==
  /\ shown # {} /\ row.pending
  /\ \E g \in shown : (\A h \in shown : h <= g) /\ page[p] < g /\ page' = [page EXCEPT ![p] = g]
  /\ UNCHANGED <<record, stdout, stdin, generation, relay, stopped, row, shown, asked, resumed, lost>>

\* Mutant: an answer needs no open request.
AnswerAlways(p) ==
  /\ page[p] # 0
  /\ IF row.leased /\ ~row.cancel
     THEN /\ row' = [row EXCEPT !.pending = FALSE, !.response = page[p]]
          /\ resumed' = [resumed EXCEPT ![asked] = @ + 1]
     ELSE UNCHANGED <<row, resumed>>
  /\ page' = [page EXCEPT ![p] = 0]
  /\ UNCHANGED <<record, stdout, stdin, generation, relay, stopped, shown, asked, lost>>

\* Mutant: the request stays open.
AnswerStaysOpen(p) ==
  /\ page[p] # 0
  /\ IF row.leased /\ row.pending /\ ~row.cancel
     THEN /\ row' = [row EXCEPT !.response = page[p]]
          /\ resumed' = [resumed EXCEPT ![asked] = @ + 1]
     ELSE UNCHANGED <<row, resumed>>
  /\ page' = [page EXCEPT ![p] = 0]
  /\ UNCHANGED <<record, stdout, stdin, generation, relay, stopped, shown, asked, lost>>

\* respond_human: answer_handoff tests and writes the row in one UPDATE.
AnswerHandoff(p) ==
  /\ page[p] # 0
  /\ IF row.leased /\ row.pending /\ ~row.cancel
     THEN /\ row' = [row EXCEPT !.pending = FALSE, !.response = page[p]]
          /\ resumed' = [resumed EXCEPT ![asked] = @ + 1]
     ELSE UNCHANGED <<row, resumed>>
  /\ page' = [page EXCEPT ![p] = 0]
  /\ UNCHANGED <<record, stdout, stdin, generation, relay, stopped, shown, asked, lost>>

CancelJob ==
  /\ row.leased /\ ~row.cancel /\ row' = [row EXCEPT !.cancel = TRUE]
  /\ UNCHANGED <<record, stdout, stdin, generation, relay, stopped, shown, page, asked, resumed, lost>>

LoseLease ==
  /\ row.leased /\ row' = [leased |-> FALSE, cancel |-> FALSE, pending |-> FALSE, response |-> 0]
  /\ UNCHANGED <<record, stdout, stdin, generation, relay, stopped, shown, page, asked, resumed, lost>>

----------------------------------------------------------------------------
RelayStep(g) ==
  \/ PostRequest(g) \/ PollEnds(g) \/ PollRefused(g) \/ PollTakes(g) \/ WriteAnswer(g)

HandoffNext ==
  \/ Ask \/ Hear \/ RecordEnds \/ Offer \/ Stop \/ CancelJob \/ LoseLease
  \/ \E g \in Requests : RelayStep(g) \/ PollTimesOut(g)
  \/ \E p \in Pages : Show(p) \/ AnswerHandoff(p)

HandoffFairness ==
  /\ WF_handoffVars(Hear) /\ WF_handoffVars(Offer)
  /\ \A g \in Requests : WF_handoffVars(RelayStep(g))

HandoffSpec == HandoffInit /\ [][HandoffNext]_handoffVars
FairHandoffSpec == HandoffSpec /\ HandoffFairness

----------------------------------------------------------------------------
(* Properties *)

\* One request, one answer: however many pages show it, at most one of them is
\* told that its answer resumed the record.
ResumedOnce == \A r \in Requests : resumed[r] <= 1

\* Every request is answered at most once.
AnsweredOnce == HandoffTypeOK /\ ResumedOnce

\* An answer that resumed the job reaches the record, unless an HTTP answer was
\* lost, the job was cancelled or lost, or the record stopped waiting.
AnswerArrives ==
  row.response # 0 /\ lost = 0 ~>
    \/ record.heard # 0 \/ record.pc = "ended"
    \/ ~row.leased \/ row.cancel \/ lost # 0

\* stop ends every poll, so joining the threads never hangs the worker.
RelayStops == stopped ~> \A g \in Requests : relay[g].pc \in {"none", "over"}
=============================================================================
