------------------------ MODULE BatchCheckpointProofs ------------------------
(***************************************************************************)
(* Theorems about BatchCheckpoint: for any number of attempts, lost        *)
(* exchanges and crashes, while the attempts of a job belong to different  *)
(* workers, the run the row names is never replaced, is not stopped while  *)
(* the server counts on it, and no run is left without anyone following.   *)
(***************************************************************************)
EXTENDS BatchCheckpoint, TLAPS

----------------------------------------------------------------------------
(* The inductive invariant *)

\* The lease belongs to the job's last attempt.
Leased ==
  /\ row.status = "leased" => row.holder = row.leases /\ row.holder # None
  /\ row.status # "leased" => row.holder = None

\* Where an attempt can be, and what it, its save and its run have by then.
AttemptAt(a) ==
  /\ attempt[a].pc = "none" <=> a > row.leases
  /\ attempt[a].pc \in {"none", "upload"} => attempt[a].run = None
  /\ attempt[a].pc = "none" => cloud[a] = "none" /\ ~late[a]
  /\ attempt[a].pc = "upload" => cloud[a] = "none"
  /\ attempt[a].pc \in {"save", "answer"} => attempt[a].run = a
  /\ attempt[a].pc = "poll" => attempt[a].run # None
  /\ request[a] # "none" => attempt[a].pc = "answer"
  /\ late[a] => attempt[a].run = a
  /\ attempt[a].run # None => cloud[attempt[a].run] # "none"
  /\ attempt[a].cancelled => row.cancel

\* The row names no other run by the time an attempt has one of its own: the
\* attempt that holds the lease would have resumed it.
OwnRun(a) == row.holder = a /\ attempt[a].run \in {None, a} => row.arn \in {None, a}

\* What the server answered is still true.
AnswerAt(a) ==
  /\ request[a] = "stored" => row.arn = a
  /\ request[a] = "refused" => row.holder # a
  /\ lost = 0 /\ late[a] => attempt[a].pc = "dead"
  /\ lost = 0 /\ request[a] \in {"new", "refused"} => row.arn # a

\* With every exchange answered, a run is stopped for a cancel or because the
\* row names another one and always will.
StoppedAt(a) == lost = 0 /\ cloud[a] = "stopped" => row.cancel \/ (row.arn # a /\ row.holder # a)

FollowedAt(r) == cloud[r] = "running" => row.arn = r \/ r \in left \/ attempt[r].pc \in {"save", "answer"}

InvAt(a) == AttemptAt(a) /\ OwnRun(a) /\ AnswerAt(a) /\ StoppedAt(a) /\ FollowedAt(a)

IInv == TypeOK /\ Leased /\ \A a \in Attempts : InvAt(a)

----------------------------------------------------------------------------
(* What a step of an attempt does *)

Record == [pc : {"none", "upload", "save", "answer", "poll", "result", "over", "dead"},
           run : 0..MaxAttempts, lost : BOOLEAN, cancelled : BOOLEAN, tries : 0..MaxTries]
Saves == [Attempts -> {"none", "sent", "new", "stored", "refused"}]
Runs == [Attempts -> {"none", "running", "completed", "stopped"}]

\* The attempt's record becomes r, the others are left alone.
Becomes(a, r) ==
  /\ attempt' \in [Attempts -> Record] /\ attempt'[a] = r
  /\ \A b \in Attempts \ {a} : attempt'[b] = attempt[b]

LEMMA OneWrite ==
  ASSUME attempt \in [Attempts -> Record], NEW a \in Attempts, NEW r \in Record,
         attempt' = [attempt EXCEPT ![a] = r]
  PROVE  Becomes(a, r)
  BY DEF Becomes

\* The cloud moves no other run than the attempt's own, but for one that is
\* stopped for a cancel.
OtherRun(r) ==
  /\ cloud'[r] = "none" <=> cloud[r] = "none"
  /\ cloud'[r] = "running" => cloud[r] = "running"
  /\ lost' = 0 /\ cloud'[r] = "stopped" => cloud[r] = "stopped" \/ row.cancel

\* A step that leaves the row and the other attempts alone.
Local(a) ==
  /\ UNCHANGED row /\ attempt' \in [Attempts -> Record]
  /\ request' \in Saves /\ late' \in [Attempts -> BOOLEAN] /\ cloud' \in Runs
  /\ left' \subseteq Attempts /\ left \subseteq left'
  /\ lost' \in 0..MaxLost /\ (lost' = 0 => lost = 0) /\ crashes' \in 0..MaxCrashes
  /\ \A b \in Attempts \ {a} : attempt'[b] = attempt[b] /\ request'[b] = request[b] /\ late'[b] = late[b]
  /\ \A r \in Attempts \ {a} : OtherRun(r)
  /\ cloud[a] # "none" => cloud'[a] # "none"

\* The parts of the type invariant the steps use.
LEMMA Types ==
  ASSUME IInv
  PROVE  /\ attempt \in [Attempts -> Record] /\ request \in Saves /\ late \in [Attempts -> BOOLEAN]
         /\ cloud \in Runs /\ left \subseteq Attempts /\ lost \in 0..MaxLost /\ crashes \in 0..MaxCrashes
         /\ row \in [status : {"queued", "leased", "over"}, holder : 0..MaxAttempts,
                     leases : 0..MaxAttempts, cancel : BOOLEAN, arn : 0..MaxAttempts]
         /\ MaxAttempts \in Nat /\ MaxLost \in Nat /\ MaxTries \in Nat /\ MaxCrashes \in Nat
  BY BatchAssumption DEF IInv, TypeOK, Record, Saves, Runs

LEMMA LocalKeeps ==
  ASSUME IInv, NEW a \in Attempts, Local(a), InvAt(a)'
  PROVE  IInv'
<1>1. TypeOK /\ Leased /\ (\A b \in Attempts : InvAt(b)) /\ row.arn \in 0..MaxAttempts /\ MaxAttempts \in Nat
      /\ attempt \in [Attempts -> Record]
  BY Types DEF IInv
<1>2. \A r \in Attempts : cloud[r] # "none" => cloud'[r] # "none"
  BY DEF Local, OtherRun
<1>3. TypeOK'
  <2>1. row'.arn # None => cloud'[row'.arn] # "none"
    BY <1>1, <1>2 DEF TypeOK, Local, Attempts, None
  <2> QED
    BY <1>1, <2>1 DEF TypeOK, Local, Record, Saves, Runs
<1>4. Leased'
  BY <1>1 DEF Leased, Local
<1>5. ASSUME NEW b \in Attempts \ {a} PROVE InvAt(b)'
  <2>1. InvAt(b) /\ attempt[b].run \in 0..MaxAttempts
    BY <1>1, <1>5 DEF Record
  <2>2. /\ row' = row /\ attempt'[b] = attempt[b] /\ request'[b] = request[b] /\ late'[b] = late[b]
        /\ lost' = 0 => lost = 0
        /\ left \subseteq left' /\ OtherRun(b)
    BY <1>5 DEF Local
  <2>3. attempt[b].run # None => cloud'[attempt[b].run] # "none"
    BY <1>1, <1>2, <2>1 DEF InvAt, AttemptAt, Attempts, None
  <2>4. AttemptAt(b)'
    BY <2>1, <2>2, <2>3 DEF InvAt, AttemptAt, OtherRun
  <2>5. OwnRun(b)' /\ AnswerAt(b)' /\ StoppedAt(b)' /\ FollowedAt(b)'
    BY <2>1, <2>2 DEF InvAt, OwnRun, AnswerAt, StoppedAt, FollowedAt, OtherRun
  <2> QED
    BY <2>4, <2>5 DEF InvAt
<1> QED
  BY <1>3, <1>4, <1>5 DEF IInv

\* stop_run stops the run, or leaves it to nobody.
LEMMA StoppedEffect ==
  ASSUME IInv, NEW r \in Attempts, Stopped(r)
  PROVE  /\ cloud' \in Runs /\ left' \subseteq Attempts /\ left \subseteq left'
         /\ lost' \in 0..MaxLost /\ (lost' = 0 => lost = 0)
         /\ \A q \in Attempts \ {r} : cloud'[q] = cloud[q]
         /\ cloud'[r] = "none" <=> cloud[r] = "none"
         /\ cloud'[r] = "running" => cloud[r] = "running" /\ r \in left'
  BY Types DEF Stopped, Runs

----------------------------------------------------------------------------
(* The attempts' steps that leave the row alone *)

LEMMA AttemptEffect ==
  ASSUME IInv, NEW a \in Attempts,
         \/ LoseLease(a) \/ HearCancel(a) \/ Save(a) \/ SaveCancelled(a) \/ SaveStored(a) \/ SaveRefused(a)
         \/ SaveRejected(a) \/ Collect(a) \/ PollFails(a) \/ Crash(a) \/ Schedule(a) \/ SaveFails(a)
         \/ PollInterrupted(a) \/ LoadArn(a) \/ Complete(a)
  PROVE  Local(a) /\ InvAt(a)'
<1>1. /\ attempt \in [Attempts -> Record] /\ request \in Saves /\ late \in [Attempts -> BOOLEAN]
      /\ cloud \in Runs /\ left \subseteq Attempts /\ lost \in 0..MaxLost /\ crashes \in 0..MaxCrashes
      /\ row.leases \in 0..MaxAttempts
      /\ MaxAttempts \in Nat /\ MaxLost \in Nat /\ MaxTries \in Nat /\ MaxCrashes \in Nat
  BY Types
<1>2. InvAt(a) /\ attempt[a] \in Record
  BY <1>1 DEF IInv
<1>3. CASE LoseLease(a)
  <2>1. attempt' = [attempt EXCEPT ![a] = [attempt[a] EXCEPT !.lost = TRUE]]
    BY <1>1, <1>3 DEF LoseLease, Record
  <2>2. [attempt[a] EXCEPT !.lost = TRUE] \in Record
    BY <1>2 DEF Record
  <2>3. Becomes(a, [attempt[a] EXCEPT !.lost = TRUE])
    BY <1>1, <2>1, <2>2, OneWrite
  <2>4. Local(a)
    BY <1>1, <1>2, <1>3, <2>3 DEF Becomes, LoseLease, Live, Local, OtherRun, Saves, Runs, InvAt, AttemptAt, Record, Attempts, None
  <2>5. InvAt(a)'
    BY <1>1, <1>2, <1>3, <2>3 DEF Becomes, LoseLease, Live, InvAt, AttemptAt, OwnRun, AnswerAt, StoppedAt, FollowedAt, Saves, Runs, Record, Attempts, None
  <2> QED
    BY <2>4, <2>5
<1>4. CASE HearCancel(a)
  <2>1. attempt' = [attempt EXCEPT ![a] = [attempt[a] EXCEPT !.cancelled = TRUE]]
    BY <1>1, <1>4 DEF HearCancel, Record
  <2>2. [attempt[a] EXCEPT !.cancelled = TRUE] \in Record
    BY <1>2 DEF Record
  <2>3. Becomes(a, [attempt[a] EXCEPT !.cancelled = TRUE])
    BY <1>1, <2>1, <2>2, OneWrite
  <2>4. Local(a)
    BY <1>1, <1>2, <1>4, <2>3 DEF Becomes, HearCancel, Live, Local, OtherRun, Saves, Runs, InvAt, AttemptAt, Record, Attempts, None
  <2>5. InvAt(a)'
    BY <1>1, <1>2, <1>4, <2>3 DEF Becomes, HearCancel, Live, InvAt, AttemptAt, OwnRun, AnswerAt, StoppedAt, FollowedAt, Saves, Runs, Record, Attempts, None
  <2> QED
    BY <2>4, <2>5
<1>5. CASE Save(a)
  <2>1. attempt' = [attempt EXCEPT ![a] = [attempt[a] EXCEPT !.pc = "answer"]]
    BY <1>1, <1>5 DEF Save, Record
  <2>2. [attempt[a] EXCEPT !.pc = "answer"] \in Record
    BY <1>2 DEF Record
  <2>3. Becomes(a, [attempt[a] EXCEPT !.pc = "answer"])
    BY <1>1, <2>1, <2>2, OneWrite
  <2>4. Local(a)
    <3>1. /\ UNCHANGED <<row, late, cloud, left, lost, crashes>> /\ attempt' \in [Attempts -> Record]
          /\ request' = [request EXCEPT ![a] = "sent"] /\ \A b \in Attempts \ {a} : attempt'[b] = attempt[b]
      BY <1>5, <2>3 DEF Becomes, Save
    <3>2. request' \in Saves /\ \A b \in Attempts \ {a} : request'[b] = request[b]
      BY <1>1, <3>1 DEF Saves
    <3>3. \A r \in Attempts : OtherRun(r)
      BY <3>1 DEF OtherRun
    <3> QED
      BY <1>1, <1>2, <1>5, <2>3, <3>1, <3>2, <3>3 DEF Local, Becomes, InvAt, AttemptAt
  <2>5. InvAt(a)'
    BY <1>1, <1>2, <1>5, <2>3 DEF Becomes, Save, InvAt, AttemptAt, OwnRun, AnswerAt, StoppedAt, FollowedAt, Saves, Runs, Record, Attempts, None
  <2> QED
    BY <2>4, <2>5
<1>6. CASE SaveCancelled(a)
  <2>1. attempt' = [attempt EXCEPT ![a] = [attempt[a] EXCEPT !.pc = "result"]]
    BY <1>1, <1>6 DEF SaveCancelled, Record
  <2>2. [attempt[a] EXCEPT !.pc = "result"] \in Record
    BY <1>2 DEF Record
  <2>3. Becomes(a, [attempt[a] EXCEPT !.pc = "result"])
    BY <1>1, <2>1, <2>2, OneWrite
  <2>4. Stopped(a)
    BY <1>6 DEF SaveCancelled
  <2>5. Local(a)
    BY <1>1, <1>6, <2>3, <2>4, StoppedEffect DEF Becomes, SaveCancelled, Local, OtherRun, Saves
  <2>6. InvAt(a)'
    BY <1>1, <1>2, <1>6, <2>3, <2>4, StoppedEffect DEF Becomes, SaveCancelled, InvAt, AttemptAt, OwnRun, AnswerAt, StoppedAt, FollowedAt, Saves, Record, Attempts, None
  <2> QED
    BY <2>5, <2>6
<1>7. CASE SaveStored(a)
  <2>1. attempt' = [attempt EXCEPT ![a] = [attempt[a] EXCEPT !.pc = "poll"]]
    BY <1>1, <1>7 DEF SaveStored, Record
  <2>2. [attempt[a] EXCEPT !.pc = "poll"] \in Record
    BY <1>2 DEF Record
  <2>3. Becomes(a, [attempt[a] EXCEPT !.pc = "poll"])
    BY <1>1, <2>1, <2>2, OneWrite
  <2>4. Local(a)
    BY <1>1, <1>2, <1>7, <2>3 DEF Becomes, SaveStored, Local, OtherRun, Saves, Runs, InvAt, AttemptAt, Record, Attempts, None
  <2>5. InvAt(a)'
    BY <1>1, <1>2, <1>7, <2>3 DEF Becomes, SaveStored, InvAt, AttemptAt, OwnRun, AnswerAt, StoppedAt, FollowedAt, Saves, Runs, Record, Attempts, None
  <2> QED
    BY <2>4, <2>5
<1>8. CASE SaveRefused(a)
  <2>1. attempt' = [attempt EXCEPT ![a] = [attempt[a] EXCEPT !.pc = "result"]]
    BY <1>1, <1>8 DEF SaveRefused, Record
  <2>2. [attempt[a] EXCEPT !.pc = "result"] \in Record
    BY <1>2 DEF Record
  <2>3. Becomes(a, [attempt[a] EXCEPT !.pc = "result"])
    BY <1>1, <2>1, <2>2, OneWrite
  <2>4. Stopped(a)
    BY <1>8 DEF SaveRefused
  <2>5. Local(a)
    BY <1>1, <1>8, <2>3, <2>4, StoppedEffect DEF Becomes, SaveRefused, Local, OtherRun, Saves
  <2>6. InvAt(a)'
    BY <1>1, <1>2, <1>8, <2>3, <2>4, StoppedEffect DEF Becomes, SaveRefused, InvAt, AttemptAt, OwnRun, AnswerAt, StoppedAt, FollowedAt, Saves, Record, Attempts, None
  <2> QED
    BY <2>5, <2>6
<1>9. CASE SaveRejected(a)
  <2>1. attempt' = [attempt EXCEPT ![a] = [attempt[a] EXCEPT !.pc = "result"]]
    BY <1>1, <1>9 DEF SaveRejected, Record
  <2>2. [attempt[a] EXCEPT !.pc = "result"] \in Record
    BY <1>2 DEF Record
  <2>3. Becomes(a, [attempt[a] EXCEPT !.pc = "result"])
    BY <1>1, <2>1, <2>2, OneWrite
  <2>4. Local(a)
    BY SMTT(30), <1>1, <1>2, <1>9, <2>3 DEF Becomes, SaveRejected, Local, OtherRun, Saves, Runs, InvAt, AttemptAt, Record, Attempts, None
  <2>5. InvAt(a)'
    BY <1>1, <1>2, <1>9, <2>3 DEF Becomes, SaveRejected, InvAt, AttemptAt, OwnRun, AnswerAt, StoppedAt, FollowedAt, Saves, Runs, Record, Attempts, None
  <2> QED
    BY <2>4, <2>5
<1>10. CASE Collect(a)
  <2>1. attempt' = [attempt EXCEPT ![a] = [attempt[a] EXCEPT !.pc = "result"]]
    BY <1>1, <1>10 DEF Collect, Record
  <2>2. [attempt[a] EXCEPT !.pc = "result"] \in Record
    BY <1>2 DEF Record
  <2>3. Becomes(a, [attempt[a] EXCEPT !.pc = "result"])
    BY <1>1, <2>1, <2>2, OneWrite
  <2>4. Local(a)
    BY <1>1, <1>2, <1>10, <2>3 DEF Becomes, Collect, Local, OtherRun, Saves, Runs, InvAt, AttemptAt, Record, Attempts, None
  <2>5. InvAt(a)'
    BY <1>1, <1>2, <1>10, <2>3 DEF Becomes, Collect, InvAt, AttemptAt, OwnRun, AnswerAt, StoppedAt, FollowedAt, Saves, Runs, Record, Attempts, None
  <2> QED
    BY <2>4, <2>5
<1>11. CASE PollFails(a)
  <2>1. attempt' = [attempt EXCEPT ![a] = [attempt[a] EXCEPT !.pc = "result"]]
    BY <1>1, <1>11 DEF PollFails, Record
  <2>2. [attempt[a] EXCEPT !.pc = "result"] \in Record
    BY <1>2 DEF Record
  <2>3. Becomes(a, [attempt[a] EXCEPT !.pc = "result"])
    BY <1>1, <2>1, <2>2, OneWrite
  <2>4. Local(a)
    BY <1>1, <1>2, <1>11, <2>3 DEF Becomes, PollFails, Local, OtherRun, Saves, Runs, InvAt, AttemptAt, Record, Attempts, None
  <2>5. InvAt(a)'
    BY <1>1, <1>2, <1>11, <2>3 DEF Becomes, PollFails, InvAt, AttemptAt, OwnRun, AnswerAt, StoppedAt, FollowedAt, Saves, Runs, Record, Attempts, None
  <2> QED
    BY <2>4, <2>5
<1>12. CASE Crash(a)
  <2>1. attempt' = [attempt EXCEPT ![a] = [attempt[a] EXCEPT !.pc = "dead"]]
    BY <1>1, <1>12 DEF Crash, Record
  <2>2. [attempt[a] EXCEPT !.pc = "dead"] \in Record
    BY <1>2 DEF Record
  <2>3. Becomes(a, [attempt[a] EXCEPT !.pc = "dead"])
    BY <1>1, <2>1, <2>2, OneWrite
  <2>4. Local(a)
    BY <1>1, <1>2, <1>12, <2>3 DEF Becomes, Crash, Live, Local, OtherRun, Saves, Runs, InvAt, AttemptAt, Record, Attempts, None
  <2>5. InvAt(a)'
    BY <1>1, <1>2, <1>12, <2>3 DEF Becomes, Crash, Live, InvAt, AttemptAt, OwnRun, AnswerAt, StoppedAt, FollowedAt, Saves, Runs, Record, Attempts, None
  <2> QED
    BY <2>4, <2>5
<1>13. CASE Schedule(a)
  <2>1. CASE Schedule(a) /\ (attempt[a].cancelled \/ attempt[a].lost)
    <3>1. attempt' = [attempt EXCEPT ![a] = [attempt[a] EXCEPT !.pc = "result"]]
      BY <1>1, <2>1 DEF Schedule, Record
    <3>2. [attempt[a] EXCEPT !.pc = "result"] \in Record
      BY <1>2, <2>1 DEF Record
    <3>3. Becomes(a, [attempt[a] EXCEPT !.pc = "result"])
      BY <1>1, <3>1, <3>2, OneWrite
    <3>4. Local(a)
      BY <1>1, <1>2, <2>1, <3>3 DEF Becomes, Schedule, Local, OtherRun, Saves, Runs, Record, InvAt, AttemptAt, Attempts, None
    <3>5. InvAt(a)'
      BY <1>1, <1>2, <2>1, <3>3 DEF Becomes, Schedule, InvAt, AttemptAt, OwnRun, AnswerAt, StoppedAt, FollowedAt, Saves, Runs, Record, Attempts, None
    <3> QED
      BY <3>4, <3>5
  <2>2. CASE Schedule(a) /\ ~(attempt[a].cancelled \/ attempt[a].lost)
    <3>1. attempt' = [attempt EXCEPT ![a] = [attempt[a] EXCEPT !.pc = "save", !.run = a]]
      BY <1>1, <2>2 DEF Schedule, Record
    <3>2. [attempt[a] EXCEPT !.pc = "save", !.run = a] \in Record
      <4>1. a \in 0..MaxAttempts
        BY <1>1 DEF Attempts
      <4> QED
        BY <1>2, <4>1 DEF Record
    <3>3. Becomes(a, [attempt[a] EXCEPT !.pc = "save", !.run = a])
      BY <1>1, <3>1, <3>2, OneWrite
    <3>4. Local(a)
      <4>1. /\ cloud' = [cloud EXCEPT ![a] = "running"] /\ UNCHANGED <<row, request, late, left, lost, crashes>>
            /\ attempt' \in [Attempts -> Record] /\ \A b \in Attempts \ {a} : attempt'[b] = attempt[b]
        BY <2>2, <3>3 DEF Becomes, Schedule
      <4>2. cloud' \in Runs /\ cloud'[a] = "running" /\ \A r \in Attempts \ {a} : cloud'[r] = cloud[r]
        BY <1>1, <4>1 DEF Runs
      <4>3. \A r \in Attempts \ {a} : OtherRun(r)
        BY <4>1, <4>2 DEF OtherRun
      <4> QED
        BY <1>1, <4>1, <4>2, <4>3 DEF Local
    <3>5. InvAt(a)'
      BY <1>1, <1>2, <2>2, <3>3 DEF Becomes, Schedule, InvAt, AttemptAt, OwnRun, AnswerAt, StoppedAt, FollowedAt, Saves, Runs, Record, Attempts, None
    <3> QED
      BY <3>4, <3>5
  <2> QED
    BY <1>13, <2>1, <2>2
<1>14. CASE SaveFails(a)
  <2>1. CASE SaveFails(a) /\ (attempt[a].lost \/ attempt[a].tries = MaxTries)
    <3>1. attempt' = [attempt EXCEPT ![a] = [attempt[a] EXCEPT !.pc = "result"]]
      BY <1>1, <2>1 DEF SaveFails, Record
    <3>2. [attempt[a] EXCEPT !.pc = "result"] \in Record
      BY <1>2, <2>1 DEF Record
    <3>3. Becomes(a, [attempt[a] EXCEPT !.pc = "result"])
      BY <1>1, <3>1, <3>2, OneWrite
    <3>4. Local(a)
      <4>1. cloud' = [cloud EXCEPT ![a] = IF @ = "running" THEN "stopped" ELSE @]
        BY <2>1 DEF SaveFails
      <4>2. cloud' \in Runs /\ (\A r \in Attempts \ {a} : cloud'[r] = cloud[r]) /\ (cloud[a] # "none" => cloud'[a] # "none")
        BY <1>1, <4>1 DEF Runs
      <4>3. /\ UNCHANGED <<row, crashes, left>> /\ lost < MaxLost /\ lost' = lost + 1
            /\ request' \in Saves /\ late' \in [Attempts -> BOOLEAN]
            /\ \A b \in Attempts \ {a} : request'[b] = request[b] /\ late'[b] = late[b]
        BY <1>1, <2>1 DEF SaveFails, Saves
      <4> QED
        BY <1>1, <3>3, <4>2, <4>3 DEF Becomes, Local, OtherRun
    <3>5. InvAt(a)'
      BY <1>1, <1>2, <2>1, <3>3 DEF Becomes, SaveFails, InvAt, AttemptAt, OwnRun, AnswerAt, StoppedAt, FollowedAt, Saves, Runs, Record, Attempts, None
    <3> QED
      BY <3>4, <3>5
  <2>2. CASE SaveFails(a) /\ ~(attempt[a].lost \/ attempt[a].tries = MaxTries)
    <3>1. attempt' = [attempt EXCEPT ![a] = [attempt[a] EXCEPT !.pc = "save", !.tries = @ + 1]]
      BY <1>1, <2>2 DEF SaveFails, Record
    <3>2. [attempt[a] EXCEPT !.pc = "save", !.tries = @ + 1] \in Record
      <4>1. attempt[a].tries + 1 \in 0..MaxTries
        BY <1>1, <1>2, <2>2 DEF Record
      <4> QED
        BY <1>2, <4>1 DEF Record
    <3>3. Becomes(a, [attempt[a] EXCEPT !.pc = "save", !.tries = @ + 1])
      BY <1>1, <3>1, <3>2, OneWrite
    <3>4. Local(a)
      BY <1>1, <1>2, <2>2, <3>3 DEF Becomes, SaveFails, Local, OtherRun, Saves, Runs, Record, InvAt, AttemptAt, Attempts, None
    <3>5. InvAt(a)'
      BY <1>1, <1>2, <2>2, <3>3 DEF Becomes, SaveFails, InvAt, AttemptAt, OwnRun, AnswerAt, StoppedAt, FollowedAt, Saves, Runs, Record, Attempts, None
    <3> QED
      BY <3>4, <3>5
  <2> QED
    BY <1>14, <2>1, <2>2
<1>15. CASE PollInterrupted(a)
  <2>1. attempt' = [attempt EXCEPT ![a] = [attempt[a] EXCEPT !.pc = "result"]]
    BY <1>1, <1>15 DEF PollInterrupted, Record
  <2>2. [attempt[a] EXCEPT !.pc = "result"] \in Record
    BY <1>2 DEF Record
  <2>3. Becomes(a, [attempt[a] EXCEPT !.pc = "result"])
    BY <1>1, <2>1, <2>2, OneWrite
  <2>4. CASE attempt[a].cancelled
    <3>1. PICK r \in Attempts : r = attempt[a].run /\ Stopped(r)
      BY <1>2, <1>15, <2>4 DEF PollInterrupted, InvAt, AttemptAt, Record, Attempts, None
    <3>2. row.cancel
      BY <1>2, <2>4 DEF InvAt, AttemptAt
    <3>3. /\ cloud' \in Runs /\ left' \subseteq Attempts /\ left \subseteq left'
          /\ lost' \in 0..MaxLost /\ (lost' = 0 => lost = 0)
          /\ \A q \in Attempts : /\ cloud'[q] = "none" <=> cloud[q] = "none"
                                 /\ cloud'[q] = "running" => cloud[q] = "running"
      BY <3>1, StoppedEffect
    <3>4. Local(a)
      BY <1>1, <1>15, <2>3, <3>2, <3>3 DEF Becomes, PollInterrupted, Local, OtherRun
    <3>5. InvAt(a)'
      BY <1>1, <1>2, <1>15, <2>3, <3>1, <3>2, <3>3 DEF Becomes, PollInterrupted, InvAt, AttemptAt, OwnRun, AnswerAt, StoppedAt, FollowedAt, Saves, Record
    <3> QED
      BY <3>4, <3>5
  <2>5. CASE ~attempt[a].cancelled
    <3>1. Local(a)
      BY <1>1, <1>15, <2>3, <2>5 DEF Becomes, PollInterrupted, Local, OtherRun
    <3>2. InvAt(a)'
      BY <1>1, <1>2, <1>15, <2>3, <2>5 DEF Becomes, PollInterrupted, InvAt, AttemptAt, OwnRun, AnswerAt, StoppedAt, FollowedAt, Saves, Record
    <3> QED
      BY <3>1, <3>2
  <2> QED
    BY <2>4, <2>5
<1>16. CASE LoadArn(a)
  <2>1. Local(a)
    BY <1>1, <1>16 DEF LoadArn, Local, OtherRun, Saves
  <2>2. InvAt(a)'
    BY <1>1, <1>2, <1>16 DEF LoadArn, InvAt, AttemptAt, OwnRun, AnswerAt, StoppedAt, FollowedAt, Saves, Record
  <2> QED
    BY <2>1, <2>2
<1>17. CASE Complete(a)
  <2>1. Local(a)
    BY <1>1, <1>17 DEF Complete, Local, OtherRun, Runs
  <2>2. InvAt(a)'
    BY <1>1, <1>2, <1>17 DEF Complete, InvAt, AttemptAt, OwnRun, AnswerAt, StoppedAt, FollowedAt, Runs, Record
  <2> QED
    BY <2>1, <2>2
<1> QED
  BY <1>3, <1>4, <1>5, <1>6, <1>7, <1>8, <1>9, <1>10, <1>11, <1>12, <1>13, <1>14, <1>15, <1>16, <1>17

----------------------------------------------------------------------------
(* The row's own steps *)

\* The lease carries what the row names, and gives the attempt its number.
LEMMA LeaseKeeps ==
  ASSUME IInv, Lease
  PROVE  IInv'
<1>1. /\ attempt \in [Attempts -> Record] /\ request \in Saves /\ late \in [Attempts -> BOOLEAN]
      /\ cloud \in Runs /\ MaxAttempts \in Nat
      /\ row \in [status : {"queued", "leased", "over"}, holder : 0..MaxAttempts,
                  leases : 0..MaxAttempts, cancel : BOOLEAN, arn : 0..MaxAttempts]
      /\ TypeOK /\ \A b \in Attempts : InvAt(b)
  BY Types DEF IInv
<1>2. PICK a \in Attempts : a = row.leases + 1
  BY <1>1 DEF Lease, Attempts
<1> DEFINE r == [attempt[a] EXCEPT !.pc = IF row.arn = None THEN "upload" ELSE "poll", !.run = row.arn]
<1>3. Becomes(a, r)
  <2>1. attempt' = [attempt EXCEPT ![a] = r]
    BY <1>1, <1>2 DEF Lease, Record
  <2>2. r \in Record
    BY <1>1 DEF Record
  <2> HIDE DEF r
  <2> QED
    BY <1>1, <2>1, <2>2, OneWrite
<1>4. /\ row'.status = "leased" /\ row'.holder = a /\ row'.leases = a /\ row'.arn = row.arn /\ row'.cancel = row.cancel
      /\ row' \in [status : {"queued", "leased", "over"}, holder : 0..MaxAttempts,
                   leases : 0..MaxAttempts, cancel : BOOLEAN, arn : 0..MaxAttempts]
      /\ UNCHANGED <<request, late, cloud, left, lost, crashes>>
  <2>1. row' = [row EXCEPT !.status = "leased", !.holder = a, !.leases = a] /\ a \in 0..MaxAttempts
    BY <1>1, <1>2 DEF Lease, Attempts
  <2>2. UNCHANGED <<request, late, cloud, left, lost, crashes>>
    BY DEF Lease
  <2> QED
    BY <1>1, <2>1, <2>2
<1>5. TypeOK'
  BY <1>1, <1>3, <1>4 DEF TypeOK, Becomes, Record
<1>6. Leased'
  BY <1>2, <1>4 DEF Leased, Attempts, None
<1>7. InvAt(a)'
  <2>1. /\ attempt'[a].pc = IF row.arn = None THEN "upload" ELSE "poll"
        /\ attempt'[a].run = row.arn /\ attempt'[a].cancelled = attempt[a].cancelled
    BY <1>1, <1>3 DEF Becomes, Record
  <2>2. InvAt(a) /\ attempt[a].pc = "none"
    BY <1>1, <1>2 DEF InvAt, AttemptAt, Attempts
  <2>3. request[a] = "none" /\ ~late[a] /\ cloud[a] = "none"
    BY <2>2 DEF InvAt, AttemptAt
  <2>4. row.arn # None => cloud[row.arn] # "none"
    BY <1>1 DEF TypeOK
  <2>5. AttemptAt(a)'
    BY <1>2, <1>4, <2>1, <2>2, <2>3, <2>4 DEF InvAt, AttemptAt, None, Attempts
  <2> QED
    BY <1>4, <2>1, <2>3, <2>5 DEF InvAt, OwnRun, AnswerAt, StoppedAt, FollowedAt
<1>8. ASSUME NEW b \in Attempts \ {a} PROVE InvAt(b)'
  <2>1. InvAt(b) /\ attempt'[b] = attempt[b] /\ (b > a <=> b > row.leases)
    BY <1>1, <1>2, <1>3, <1>8 DEF Becomes, Attempts
  <2> QED
    BY <1>4, <2>1 DEF InvAt, AttemptAt, OwnRun, AnswerAt, StoppedAt, FollowedAt
<1> QED
  BY <1>5, <1>6, <1>7, <1>8 DEF IInv

\* The lease ends or the job is cancelled: nobody holds the row who did not.
LEMMA RowEnds ==
  ASSUME IInv, UNCHANGED <<request, late, cloud, left, lost, crashes>>,
         attempt' \in [Attempts -> Record],
         \A b \in Attempts : /\ attempt'[b].run = attempt[b].run /\ attempt'[b].cancelled = attempt[b].cancelled
                             /\ \/ attempt'[b].pc = attempt[b].pc
                                \/ attempt[b].pc = "result" /\ attempt'[b].pc = "over",
         row' \in [status : {"queued", "leased", "over"}, holder : 0..MaxAttempts,
                   leases : 0..MaxAttempts, cancel : BOOLEAN, arn : 0..MaxAttempts],
         row'.leases = row.leases, row'.arn = row.arn, row.cancel => row'.cancel,
         row'.status = "leased" => row.status = "leased",
         row'.holder = IF row'.status = "leased" THEN row.holder ELSE None
  PROVE  IInv'
<1>1. TypeOK /\ Leased /\ \A b \in Attempts : InvAt(b)
  BY DEF IInv
<1>2. TypeOK' /\ Leased'
  BY <1>1 DEF TypeOK, Leased, Record
<1>3. ASSUME NEW b \in Attempts PROVE InvAt(b)'
  <2>1. InvAt(b) /\ (row'.holder = b => row.holder = b)
    BY <1>1, BatchAssumption DEF Attempts, None
  <2>2. AttemptAt(b)'
    BY <2>1 DEF InvAt, AttemptAt
  <2>3. OwnRun(b)' /\ AnswerAt(b)' /\ StoppedAt(b)' /\ FollowedAt(b)'
    BY <2>1 DEF InvAt, OwnRun, AnswerAt, StoppedAt, FollowedAt
  <2> QED
    BY <2>2, <2>3 DEF InvAt
<1> QED
  BY <1>2, <1>3 DEF IInv

\* The row takes the ARN of the attempt that holds the lease: it named none, or
\* this one.
LEMMA ArnKeeps ==
  ASSUME IInv, NEW a \in Attempts, row.status = "leased", row.holder = a,
         request[a] = "new" \/ late[a],
         row' = [row EXCEPT !.arn = a], UNCHANGED <<attempt, cloud, left, lost, crashes>>,
         request' \in Saves, late' \in [Attempts -> BOOLEAN],
         \A b \in Attempts \ {a} : request'[b] = request[b] /\ late'[b] = late[b],
         late'[a] => late[a],
         (request'[a] = request[a] /\ late[a]) \/ (request'[a] = "stored" /\ request[a] = "new")
  PROVE  IInv' /\ row.arn \in {None, a}
<1>1. /\ attempt \in [Attempts -> Record] /\ cloud \in Runs
      /\ row \in [status : {"queued", "leased", "over"}, holder : 0..MaxAttempts,
                  leases : 0..MaxAttempts, cancel : BOOLEAN, arn : 0..MaxAttempts]
      /\ TypeOK /\ Leased /\ \A b \in Attempts : InvAt(b)
  BY Types DEF IInv
<1>2. InvAt(a) /\ attempt[a].run = a /\ cloud[a] # "none"
  BY <1>1, BatchAssumption DEF InvAt, AttemptAt, Attempts, None
<1>3. row.arn \in {None, a}
  BY <1>2 DEF InvAt, OwnRun
<1>4. /\ row'.arn = a /\ row'.status = row.status /\ row'.holder = row.holder /\ row'.leases = row.leases
      /\ row'.cancel = row.cancel
      /\ row' \in [status : {"queued", "leased", "over"}, holder : 0..MaxAttempts,
                   leases : 0..MaxAttempts, cancel : BOOLEAN, arn : 0..MaxAttempts]
  BY <1>1, BatchAssumption DEF Attempts
<1>5. TypeOK' /\ Leased'
  BY <1>1, <1>2, <1>4 DEF TypeOK, Leased, Saves
<1>6. InvAt(a)'
  BY <1>2, <1>4 DEF InvAt, AttemptAt, OwnRun, AnswerAt, StoppedAt, FollowedAt
<1>7. ASSUME NEW b \in Attempts \ {a} PROVE InvAt(b)'
  <2>1. InvAt(b) /\ b # None /\ request'[b] = request[b] /\ late'[b] = late[b]
    BY <1>1, <1>7 DEF Attempts, None
  <2> QED
    BY <1>3, <1>4, <2>1 DEF InvAt, AttemptAt, OwnRun, AnswerAt, StoppedAt, FollowedAt
<1> QED
  BY <1>3, <1>5, <1>6, <1>7 DEF IInv

\* SaveArn and a save that arrives late test the owner, which for workers of
\* their own is the attempt.
LEMMA SaveKeeps ==
  ASSUME IInv, ~SameWorker, NEW a \in Attempts, SaveArn(a) \/ SaveArrivesLate(a)
  PROVE  IInv' /\ (row.arn # None => row'.arn = row.arn)
<1>1. /\ request \in Saves /\ late \in [Attempts -> BOOLEAN]
      /\ row \in [status : {"queued", "leased", "over"}, holder : 0..MaxAttempts,
                  leases : 0..MaxAttempts, cancel : BOOLEAN, arn : 0..MaxAttempts]
      /\ a \in 0..MaxAttempts
      /\ TypeOK /\ Leased /\ \A b \in Attempts : InvAt(b)
  BY Types DEF IInv, Attempts
<1>2. CASE Holds(a)
  <2>1. row.status = "leased" /\ row.holder = a /\ row' = [row EXCEPT !.arn = a] /\ UNCHANGED <<attempt, cloud, left, lost, crashes>>
    BY <1>2 DEF Holds, SaveArn, SaveArrivesLate
  <2>2. /\ request' \in Saves /\ late' \in [Attempts -> BOOLEAN]
        /\ \A b \in Attempts \ {a} : request'[b] = request[b] /\ late'[b] = late[b]
        /\ late'[a] => late[a]
        /\ request[a] = "new" \/ late[a]
        /\ (request'[a] = request[a] /\ late[a]) \/ (request'[a] = "stored" /\ request[a] = "new")
    <3>1. CASE SaveArn(a)
      BY <1>1, <1>2, <3>1 DEF SaveArn, Saves
    <3>2. CASE SaveArrivesLate(a)
      BY <1>1, <1>2, <3>2 DEF SaveArrivesLate, Saves
    <3> QED
      BY <3>1, <3>2
  <2>3. IInv' /\ row.arn \in {None, a}
    BY <2>1, <2>2, ArnKeeps
  <2>4. row'.arn = a
    BY <1>1, <2>1
  <2> QED
    BY <2>3, <2>4
<1>3. CASE ~Holds(a)
  <2>1. row.holder # a
    BY <1>1, <1>3 DEF Holds, Leased, Attempts, None
  <2>2. /\ UNCHANGED <<row, attempt, cloud, left, lost, crashes>>
        /\ request' \in Saves /\ late' \in [Attempts -> BOOLEAN]
        /\ \A b \in Attempts \ {a} : request'[b] = request[b] /\ late'[b] = late[b]
        /\ late'[a] => late[a]
        /\ request'[a] = request[a] \/ (request'[a] = "refused" /\ request[a] = "new")
    <3>1. CASE SaveArn(a)
      BY <1>1, <1>3, <3>1 DEF SaveArn, Saves
    <3>2. CASE SaveArrivesLate(a)
      BY <1>1, <1>3, <3>2 DEF SaveArrivesLate, Saves
    <3> QED
      BY <3>1, <3>2
  <2>3. TypeOK' /\ Leased'
    BY <1>1, <2>2 DEF TypeOK, Leased, Saves
  <2>4. InvAt(a)'
    BY <1>1, <2>1, <2>2 DEF InvAt, AttemptAt, OwnRun, AnswerAt, StoppedAt, FollowedAt
  <2>5. ASSUME NEW b \in Attempts \ {a} PROVE InvAt(b)'
    <3>1. InvAt(b) /\ request'[b] = request[b] /\ late'[b] = late[b]
      BY <1>1, <2>2, <2>5
    <3> QED
      BY <2>2, <3>1 DEF InvAt, AttemptAt, OwnRun, AnswerAt, StoppedAt, FollowedAt
  <2> QED
    BY <2>2, <2>3, <2>4, <2>5 DEF IInv
<1> QED
  BY <1>2, <1>3

\* Reclaim, a cancel and a result end the lease or leave it where it is.
LEMMA RowKeeps ==
  ASSUME IInv, Reclaim \/ Cancel \/ (\E a \in Attempts : PostResult(a))
  PROVE  IInv' /\ row'.arn = row.arn
<1>1. /\ attempt \in [Attempts -> Record]
      /\ row \in [status : {"queued", "leased", "over"}, holder : 0..MaxAttempts,
                  leases : 0..MaxAttempts, cancel : BOOLEAN, arn : 0..MaxAttempts]
      /\ Leased /\ None \in 0..MaxAttempts
  BY Types DEF IInv, None
<1>2. UNCHANGED <<request, late, cloud, left, lost, crashes>>
  BY DEF Reclaim, Cancel, PostResult
<1>3. /\ attempt' \in [Attempts -> Record]
      /\ \A b \in Attempts : /\ attempt'[b].run = attempt[b].run /\ attempt'[b].cancelled = attempt[b].cancelled
                             /\ \/ attempt'[b].pc = attempt[b].pc
                                \/ attempt[b].pc = "result" /\ attempt'[b].pc = "over"
  <2>1. CASE UNCHANGED attempt
    BY <1>1, <2>1
  <2>2. ASSUME NEW a \in Attempts, PostResult(a)
        PROVE  /\ attempt' \in [Attempts -> Record]
               /\ \A b \in Attempts : /\ attempt'[b].run = attempt[b].run /\ attempt'[b].cancelled = attempt[b].cancelled
                                      /\ \/ attempt'[b].pc = attempt[b].pc
                                         \/ attempt[b].pc = "result" /\ attempt'[b].pc = "over"
    <3>1. attempt' = [attempt EXCEPT ![a] = [attempt[a] EXCEPT !.pc = "over"]] /\ [attempt[a] EXCEPT !.pc = "over"] \in Record
      BY <1>1, <2>2 DEF PostResult, Record
    <3>2. Becomes(a, [attempt[a] EXCEPT !.pc = "over"]) /\ attempt[a].pc = "result"
      BY <1>1, <2>2, <3>1, OneWrite DEF PostResult
    <3> QED
      BY <1>1, <3>2 DEF Becomes, Record
  <2> QED
    BY <2>1, <2>2 DEF Reclaim, Cancel
<1>4. /\ row' \in [status : {"queued", "leased", "over"}, holder : 0..MaxAttempts,
                   leases : 0..MaxAttempts, cancel : BOOLEAN, arn : 0..MaxAttempts]
      /\ row'.leases = row.leases /\ row'.arn = row.arn /\ (row.cancel => row'.cancel)
      /\ row'.status = "leased" => row.status = "leased"
      /\ row'.holder = IF row'.status = "leased" THEN row.holder ELSE None
  <2>1. CASE Reclaim
    BY <1>1, <2>1 DEF Reclaim
  <2>2. CASE Cancel
    BY <1>1, <2>2 DEF Cancel, Leased
  <2>3. CASE \E a \in Attempts : PostResult(a)
    BY <1>1, <2>3 DEF PostResult, Leased, Holds
  <2> QED
    BY <2>1, <2>2, <2>3
<1>5. IInv'
  BY <1>2, <1>3, <1>4, RowEnds
<1> QED
  BY <1>4, <1>5

----------------------------------------------------------------------------
(* The theorems *)

LEMMA InitInvariant == Init => IInv
<1> SUFFICES ASSUME Init PROVE IInv
  OBVIOUS
<1> USE BatchAssumption
<1>1. TypeOK /\ Leased
  BY DEF Init, TypeOK, Leased, None
<1>2. \A a \in Attempts : InvAt(a)
  BY DEF Init, InvAt, AttemptAt, OwnRun, AnswerAt, StoppedAt, FollowedAt, Attempts, None
<1> QED
  BY <1>1, <1>2 DEF IInv

\* Every step keeps the invariant and the ARN the row has.
LEMMA StepKeeps ==
  ASSUME IInv, ~SameWorker, [Next]_vars
  PROVE  IInv' /\ (row.arn # None => row'.arn = row.arn)
<1>1. CASE UNCHANGED vars
  BY <1>1 DEF vars, IInv, TypeOK, Leased, InvAt, AttemptAt, OwnRun, AnswerAt, StoppedAt, FollowedAt
<1>2. CASE Lease
  <2>1. row'.arn = row.arn
    BY <1>2, Types DEF Lease
  <2> QED
    BY <1>2, <2>1, LeaseKeeps
<1>3. CASE Reclaim \/ Cancel \/ (\E a \in Attempts : PostResult(a))
  BY <1>3, RowKeeps
<1>4. CASE \E a \in Attempts : SaveArn(a) \/ SaveArrivesLate(a)
  BY <1>4, SaveKeeps
<1>5. ASSUME NEW a \in Attempts,
             \/ LoseLease(a) \/ HearCancel(a) \/ Save(a) \/ SaveCancelled(a) \/ SaveStored(a) \/ SaveRefused(a)
             \/ SaveRejected(a) \/ Collect(a) \/ PollFails(a) \/ Crash(a) \/ Schedule(a) \/ SaveFails(a)
             \/ PollInterrupted(a) \/ LoadArn(a) \/ Complete(a)
      PROVE  IInv' /\ row'.arn = row.arn
  <2>1. Local(a) /\ InvAt(a)'
    BY <1>5, AttemptEffect
  <2> QED
    BY <2>1, LocalKeeps DEF Local
<1> QED
  BY <1>1, <1>2, <1>3, <1>4, <1>5 DEF Next, WorkerStep, ServerStep

\* The inductive invariant holds in every reachable state.
THEOREM BatchInvariant ==
  ASSUME ~SameWorker
  PROVE  Spec => []IInv
<1>1. IInv /\ [Next]_vars => IInv'
  BY StepKeeps
<1> QED
  BY <1>1, InitInvariant, PTL DEF Spec

\* _LeaseCheckpoint and _check_interrupt together: a run the row of a live job
\* names is stopped only for a cancel while every exchange is answered, and a
\* run on the device cloud always has a row, an attempt or a known loss.
THEOREM RunsAreKeptHolds ==
  ASSUME ~SameWorker
  PROVE  Spec => []RunsAreKept
<1>1. IInv => RunsAreKept
  <2> SUFFICES ASSUME IInv PROVE RunsAreKept
    OBVIOUS
  <2>1. TypeOK /\ (\A a \in Attempts : InvAt(a)) /\ row.arn \in 0..MaxAttempts /\ MaxAttempts \in Nat
    BY Types DEF IInv
  <2>2. RunIsFollowed
    BY <2>1 DEF InvAt, FollowedAt, RunIsFollowed
  <2>3. RecordedRunContinues
    BY <2>1 DEF InvAt, StoppedAt, RecordedRunContinues, Attempts, None
  <2> QED
    BY <2>1, <2>2, <2>3 DEF RunsAreKept
<1>2. Spec => []IInv
  BY BatchInvariant
<1> QED
  BY <1>1, <1>2, PTL

\* worker_batch_run's owner test: once the row names a run no save, prompt,
\* retried or late, of any attempt replaces it.
THEOREM ArnIsKeptHolds ==
  ASSUME ~SameWorker
  PROVE  Spec => ArnIsKept
<1>1. IInv /\ [Next]_vars => [row.arn # None => row'.arn = row.arn]_vars
  BY StepKeeps
<1>2. Spec => []IInv
  BY BatchInvariant
<1> QED
  BY <1>1, <1>2, PTL DEF Spec, ArnIsKept
=============================================================================
