-------------------------- MODULE LogStreamerProofs --------------------------
(***************************************************************************)
(* Theorems about LogStreamer: for any caps, number of lines and failures, *)
(* the lines the worker posts are the run's, in the run's order and none   *)
(* twice, and all of them when nothing failed and nothing overflowed.      *)
(***************************************************************************)
EXTENDS LogStreamer, SequenceTheorems, TLAPS

----------------------------------------------------------------------------
(* The inductive invariant *)

B(f) == flush[f].batch

\* The numbers in a sequence; an ordered one; one that ends before another.
Elems(s) == {s[i] : i \in 1..Len(s)}
Incr(s) == \A i, j \in 1..Len(s) : i < j => s[i] < s[j]
Before(s, t) == \A x \in Elems(s), y \in Elems(t) : x < y

\* Every line on its way is one the run printed.
Typed ==
  /\ printed \in 0..MaxLines /\ faults \in 0..MaxFaults
  /\ posted \in Seq(1..printed) /\ pending \in Seq(1..printed)
  /\ flush \in [Flushers -> [pc : {"waiting", "flushing", "over"}, batch : Seq(1..printed)]]
  /\ stop \in BOOLEAN /\ tail \in BOOLEAN /\ lost \in BOOLEAN /\ disabled \in BOOLEAN

\* One thread flushes at a time, the final one once the timed one is over.
Turns ==
  /\ \A f \in Flushers : flush[f].pc # "flushing" => B(f) = << >>
  /\ flush["timed"].pc = "over" => stop
  /\ flush["final"].pc # "waiting" => stop /\ flush["timed"].pc = "over"
  /\ tail => stop
  /\ tail /\ flush["final"].pc # "waiting" => pending = << >>
  /\ lost \/ disabled => faults # 0
  /\ ~stop => Len(pending) <= MaxPending

\* Posted lines come before those of a batch, and these before the queued.
Ordered ==
  /\ Incr(posted) /\ Incr(pending) /\ Before(posted, pending)
  /\ \A f \in Flushers : Incr(B(f)) /\ Before(posted, B(f)) /\ Before(B(f), pending)

InBatches == Len(B("timed")) + Len(B("final"))

\* No line is counted twice.
Counted ==
  /\ dropped \in Nat
  /\ dropped + Len(posted) + InBatches + Len(pending) <= printed

\* With no failure and no overflow, no line is missing.
Whole ==
  faults = 0 /\ dropped = 0 =>
    /\ Len(posted) + InBatches + Len(pending) = printed
    /\ \A i \in 1..Len(posted) : posted[i] = i
    /\ \A f \in Flushers : \A i \in 1..Len(B(f)) : B(f)[i] = Len(posted) + i
    /\ \A i \in 1..Len(pending) : pending[i] = Len(posted) + InBatches + i

IInv == Typed /\ Turns /\ Ordered /\ Counted /\ Whole

----------------------------------------------------------------------------
(* Sequences of numbers *)

LEMMA ElemsOfConcat ==
  ASSUME NEW S, NEW s \in Seq(S), NEW t \in Seq(S)
  PROVE  Elems(s \o t) = Elems(s) \union Elems(t)
<1>1. Range(s) = Elems(s) /\ Range(t) = Elems(t)
  BY RangeEquality DEF Elems
<1>2. Range(s \o t) = Elems(s \o t)
  <2>1. s \o t \in Seq(S)
    BY ConcatProperties
  <2> QED
    BY <2>1, RangeEquality DEF Elems
<1> QED
  BY <1>1, <1>2, RangeConcatenation

LEMMA NoElems == Elems(<< >>) = {}
  BY DEF Elems

\* What is behind an ordered sequence goes to its end.
LEMMA IncrConcat ==
  ASSUME NEW N \in Nat, NEW s \in Seq(1..N), NEW t \in Seq(1..N), Incr(s), Incr(t), Before(s, t)
  PROVE  s \o t \in Seq(1..N) /\ Incr(s \o t)
<1>1. /\ s \o t \in Seq(1..N) /\ Len(s \o t) = Len(s) + Len(t) /\ Len(s) \in Nat /\ Len(t) \in Nat
      /\ \A i \in 1..Len(s) + Len(t) : (s \o t)[i] = IF i <= Len(s) THEN s[i] ELSE t[i - Len(s)]
  BY ConcatProperties, LenProperties
<1>2. ASSUME NEW i \in 1..Len(s \o t), NEW j \in 1..Len(s \o t), i < j PROVE (s \o t)[i] < (s \o t)[j]
  <2>1. CASE j <= Len(s)
    BY <1>1, <1>2, <2>1 DEF Incr
  <2>2. CASE i > Len(s)
    <3>1. /\ (s \o t)[i] = t[i - Len(s)] /\ (s \o t)[j] = t[j - Len(s)]
          /\ i - Len(s) \in 1..Len(t) /\ j - Len(s) \in 1..Len(t) /\ i - Len(s) < j - Len(s)
      BY <1>1, <1>2, <2>2
    <3> QED
      BY <3>1 DEF Incr
  <2>3. CASE i <= Len(s) /\ j > Len(s)
    <3>1. (s \o t)[i] = s[i] /\ (s \o t)[j] = t[j - Len(s)] /\ i \in 1..Len(s) /\ j - Len(s) \in 1..Len(t)
      BY <1>1, <1>2, <2>3
    <3> QED
      BY <3>1 DEF Before, Elems
  <2> QED
    BY <1>1, <2>1, <2>2, <2>3
<1> QED
  BY <1>1, <1>2 DEF Incr

\* A part of an ordered sequence.
LEMMA PartOf ==
  ASSUME NEW N \in Nat, NEW s \in Seq(1..N), NEW m \in 1..Len(s) + 1, NEW n \in 0..Len(s), n >= m - 1
  PROVE  /\ SubSeq(s, m, n) \in Seq(1..N) /\ Len(SubSeq(s, m, n)) = n - m + 1
         /\ \A i \in 1..n - m + 1 : SubSeq(s, m, n)[i] = s[m + i - 1]
         /\ Elems(SubSeq(s, m, n)) \subseteq Elems(s)
         /\ Incr(s) => Incr(SubSeq(s, m, n))
<1>1. Len(s) \in Nat /\ \A i \in 1..Len(s) : s[i] \in 1..N
  BY LenProperties, ElementOfSeq
<1>2. /\ SubSeq(s, m, n) \in Seq(1..N)
      /\ Len(SubSeq(s, m, n)) = IF m <= n THEN n - m + 1 ELSE 0
      /\ \A i \in 1..n - m + 1 : SubSeq(s, m, n)[i] = s[m + i - 1]
  <2>1. \A i \in m..n : s[i] \in 1..N
    BY <1>1
  <2>2. m \in Int /\ n \in Int
    BY <1>1
  <2> QED
    BY <2>1, <2>2, SubSeqProperties
<1>3. Len(SubSeq(s, m, n)) = n - m + 1
  BY <1>1, <1>2
<1>4. Elems(SubSeq(s, m, n)) \subseteq Elems(s)
  <2>1. ASSUME NEW i \in 1..Len(SubSeq(s, m, n)) PROVE SubSeq(s, m, n)[i] \in Elems(s)
    <3>1. m + i - 1 \in 1..Len(s) /\ SubSeq(s, m, n)[i] = s[m + i - 1]
      BY <1>1, <1>2, <1>3
    <3> QED
      BY <3>1 DEF Elems
  <2> QED
    BY <2>1 DEF Elems
<1>5. ASSUME Incr(s) PROVE Incr(SubSeq(s, m, n))
  <2>1. ASSUME NEW i \in 1..n - m + 1, NEW j \in 1..n - m + 1, i < j
        PROVE  SubSeq(s, m, n)[i] < SubSeq(s, m, n)[j]
    <3>1. m + i - 1 \in 1..Len(s) /\ m + j - 1 \in 1..Len(s) /\ m + i - 1 < m + j - 1
      BY <1>1, <2>1
    <3>2. s[m + i - 1] < s[m + j - 1]
      BY <1>5, <3>1 DEF Incr
    <3> QED
      BY <1>2, <3>2
  <2> QED
    BY <1>3, <2>1 DEF Incr
<1> QED
  BY <1>2, <1>3, <1>4, <1>5

\* An ordered sequence falls into a front and a rest behind it.
LEMMA Cut ==
  ASSUME NEW N \in Nat, NEW s \in Seq(1..N), Incr(s), NEW n \in 0..Len(s)
  PROVE  /\ Before(SubSeq(s, 1, n), SubSeq(s, n + 1, Len(s)))
         /\ Len(SubSeq(s, 1, n)) = n /\ Len(SubSeq(s, n + 1, Len(s))) = Len(s) - n
         /\ \A i \in 1..n : SubSeq(s, 1, n)[i] = s[i]
         /\ \A i \in 1..Len(s) - n : SubSeq(s, n + 1, Len(s))[i] = s[n + i]
<1>1. Len(s) \in Nat
  BY LenProperties
<1>2. Len(SubSeq(s, 1, n)) = n /\ \A i \in 1..n : SubSeq(s, 1, n)[i] = s[i]
  <2>1. 1 \in 1..Len(s) + 1 /\ n >= 1 - 1 /\ n - 1 + 1 = n /\ \A i \in 1..n : 1 + i - 1 = i
    BY <1>1
  <2> QED
    BY <2>1, PartOf
<1>3. Len(SubSeq(s, n + 1, Len(s))) = Len(s) - n /\ \A i \in 1..Len(s) - n : SubSeq(s, n + 1, Len(s))[i] = s[n + i]
  <2>1. /\ n + 1 \in 1..Len(s) + 1 /\ Len(s) \in 0..Len(s) /\ Len(s) >= (n + 1) - 1 /\ Len(s) - (n + 1) + 1 = Len(s) - n
        /\ \A i \in 1..Len(s) - n : (n + 1) + i - 1 = n + i
    BY <1>1
  <2>2. /\ Len(SubSeq(s, n + 1, Len(s))) = Len(s) - (n + 1) + 1
        /\ \A i \in 1..Len(s) - (n + 1) + 1 : SubSeq(s, n + 1, Len(s))[i] = s[(n + 1) + i - 1]
    BY <2>1, PartOf
  <2> QED
    BY <2>1, <2>2
<1>4. ASSUME NEW i \in 1..n, NEW j \in 1..Len(s) - n PROVE SubSeq(s, 1, n)[i] < SubSeq(s, n + 1, Len(s))[j]
  <2>1. i \in 1..Len(s) /\ n + j \in 1..Len(s) /\ i < n + j
    BY <1>1
  <2> QED
    BY <1>2, <1>3, <2>1 DEF Incr
<1>5. Before(SubSeq(s, 1, n), SubSeq(s, n + 1, Len(s)))
  BY <1>2, <1>3, <1>4 DEF Before, Elems
<1> QED
  BY <1>2, <1>3, <1>5

----------------------------------------------------------------------------
(* Each step and the invariant *)

FlushPc == {"waiting", "flushing", "over"}

\* A thread has a batch only while it flushes, and the other one has none then.
LEMMA OneBatch ==
  ASSUME IInv, NEW f \in Flushers, flush[f].pc = "flushing"
  PROVE  \A g \in Flushers \ {f} : B(g) = << >> /\ flush[g].pc # "flushing"
  BY DEF IInv, Turns, Flushers

\* The facts about types that every step needs.
LEMMA Types ==
  ASSUME IInv
  PROVE  /\ printed \in Nat /\ printed <= MaxLines /\ MaxLines \in Nat /\ dropped \in Nat
         /\ posted \in Seq(1..printed) /\ pending \in Seq(1..printed)
         /\ Len(posted) \in Nat /\ Len(pending) \in Nat
         /\ \A f \in Flushers : B(f) \in Seq(1..printed) /\ Len(B(f)) \in Nat
<1>1. /\ printed \in 0..MaxLines /\ MaxLines \in Nat /\ dropped \in Nat
      /\ posted \in Seq(1..printed) /\ pending \in Seq(1..printed)
      /\ \A f \in Flushers : B(f) \in Seq(1..printed)
  BY StreamerAssumption DEF IInv, Typed, Counted, B
<1> QED
  BY <1>1, LenProperties

\* One turn of a flush: a front of the batch, maybe empty, goes on the wire and
\* the flush goes on with the rest, or returns.  It drops the rest, if there is
\* one, only after a failure.
FlushTurn(f, n, p, rest) ==
  /\ flush' = [flush EXCEPT ![f] = [pc |-> p, batch |-> rest]]
  /\ posted' = posted \o SubSeq(B(f), 1, n)
  /\ \/ p = "flushing" /\ rest = SubSeq(B(f), n + 1, Len(B(f)))
     \/ p \in {"waiting", "over"} /\ rest = << >> /\ (n = Len(B(f)) \/ faults' # 0)
  /\ p = "waiting" => f = "timed"
  /\ p = "over" => f = "final"
  /\ faults' \in 0..MaxFaults /\ lost' \in BOOLEAN /\ disabled' \in BOOLEAN
  /\ faults' = 0 => faults = 0
  /\ lost' \/ disabled' => faults' # 0
  /\ UNCHANGED <<printed, pending, dropped, stop, tail>>

LEMMA FlushTurnKeeps ==
  ASSUME IInv, NEW f \in Flushers, flush[f].pc = "flushing", NEW n \in 0..Len(B(f)),
         NEW p \in FlushPc, NEW rest, FlushTurn(f, n, p, rest)
  PROVE  IInv'
<1> DEFINE front == SubSeq(B(f), 1, n)
           back == SubSeq(B(f), n + 1, Len(B(f)))
<1>1. /\ printed \in Nat /\ dropped \in Nat /\ posted \in Seq(1..printed) /\ pending \in Seq(1..printed)
      /\ B(f) \in Seq(1..printed) /\ Len(B(f)) \in Nat /\ Len(posted) \in Nat /\ Len(pending) \in Nat
      /\ Typed /\ Turns /\ Ordered /\ Counted /\ Whole
      /\ \A g \in Flushers \ {f} : B(g) = << >>
  BY Types, OneBatch DEF IInv
<1>2. Incr(B(f)) /\ Incr(posted) /\ Incr(pending) /\ Before(posted, B(f)) /\ Before(B(f), pending) /\ Before(posted, pending)
  BY <1>1 DEF Ordered
<1>3. /\ front \in Seq(1..printed) /\ Elems(front) \subseteq Elems(B(f)) /\ Incr(front)
  <2>1. 1 \in 1..Len(B(f)) + 1 /\ n >= 1 - 1
    BY <1>1
  <2> QED
    BY <1>1, <1>2, <2>1, PartOf
<1>4. /\ back \in Seq(1..printed) /\ Elems(back) \subseteq Elems(B(f)) /\ Incr(back)
  <2>1. n + 1 \in 1..Len(B(f)) + 1 /\ Len(B(f)) \in 0..Len(B(f)) /\ Len(B(f)) >= (n + 1) - 1
    BY <1>1
  <2> QED
    BY <1>1, <1>2, <2>1, PartOf
<1>5. /\ Before(front, back) /\ Len(front) = n /\ Len(back) = Len(B(f)) - n
      /\ \A i \in 1..n : front[i] = B(f)[i]
      /\ \A i \in 1..Len(B(f)) - n : back[i] = B(f)[n + i]
  BY <1>1, <1>2, Cut
<1> HIDE DEF front, back
<1>6. /\ rest \in Seq(1..printed) /\ Elems(rest) \subseteq Elems(back) /\ Incr(rest)
      /\ Len(rest) \in 0..Len(B(f)) - n
      /\ faults' = 0 => Len(rest) = Len(B(f)) - n /\ \A i \in 1..Len(rest) : rest[i] = B(f)[n + i]
  <2>1. CASE rest = back
    <3>1. Len(back) = Len(B(f)) - n /\ Len(B(f)) - n \in 0..Len(B(f)) - n
      BY <1>1, <1>5
    <3>2. \A i \in 1..Len(back) : back[i] = B(f)[n + i]
      BY <1>5
    <3> QED
      BY <1>4, <2>1, <3>1, <3>2
  <2>2. CASE rest = << >> /\ (n = Len(B(f)) \/ faults' # 0)
    <3>1. << >> \in Seq(1..printed) /\ Len(<< >>) = 0 /\ Incr(<< >>)
      BY DEF Incr
    <3> QED
      BY <1>1, <2>2, <3>1, NoElems
  <2> QED
    BY <2>1, <2>2 DEF FlushTurn, back
<1>7. /\ posted' = posted \o front /\ posted' \in Seq(1..printed) /\ Incr(posted')
      /\ Elems(posted') = Elems(posted) \union Elems(front)
      /\ Len(posted') = Len(posted) + n
      /\ \A i \in 1..Len(posted) + n : posted'[i] = IF i <= Len(posted) THEN posted[i] ELSE front[i - Len(posted)]
  <2>1. Before(posted, front)
    BY <1>2, <1>3 DEF Before
  <2>2. posted' = posted \o front
    BY DEF FlushTurn, front
  <2> QED
    <3>1. posted \o front \in Seq(1..printed) /\ Incr(posted \o front)
      BY <1>1, <1>2, <1>3, <2>1, IncrConcat
    <3>2. Elems(posted \o front) = Elems(posted) \union Elems(front)
      BY <1>1, <1>3, ElemsOfConcat
    <3>3. /\ Len(posted \o front) = Len(posted) + Len(front)
          /\ \A i \in 1..Len(posted) + Len(front) :
               (posted \o front)[i] = IF i <= Len(posted) THEN posted[i] ELSE front[i - Len(posted)]
      BY <1>1, <1>3, ConcatProperties
    <3> QED
      BY <1>5, <2>2, <3>1, <3>2, <3>3
<1>8. /\ B(f)' = rest /\ flush'[f].pc = p /\ \A g \in Flushers \ {f} : B(g)' = << >> /\ flush'[g] = flush[g]
      /\ flush' \in [Flushers -> [pc : FlushPc, batch : Seq(1..printed)]]
  BY <1>1, <1>6 DEF FlushTurn, Typed, B, FlushPc
<1>9. UNCHANGED <<printed, pending, dropped, stop, tail>>
  BY DEF FlushTurn
<1>10. Typed'
  BY <1>1, <1>7, <1>8, <1>9 DEF Typed, FlushTurn, FlushPc
<1>11. Turns'
  BY SMTT(30), <1>1, <1>8, <1>9 DEF Turns, FlushTurn, Flushers
<1>12. Ordered'
  <2>1. Before(posted', pending)
    BY <1>2, <1>3, <1>7 DEF Before
  <2>2. Incr(rest) /\ Before(posted', rest) /\ Before(rest, pending)
    BY <1>2, <1>3, <1>4, <1>5, <1>6, <1>7 DEF Before
  <2>3. Incr(<< >>) /\ Before(posted', << >>) /\ Before(<< >>, pending)
    BY NoElems DEF Incr, Before
  <2>4. ASSUME NEW g \in Flushers PROVE Incr(B(g)') /\ Before(posted', B(g)') /\ Before(B(g)', pending)
    BY <1>8, <2>2, <2>3
  <2>5. Incr(posted') /\ Incr(pending) /\ pending' = pending
    BY <1>2, <1>7, <1>9
  <2> QED
    BY <2>1, <2>4, <2>5 DEF Ordered, Before, Incr, Elems
<1>13. InBatches = Len(B(f)) /\ InBatches' = Len(rest)
  <2>1. Len(<< >>) = 0
    OBVIOUS
  <2>2. Len(rest) \in Nat
    BY <1>1, <1>6
  <2> QED
    BY <1>1, <1>8, <2>1, <2>2 DEF InBatches, Flushers
<1>14. Counted'
  BY SMTT(30), <1>1, <1>6, <1>7, <1>9, <1>13 DEF Counted
<1>15. Whole'
  <2> SUFFICES ASSUME faults' = 0, dropped' = 0 PROVE
        /\ Len(posted') + InBatches' + Len(pending') = printed'
        /\ \A i \in 1..Len(posted') : posted'[i] = i
        /\ \A g \in Flushers : \A i \in 1..Len(B(g)') : B(g)'[i] = Len(posted') + i
        /\ \A i \in 1..Len(pending') : pending'[i] = Len(posted') + InBatches' + i
    BY DEF Whole
  <2>1. /\ faults = 0 /\ dropped = 0
        /\ Len(posted) + Len(B(f)) + Len(pending) = printed
        /\ \A i \in 1..Len(posted) : posted[i] = i
        /\ \A i \in 1..Len(B(f)) : B(f)[i] = Len(posted) + i
        /\ \A i \in 1..Len(pending) : pending[i] = Len(posted) + Len(B(f)) + i
    BY <1>1, <1>9, <1>13 DEF Whole, FlushTurn
  <2>2. Len(rest) = Len(B(f)) - n /\ \A i \in 1..Len(rest) : rest[i] = B(f)[n + i]
    BY <1>6
  <2>3. Len(posted') + InBatches' + Len(pending') = printed'
    <3>1. Len(pending') = Len(pending) /\ printed' = printed
      BY <1>9
    <3>2. Len(posted') = Len(posted) + n /\ InBatches' = Len(B(f)) - n
      BY <1>7, <1>13, <2>2
    <3>3. (Len(posted) + n) + (Len(B(f)) - n) = Len(posted) + Len(B(f))
      BY <1>1
    <3>4. Len(posted') + InBatches' = Len(posted) + Len(B(f))
      BY <3>2, <3>3
    <3> QED
      BY <2>1, <3>1, <3>4
  <2>4. \A i \in 1..Len(posted') : posted'[i] = i
    <3>1. ASSUME NEW i \in 1..Len(posted') PROVE posted'[i] = i
      <4>1. CASE i <= Len(posted)
        BY <1>1, <1>7, <2>1, <4>1
      <4>2. CASE i > Len(posted)
        <5>1. i - Len(posted) \in 1..n /\ i - Len(posted) \in 1..Len(B(f)) /\ i \in Nat
          BY <1>1, <1>7, <4>2
        <5>2. posted'[i] = front[i - Len(posted)]
          BY <1>1, <1>7, <4>2
        <5>3. posted'[i] = Len(posted) + (i - Len(posted))
          BY <1>5, <2>1, <5>1, <5>2
        <5> QED
          BY <1>1, <5>1, <5>3
      <4> QED
        BY <1>1, <1>7, <4>1, <4>2
    <3> QED
      BY <3>1
  <2>5. \A i \in 1..Len(rest) : rest[i] = Len(posted') + i
    <3>1. ASSUME NEW i \in 1..Len(rest) PROVE rest[i] = Len(posted') + i
      <4>1. n + i \in 1..Len(B(f)) /\ i \in Nat /\ n \in Nat /\ Len(posted) \in Nat
        BY <1>1, <2>2
      <4>2. rest[i] = B(f)[n + i]
        BY <2>2
      <4>3. B(f)[n + i] = Len(posted) + (n + i)
        BY <2>1, <4>1
      <4>4. Len(posted') = Len(posted) + n
        BY <1>7
      <4> QED
        BY <4>1, <4>2, <4>3, <4>4
    <3> QED
      BY <3>1
  <2>6. \A g \in Flushers : \A i \in 1..Len(B(g)') : B(g)'[i] = Len(posted') + i
    <3>1. 1..Len(<< >>) = {}
      OBVIOUS
    <3> QED
      BY <1>8, <2>5, <3>1
  <2>7. \A i \in 1..Len(pending') : pending'[i] = Len(posted') + InBatches' + i
    <3>1. Len(posted') + InBatches' = Len(posted) + Len(B(f))
      BY <1>1, <1>7, <1>13, <2>2
    <3> QED
      BY <1>9, <2>1, <3>1
  <2> QED
    BY <2>3, <2>4, <2>6, <2>7
<1> QED
  BY <1>10, <1>11, <1>12, <1>14, <1>15 DEF IInv

LEMMA BatchWrite ==
  ASSUME NEW S, flush \in [Flushers -> [pc : FlushPc, batch : S]], NEW f \in Flushers,
         flush[f].pc = "flushing", NEW rest
  PROVE  [flush EXCEPT ![f].batch = rest] = [flush EXCEPT ![f] = [pc |-> "flushing", batch |-> rest]]
<1>1. [flush[f] EXCEPT !.batch = rest] = [pc |-> "flushing", batch |-> rest]
  OBVIOUS
<1> QED
  BY <1>1

\* The steps that are one turn of a flush.
LEMMA FlushSteps ==
  ASSUME IInv, NEW f \in Flushers,
         FlushEnds(f) \/ OutOfTime(f) \/ \E n \in 1..MaxBatch : Posted(f, n) \/ PostFails(f, n)
  PROVE  IInv'
<1>1. /\ flush \in [Flushers -> [pc : FlushPc, batch : Seq(1..printed)]]
      /\ faults \in 0..MaxFaults /\ MaxFaults \in Nat /\ lost \in BOOLEAN /\ disabled \in BOOLEAN
      /\ lost \/ disabled => faults # 0
      /\ posted \in Seq(1..printed) /\ B(f) \in Seq(1..printed) /\ Len(B(f)) \in Nat
  BY StreamerAssumption, Types DEF IInv, Typed, Turns, FlushPc
<1> DEFINE over == IF f = "timed" THEN "waiting" ELSE "over"
<1>2. over \in FlushPc /\ over # "flushing" /\ (over = "waiting" => f = "timed") /\ (over = "over" => f = "final")
  BY DEF Flushers, FlushPc
<1>3. posted \o SubSeq(B(f), 1, 0) = posted /\ 0 \in 0..Len(B(f))
  BY <1>1, SubSeqEmpty, ConcatEmptySeq
<1>4. CASE FlushEnds(f)
  <2>1. FlushTurn(f, 0, over, << >>)
    <3>1. /\ flush' = [flush EXCEPT ![f] = [pc |-> over, batch |-> << >>]]
          /\ UNCHANGED <<printed, pending, dropped, stop, tail, lost, disabled, posted, faults>>
      BY <1>4 DEF FlushEnds, Return
    <3>2. 0 = Len(B(f)) \/ faults' # 0
      <4>1. CASE flush[f].batch = << >>
        BY <4>1 DEF B
      <4>2. CASE lost \/ disabled
        BY <1>1, <3>1, <4>2
      <4> QED
        BY <1>4, <4>1, <4>2 DEF FlushEnds
    <3> QED
      BY <1>1, <1>2, <1>3, <3>1, <3>2 DEF FlushTurn
  <2> QED
    BY <1>2, <1>3, <1>4, <2>1, FlushTurnKeeps DEF FlushEnds
<1>5. CASE OutOfTime(f)
  <2>1. FlushTurn(f, 0, over, << >>)
    <3>1. /\ flush' = [flush EXCEPT ![f] = [pc |-> over, batch |-> << >>]]
          /\ UNCHANGED <<printed, pending, dropped, stop, tail, lost, disabled, posted>>
          /\ faults' \in 0..MaxFaults /\ faults' # 0
      BY <1>1, <1>5 DEF OutOfTime, Return
    <3> QED
      BY <1>1, <1>2, <1>3, <3>1 DEF FlushTurn
  <2> QED
    BY <1>2, <1>3, <1>5, <2>1, FlushTurnKeeps DEF OutOfTime
<1>6. ASSUME NEW n \in 1..MaxBatch, Posted(f, n) PROVE IInv'
  <2>1. n \in 0..Len(B(f)) /\ flush[f].pc = "flushing"
    BY <1>1, <1>6 DEF Posted, Posts, B
  <2>2. FlushTurn(f, n, "flushing", SubSeq(B(f), n + 1, Len(B(f))))
    <3>1. flush' = [flush EXCEPT ![f] = [pc |-> "flushing", batch |-> SubSeq(B(f), n + 1, Len(B(f)))]]
      BY <1>1, <1>6, <2>1, BatchWrite DEF Posted, Rest, B
    <3>2. posted' = posted \o SubSeq(B(f), 1, n) /\ UNCHANGED <<printed, pending, dropped, stop, tail, lost, disabled, faults>>
      BY <1>6 DEF Posted, Posts, B
    <3> QED
      BY <1>1, <3>1, <3>2 DEF FlushTurn
  <2> QED
    BY <2>1, <2>2, FlushTurnKeeps DEF FlushPc
<1>7. ASSUME NEW n \in 1..MaxBatch, PostFails(f, n) PROVE IInv'
  <2>1. n \in 0..Len(B(f)) /\ flush[f].pc = "flushing"
    BY <1>1, <1>7 DEF PostFails, Posts, B
  <2>2. /\ posted' = posted \o SubSeq(B(f), 1, n) /\ UNCHANGED <<printed, pending, dropped, stop, tail>>
        /\ faults' \in 0..MaxFaults /\ faults' # 0 /\ lost' \in BOOLEAN /\ disabled' \in BOOLEAN
    <3>1. /\ posted' = posted \o SubSeq(B(f), 1, n) /\ UNCHANGED <<printed, pending, dropped, stop, tail>>
          /\ faults' = faults + 1 /\ faults < MaxFaults
          /\ lost' \in {TRUE, lost} /\ disabled' \in {TRUE, disabled}
      BY <1>7 DEF PostFails, Posts, B
    <3>2. faults' \in 0..MaxFaults /\ faults' # 0
      BY <1>1, <3>1
    <3> QED
      BY <1>1, <3>1, <3>2
  <2>3. CASE Return(f)
    <3>1. flush' = [flush EXCEPT ![f] = [pc |-> over, batch |-> << >>]]
      BY <2>3 DEF Return
    <3>2. FlushTurn(f, n, over, << >>)
      BY <1>2, <2>2, <3>1 DEF FlushTurn
    <3> QED
      BY <1>2, <2>1, <3>2, FlushTurnKeeps
  <2>4. CASE flush' = [flush EXCEPT ![f].batch = Rest(f, n)]
    <3>1. flush' = [flush EXCEPT ![f] = [pc |-> "flushing", batch |-> SubSeq(B(f), n + 1, Len(B(f)))]]
      BY <1>1, <2>1, <2>4, BatchWrite DEF Rest, B
    <3>2. FlushTurn(f, n, "flushing", SubSeq(B(f), n + 1, Len(B(f))))
      BY <2>2, <3>1 DEF FlushTurn
    <3> QED
      BY <2>1, <3>2, FlushTurnKeeps DEF FlushPc
  <2> QED
    BY <1>7, <2>3, <2>4 DEF PostFails
<1> QED
  BY <1>4, <1>5, <1>6, <1>7

\* A flush takes all that is queued.
LEMMA TakeKeeps ==
  ASSUME IInv, NEW f \in Flushers,
         flush' = [flush EXCEPT ![f] = [pc |-> "flushing", batch |-> pending]], pending' = << >>,
         \A g \in Flushers : B(g) = << >>,
         f = "final" => stop /\ flush["timed"].pc = "over",
         f = "timed" => ~stop,
         UNCHANGED <<printed, dropped, stop, tail, lost, disabled, posted, faults>>
  PROVE  IInv'
<1>1. /\ printed \in Nat /\ dropped \in Nat /\ posted \in Seq(1..printed) /\ pending \in Seq(1..printed)
      /\ Len(posted) \in Nat /\ Len(pending) \in Nat /\ MaxPending \in Nat
      /\ Typed /\ Turns /\ Ordered /\ Counted /\ Whole
  BY Types, StreamerAssumption DEF IInv
<1>2. /\ B(f)' = pending /\ flush'[f].pc = "flushing" /\ \A g \in Flushers \ {f} : B(g)' = << >> /\ flush'[g] = flush[g]
      /\ flush' \in [Flushers -> [pc : FlushPc, batch : Seq(1..printed)]]
  BY <1>1 DEF Typed, B, FlushPc
<1>3. << >> \in Seq(1..printed) /\ Len(<< >>) = 0 /\ Elems(<< >>) = {}
  BY NoElems
<1>4. Typed'
  BY <1>1, <1>2, <1>3 DEF Typed, FlushPc
<1>5. Turns'
  BY <1>1, <1>2, <1>3 DEF Turns, Flushers
<1>6. Ordered'
  <2>1. \A g \in Flushers : /\ Incr(B(g)') /\ Before(posted, B(g)') /\ Before(B(g)', << >>)
    BY <1>1, <1>2, <1>3 DEF Ordered, Incr, Before
  <2>2. Incr(posted) /\ Incr(<< >>) /\ Before(posted, << >>)
    BY <1>1, <1>3 DEF Ordered, Incr, Before
  <2> QED
    BY <2>1, <2>2 DEF Ordered, Before, Incr, Elems
<1>7. InBatches = 0 /\ InBatches' = Len(pending)
  BY <1>1, <1>2, <1>3 DEF InBatches, Flushers
<1>8. Counted'
  BY <1>1, <1>3, <1>7 DEF Counted
<1>9. Whole'
  <2> SUFFICES ASSUME faults' = 0, dropped' = 0 PROVE
        /\ Len(posted') + InBatches' + Len(pending') = printed'
        /\ \A i \in 1..Len(posted') : posted'[i] = i
        /\ \A g \in Flushers : \A i \in 1..Len(B(g)') : B(g)'[i] = Len(posted') + i
        /\ \A i \in 1..Len(pending') : pending'[i] = Len(posted') + InBatches' + i
    BY DEF Whole
  <2>1. /\ Len(posted) + Len(pending) = printed
        /\ \A i \in 1..Len(posted) : posted[i] = i
        /\ \A i \in 1..Len(pending) : pending[i] = Len(posted) + i
    BY <1>1, <1>7 DEF Whole
  <2>2. \A g \in Flushers : \A i \in 1..Len(B(g)') : B(g)'[i] = Len(posted') + i
    <3>1. 1..Len(<< >>) = {}
      BY <1>3
    <3> QED
      BY <1>2, <2>1, <3>1
  <2> QED
    BY <1>1, <1>3, <1>7, <2>1, <2>2
<1> QED
  BY <1>4, <1>5, <1>6, <1>8, <1>9 DEF IInv

\* A timed flush that yields to stop puts its batch back in front.
LEMMA PutBackKeeps ==
  ASSUME IInv, NEW f \in Flushers, PutBack(f)
  PROVE  IInv'
<1>1. /\ printed \in Nat /\ dropped \in Nat /\ posted \in Seq(1..printed) /\ pending \in Seq(1..printed)
      /\ Len(posted) \in Nat /\ Len(pending) \in Nat
      /\ B(f) \in Seq(1..printed) /\ Len(B(f)) \in Nat
      /\ Typed /\ Turns /\ Ordered /\ Counted /\ Whole
  BY Types DEF IInv
<1>2. /\ f = "timed" /\ stop /\ flush[f].pc = "flushing" /\ pending' = B(f) \o pending
      /\ flush' = [flush EXCEPT ![f] = [pc |-> "waiting", batch |-> << >>]]
      /\ UNCHANGED <<printed, dropped, stop, tail, lost, disabled, posted, faults>>
  BY DEF PutBack, Yields, Return, B
<1>3. \A g \in Flushers \ {f} : B(g) = << >> /\ flush[g].pc # "flushing"
  BY <1>2, OneBatch
<1>4. << >> \in Seq(1..printed) /\ Len(<< >>) = 0 /\ Elems(<< >>) = {}
  BY NoElems
<1>5. /\ flush'[f].pc = "waiting" /\ (\A g \in Flushers : B(g)' = << >>) /\ \A g \in Flushers \ {f} : flush'[g] = flush[g]
      /\ flush' \in [Flushers -> [pc : FlushPc, batch : Seq(1..printed)]]
  BY <1>1, <1>2, <1>3, <1>4 DEF Typed, B, FlushPc
<1>6. /\ pending' \in Seq(1..printed) /\ Incr(pending') /\ Elems(pending') = Elems(B(f)) \union Elems(pending)
      /\ Len(pending') = Len(B(f)) + Len(pending)
      /\ \A i \in 1..Len(B(f)) + Len(pending) : pending'[i] = IF i <= Len(B(f)) THEN B(f)[i] ELSE pending[i - Len(B(f))]
  <2>1. Incr(B(f)) /\ Incr(pending) /\ Before(B(f), pending)
    BY <1>1 DEF Ordered
  <2>2. B(f) \o pending \in Seq(1..printed) /\ Incr(B(f) \o pending)
    BY <1>1, <2>1, IncrConcat
  <2>3. Elems(B(f) \o pending) = Elems(B(f)) \union Elems(pending)
    BY <1>1, ElemsOfConcat
  <2>4. /\ Len(B(f) \o pending) = Len(B(f)) + Len(pending)
        /\ \A i \in 1..Len(B(f)) + Len(pending) :
             (B(f) \o pending)[i] = IF i <= Len(B(f)) THEN B(f)[i] ELSE pending[i - Len(B(f))]
    BY <1>1, ConcatProperties
  <2> QED
    BY <1>2, <2>2, <2>3, <2>4
<1>7. Typed'
  BY <1>1, <1>2, <1>5, <1>6 DEF Typed, FlushPc
<1>8. Turns'
  BY <1>1, <1>2, <1>3, <1>5 DEF Turns, Flushers
<1>9. Ordered'
  <2>1. Before(posted, pending') /\ Incr(posted)
    BY <1>1, <1>6 DEF Ordered, Before
  <2>2. Incr(<< >>) /\ Before(posted, << >>) /\ Before(<< >>, pending')
    BY <1>4 DEF Incr, Before
  <2>3. Incr(posted)' /\ Before(posted, pending)' /\ Incr(pending)'
    <3>1. posted' = posted
      BY <1>2
    <3>2. Incr(posted)'
      BY <2>1, <3>1 DEF Incr
    <3>3. Before(posted, pending)'
      BY <2>1, <3>1 DEF Before, Elems
    <3>4. Incr(pending)'
      BY <1>6 DEF Incr
    <3> QED
      BY <3>2, <3>3, <3>4
  <2>4. \A g \in Flushers : Incr(B(g))' /\ Before(posted, B(g))' /\ Before(B(g), pending)'
    <3> SUFFICES ASSUME NEW g \in Flushers PROVE Incr(B(g))' /\ Before(posted, B(g))' /\ Before(B(g), pending)'
      OBVIOUS
    <3>1. B(g)' = << >>
      BY <1>5
    <3>2. Len(B(g)') = 0 /\ Elems(B(g)') = {}
      BY <1>4, <3>1
    <3>3. Incr(B(g))'
      BY <3>2 DEF Incr
    <3>4. Before(posted, B(g))' /\ Before(B(g), pending)'
      BY <3>2 DEF Before, Elems
    <3> QED
      BY <3>3, <3>4
  <2> QED
    BY <2>3, <2>4 DEF Ordered
<1>10. InBatches = Len(B(f)) /\ InBatches' = 0
  BY <1>1, <1>2, <1>3, <1>4, <1>5 DEF InBatches, Flushers
<1>11. Counted'
  BY <1>1, <1>2, <1>6, <1>10 DEF Counted
<1>12. Whole'
  <2> SUFFICES ASSUME faults' = 0, dropped' = 0 PROVE
        /\ Len(posted') + InBatches' + Len(pending') = printed'
        /\ \A i \in 1..Len(posted') : posted'[i] = i
        /\ \A g \in Flushers : \A i \in 1..Len(B(g)') : B(g)'[i] = Len(posted') + i
        /\ \A i \in 1..Len(pending') : pending'[i] = Len(posted') + InBatches' + i
    BY DEF Whole
  <2>1. /\ Len(posted) + Len(B(f)) + Len(pending) = printed
        /\ \A i \in 1..Len(posted) : posted[i] = i
        /\ \A i \in 1..Len(B(f)) : B(f)[i] = Len(posted) + i
        /\ \A i \in 1..Len(pending) : pending[i] = Len(posted) + Len(B(f)) + i
    BY <1>1, <1>2, <1>10 DEF Whole
  <2>2. \A g \in Flushers : \A i \in 1..Len(B(g)') : B(g)'[i] = Len(posted') + i
    <3>1. 1..Len(<< >>) = {}
      BY <1>4
    <3> QED
      BY <1>5, <3>1
  <2>3. ASSUME NEW i \in 1..Len(pending') PROVE pending'[i] = Len(posted) + i
    <3>1. CASE i <= Len(B(f))
      <4>1. i \in 1..Len(B(f)) /\ pending'[i] = B(f)[i]
        BY <1>1, <1>6, <3>1
      <4> QED
        BY <2>1, <4>1
    <3>2. CASE i > Len(B(f))
      <4>1. i - Len(B(f)) \in 1..Len(pending) /\ i \in Nat /\ pending'[i] = pending[i - Len(B(f))]
        BY <1>1, <1>6, <3>2
      <4>2. pending'[i] = Len(posted) + Len(B(f)) + (i - Len(B(f)))
        BY <2>1, <4>1
      <4> QED
        BY <1>1, <4>1, <4>2
    <3> QED
      BY <1>1, <1>6, <3>1, <3>2
  <2> QED
    BY <1>1, <1>2, <1>6, <1>10, <2>1, <2>2, <2>3
<1> QED
  BY <1>7, <1>8, <1>9, <1>11, <1>12 DEF IInv

\* A step that moves no line.
LEMMA QuietKeeps ==
  ASSUME IInv, UNCHANGED <<printed, pending, dropped, posted, faults, lost, disabled>>,
         flush' \in [Flushers -> [pc : FlushPc, batch : Seq(1..printed)]],
         \A g \in Flushers : B(g)' = B(g), stop' \in BOOLEAN, tail' \in BOOLEAN, Turns'
  PROVE  IInv'
<1>1. Typed' /\ Counted'
  BY DEF IInv, Typed, FlushPc, Counted, InBatches, Flushers
<1>2. Ordered'
  <2>1. \A g \in Flushers : Incr(B(g))' = Incr(B(g)) /\ Before(posted, B(g))' = Before(posted, B(g)) /\ Before(B(g), pending)' = Before(B(g), pending)
    BY DEF Incr, Before, Elems
  <2>2. Incr(posted)' = Incr(posted) /\ Incr(pending)' = Incr(pending) /\ Before(posted, pending)' = Before(posted, pending)
    BY DEF Incr, Before, Elems
  <2> QED
    BY <2>1, <2>2 DEF IInv, Ordered
<1>3. Whole'
  <2>1. InBatches' = InBatches
    BY DEF InBatches, Flushers
  <2> QED
    BY <2>1 DEF IInv, Whole
<1> QED
  BY <1>1, <1>2, <1>3 DEF IInv

\* A new line goes behind all others, or the oldest queued ones make way.
LEMMA AddKeeps ==
  ASSUME IInv, Add
  PROVE  IInv'
<1> DEFINE queued == Append(pending, printed + 1)
<1>1. /\ printed \in Nat /\ dropped \in Nat /\ posted \in Seq(1..printed) /\ pending \in Seq(1..printed)
      /\ Len(posted) \in Nat /\ Len(pending) \in Nat /\ MaxPending \in Nat \ {0} /\ MaxLines \in Nat
      /\ \A f \in Flushers : B(f) \in Seq(1..printed) /\ Len(B(f)) \in Nat
      /\ Typed /\ Turns /\ Ordered /\ Counted /\ Whole
  BY Types, StreamerAssumption DEF IInv
<1>2. /\ ~(stop /\ tail) /\ printed < MaxLines /\ printed' = printed + 1
      /\ UNCHANGED <<flush, stop, tail, lost, disabled, posted, faults>>
  BY DEF Add
<1>3. 1..printed \subseteq 1..printed + 1 /\ Seq(1..printed) \subseteq Seq(1..printed + 1)
  <2>1. 1..printed \subseteq 1..printed + 1
    BY <1>1
  <2> QED
    BY <2>1, SeqMonotonic
<1>4. /\ queued \in Seq(1..printed + 1) /\ Len(queued) = Len(pending) + 1
      /\ \A i \in 1..Len(pending) : queued[i] = pending[i]
      /\ queued[Len(pending) + 1] = printed + 1
  BY <1>1, <1>3, AppendProperties
<1>5. \A i \in 1..Len(pending) : pending[i] \in 1..printed
  BY <1>1, ElementOfSeq
<1>6. Incr(queued)
  <2>1. Incr(pending)
    BY <1>1 DEF Ordered
  <2>2. ASSUME NEW i \in 1..Len(queued), NEW j \in 1..Len(queued), i < j PROVE queued[i] < queued[j]
    <3>1. i \in 1..Len(pending) /\ queued[i] = pending[i] /\ pending[i] <= printed /\ pending[i] \in Nat
      BY <1>1, <1>4, <1>5, <2>2
    <3>2. CASE j \in 1..Len(pending)
      BY <1>4, <2>1, <2>2, <3>1, <3>2 DEF Incr
    <3>3. CASE j = Len(pending) + 1
      BY <1>1, <1>4, <3>1, <3>3
    <3> QED
      BY <1>1, <1>4, <3>2, <3>3
  <2> QED
    BY <2>2 DEF Incr
<1>7. Elems(queued) \subseteq Elems(pending) \union {printed + 1}
  <2>1. ASSUME NEW i \in 1..Len(queued) PROVE queued[i] \in Elems(pending) \union {printed + 1}
    <3>1. CASE i \in 1..Len(pending)
      BY <1>4, <3>1 DEF Elems
    <3>2. CASE i = Len(pending) + 1
      BY <1>4, <3>2
    <3> QED
      BY <1>1, <1>4, <3>1, <3>2
  <2> QED
    BY <2>1 DEF Elems
<1> HIDE DEF queued
<1>8. /\ pending' \in Seq(1..printed + 1) /\ Incr(pending')
      /\ Elems(pending') \subseteq Elems(pending) \union {printed + 1}
      /\ dropped' \in Nat /\ Len(pending') \in Nat
      /\ dropped' + Len(pending') <= dropped + Len(pending) + 1
      /\ ~stop => Len(pending') <= MaxPending
      /\ faults = 0 /\ dropped' = 0 => dropped = 0 /\ pending' = queued
  <2>1. CASE lost \/ disabled
    <3>1. pending' = pending /\ dropped' = dropped /\ faults # 0
      BY <1>1, <2>1 DEF Add, Turns
    <3>2. Incr(pending) /\ (~stop => Len(pending) <= MaxPending)
      BY <1>1 DEF Ordered, Turns
    <3> QED
      BY <1>1, <1>3, <3>1, <3>2
  <2>2. CASE ~lost /\ ~disabled /\ Len(queued) <= MaxPending
    <3>1. pending' = queued /\ dropped' = dropped
      BY <1>1, <1>4, <2>2 DEF Add, queued
    <3> QED
      BY <1>1, <1>4, <1>6, <1>7, <2>2, <3>1
  <2>3. CASE ~lost /\ ~disabled /\ Len(queued) > MaxPending
    <3>1. /\ pending' = SubSeq(queued, Len(queued) - MaxPending + 1, Len(queued))
          /\ dropped' = dropped + (Len(queued) - MaxPending)
      BY <2>3 DEF Add, Newest, queued
    <3>2. /\ Len(queued) - MaxPending + 1 \in 1..Len(queued) + 1 /\ Len(queued) \in 0..Len(queued)
          /\ Len(queued) >= (Len(queued) - MaxPending + 1) - 1
          /\ Len(queued) - (Len(queued) - MaxPending + 1) + 1 = MaxPending
          /\ printed + 1 \in Nat
      BY <1>1, <1>4, <2>3
    <3>3. /\ pending' \in Seq(1..printed + 1) /\ Incr(pending') /\ Elems(pending') \subseteq Elems(queued)
          /\ Len(pending') = MaxPending
      BY <1>4, <1>6, <3>1, <3>2, PartOf
    <3>4. dropped' \in Nat /\ dropped' # 0 /\ dropped' + MaxPending = dropped + Len(pending) + 1
      BY <1>1, <1>4, <2>3, <3>1
    <3> QED
      BY <1>1, <1>7, <3>3, <3>4
  <2> QED
    BY <1>1, <1>4, <2>1, <2>2, <2>3
<1>9. Typed'
  BY <1>1, <1>2, <1>3, <1>8 DEF Typed
<1>10. Turns'
  <2>1. tail => stop
    BY <1>1 DEF Turns
  <2> QED
    BY <1>1, <1>2, <1>8, <2>1 DEF Turns, B
<1>11. Ordered'
  <2>1. ASSUME NEW S \in {posted} \union {B(f) : f \in Flushers} PROVE Before(S, pending')
    <3>1. Before(S, pending) /\ S \in Seq(1..printed)
      BY <1>1 DEF Ordered
    <3>2. \A x \in Elems(S) : x \in Nat /\ x < printed + 1
      BY <1>1, <3>1, ElementOfSeq DEF Elems
    <3> QED
      BY <1>8, <3>1, <3>2 DEF Before
  <2>2. \A f \in Flushers : Incr(B(f))' /\ Before(posted, B(f))' /\ Before(B(f), pending)'
    <3>1. ASSUME NEW f \in Flushers PROVE Incr(B(f)) /\ Before(posted, B(f)) /\ Before(B(f), pending') /\ B(f)' = B(f)
      BY <1>1, <1>2, <2>1 DEF Ordered, B
    <3> QED
      BY <1>2, <3>1 DEF Incr, Before, Elems
  <2>3. Incr(posted)' /\ Incr(pending)' /\ Before(posted, pending)'
    <3>1. Incr(posted) /\ Before(posted, pending')
      BY <1>1, <2>1 DEF Ordered
    <3> QED
      BY <1>2, <1>8, <3>1 DEF Incr, Before, Elems
  <2> QED
    BY <2>2, <2>3 DEF Ordered
<1>12. InBatches' = InBatches /\ InBatches \in Nat
  <2>1. InBatches \in Nat
    BY <1>1 DEF InBatches, Flushers
  <2>2. InBatches' = InBatches
    BY <1>2 DEF InBatches, B
  <2> QED
    BY <2>1, <2>2
<1>13. Counted'
  BY <1>1, <1>2, <1>8, <1>12 DEF Counted
<1>14. Whole'
  <2> SUFFICES ASSUME faults' = 0, dropped' = 0 PROVE
        /\ Len(posted') + InBatches' + Len(pending') = printed'
        /\ \A i \in 1..Len(posted') : posted'[i] = i
        /\ \A g \in Flushers : \A i \in 1..Len(B(g)') : B(g)'[i] = Len(posted') + i
        /\ \A i \in 1..Len(pending') : pending'[i] = Len(posted') + InBatches' + i
    BY DEF Whole
  <2>1. /\ Len(posted) + InBatches + Len(pending) = printed
        /\ \A i \in 1..Len(posted) : posted[i] = i
        /\ \A g \in Flushers : \A i \in 1..Len(B(g)) : B(g)[i] = Len(posted) + i
        /\ \A i \in 1..Len(pending) : pending[i] = Len(posted) + InBatches + i
    BY <1>1, <1>2, <1>8 DEF Whole
  <2>2. pending' = queued
    BY <1>2, <1>8
  <2>3. ASSUME NEW i \in 1..Len(pending') PROVE pending'[i] = Len(posted) + InBatches + i
    <3>1. CASE i \in 1..Len(pending)
      BY <1>4, <2>1, <2>2, <3>1
    <3>2. CASE i = Len(pending) + 1
      BY <1>1, <1>4, <1>12, <2>1, <2>2, <3>2
    <3> QED
      BY <1>1, <1>4, <2>2, <3>1, <3>2
  <2>4. Len(posted) + InBatches + Len(pending') = printed + 1
    BY SMTT(30), <1>1, <1>4, <1>12, <2>1, <2>2
  <2>5. \A g \in Flushers : \A i \in 1..Len(B(g)') : B(g)'[i] = Len(posted') + i
    <3>1. \A g \in Flushers : B(g)' = B(g)
      BY <1>2 DEF B
    <3> QED
      BY <1>2, <2>1, <3>1
  <2> QED
    BY <1>2, <1>12, <2>1, <2>3, <2>4, <2>5
<1> QED
  BY <1>9, <1>10, <1>11, <1>13, <1>14 DEF IInv

----------------------------------------------------------------------------
(* The theorems *)

LEMMA InitInvariant == Init => IInv
<1> SUFFICES ASSUME Init PROVE IInv
  OBVIOUS
<1> USE StreamerAssumption
<1>1. \A S : << >> \in Seq(S) /\ Len(<< >>) = 0 /\ Elems(<< >>) = {} /\ 1..Len(<< >>) = {}
  BY NoElems
<1>2. \A f \in Flushers : B(f) = << >> /\ flush[f].pc = "waiting"
  BY DEF Init, B
<1>3. Typed
  <2>1. flush \in [Flushers -> [pc : {"waiting", "flushing", "over"}, batch : Seq(1..printed)]]
    BY <1>1 DEF Init
  <2>2. printed \in 0..MaxLines /\ faults \in 0..MaxFaults
    BY DEF Init
  <2> QED
    BY <1>1, <2>1, <2>2 DEF Init, Typed
<1>4. Turns
  BY <1>1, <1>2 DEF Init, Turns, Flushers
<1>5. Ordered
  BY <1>1, <1>2 DEF Init, Ordered, Incr, Before
<1>6. Counted /\ Whole
  BY <1>1, <1>2 DEF Init, Counted, Whole, InBatches, Flushers
<1> QED
  BY <1>3, <1>4, <1>5, <1>6 DEF IInv

LEMMA NextInvariant == IInv /\ [Next]_vars => IInv'
<1> SUFFICES ASSUME IInv, [Next]_vars PROVE IInv'
  OBVIOUS
<1>1. /\ flush \in [Flushers -> [pc : FlushPc, batch : Seq(1..printed)]]
      /\ stop \in BOOLEAN /\ tail \in BOOLEAN /\ Turns
  BY DEF IInv, Typed, FlushPc
<1>2. CASE TimedFlush
  <2>1. /\ \A g \in Flushers : B(g) = << >>
        /\ ~stop
    BY <1>1, <1>2 DEF TimedFlush, Turns, Flushers
  <2>2. /\ flush' = [flush EXCEPT !["timed"] = [pc |-> "flushing", batch |-> pending]] /\ pending' = << >>
        /\ UNCHANGED <<printed, dropped, stop, tail, lost, disabled, posted, faults>>
    BY <1>2 DEF TimedFlush
  <2> QED
    BY <2>1, <2>2, TakeKeeps DEF Flushers
<1>3. CASE FinalFlush /\ tail
  <2>1. /\ \A g \in Flushers : B(g) = << >>
        /\ stop /\ flush["timed"].pc = "over"
    BY <1>1, <1>3 DEF FinalFlush, Turns, Flushers
  <2>2. /\ flush' = [flush EXCEPT !["final"] = [pc |-> "flushing", batch |-> pending]] /\ pending' = << >>
        /\ UNCHANGED <<printed, dropped, stop, tail, lost, disabled, posted, faults>>
    BY <1>3 DEF FinalFlush
  <2> QED
    BY <2>1, <2>2, TakeKeeps DEF Flushers
<1>4. CASE TimedOver \/ (FinalFlush /\ ~tail) \/ (\E last \in BOOLEAN : Stop(last)) \/ Stopped \/ UNCHANGED vars
  <2>1. UNCHANGED <<printed, pending, dropped, posted, faults, lost, disabled>> /\ stop' \in BOOLEAN /\ tail' \in BOOLEAN
    BY <1>1, <1>4 DEF TimedOver, FinalFlush, Stop, Stopped, vars
  <2>2. /\ flush' \in [Flushers -> [pc : FlushPc, batch : Seq(1..printed)]]
        /\ \A g \in Flushers : B(g)' = B(g)
    <3>1. CASE TimedOver
      BY <1>1, <3>1 DEF TimedOver, B, Flushers, FlushPc
    <3>2. CASE FinalFlush /\ ~tail
      BY <1>1, <3>2 DEF FinalFlush, B, Flushers, FlushPc
    <3>3. CASE UNCHANGED flush
      BY <1>1, <3>3 DEF B
    <3> QED
      BY <1>4, <3>1, <3>2, <3>3 DEF Stop, Stopped, vars
  <2>3. Turns'
    <3>1. CASE TimedOver
      <4>1. /\ stop /\ flush'["timed"].pc = "over" /\ flush'["final"].pc = flush["final"].pc
            /\ flush["timed"].pc = "waiting" /\ UNCHANGED <<stop, tail, pending, lost, disabled, faults>>
        BY <1>1, <3>1 DEF TimedOver, Flushers
      <4> QED
        BY <1>1, <2>2, <4>1 DEF Turns, Flushers
    <3>2. CASE FinalFlush /\ ~tail
      <4>1. /\ stop /\ flush["timed"].pc = "over" /\ flush'["timed"].pc = "over" /\ flush'["final"].pc = "over"
            /\ flush["final"].pc = "waiting" /\ ~tail /\ UNCHANGED <<stop, tail, pending, lost, disabled, faults>>
        BY <1>1, <3>2 DEF FinalFlush, Flushers
      <4> QED
        BY <1>1, <2>2, <4>1 DEF Turns, Flushers
    <3>3. CASE \E last \in BOOLEAN : Stop(last)
      <4>1. ~stop /\ stop' /\ UNCHANGED <<flush, pending, lost, disabled, faults>>
        BY <3>3 DEF Stop
      <4> QED
        BY <1>1, <2>2, <4>1 DEF Turns, Flushers
    <3>4. CASE UNCHANGED vars
      BY <1>1, <3>4 DEF Turns, B, vars
    <3> QED
      BY <1>4, <3>1, <3>2, <3>3, <3>4 DEF Stopped
  <2> QED
    BY <2>1, <2>2, <2>3, QuietKeeps
<1>5. ASSUME NEW f \in Flushers, FlushStep(f) PROVE IInv'
  BY <1>5, FlushSteps, PutBackKeeps DEF FlushStep
<1> QED
  BY <1>2, <1>3, <1>4, <1>5, AddKeeps DEF Next

\* The inductive invariant holds in every reachable state.
THEOREM StreamerInvariant == Spec => []IInv
  BY InitInvariant, NextInvariant, PTL DEF Spec

\* When stop has returned with the tail asked for, no post failed and the cap
\* dropped nothing, _LogStreamer has put every line of the run on the wire:
\* no interleaving of the timed flush, its yield and the final one loses any.
THEOREM StreamIsWholeHolds == Spec => []StreamIsWhole
<1>1. IInv => StreamIsWhole
  <2> SUFFICES ASSUME IInv PROVE StreamIsWhole
    OBVIOUS
  <2>1. /\ printed \in Nat /\ printed <= MaxLines /\ MaxLines \in Nat /\ dropped \in Nat
        /\ posted \in Seq(1..printed) /\ pending \in Seq(1..printed)
        /\ Len(posted) \in Nat /\ Len(pending) \in Nat
        /\ \A f \in Flushers : B(f) \in Seq(1..printed) /\ Len(B(f)) \in Nat
        /\ Typed /\ Turns /\ Counted /\ Whole
    BY Types DEF IInv
  <2>2. TypeOK
    <3>1. Seq(1..printed) \subseteq Lines
      <4>1. 1..printed \subseteq 1..MaxLines
        BY <2>1
      <4> QED
        BY <4>1, SeqMonotonic DEF Lines
    <3>2. dropped \in 0..MaxLines
      BY <2>1 DEF Counted, InBatches, Flushers
    <3>3. flush \in [Flushers -> [pc : {"waiting", "flushing", "over"}, batch : Lines]]
      BY <2>1, <3>1 DEF Typed
    <3> QED
      BY <2>1, <3>1, <3>2, <3>3 DEF TypeOK, Typed, Turns
  <2>3. TailIsComplete
    <3> SUFFICES ASSUME flush["final"].pc = "over", tail, faults = 0, dropped = 0
                 PROVE  posted = [n \in 1..printed |-> n]
      BY DEF TailIsComplete
    <3>1. B("timed") = << >> /\ B("final") = << >> /\ pending = << >> /\ Len(<< >>) = 0
      BY <2>1 DEF Turns, Flushers
    <3>2. Len(posted) = printed /\ \A i \in 1..Len(posted) : posted[i] = i
      BY <2>1, <3>1 DEF Whole, InBatches
    <3>3. posted \in [1..printed -> 1..printed]
      BY <2>1, <3>2, LenProperties
    <3> QED
      BY <3>2, <3>3
  <2> QED
    BY <2>2, <2>3 DEF StreamIsWhole
<1> QED
  BY <1>1, StreamerInvariant, PTL

\* A front put on the wire is a batch of newer lines that arrives.
LEMMA PostArrives ==
  ASSUME IInv, IInv', NEW f \in Flushers, NEW n \in 1..MaxBatch, Posts(f, n), UNCHANGED printed
  PROVE  Wire!Arrive
<1> DEFINE front == SubSeq(B(f), 1, n)
<1>1. /\ posted \in Seq(1..printed) /\ Len(posted) \in Nat /\ B(f) \in Seq(1..printed) /\ Len(B(f)) \in Nat /\ printed \in Nat
      /\ n \in 1..Len(B(f)) /\ posted' = posted \o front
  BY Types DEF Posts, B
<1>2. front \in Seq(1..printed) /\ Len(front) = n
  <2>1. 1 \in 1..Len(B(f)) + 1 /\ n \in 0..Len(B(f)) /\ n >= 1 - 1 /\ n - 1 + 1 = n
    BY <1>1
  <2> QED
    BY <1>1, <2>1, PartOf
<1> HIDE DEF front
<1>3. posted' \in Seq(1..printed) /\ Len(posted') = Len(posted) + n /\ n \in Nat /\ n > 0
  <2>1. posted \o front \in Seq(1..printed) /\ Len(posted \o front) = Len(posted) + Len(front)
    BY <1>1, <1>2, ConcatProperties
  <2> QED
    BY <1>1, <1>2, <2>1
<1>4. SubSeq(posted, 1, Len(posted)) = SubSeq(posted', 1, Len(posted))
  <2>1. CASE Len(posted) = 0
    <3>1. \A s : SubSeq(s, 1, 0) = << >>
      BY SubSeqEmpty
    <3> QED
      BY <2>1, <3>1
  <2>2. CASE Len(posted) # 0
    <3>1. 1 \in 1..Len(posted) /\ Len(posted) \in 1..Len(posted)
      BY <1>1, <2>2
    <3> QED
      BY <1>1, <1>2, <3>1, SubSeqOfConcat1
  <2> QED
    BY <2>1, <2>2
<1>5. Wire!IsStrictPrefix(posted, posted')
  BY <1>1, <1>3, <1>4 DEF Wire!IsStrictPrefix, Wire!IsPrefix
<1>6. Wire!Increasing(posted')
  <2>1. Incr(posted')
    BY DEF IInv, Ordered, Incr
  <2> QED
    <3>1. \A i \in 2..Len(posted') : i - 1 \in 1..Len(posted') /\ i \in 1..Len(posted') /\ i - 1 < i
      BY <1>1, <1>3
    <3> QED
      BY <2>1, <3>1 DEF Wire!Increasing, Incr
<1>7. \A i \in 1..Len(posted') : posted'[i] \in 1..printed
  BY <1>3, ElementOfSeq
<1> QED
  BY <1>5, <1>6, <1>7 DEF Wire!Arrive

LEMMA WireStep ==
  ASSUME IInv, IInv', [Next]_vars
  PROVE  [Wire!Next]_(Wire!vars)
<1>1. CASE Add
  BY <1>1 DEF Add, Wire!PrintLine, Wire!Next
<1>2. ASSUME NEW f \in Flushers, NEW n \in 1..MaxBatch, Posted(f, n) \/ PostFails(f, n) PROVE Wire!Arrive
  BY <1>2, PostArrives DEF Posted, PostFails
<1>3. CASE UNCHANGED <<printed, posted>>
  BY <1>3 DEF Wire!vars
<1> QED
  BY <1>1, <1>2, <1>3 DEF Next, vars, TimedFlush, TimedOver, FinalFlush, Stop, Stopped, FlushStep, FlushEnds,
    PutBack, OutOfTime, Wire!Next

\* _LogStreamer implements OrderedLog: "the server receives lines in the order
\* the run printed them", however the flushes and the run's thread meet.
THEOREM PostsInOrderHolds == Spec => PostsInOrder
<1>1. Init => Wire!Init
  BY DEF Init, Wire!Init
<1>2. IInv /\ IInv' /\ [Next]_vars => [Wire!Next]_(Wire!vars)
  BY WireStep
<1> QED
  BY <1>1, <1>2, StreamerInvariant, PTL DEF Spec, PostsInOrder, Wire!Spec
=============================================================================
