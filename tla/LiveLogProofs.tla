---------------------------- MODULE LiveLogProofs ----------------------------
(***************************************************************************)
(* Theorems about LiveLog, for any jobs, requests, viewers, caps, bounds   *)
(* and outputs: the bus holds what the budget admitted and forgets it in   *)
(* the end, and a viewer gets each line of the log it attached to, once.   *)
(*                                                                         *)
(* The invariant says what each request and stream knows at its place,     *)
(* that a job none of whose posts is late has one post under way, that a   *)
(* line is numbered once on the channels and in the posts, that the notice *)
(* ends a log, and that what a viewer has is a front of its channel.       *)
(***************************************************************************)
EXTENDS LiveLog, SequenceTheorems, NaturalsInduction, WellFoundedInduction, TLAPS

----------------------------------------------------------------------------
(* Induction over the naturals, and what the operators on sequences compute *)

\* A set of naturals has a least element: induction, without an operator.
LEMMA Least ==
  ASSUME NEW S, S \subseteq Nat, S # {}
  PROVE \E n \in S : \A m \in S : n <= m
<1>1. PICK n \in S : \A m \in S : <<m, n>> \notin OpToRel(<, Nat)
  BY WFMin, NatLessThanWellFounded, Zenon
<1>2. \A m \in S : ~(m < n)
  BY <1>1, Zenon DEF OpToRel
<1> QED
  BY <1>2

\* f starts at e and takes step after step.
Stepwise(f, n, e, step) == f = [i \in 0..n |-> IF i = 0 THEN e ELSE step[i][f[i - 1]]]

\* A recursive function over the numbers up to n exists.
LEMMA Recursion ==
  ASSUME NEW n \in Nat, NEW R, NEW e \in R, NEW step \in [1..n -> [R -> R]]
  PROVE  \E f \in [0..n -> R] : Stepwise(f, n, e, step)
<1> DEFINE Up(f, k) == f = [i \in 0..k |-> IF i = 0 THEN e ELSE step[i][f[i - 1]]]
           Good(k) == \E f \in [0..k -> R] : Up(f, k)
           Bad == {k \in 0..n : ~Good(k)}
<1>1. Good(0)
  <2>1. [i \in 0..0 |-> e] \in [0..0 -> R] /\ Up([i \in 0..0 |-> e], 0)
    OBVIOUS
  <2> QED
    BY <2>1
<1>2. ASSUME NEW k \in 0..n, k # 0, Good(k - 1) PROVE Good(k)
  <2>1. PICK f \in [0..(k - 1) -> R] : Up(f, k - 1)
    BY <1>2
  <2> DEFINE g == [i \in 0..k |-> IF i = k THEN step[k][f[k - 1]] ELSE f[i]]
  <2>2. g \in [0..k -> R]
    BY <1>2
  <2>3. ASSUME NEW i \in 0..k PROVE g[i] = IF i = 0 THEN e ELSE step[i][g[i - 1]]
    <3>1. CASE i = k
      BY <1>2, <3>1
    <3>2. CASE i # k
      <4>1. i \in 0..(k - 1) /\ f[i] = IF i = 0 THEN e ELSE step[i][f[i - 1]]
        BY <2>1, <3>2
      <4> QED
        BY <3>2, <4>1
    <3> QED
      BY <3>1, <3>2
  <2> HIDE DEF g
  <2>4. Up(g, k)
    BY <2>2, <2>3
  <2> QED
    BY <2>2, <2>4
<1>3. Bad = {}
  <2> SUFFICES ASSUME Bad # {} PROVE FALSE
    OBVIOUS
  <2>1. PICK k \in Bad : \A m \in Bad : k <= m
    <3>1. Bad \subseteq Nat
      OBVIOUS
    <3> HIDE DEF Bad
    <3> QED
      BY <3>1, Least
  <2>2. k \in 0..n /\ k # 0
    <3> HIDE DEF Good
    <3> QED
      BY <1>1, <2>1
  <2>3. k - 1 \in 0..n /\ k - 1 \notin Bad
    <3> HIDE DEF Bad
    <3> QED
      BY <2>1, <2>2
  <2> QED
    BY <1>2, <2>1, <2>2, <2>3
<1>4. Good(n)
  <2> HIDE DEF Good
  <2> QED
    BY <1>3
<1> QED
  BY <1>4 DEF Stepwise

\* What Bytes adds up.
LEMMA BytesAreCounted ==
  ASSUME NEW lines \in Seq(Line), NEW k \in 0..Len(lines)
  PROVE  Bytes(lines, k) \in Nat /\ (k = 0 => Bytes(lines, k) = 0)
<1> DEFINE Sum(f) == f = [i \in 0..k |-> IF i = 0 THEN 0 ELSE f[i - 1] + lines[i].size]
           step == [i \in 1..k |-> [x \in Nat |-> x + lines[i].size]]
<1>0. Len(lines) \in Nat /\ k \in Nat
  OBVIOUS
<1>1. \A i \in 1..k : lines[i].size \in Nat
  <2> SUFFICES ASSUME NEW i \in 1..k PROVE lines[i] \in Line
    BY DEF Line
  <2> QED
    BY <1>0
<1>2. step \in [1..k -> [Nat -> Nat]]
  BY <1>1
<1>3. PICK f \in [0..k -> Nat] : Stepwise(f, k, 0, step)
  <2>1. 0 \in Nat
    OBVIOUS
  <2> HIDE DEF step
  <2> QED
    BY <1>0, <1>2, <2>1, Recursion
<1>4. Sum(f)
  <2>1. \A i \in 0..k : f[i] = IF i = 0 THEN 0 ELSE f[i - 1] + lines[i].size
    <3> SUFFICES ASSUME NEW i \in 0..k, i # 0 PROVE f[i] = f[i - 1] + lines[i].size
      BY <1>3 DEF Stepwise
    <3>1. f[i - 1] \in Nat /\ i \in 1..k
      BY <1>0
    <3>2. step[i][f[i - 1]] = f[i - 1] + lines[i].size
      BY <3>1
    <3> HIDE DEF step
    <3> QED
      BY <1>3, <3>2 DEF Stepwise
  <2> HIDE DEF step
  <2> QED
    BY <1>3, <2>1 DEF Stepwise
<1> DEFINE s == CHOOSE h : Sum(h)
<1>5. Sum(s)
  BY <1>4, Zenon
<1>6. Bytes(lines, k) = s[k]
  BY Zenon DEF Bytes
<1> DEFINE Bad == {i \in 0..k : s[i] \notin Nat}
<1>7. DOMAIN s = 0..k /\ \A i \in 0..k : s[i] = IF i = 0 THEN 0 ELSE s[i - 1] + lines[i].size
  <2> HIDE DEF s
  <2> QED
    BY <1>5
<1> HIDE DEF s
<1>8. Bad = {}
  <2> SUFFICES ASSUME Bad # {} PROVE FALSE
    OBVIOUS
  <2>1. PICK n \in Bad : \A m \in Bad : n <= m
    <3>1. Bad \subseteq Nat
      BY <1>0
    <3> HIDE DEF Bad
    <3> QED
      BY <3>1, Least
  <2>2. n # 0 /\ n - 1 \in 0..k /\ n - 1 \notin Bad
    BY <1>0, <1>7, <2>1
  <2>3. n \in 1..k /\ s[n - 1] \in Nat /\ s[n] = s[n - 1] + lines[n].size
    BY <1>0, <1>7, <2>1, <2>2
  <2>4. s[n] \in Nat
    BY <1>1, <2>3
  <2> QED
    BY <2>1, <2>4
<1> QED
  BY <1>0, <1>6, <1>7, <1>8

\* The caps and the bounds are numbers.
LEMMA Caps ==
  /\ MaxAttempts \in Nat /\ LinesPerJob \in Nat /\ BytesPerJob \in Nat
  /\ MaxTracked \in Nat \ {0} /\ KeepClosed \in Nat \ {0}
  BY LiveLogAssumption, Zenon

\* The greatest number of lines under both caps exists.
LEMMA AllowedFits ==
  ASSUME NEW lines \in Seq(Line),
         NEW u \in [lines : 0..LinesPerJob, bytes : 0..BytesPerJob]
  PROVE  /\ Allowed(u, lines) \in 0..Len(lines)
         /\ Spent(u, lines, Allowed(u, lines)) \in [lines : 0..LinesPerJob, bytes : 0..BytesPerJob]
<1> DEFINE Ok == {k \in 0..Len(lines) : Fits(u, lines, k)}
           Short == {Len(lines) - k : k \in Ok}
           Best(k) == Fits(u, lines, k) /\ \A m \in (k + 1)..Len(lines) : ~Fits(u, lines, m)
<1>1. Len(lines) \in Nat /\ LinesPerJob \in Nat /\ BytesPerJob \in Nat
  BY Caps
<1>2. 0 \in Ok
  BY <1>1, BytesAreCounted DEF Fits
<1>3. PICK n \in Short : \A m \in Short : n <= m
  <2>1. Short \subseteq Nat /\ Short # {}
    BY <1>1, <1>2
  <2> HIDE DEF Short
  <2> QED
    BY <2>1, Least
<1>4. PICK k \in Ok : n = Len(lines) - k
  BY <1>3
<1>5. Best(k)
  <2> SUFFICES ASSUME NEW m \in (k + 1)..Len(lines), Fits(u, lines, m) PROVE FALSE
    BY <1>4
  <2>1. m \in Ok
    BY <1>1, <1>4
  <2>2. Len(lines) - m \in Short
    BY <2>1
  <2>3. n <= Len(lines) - m
    <3> HIDE DEF Short
    <3> QED
      BY <1>3, <2>2
  <2> QED
    BY <1>1, <1>4, <2>1, <2>3
<1>6. Allowed(u, lines) \in 0..Len(lines) /\ Best(Allowed(u, lines))
  <2>1. k \in 0..Len(lines)
    BY <1>4
  <2> HIDE DEF Ok
  <2> QED
    BY <1>5, <2>1, Zenon DEF Allowed
<1> DEFINE a == Allowed(u, lines)
<1>7. Bytes(lines, a) \in Nat
  BY <1>6, BytesAreCounted
<1> QED
  BY <1>1, <1>6, <1>7 DEF Fits, Spent

\* What is left of an order, and how long it is.
LEMMA WithoutGone ==
  ASSUME NEW order \in Seq(Jobs), NEW gone
  PROVE  /\ Without(order, gone) \in Seq(Jobs)
         /\ ToSet(Without(order, gone)) = ToSet(order) \ gone
         /\ Len(Without(order, gone)) <= Len(order)
         /\ ToSet(order) \intersect gone # {} => Len(Without(order, gone)) < Len(order)
<1> DEFINE n == Len(order)
           Keep(f) == f = [i \in 0..n |-> IF i = 0 THEN << >>
                                          ELSE IF order[i] \in gone THEN f[i - 1]
                                               ELSE Append(f[i - 1], order[i])]
           step == [i \in 1..n |-> [x \in Seq(Jobs) |-> IF order[i] \in gone THEN x ELSE Append(x, order[i])]]
<1>0. n \in Nat /\ \A i \in 1..n : order[i] \in Jobs
  OBVIOUS
<1>2. step \in [1..n -> [Seq(Jobs) -> Seq(Jobs)]]
  BY <1>0
<1>3. PICK f \in [0..n -> Seq(Jobs)] : Stepwise(f, n, << >>, step)
  <2>1. << >> \in Seq(Jobs)
    OBVIOUS
  <2> HIDE DEF step, n
  <2> QED
    BY <1>0, <1>2, <2>1, Recursion
<1>4. Keep(f)
  <2>1. ASSUME NEW i \in 0..n
        PROVE  f[i] = IF i = 0 THEN << >>
                      ELSE IF order[i] \in gone THEN f[i - 1] ELSE Append(f[i - 1], order[i])
    <3> SUFFICES ASSUME i # 0
                 PROVE  f[i] = IF order[i] \in gone THEN f[i - 1] ELSE Append(f[i - 1], order[i])
      <4> HIDE DEF step
      <4> QED
        BY <1>3 DEF Stepwise
    <3>1. f[i - 1] \in Seq(Jobs) /\ i \in 1..n
      BY <1>0
    <3>2. step[i][f[i - 1]] = IF order[i] \in gone THEN f[i - 1] ELSE Append(f[i - 1], order[i])
      BY <3>1
    <3> HIDE DEF step
    <3> QED
      BY <1>3, <3>2 DEF Stepwise
  <2> HIDE DEF step, n
  <2> QED
    <3>1. DOMAIN f = 0..n
      BY <1>3
    <3> QED
      BY <1>3, <2>1, <3>1 DEF Stepwise
<1> DEFINE s == CHOOSE h : Keep(h)
<1>5. Keep(s)
  BY <1>4, Zenon
<1>6. Without(order, gone) = s[n]
  BY Zenon DEF Without
<1>7. /\ DOMAIN s = 0..n
      /\ \A i \in 0..n : s[i] = IF i = 0 THEN << >>
                                ELSE IF order[i] \in gone THEN s[i - 1] ELSE Append(s[i - 1], order[i])
  <2> HIDE DEF s, n
  <2> QED
    BY <1>5
<1> HIDE DEF s
<1> DEFINE Right(i) == /\ s[i] \in Seq(Jobs)
                       /\ {s[i][k] : k \in 1..Len(s[i])} = {order[k] : k \in 1..i} \ gone
                       /\ Len(s[i]) <= i
                       /\ (\E k \in 1..i : order[k] \in gone) => Len(s[i]) < i
           Bad == {i \in 0..n : ~Right(i)}
<1>8. Right(0)
  <2>1. s[0] = << >>
    BY <1>0, <1>7
  <2>2. s[0] \in Seq(Jobs) /\ Len(s[0]) = 0 /\ 1..0 = {}
    BY <2>1
  <2> QED
    BY <2>2
<1>9. ASSUME NEW i \in 0..n, i # 0, Right(i - 1) PROVE Right(i)
  <2>1. i - 1 \in Nat /\ i \in 1..n /\ order[i] \in Jobs /\ 1..i = 1..(i - 1) \union {i}
    BY <1>0, <1>9
  <2>2. CASE order[i] \in gone
    <3>1. s[i] = s[i - 1]
      BY <1>7, <1>9, <2>2
    <3>2. {order[k] : k \in 1..i} \ gone = {order[k] : k \in 1..(i - 1)} \ gone
      BY <2>1, <2>2
    <3>3. {s[i][k] : k \in 1..Len(s[i])} = {order[k] : k \in 1..i} \ gone /\ s[i] \in Seq(Jobs)
      BY <1>9, <3>1, <3>2
    <3>4. Len(s[i]) < i
      <4>1. Len(s[i]) <= i - 1 /\ Len(s[i]) \in Nat
        BY <1>9, <3>1
      <4> QED
        BY <2>1, <4>1
    <3> QED
      BY <2>1, <3>3, <3>4
  <2>3. CASE order[i] \notin gone
    <3> DEFINE t == s[i - 1]
    <3>1. s[i] = Append(t, order[i])
      BY <1>7, <1>9, <2>3
    <3>2. t \in Seq(Jobs)
      BY <1>9
    <3> HIDE DEF t
    <3>3. /\ Len(s[i]) = Len(t) + 1 /\ s[i] \in Seq(Jobs) /\ s[i][Len(t) + 1] = order[i]
          /\ \A k \in 1..Len(t) : s[i][k] = t[k]
          /\ Len(t) \in Nat /\ 1..(Len(t) + 1) = 1..Len(t) \union {Len(t) + 1}
      BY <2>1, <3>1, <3>2
    <3>4. {s[i][k] : k \in 1..Len(s[i])} = {t[k] : k \in 1..Len(t)} \union {order[i]}
      <4>1. 1..Len(s[i]) = 1..Len(t) \union {Len(t) + 1}
        BY <3>3
      <4>2. {s[i][k] : k \in 1..Len(s[i])} = {s[i][k] : k \in 1..Len(t)} \union {s[i][Len(t) + 1]}
        BY <4>1, Zenon
      <4>3. {s[i][k] : k \in 1..Len(t)} = {t[k] : k \in 1..Len(t)}
        BY <3>3, Zenon
      <4> QED
        BY <3>3, <4>2, <4>3, Zenon
    <3>5. {order[k] : k \in 1..i} \ gone = ({order[k] : k \in 1..(i - 1)} \ gone) \union {order[i]}
      BY <2>1, <2>3
    <3>6. {t[k] : k \in 1..Len(t)} = {order[k] : k \in 1..(i - 1)} \ gone
      BY <1>9 DEF t
    <3>7. Len(t) <= i - 1 /\ ((\E k \in 1..(i - 1) : order[k] \in gone) => Len(t) < i - 1)
      BY <1>9 DEF t
    <3>8. {s[i][k] : k \in 1..Len(s[i])} = {order[k] : k \in 1..i} \ gone
      BY <3>4, <3>5, <3>6
    <3>9. Len(s[i]) <= i /\ ((\E k \in 1..i : order[k] \in gone) => Len(s[i]) < i)
      <4>1. (\E k \in 1..i : order[k] \in gone) => \E k \in 1..(i - 1) : order[k] \in gone
        BY <2>1, <2>3
      <4>2. Len(t) <= i - 1 /\ Len(s[i]) = Len(t) + 1 /\ Len(t) \in Nat /\ i \in Nat
        BY <1>0, <3>3, <3>7
      <4> HIDE DEF n
      <4> QED
        BY <3>7, <4>1, <4>2
    <3> QED
      BY <3>3, <3>8, <3>9
  <2> QED
    BY <2>2, <2>3
<1>10. Bad = {}
  <2> SUFFICES ASSUME Bad # {} PROVE FALSE
    OBVIOUS
  <2>1. PICK i \in Bad : \A m \in Bad : i <= m
    <3>1. Bad \subseteq Nat
      BY <1>0
    <3> HIDE DEF Bad
    <3> QED
      BY <3>1, Least
  <2> HIDE DEF Right
  <2>2. i # 0 /\ i - 1 \in 0..n /\ i - 1 \notin Bad
    BY <1>0, <1>8, <2>1
  <2> QED
    BY <1>9, <2>1, <2>2
<1>11. Right(n)
  <2> HIDE DEF Right
  <2> QED
    BY <1>0, <1>10
<1>12. ToSet(s[n]) = {s[n][k] : k \in 1..Len(s[n])} /\ ToSet(order) = {order[k] : k \in 1..n}
  <2>1. s[n] \in Seq(Jobs)
    BY <1>11
  <2> QED
    BY <2>1 DEF ToSet
<1>13. ToSet(order) \intersect gone # {} => \E k \in 1..n : order[k] \in gone
  BY <1>12
<1> QED
  BY <1>6, <1>11, <1>12, <1>13

\* The members of a sequence with one more at its end.
LEMMA ToSetOfAppend ==
  ASSUME NEW S, NEW s \in Seq(S), NEW x \in S
  PROVE  ToSet(Append(s, x)) = ToSet(s) \union {x}
<1>1. /\ DOMAIN s = 1..Len(s) /\ Len(s) \in Nat /\ DOMAIN Append(s, x) = 1..(Len(s) + 1)
      /\ \A i \in 1..Len(s) : Append(s, x)[i] = s[i]
      /\ Append(s, x)[Len(s) + 1] = x
  BY AppendProperties, LenProperties
<1>2. 1..(Len(s) + 1) = 1..Len(s) \union {Len(s) + 1}
  BY <1>1
<1> QED
  BY <1>1, <1>2 DEF ToSet

\* Of a nonempty order the victim is a member.
LEMMA VictimIsIn ==
  ASSUME NEW order \in Seq(Jobs), order # << >>, NEW done
  PROVE  Victim(order, done) \in ToSet(order)
<1>0. Len(order) \in Nat /\ Len(order) # 0 /\ Head(order) = order[1]
  OBVIOUS
<1>1. CASE \E i \in 1..Len(order) : order[i] \in done
  <2> DEFINE S == {i \in 1..Len(order) : order[i] \in done}
             First(i) == order[i] \in done /\ \A k \in 1..(i - 1) : order[k] \notin done
  <2>1. PICK i \in S : \A k \in S : i <= k
    <3>1. S \subseteq Nat /\ S # {}
      BY <1>0, <1>1
    <3> HIDE DEF S
    <3> QED
      BY <3>1, Least
  <2>2. First(i)
    BY <1>0, <2>1
  <2> DEFINE c == CHOOSE x \in 1..Len(order) : First(x)
  <2>3. c \in 1..Len(order)
    <3>1. i \in 1..Len(order)
      BY <2>1
    <3> HIDE DEF First
    <3> QED
      BY <2>2, <3>1, Zenon
  <2>4. Victim(order, done) = order[c]
    BY <1>1, Zenon DEF Victim
  <2> HIDE DEF c
  <2> QED
    BY <2>3, <2>4 DEF ToSet
<1>2. CASE ~\E i \in 1..Len(order) : order[i] \in done
  BY <1>0, <1>2 DEF Victim, ToSet
<1> QED
  BY <1>1, <1>2
----------------------------------------------------------------------------
(* The inductive invariant *)

Entry == Line \union {Notice}
PostPcs == {"idle", "test", "admit", "publish", "track", "discard"}
ViewerPcs == {"idle", "attach", "read", "poll", "retire", "discard", "fallback", "over", "gone"}
Rows == [status : {"queued", "leased"} \union Over, attempt : 0..MaxAttempts]
PostRecords == [pc : PostPcs, job : Jobs \union {0}, attempt : 0..MaxAttempts,
                lines : Seq(Entry), victims : Seq(Jobs)]
ChannelRecords == [lines : Seq(Entry), closed : BOOLEAN]
EnderRecords == [pc : {"none", "close", "retire", "discard", "forget", "over"}, victims : Seq(Jobs)]
ViewerRecords == [pc : ViewerPcs, job : Jobs \union {0}, channel : Nat, read : Nat,
                  ending : BOOLEAN, got : Seq(Entry), victims : Seq(Jobs)]

TableTyped ==
  /\ row \in [Jobs -> Rows] /\ \A j \in Jobs : row[j].status # "queued" => row[j].attempt # 0
  /\ sent \in [Jobs -> Seq(Line)] /\ console \in [Jobs -> Seq(Line)] /\ late \subseteq Jobs
BudgetTyped ==
  /\ used \in [Jobs -> [lines : 0..LinesPerJob, bytes : 0..BytesPerJob]]
  /\ counted \in Seq(Jobs) /\ Len(counted) <= MaxTracked
  /\ truncated \subseteq Jobs /\ forgotten \subseteq Jobs
BusTyped ==
  /\ channels \in [Jobs -> Seq(ChannelRecords)] /\ current \in [Jobs -> Nat]
  /\ \A j \in Jobs : current[j] <= Len(channels[j])
EvictionTyped ==
  tracked \in Seq(Jobs) /\ Len(tracked) <= KeepClosed /\ finished \subseteq ToSet(tracked)
LocalsTyped ==
  post \in [Posts -> PostRecords] /\ ender \in [Jobs -> EnderRecords] /\ viewer \in [Viewers -> ViewerRecords]
Typed == TableTyped /\ BudgetTyped /\ BusTyped /\ EvictionTyped /\ LocalsTyped

\* What a log request, and a result request, know at each of their steps.
PostAt(p) ==
  /\ post[p].pc # "idle" => post[p].job \in Jobs
  /\ post[p].pc \in {"test", "admit"} => post[p].lines \in Seq(Line)
  /\ post[p].pc # "discard" => post[p].victims = << >>
EnderAt(j) ==
  /\ ender[j].pc # "none" => IsOver(j)
  /\ ender[j].pc # "discard" => ender[j].victims = << >>
ClosedAt(j) == \A c \in 1..Len(channels[j]) : channels[j][c].closed => IsOver(j)

\* A worker that heard from the server has one post under way, under its lease.
Flying(p, j) == post[p].pc # "idle" /\ post[p].job = j
Flight(j) ==
  j \notin late => \A p \in Posts : Flying(p, j) =>
    /\ post[p].attempt = row[j].attempt /\ row[j].status = "leased"
    /\ \A q \in Posts : Flying(q, j) => q = p

\* The notice ends the job's log, and the job is truncated while it runs.
EndsAtNotice(s) == \A i \in 1..Len(s) : s[i] = Notice => i = Len(s)
Noticed(j) == \E c \in 1..Len(channels[j]) : \E i \in 1..Len(channels[j][c].lines) :
                channels[j][c].lines[i] = Notice
Notices(j) ==
  j \notin late \union forgotten =>
    /\ \A c \in 1..Len(channels[j]) : EndsAtNotice(channels[j][c].lines)
    /\ ~IsOver(j) /\ Noticed(j) => j \in truncated
    /\ \A p \in Posts : post[p].pc = "publish" /\ post[p].job = j =>
         /\ EndsAtNotice(post[p].lines)
         /\ (\E i \in 1..Len(post[p].lines) : post[p].lines[i] = Notice) => j \in truncated
         /\ post[p].lines # << >> => ~Noticed(j)

\* A line is numbered once: on a channel or in one post, and once there.
Lines(s) == {s[i] : i \in 1..Len(s)} \ {Notice}
Distinct(s) == \A i, k \in 1..Len(s) : s[i] = s[k] /\ s[i] # Notice => i = k
Known(j, l) == \/ l.attempt < row[j].attempt
               \/ l.attempt = row[j].attempt /\ l.n <= Len(sent[j])
Numbered(s) == \A i \in 1..Len(s) : s[i].n = i
Waiting(p, j) == post[p].pc \in {"test", "admit", "publish"} /\ post[p].job = j
Unique(j) ==
  /\ Numbered(sent[j]) /\ Numbered(console[j])
  /\ \A c \in 1..Len(channels[j]) :
       /\ Distinct(channels[j][c].lines) /\ \A l \in Lines(channels[j][c].lines) : Known(j, l)
       /\ \A p \in Posts : Waiting(p, j) =>
            Lines(post[p].lines) \intersect Lines(channels[j][c].lines) = {}
  /\ \A p \in Posts : Waiting(p, j) =>
       /\ Distinct(post[p].lines) /\ \A l \in Lines(post[p].lines) : Known(j, l)
       /\ \A q \in Posts : Waiting(q, j) /\ p # q =>
            Lines(post[p].lines) \intersect Lines(post[q].lines) = {}

\* What a viewer has is what it read of its channel, or the stored log.
Seen(w) == channels[w.job][w.channel].lines
Replayed(w) == w.pc = "over" /\ w.read = 0 /\ w.got = console[w.job] /\ IsOver(w.job)
ViewerIs(w) ==
  /\ w.pc # "idle" => w.job \in Jobs
  /\ w.pc \in {"idle", "attach"} => w.channel = 0 /\ w.read = 0 /\ w.got = << >> /\ ~w.ending
  /\ w.pc # "discard" => w.victims = << >>
  /\ w.pc \notin {"idle", "attach"} /\ w.channel = 0 => Replayed(w)
  /\ w.channel # 0 =>
       /\ w.channel <= Len(channels[w.job]) /\ w.read <= Len(Seen(w))
       /\ w.got = SubSeq(Seen(w), 1, w.read) \/ Replayed(w)
       /\ w.pc \in {"retire", "discard", "fallback", "over"} =>
            IsOver(w.job) /\ (w.job \notin late => w.read = Len(Seen(w)))
  /\ w.ending => w.job \in Jobs /\ IsOver(w.job)
ViewerAt(v) == ViewerIs(viewer[v])

IInv ==
  /\ Typed
  /\ \A p \in Posts : PostAt(p)
  /\ \A j \in Jobs : EnderAt(j) /\ ClosedAt(j) /\ Flight(j) /\ Notices(j) /\ Unique(j)
  /\ BacklogIsTracked
  /\ \A v \in Viewers : ViewerAt(v)
----------------------------------------------------------------------------
(* What the steps do to an order, and to the channels *)

\* A job moves to the end of an order.
LEMMA MovedToEnd ==
  ASSUME NEW order \in Seq(Jobs), NEW j \in Jobs
  PROVE  /\ Append(Without(order, {j}), j) \in Seq(Jobs)
         /\ ToSet(Append(Without(order, {j}), j)) = ToSet(order) \union {j}
         /\ Len(Append(Without(order, {j}), j)) <= Len(order) + 1
<1> DEFINE t == Without(order, {j})
<1>1. t \in Seq(Jobs) /\ ToSet(t) = ToSet(order) \ {j} /\ Len(t) <= Len(order)
  BY WithoutGone
<1> HIDE DEF t
<1>2. /\ Append(t, j) \in Seq(Jobs) /\ Len(Append(t, j)) = Len(t) + 1
      /\ ToSet(Append(t, j)) = ToSet(t) \union {j}
  BY <1>1, ToSetOfAppend, AppendProperties
<1>3. Len(t) \in Nat /\ Len(order) \in Nat
  BY <1>1, LenProperties
<1>4. Len(Append(t, j)) <= Len(order) + 1
  BY <1>1, <1>2, <1>3
<1>5. ToSet(Append(t, j)) = ToSet(order) \union {j}
  BY <1>1, <1>2
<1> QED
  BY <1>2, <1>4, <1>5 DEF t

\* The oldest job is a member of an order.
LEMMA HeadIsIn ==
  ASSUME NEW order \in Seq(Jobs), order # << >>
  PROVE  Head(order) \in ToSet(order) /\ Head(order) \in Jobs
<1>1. Len(order) \in Nat /\ Len(order) # 0 /\ Head(order) = order[1]
  BY LenProperties, EmptySeq, HeadTailProperties
<1> QED
  BY <1>1 DEF ToSet

\* One eviction brings an order that is one too long back to its bound.
LEMMA EvictionBounds ==
  ASSUME NEW order \in Seq(Jobs), Len(order) <= KeepClosed + 1, NEW done, done \subseteq ToSet(order),
         EvictionTyped, Ordered(order, done)
  PROVE  /\ EvictionTyped' /\ Evicted(order, done) \in Seq(Jobs)
         /\ ToSet(order) \subseteq ToSet(tracked') \union ToSet(Evicted(order, done))
<1> DEFINE gone == ToSet(Evicted(order, done))
<1>1. KeepClosed \in Nat /\ Len(order) \in Nat
  BY Caps, LenProperties
<1>2. /\ tracked' \in Seq(Jobs) /\ ToSet(tracked') = ToSet(order) \ gone /\ Len(tracked') <= Len(order)
      /\ ToSet(order) \intersect gone # {} => Len(tracked') < Len(order)
      /\ finished' = done \ gone
  BY WithoutGone DEF Ordered
<1>3. CASE Len(order) > KeepClosed
  <2>1. Evicted(order, done) = <<Victim(order, done)>> /\ order # << >>
    BY <1>1, <1>3 DEF Evicted
  <2>2. Victim(order, done) \in ToSet(order)
    BY <2>1, VictimIsIn
  <2>3. ToSet(order) \subseteq Jobs
    BY DEF ToSet
  <2>4. gone = {Victim(order, done)} /\ Evicted(order, done) \in Seq(Jobs)
    BY <2>1, <2>2, <2>3 DEF ToSet
  <2>5. Len(tracked') < Len(order) /\ Len(tracked') \in Nat
    BY <1>2, <2>2, <2>4, LenProperties
  <2> QED
    BY <1>1, <1>2, <2>4, <2>5 DEF EvictionTyped
<1>4. CASE Len(order) <= KeepClosed
  <2>1. Evicted(order, done) = << >> /\ Len(tracked') \in Nat
    BY <1>1, <1>2, <1>4, LenProperties DEF Evicted
  <2>2. gone = {}
    BY <2>1 DEF ToSet
  <2> QED
    BY <1>1, <1>2, <1>4, <2>1, <2>2 DEF EvictionTyped
<1> QED
  BY <1>1, <1>3, <1>4

\* _retire puts the job in the order, and what it evicts in the caller's hands.
LEMMA RetireBounds ==
  ASSUME NEW j \in Jobs, EvictionTyped, Retire(j)
  PROVE  /\ EvictionTyped' /\ RetireEvicts(j) \in Seq(Jobs)
         /\ ToSet(tracked) \union {j} \subseteq ToSet(tracked') \union ToSet(RetireEvicts(j))
<1>1. /\ Retired(j) \in Seq(Jobs) /\ ToSet(Retired(j)) = ToSet(tracked) \union {j}
      /\ Len(Retired(j)) <= Len(tracked) + 1
  BY MovedToEnd DEF EvictionTyped, Retired
<1>2. Len(tracked) \in Nat /\ Len(Retired(j)) \in Nat /\ KeepClosed \in Nat
  BY <1>1, Caps, LenProperties DEF EvictionTyped
<1>3. Len(Retired(j)) <= KeepClosed + 1
  BY <1>1, <1>2 DEF EvictionTyped
<1>4. finished \union {j} \subseteq ToSet(Retired(j))
  BY <1>1 DEF EvictionTyped
<1> QED
  BY <1>1, <1>3, <1>4, EvictionBounds DEF Retire, RetireEvicts

\* The channel a job gets when it has none holds nothing yet.
Was(j, c) == IF c \in 1..Len(channels[j]) THEN channels[j][c] ELSE NoChannel

\* A channel, made or not, is a channel record.
LEMMA WasTyped ==
  ASSUME BusTyped, NEW j \in Jobs, NEW c
  PROVE  Was(j, c) \in ChannelRecords /\ Was(j, c).lines \in Seq(Entry)
<1>1. NoChannel \in ChannelRecords
  <2>1. << >> \in Seq(Entry)
    OBVIOUS
  <2> QED
    BY <2>1 DEF NoChannel, ChannelRecords
<1>2. Was(j, c) \in ChannelRecords
  BY <1>1 DEF Was, BusTyped
<1> QED
  BY <1>2 DEF ChannelRecords

\* Channel c of job j grows by the lines x.
Grown(j, c, x) ==
  /\ BusTyped'
  /\ current' = [current EXCEPT ![j] = c]
  /\ \A k \in Jobs : k # j => channels'[k] = channels[k]
  /\ Len(channels[j]) \in Nat /\ Len(channels'[j]) \in Nat /\ Len(channels[j]) <= Len(channels'[j])
  /\ c \in 1..Len(channels'[j]) /\ (c \in 1..Len(channels[j]) => c = current[j])
  /\ \A d \in 1..Len(channels'[j]) :
       channels'[j][d].lines = IF d = c THEN Was(j, d).lines \o x ELSE Was(j, d).lines

\* What _chan leaves in the bus: the channels that were, and one for the job.
LEMMA MadeIs ==
  ASSUME BusTyped, NEW j \in Jobs
  PROVE  /\ Made(j) \in Seq(ChannelRecords) /\ Channel(j) \in 1..Len(Made(j))
         /\ Len(channels[j]) \in Nat /\ Len(Made(j)) \in Nat /\ Len(channels[j]) <= Len(Made(j))
         /\ \A d \in 1..Len(Made(j)) : Made(j)[d] = Was(j, d)
         /\ Channel(j) \in 1..Len(channels[j]) => Channel(j) = current[j]
<1>1. channels[j] \in Seq(ChannelRecords) /\ current[j] \in Nat /\ current[j] <= Len(channels[j])
  BY DEF BusTyped
<1>2. Len(channels[j]) \in Nat
  BY <1>1
<1>3. NoChannel \in ChannelRecords
  <2>1. << >> \in Seq(Entry)
    OBVIOUS
  <2> QED
    BY <2>1 DEF NoChannel, ChannelRecords
<1>4. CASE current[j] = 0
  <2>1. Made(j) = Append(channels[j], NoChannel) /\ Channel(j) = Len(channels[j]) + 1
    BY <1>4 DEF Made, Channel
  <2>2. Made(j) \in Seq(ChannelRecords) /\ Len(Made(j)) = Len(channels[j]) + 1
    BY <1>1, <1>3, <2>1, AppendProperties
  <2>3. \A d \in 1..Len(Made(j)) : Made(j)[d] = IF d \in 1..Len(channels[j]) THEN channels[j][d] ELSE NoChannel
    BY <1>1, <1>2, <1>3, <2>1, <2>2, AppendProperties
  <2> QED
    BY <1>2, <2>1, <2>2, <2>3 DEF Was
<1>5. CASE current[j] # 0
  BY <1>1, <1>2, <1>5 DEF Made, Channel, Was
<1> QED
  BY <1>4, <1>5

\* A channel in the table that was made, with one field of it replaced.
LEMMA ChannelGrows ==
  ASSUME BusTyped, NEW j \in Jobs, NEW new \in ChannelRecords, NEW x,
         new.lines = Made(j)[Channel(j)].lines \o x,
         channels' = [channels EXCEPT ![j] = [Made(j) EXCEPT ![Channel(j)] = new]],
         current' = [current EXCEPT ![j] = Channel(j)]
  PROVE  /\ Grown(j, Channel(j), x)
         /\ \A d \in 1..Len(channels'[j]) :
              channels'[j][d] = IF d = Channel(j) THEN new ELSE Was(j, d)
<1> DEFINE c == Channel(j)
           m == Made(j)
<1>1. /\ m \in Seq(ChannelRecords) /\ c \in 1..Len(m)
      /\ Len(channels[j]) \in Nat /\ Len(m) \in Nat /\ Len(channels[j]) <= Len(m)
      /\ \A d \in 1..Len(m) : m[d] = Was(j, d)
      /\ c \in 1..Len(channels[j]) => c = current[j]
  BY MadeIs
<1>2. channels' = [channels EXCEPT ![j] = [m EXCEPT ![c] = new]] /\ current' = [current EXCEPT ![j] = c]
  OBVIOUS
<1>3. new.lines = m[c].lines \o x
  OBVIOUS
<1> HIDE DEF c, m
<1> DEFINE n == [m EXCEPT ![c] = new]
<1>4. n \in Seq(ChannelRecords) /\ Len(n) = Len(m) /\ \A d \in 1..Len(m) : n[d] = IF d = c THEN new ELSE m[d]
  BY <1>1, ExceptSeq
<1>5. channels'[j] = n /\ \A k \in Jobs : k # j => channels'[k] = channels[k]
  BY <1>2 DEF BusTyped
<1>6. channels' \in [Jobs -> Seq(ChannelRecords)] /\ current' \in [Jobs -> Nat]
  <2> HIDE DEF n
  <2>1. channels' = [channels EXCEPT ![j] = n]
    BY <1>2 DEF n
  <2>2. c \in Nat
    BY <1>1
  <2> QED
    BY <1>2, <1>4, <2>1, <2>2 DEF BusTyped
<1> HIDE DEF n
<1>7. current'[j] = c /\ \A k \in Jobs : k # j => current'[k] = current[k]
  BY <1>2 DEF BusTyped
<1>8. BusTyped'
  <2> SUFFICES ASSUME NEW k \in Jobs PROVE current'[k] <= Len(channels'[k])
    BY <1>6 DEF BusTyped
  <2>1. CASE k = j
    BY <1>1, <1>4, <1>5, <1>7, <2>1
  <2>2. CASE k # j
    BY <1>5, <1>7, <2>2 DEF BusTyped
  <2> QED
    BY <2>1, <2>2
<1>9. \A d \in 1..Len(n) : n[d] = IF d = c THEN new ELSE Was(j, d)
  BY <1>1, <1>4
<1>10. \A d \in 1..Len(n) : n[d].lines = IF d = c THEN Was(j, d).lines \o x ELSE Was(j, d).lines
  BY <1>1, <1>3, <1>4, <1>9
<1>11. Grown(j, c, x)
  BY <1>1, <1>2, <1>4, <1>5, <1>8, <1>10 DEF Grown
<1> QED
  BY <1>5, <1>9, <1>11 DEF c

\* A channel with one of its fields replaced.
LEMMA Replaced ==
  ASSUME NEW c \in ChannelRecords, NEW x \in Seq(Entry)
  PROVE  /\ [c EXCEPT !.lines = x] \in ChannelRecords /\ [c EXCEPT !.lines = x].lines = x
         /\ [c EXCEPT !.lines = x].closed = c.closed
         /\ [c EXCEPT !.closed = TRUE] \in ChannelRecords /\ [c EXCEPT !.closed = TRUE].lines = c.lines
<1>1. [c EXCEPT !.lines = x] \in ChannelRecords
  BY SMT DEF ChannelRecords
<1>2. [c EXCEPT !.closed = TRUE] \in ChannelRecords
  BY Zenon DEF ChannelRecords
<1>3. [c EXCEPT !.lines = x].lines = x
  BY Zenon DEF ChannelRecords
<1>4. [c EXCEPT !.lines = x].closed = c.closed
  BY Zenon DEF ChannelRecords
<1>5. [c EXCEPT !.closed = TRUE].lines = c.lines
  BY Zenon DEF ChannelRecords
<1> QED
  BY <1>1, <1>2, <1>3, <1>4, <1>5

\* publish puts the request's lines at the end of the job's channel.
LEMMA PublishGrows ==
  ASSUME Typed, NEW p \in Posts, PostAt(p), Publish(p)
  PROVE  LET j == post[p].job IN
         /\ j \in Jobs /\ Grown(j, Channel(j), post[p].lines)
         /\ \A d \in 1..Len(channels'[j]) : channels'[j][d].closed = Was(j, d).closed
<1> DEFINE j == post[p].job
           x == post[p].lines
           old == Made(j)[Channel(j)]
           new == [old EXCEPT !.lines = @ \o x]
<1>1. j \in Jobs /\ x \in Seq(Entry) /\ BusTyped
  BY DEF PostAt, Publish, Typed, LocalsTyped, PostRecords
<1>2. /\ Made(j) \in Seq(ChannelRecords) /\ Channel(j) \in 1..Len(Made(j)) /\ Made(j)[Channel(j)] = Was(j, Channel(j))
      /\ \A d \in 1..Len(Made(j)) : Made(j)[d] = Was(j, d)
  BY <1>1, MadeIs
<1>3. old \in ChannelRecords
  BY <1>2
<1>4. new \in ChannelRecords /\ new.lines = old.lines \o x /\ new.closed = old.closed
  <2>1. old.lines \in Seq(Entry)
    BY <1>3 DEF ChannelRecords
  <2>2. old.lines \o x \in Seq(Entry)
    BY <1>1, <2>1, ConcatProperties
  <2> HIDE DEF old, x
  <2> QED
    BY <1>3, <2>2, Replaced
<1>5. /\ channels' = [channels EXCEPT ![j] = [Made(j) EXCEPT ![Channel(j)] = new]]
      /\ current' = [current EXCEPT ![j] = Channel(j)]
  BY DEF Publish
<1> HIDE DEF new, x, j
<1>6. /\ Grown(j, Channel(j), x)
      /\ \A d \in 1..Len(channels'[j]) : channels'[j][d] = IF d = Channel(j) THEN new ELSE Was(j, d)
  BY <1>1, <1>4, <1>5, ChannelGrows
<1> QED
  BY <1>1, <1>2, <1>4, <1>6 DEF j, x

\* close adds no line to a channel.
LEMMA CloseGrows ==
  ASSUME Typed, NEW j \in Jobs, Close(j)
  PROVE  Grown(j, Channel(j), << >>)
<1> DEFINE old == Made(j)[Channel(j)]
           new == [old EXCEPT !.closed = TRUE]
<1>1. BusTyped
  BY DEF Typed
<1>2. Made(j) \in Seq(ChannelRecords) /\ Channel(j) \in 1..Len(Made(j))
  BY <1>1, MadeIs
<1>3. old \in ChannelRecords
  BY <1>2
<1>4. new \in ChannelRecords /\ new.lines = old.lines \o << >>
  <2>1. old.lines \in Seq(Entry)
    BY <1>3 DEF ChannelRecords
  <2>2. old.lines \o << >> = old.lines
    BY <2>1, ConcatEmptySeq
  <2> HIDE DEF old
  <2> QED
    BY <1>3, <2>1, <2>2, Replaced
<1>5. /\ channels' = [channels EXCEPT ![j] = [Made(j) EXCEPT ![Channel(j)] = new]]
      /\ current' = [current EXCEPT ![j] = Channel(j)]
  BY DEF Close
<1> HIDE DEF new
<1> QED
  BY <1>1, <1>4, <1>5, ChannelGrows

\* A viewer that attaches changes no channel that was there.
LEMMA AttachGrows ==
  ASSUME Typed, NEW v \in Viewers, ViewerAt(v), Attach(v)
  PROVE  LET j == viewer[v].job IN
         /\ j \in Jobs /\ Grown(j, Channel(j), << >>)
         /\ \A d \in 1..Len(channels'[j]) : channels'[j][d] = Was(j, d)
<1> DEFINE j == viewer[v].job
           new == Made(j)[Channel(j)]
<1>1. j \in Jobs /\ BusTyped
  BY DEF ViewerAt, ViewerIs, Attach, Typed
<1>2. /\ Made(j) \in Seq(ChannelRecords) /\ Channel(j) \in 1..Len(Made(j))
      /\ \A d \in 1..Len(Made(j)) : Made(j)[d] = Was(j, d)
  BY <1>1, MadeIs
<1>3. new \in ChannelRecords
  BY <1>2
<1>4. new.lines = new.lines \o << >>
  BY <1>3 DEF ChannelRecords
<1>5. /\ channels' = [channels EXCEPT ![j] = Made(j)]
      /\ current' = [current EXCEPT ![j] = Channel(j)]
  BY DEF Attach
<1>6. [Made(j) EXCEPT ![Channel(j)] = new] = Made(j)
  BY <1>2
<1>7. channels' = [channels EXCEPT ![j] = [Made(j) EXCEPT ![Channel(j)] = new]]
  BY <1>5, <1>6
<1>8. new = Was(j, Channel(j))
  BY <1>2
<1> HIDE DEF new, j
<1>9. /\ Grown(j, Channel(j), << >>)
      /\ \A d \in 1..Len(channels'[j]) : channels'[j][d] = IF d = Channel(j) THEN new ELSE Was(j, d)
  <2>1. new.lines = Made(j)[Channel(j)].lines \o << >>
    BY <1>4 DEF new
  <2> QED
    BY <1>1, <1>3, <2>1, <1>5, <1>7, ChannelGrows
<1> QED
  BY <1>1, <1>8, <1>9 DEF j
----------------------------------------------------------------------------
(* Which steps change which variables *)

\* The steps that write the jobs table, or a log a worker sends or uploads.
LEMMA TableSteps ==
  ASSUME [Next]_vars
  PROVE  \/ UNCHANGED table
         \/ \E j \in Jobs : \/ Lease(j) \/ Reclaim(j) \/ \E stored \in BOOLEAN : Result(j, stored)
                            \/ \E p \in Posts, n \in 1..MaxBatch : Send(p, j, n)
  BY Zenon DEF Next, vars, EnderStep, PostStep, ViewerStep, TestLease, Admit, Publish, Track, PostDiscards,
     Close, CloseRetires, CloseDiscards, Forget, Subscribe, Attach, Read, Poll, ViewerRetires,
     ViewerDiscards, FallBack, Disconnect

\* The steps that write the live budget: a log request's and a job's end.
LEMMA BudgetSteps ==
  ASSUME [Next]_vars
  PROVE  UNCHANGED budget \/ (\E p \in Posts : Admit(p)) \/ \E j \in Jobs : Forget(j)
  BY Zenon DEF Next, vars, EnderStep, PostStep, ViewerStep, Lease, Reclaim, Send, Result, TestLease, Publish,
     Track, PostDiscards, Close, CloseRetires, CloseDiscards, Subscribe, Attach, Read, Poll,
     ViewerRetires, ViewerDiscards, FallBack, Disconnect

\* The steps that write the channels, or which of them the bus holds.
LEMMA BusSteps ==
  ASSUME [Next]_vars
  PROVE  \/ UNCHANGED channels /\ ((\E victims : Discard(victims)) \/ UNCHANGED current)
         \/ \E p \in Posts : Publish(p)
         \/ \E j \in Jobs : Close(j)
         \/ \E v \in Viewers : Attach(v)
<1>1. UNCHANGED bus => UNCHANGED channels /\ UNCHANGED current
  BY DEF bus
<1>2. ASSUME NEW p \in Posts, PostDiscards(p) PROVE UNCHANGED channels /\ \E victims : Discard(victims)
  BY <1>2, Zenon DEF PostDiscards
<1>3. ASSUME NEW j \in Jobs, CloseDiscards(j) PROVE UNCHANGED channels /\ \E victims : Discard(victims)
  BY <1>3, Zenon DEF CloseDiscards
<1>4. ASSUME NEW v \in Viewers, ViewerDiscards(v) PROVE UNCHANGED channels /\ \E victims : Discard(victims)
  BY <1>4, Zenon DEF ViewerDiscards
<1>5. \/ UNCHANGED bus
      \/ \E p \in Posts : Publish(p) \/ PostDiscards(p)
      \/ \E j \in Jobs : Close(j) \/ CloseDiscards(j)
      \/ \E v \in Viewers : Attach(v) \/ ViewerDiscards(v)
  BY Zenon DEF Next, vars, EnderStep, PostStep, ViewerStep, Lease, Reclaim, Send, Result, TestLease, Admit,
     Track, CloseRetires, Forget, Subscribe, Read, Poll, ViewerRetires, FallBack, Disconnect
<1> QED
  BY <1>1, <1>2, <1>3, <1>4, <1>5, Zenon

\* The steps that write the eviction order.
LEMMA EvictionSteps ==
  ASSUME [Next]_vars
  PROVE  \/ UNCHANGED eviction \/ \E p \in Posts : Track(p)
         \/ \E j \in Jobs : CloseRetires(j)
         \/ \E v \in Viewers : ViewerRetires(v)
  BY Zenon DEF Next, vars, EnderStep, PostStep, ViewerStep, Lease, Reclaim, Send, Result, TestLease, Admit,
     Publish, PostDiscards, Close, CloseDiscards, Forget, Subscribe, Attach, Read, Poll,
     ViewerDiscards, FallBack, Disconnect

\* The steps that write a log request's locals.
LEMMA PostSteps ==
  ASSUME [Next]_vars
  PROVE  \/ UNCHANGED post
         \/ \E p \in Posts : \/ TestLease(p) \/ Admit(p) \/ Publish(p) \/ Track(p) \/ PostDiscards(p)
                             \/ \E j \in Jobs, n \in 1..MaxBatch : Send(p, j, n)
  BY Zenon DEF Next, vars, EnderStep, PostStep, ViewerStep, Lease, Reclaim, Result, Close, CloseRetires,
     CloseDiscards, Forget, Subscribe, Attach, Read, Poll, ViewerRetires, ViewerDiscards, FallBack,
     Disconnect

\* The steps that write a result request's locals.
LEMMA EnderSteps ==
  ASSUME [Next]_vars
  PROVE  \/ UNCHANGED ender
         \/ \E j \in Jobs : \/ Close(j) \/ CloseRetires(j) \/ CloseDiscards(j) \/ Forget(j)
                            \/ \E stored \in BOOLEAN : Result(j, stored)
  BY Zenon DEF Next, vars, EnderStep, PostStep, ViewerStep, Lease, Reclaim, Send, TestLease, Admit, Publish,
     Track, PostDiscards, Subscribe, Attach, Read, Poll, ViewerRetires, ViewerDiscards, FallBack,
     Disconnect

\* The steps that write a stream's locals.
LEMMA ViewerSteps ==
  ASSUME [Next]_vars
  PROVE  \/ UNCHANGED viewer
         \/ \E v \in Viewers : \/ Attach(v) \/ Read(v) \/ Poll(v) \/ ViewerRetires(v) \/ ViewerDiscards(v)
                               \/ FallBack(v) \/ Disconnect(v) \/ \E j \in Jobs : Subscribe(v, j)
  BY Zenon DEF Next, vars, EnderStep, PostStep, ViewerStep, Lease, Reclaim, Send, Result, TestLease, Admit,
     Publish, Track, PostDiscards, Close, CloseRetires, CloseDiscards, Forget
----------------------------------------------------------------------------
(* The records keep their types *)

\* The lines a worker sends next.
NewLines(j, n) ==
  [i \in 1..n |-> [attempt |-> row[j].attempt, n |-> Len(sent[j]) + i, size |-> Output[j][Len(sent[j]) + i]]]

\* What a send leaves: lines that are lines, behind those already sent.
LEMMA SendWrites ==
  ASSUME Typed, NEW p \in Posts, NEW j \in Jobs, NEW n \in 1..MaxBatch, Send(p, j, n)
  PROVE  /\ NewLines(j, n) \in Seq(Line) /\ Len(NewLines(j, n)) = n /\ n \in Nat /\ Len(sent[j]) \in Nat
         /\ sent' = [sent EXCEPT ![j] = sent[j] \o NewLines(j, n)]
         /\ sent[j] \o NewLines(j, n) \in Seq(Line)
         /\ post' = [post EXCEPT ![p] = [pc |-> "test", job |-> j, attempt |-> row[j].attempt,
                                         lines |-> NewLines(j, n), victims |-> << >>]]
<1>1. /\ n \in Nat /\ sent[j] \in Seq(Line) /\ Len(sent[j]) \in Nat
      /\ row[j].attempt \in 1..MaxAttempts /\ Output[j] \in Seq(Nat \ {0})
      /\ Len(sent[j]) + n <= Len(Output[j])
  <2>1. row[j].attempt \in 0..MaxAttempts /\ row[j].attempt # 0
    BY DEF Typed, TableTyped, Rows, Send
  <2>2. Output[j] \in Seq(Nat \ {0})
    BY LiveLogAssumption, Zenon
  <2> QED
    BY <2>1, <2>2 DEF Typed, TableTyped, Send
<1>2. \A i \in 1..n : Output[j][Len(sent[j]) + i] \in Nat
  BY <1>1
<1>3. \A i \in 1..n : NewLines(j, n)[i] \in Line
  BY <1>1, <1>2 DEF NewLines, Line
<1>4. NewLines(j, n) \in Seq(Line) /\ Len(NewLines(j, n)) = n
  <2>1. NewLines(j, n) \in [1..n -> Line]
    <3>1. DOMAIN NewLines(j, n) = 1..n /\ NewLines(j, n) = [i \in 1..n |-> NewLines(j, n)[i]]
      BY DEF NewLines
    <3> QED
      BY <1>3, <3>1
  <2>2. NewLines(j, n) \in Seq(Line)
    BY <1>1, <2>1, SeqDef
  <2> QED
    BY <1>1, <2>1, <2>2, LenProperties
<1>5. sent[j] \o NewLines(j, n) \in Seq(Line)
  BY <1>1, <1>4, ConcatProperties
<1>6. sent' = [sent EXCEPT ![j] = sent[j] \o NewLines(j, n)]
  BY Zenon DEF Send, NewLines
<1>7. post' = [post EXCEPT ![p] = [pc |-> "test", job |-> j, attempt |-> row[j].attempt,
                                   lines |-> NewLines(j, n), victims |-> << >>]]
  BY Zenon DEF Send, NewLines
<1> QED
  BY <1>1, <1>4, <1>5, <1>6, <1>7

\* Every step keeps the types of the jobs table.
LEMMA TableTypedNext ==
  ASSUME Typed, [Next]_vars
  PROVE  TableTyped'
<1> USE DEF TableTyped
<1>0. TableTyped
  BY DEF Typed
<1>1. CASE UNCHANGED table
  BY <1>0, <1>1 DEF table, TableTyped
<1>2. ASSUME NEW j \in Jobs, Lease(j) PROVE TableTyped'
  <2>1. row[j].attempt + 1 \in 1..MaxAttempts
    BY <1>0, <1>2, Caps DEF Lease, Rows
  <2>2. row' \in [Jobs -> Rows]
    <3>1. [status |-> "leased", attempt |-> row[j].attempt + 1] \in Rows
      BY <2>1 DEF Rows
    <3> QED
      BY <1>0, <1>2, <3>1 DEF Lease
  <2>3. \A k \in Jobs : row'[k].status # "queued" => row'[k].attempt # 0
    BY <1>0, <1>2, <2>1 DEF Lease
  <2>4. sent' \in [Jobs -> Seq(Line)]
    <3>1. << >> \in Seq(Line)
      OBVIOUS
    <3> QED
      BY <1>0, <1>2, <3>1 DEF Lease
  <2> QED
    BY <1>0, <1>2, <2>2, <2>3, <2>4 DEF Lease
<1>3. ASSUME NEW j \in Jobs, Reclaim(j) PROVE TableTyped'
  <2>1. row' \in [Jobs -> Rows] /\ \A k \in Jobs : row'[k].status # "queued" => row'[k].attempt # 0
    BY <1>0, <1>3 DEF Reclaim, Rows, Over
  <2>2. late' \subseteq Jobs
    BY <1>0, <1>3 DEF Reclaim
  <2> QED
    BY <1>0, <1>3, <2>1, <2>2 DEF Reclaim
<1>4. ASSUME NEW j \in Jobs, NEW stored \in BOOLEAN, Result(j, stored) PROVE TableTyped'
  <2>1. row' \in [Jobs -> Rows] /\ \A k \in Jobs : row'[k].status # "queued" => row'[k].attempt # 0
    BY <1>0, <1>4 DEF Result, Rows, Over
  <2>2. late' \subseteq Jobs
    BY <1>0, <1>4 DEF Result
  <2>3. console' \in [Jobs -> Seq(Line)]
    <3>1. (IF stored THEN sent[j] ELSE << >>) \in Seq(Line)
      BY <1>0
    <3> QED
      BY <1>0, <1>4, <3>1 DEF Result
  <2> QED
    BY <1>0, <1>4, <2>1, <2>2, <2>3 DEF Result
<1>5. ASSUME NEW p \in Posts, NEW j \in Jobs, NEW n \in 1..MaxBatch, Send(p, j, n) PROVE TableTyped'
  <2>1. sent' = [sent EXCEPT ![j] = sent[j] \o NewLines(j, n)] /\ sent[j] \o NewLines(j, n) \in Seq(Line)
    BY <1>5, SendWrites
  <2>2. late' \subseteq Jobs /\ UNCHANGED <<row, console>>
    BY <1>0, <1>5 DEF Send
  <2> HIDE DEF TableTyped
  <2>3. sent' \in [Jobs -> Seq(Line)]
    BY <1>0, <2>1 DEF TableTyped
  <2> QED
    BY <1>0, <2>2, <2>3 DEF TableTyped
<1> HIDE DEF TableTyped
<1> QED
  BY <1>1, <1>2, <1>3, <1>4, <1>5, TableSteps

\* Every step keeps the budget's counts under their caps, and its order under
\* its bound (LiveLineBudget.admit, forget).
LEMMA BudgetTypedNext ==
  ASSUME Typed, \A p \in Posts : PostAt(p), [Next]_vars
  PROVE  BudgetTyped'
<1>0. BudgetTyped
  BY DEF Typed
<1>1. CASE UNCHANGED budget
  BY <1>0, <1>1 DEF budget, BudgetTyped
<1>2. ASSUME NEW j \in Jobs, Forget(j) PROVE BudgetTyped'
  <2>1. counted' \in Seq(Jobs) /\ Len(counted') <= Len(counted)
    BY <1>0, <1>2, WithoutGone DEF Forget, BudgetTyped
  <2>2. NoUse \in [lines : 0..LinesPerJob, bytes : 0..BytesPerJob]
    BY Caps DEF NoUse
  <2>3. used' \in [Jobs -> [lines : 0..LinesPerJob, bytes : 0..BytesPerJob]]
    BY <1>0, <1>2, <2>2 DEF Forget, BudgetTyped
  <2>4. truncated' \subseteq Jobs /\ forgotten' \subseteq Jobs
    BY <1>0, <1>2 DEF Forget, BudgetTyped
  <2>5. Len(counted') <= MaxTracked
    BY <1>0, <2>1, Caps, LenProperties DEF BudgetTyped
  <2> QED
    BY <2>1, <2>3, <2>4, <2>5 DEF BudgetTyped
<1>3. ASSUME NEW p \in Posts, Admit(p) PROVE BudgetTyped'
  <2> DEFINE j == post[p].job
             lines == post[p].lines
             k == Allowed(used[j], lines)
             order == Append(Without(counted, {j}), j)
             gone == IF Len(order) > MaxTracked THEN {Head(order)} ELSE {}
  <2>1. j \in Jobs /\ lines \in Seq(Line)
    BY <1>3 DEF PostAt, Admit
  <2>2. CASE j \in truncated
    BY <1>0, <1>3, <2>2 DEF Admit, BudgetTyped, budget
  <2>3. CASE j \notin truncated
    <3>1. /\ used' = [x \in Jobs |-> IF x \in gone THEN NoUse ELSE IF x = j THEN Spent(used[j], lines, k) ELSE used[x]]
          /\ counted' = Without(order, gone)
          /\ forgotten' = forgotten \union (gone \intersect truncated)
          /\ truncated' = (truncated \ gone) \union IF k < Len(lines) THEN {j} ELSE {}
      BY <1>3, <2>3, Zenon DEF Admit
    <3>2. /\ order \in Seq(Jobs) /\ Len(order) <= Len(counted) + 1
      BY <1>0, <2>1, MovedToEnd DEF BudgetTyped
    <3>3. Spent(used[j], lines, k) \in [lines : 0..LinesPerJob, bytes : 0..BytesPerJob]
      BY <1>0, <2>1, AllowedFits DEF BudgetTyped
    <3>4. NoUse \in [lines : 0..LinesPerJob, bytes : 0..BytesPerJob]
      BY Caps DEF NoUse
    <3> HIDE DEF order, k
    <3>5. used' \in [Jobs -> [lines : 0..LinesPerJob, bytes : 0..BytesPerJob]]
      <4> HIDE DEF gone, lines, j
      <4> QED
        BY <1>0, <3>1, <3>3, <3>4 DEF BudgetTyped
    <3>6. /\ counted' \in Seq(Jobs) /\ Len(counted') <= Len(order)
          /\ ToSet(order) \intersect gone # {} => Len(counted') < Len(order)
      BY <3>1, <3>2, WithoutGone
    <3>7. Len(counted') <= MaxTracked
      <4>1. Len(order) \in Nat /\ Len(counted') \in Nat /\ Len(counted) \in Nat /\ Len(counted) <= MaxTracked
        BY <1>0, <3>2, <3>6, LenProperties DEF BudgetTyped
      <4>2. CASE Len(order) > MaxTracked
        <5>1. order # << >>
          BY <4>1, <4>2, Caps
        <5>2. Head(order) \in ToSet(order)
          BY <3>2, <5>1, HeadIsIn
        <5> QED
          BY <3>2, <3>6, <4>1, <4>2, <5>2, Caps
      <4>3. CASE ~(Len(order) > MaxTracked)
        BY <3>6, <4>1, <4>3, Caps
      <4> QED
        BY <4>2, <4>3
    <3>8. truncated' \subseteq Jobs /\ forgotten' \subseteq Jobs
      <4> HIDE DEF gone, lines
      <4> QED
        BY <1>0, <2>1, <3>1 DEF BudgetTyped
    <3> QED
      BY <3>5, <3>6, <3>7, <3>8 DEF BudgetTyped
  <2> QED
    BY <2>2, <2>3
<1> QED
  BY <1>1, <1>2, <1>3, BudgetSteps

\* Every step keeps the types of the bus.
LEMMA BusTypedNext ==
  ASSUME Typed, \A p \in Posts : PostAt(p), \A v \in Viewers : ViewerAt(v), [Next]_vars
  PROVE  BusTyped'
<1>0. BusTyped
  BY DEF Typed
<1>1. CASE UNCHANGED channels /\ UNCHANGED current
  BY <1>0, <1>1 DEF BusTyped
<1>2. ASSUME NEW victims, UNCHANGED channels, Discard(victims) PROVE BusTyped'
  <2>1. \A j \in Jobs : current'[j] \in {0, current[j]}
    BY <1>2 DEF Discard
  <2>2. current' \in [Jobs -> Nat]
    BY <1>0, <1>2 DEF Discard, BusTyped
  <2>3. \A j \in Jobs : Len(channels[j]) \in Nat
    BY <1>0 DEF BusTyped
  <2> QED
    BY <1>0, <1>2, <2>1, <2>2, <2>3 DEF BusTyped
<1>3. ASSUME NEW p \in Posts, Publish(p) PROVE BusTyped'
  BY <1>3, PublishGrows DEF Grown
<1>4. ASSUME NEW j \in Jobs, Close(j) PROVE BusTyped'
  BY <1>4, CloseGrows DEF Grown
<1>5. ASSUME NEW v \in Viewers, Attach(v) PROVE BusTyped'
  BY <1>5, AttachGrows DEF Grown
<1> QED
  BY <1>1, <1>2, <1>3, <1>4, <1>5, BusSteps

\* A log request that enters its job in the order keeps the order's bound, and
\* what it evicts in its own hands.
LEMMA TrackBounds ==
  ASSUME Typed, NEW p \in Posts, PostAt(p), Track(p), post[p].job \notin ToSet(tracked)
  PROVE  LET j == post[p].job
             victims == Evicted(Append(tracked, j), finished) IN
         /\ EvictionTyped' /\ victims \in Seq(Jobs)
         /\ ToSet(tracked) \union {j} \subseteq ToSet(tracked') \union ToSet(victims)
<1> DEFINE j == post[p].job
           order == Append(tracked, j)
<1>1. j \in Jobs /\ EvictionTyped
  BY DEF PostAt, Track, Typed
<1>2. tracked \in Seq(Jobs) /\ Len(tracked) \in Nat /\ KeepClosed \in Nat
  BY <1>1, Caps, LenProperties DEF EvictionTyped
<1>3. order \in Seq(Jobs) /\ Len(order) = Len(tracked) + 1 /\ ToSet(order) = ToSet(tracked) \union {j}
  BY <1>1, <1>2, AppendProperties, ToSetOfAppend
<1>4. Len(order) <= KeepClosed + 1 /\ finished \subseteq ToSet(order)
  BY <1>1, <1>2, <1>3 DEF EvictionTyped
<1>5. Ordered(order, finished)
  BY Zenon DEF Track
<1> HIDE DEF order
<1>6. /\ EvictionTyped' /\ Evicted(order, finished) \in Seq(Jobs)
      /\ ToSet(order) \subseteq ToSet(tracked') \union ToSet(Evicted(order, finished))
  BY <1>1, <1>3, <1>4, <1>5, EvictionBounds
<1> QED
  BY <1>3, <1>6 DEF order

\* Every step keeps the eviction order under its bound (QueueLogBus._evict).
LEMMA EvictionTypedNext ==
  ASSUME Typed, \A p \in Posts : PostAt(p), \A v \in Viewers : ViewerAt(v), [Next]_vars
  PROVE  EvictionTyped'
<1>0. EvictionTyped
  BY DEF Typed
<1>1. CASE UNCHANGED eviction
  BY <1>0, <1>1 DEF EvictionTyped, eviction
<1>2. ASSUME NEW p \in Posts, Track(p) PROVE EvictionTyped'
  <2>1. CASE post[p].job \in ToSet(tracked)
    BY <1>0, <1>2, <2>1 DEF Track, EvictionTyped, eviction
  <2>2. CASE post[p].job \notin ToSet(tracked)
    BY <1>2, <2>2, TrackBounds
  <2> QED
    BY <2>1, <2>2
<1>3. ASSUME NEW j \in Jobs, CloseRetires(j) PROVE EvictionTyped'
  BY <1>0, <1>3, RetireBounds DEF CloseRetires
<1>4. ASSUME NEW v \in Viewers, ViewerRetires(v) PROVE EvictionTyped'
  <2>1. viewer[v].job \in Jobs /\ Retire(viewer[v].job)
    BY <1>4 DEF ViewerAt, ViewerIs, ViewerRetires
  <2> QED
    BY <1>0, <2>1, RetireBounds
<1> QED
  BY <1>1, <1>2, <1>3, <1>4, EvictionSteps

\* A front of a sequence.
LEMMA FrontOf ==
  ASSUME NEW S, NEW s \in Seq(S), NEW k \in 0..Len(s)
  PROVE  /\ SubSeq(s, 1, k) \in Seq(S) /\ Len(SubSeq(s, 1, k)) = k /\ Len(s) \in Nat /\ k \in Nat
         /\ \A i \in 1..k : SubSeq(s, 1, k)[i] = s[i]
<1>1. Len(s) \in Nat /\ k \in Nat /\ \A i \in 1..k : s[i] \in S
  BY LenProperties, ElementOfSeq
<1> QED
  BY <1>1, SubSeqProperties

\* What admit leaves of a batch: a front of it, and the notice behind a cut.
LEMMA AdmittedLines ==
  ASSUME NEW lines \in Seq(Line), NEW k \in 0..Len(lines), NEW tail \in {<< >>, <<Notice>>}
  PROVE  LET new == SubSeq(lines, 1, k) \o tail IN
         /\ new \in Seq(Entry) /\ EndsAtNotice(new) /\ Lines(new) \subseteq Lines(lines)
         /\ Distinct(lines) => Distinct(new)
         /\ tail = << >> => \A i \in 1..Len(new) : new[i] # Notice
<1> DEFINE front == SubSeq(lines, 1, k)
           new == front \o tail
<1>1. /\ front \in Seq(Line) /\ Len(front) = k /\ Len(lines) \in Nat /\ k \in Nat
      /\ \A i \in 1..k : front[i] = lines[i]
  BY FrontOf
<1>2. tail \in Seq({Notice}) /\ Len(tail) \in Nat /\ Len(tail) <= 1
  <2>1. CASE tail = << >>
    BY <2>1
  <2>2. CASE tail = <<Notice>>
    BY <2>2
  <2> QED
    BY <2>1, <2>2
<1>3. \A i \in 1..Len(lines) : lines[i] \in Line /\ lines[i] # Notice
  BY <1>1, NoticeAssumption, ElementOfSeq
<1> HIDE DEF front
<1>4. /\ Len(new) = k + Len(tail)
      /\ \A i \in 1..k : new[i] = lines[i]
      /\ \A i \in 1..Len(new) : i > k => new[i] = Notice
  <2>1. front \in Seq(Entry) /\ tail \in Seq(Entry)
    BY <1>1, <1>2 DEF Entry
  <2>2. /\ Len(new) = k + Len(tail)
        /\ \A i \in 1..Len(front) + Len(tail) : new[i] = IF i <= Len(front) THEN front[i] ELSE tail[i - Len(front)]
    BY <1>1, <2>1, ConcatProperties
  <2>3. \A i \in 1..Len(tail) : tail[i] = Notice
    BY <1>2
  <2> QED
    BY <1>1, <1>2, <2>2, <2>3
<1>5. new \in Seq(Entry)
  <2>1. front \in Seq(Entry) /\ tail \in Seq(Entry)
    BY <1>1, <1>2 DEF Entry
  <2> QED
    BY <2>1, ConcatProperties
<1> HIDE DEF new
<1>6. EndsAtNotice(new)
  <2>1. ASSUME NEW i \in 1..Len(new), new[i] = Notice PROVE i = Len(new)
    <3>1. i > k
      BY <1>1, <1>2, <1>3, <1>4, <2>1
    <3> QED
      BY <1>1, <1>2, <1>4, <3>1
  <2> QED
    BY <2>1 DEF EndsAtNotice
<1>7. Lines(new) \subseteq Lines(lines)
  BY <1>1, <1>2, <1>3, <1>4 DEF Lines
<1>8. ASSUME Distinct(lines) PROVE Distinct(new)
  BY <1>1, <1>2, <1>4, <1>8 DEF Distinct
<1>9. ASSUME tail = << >>, NEW i \in 1..Len(new) PROVE new[i] # Notice
  BY <1>1, <1>3, <1>4, <1>9
<1> QED
  BY <1>5, <1>6, <1>7, <1>8, <1>9 DEF new, front

\* A log request's locals with its step, its lines or its victims replaced.
LEMMA PostReplaced ==
  ASSUME NEW r \in PostRecords, NEW pc \in PostPcs, NEW lines \in Seq(Entry), NEW victims \in Seq(Jobs)
  PROVE  /\ [r EXCEPT !.pc = pc, !.lines = lines] \in PostRecords
         /\ [r EXCEPT !.pc = pc, !.victims = victims] \in PostRecords
         /\ [r EXCEPT !.pc = pc] \in PostRecords
<1>1. [r EXCEPT !.pc = pc] \in PostRecords
  BY Zenon DEF PostRecords
<1>2. \A q \in PostRecords : [q EXCEPT !.lines = lines] \in PostRecords
  BY Zenon DEF PostRecords
<1>3. \A q \in PostRecords : [q EXCEPT !.victims = victims] \in PostRecords
  BY Zenon DEF PostRecords
<1> QED
  BY <1>1, <1>2, <1>3

\* An idle log request's locals are well-typed.
LEMMA NoPostTyped == NoPost \in PostRecords
<1>1. << >> \in Seq(Entry) /\ << >> \in Seq(Jobs) /\ 0 \in 0..MaxAttempts
  BY Caps
<1> QED
  BY <1>1 DEF NoPost, PostRecords, PostPcs

\* What each step of a log request leaves in its locals.
LEMMA AdmitWrites ==
  ASSUME Typed, NEW p \in Posts, PostAt(p), Admit(p)
  PROVE  \E lines \in Seq(Entry) :
           /\ post' = [post EXCEPT ![p] = [post[p] EXCEPT !.pc = "publish", !.lines = lines]]
           /\ EndsAtNotice(lines) /\ Lines(lines) \subseteq Lines(post[p].lines)
           /\ Distinct(post[p].lines) => Distinct(lines)
           /\ lines # << >> => post[p].job \notin truncated
           /\ (\E i \in 1..Len(lines) : lines[i] = Notice) => post[p].job \in truncated'
           /\ truncated \subseteq truncated' \union forgotten' /\ forgotten \subseteq forgotten'
<1> DEFINE j == post[p].job
           lines == post[p].lines
           k == Allowed(used[j], lines)
           tail == IF k < Len(lines) THEN <<Notice>> ELSE << >>
           new == SubSeq(lines, 1, k) \o tail
<1>1. j \in Jobs /\ lines \in Seq(Line)
  BY DEF PostAt, Admit
<1>2. used[j] \in [lines : 0..LinesPerJob, bytes : 0..BytesPerJob]
  BY <1>1 DEF Typed, BudgetTyped
<1>3. CASE j \in truncated
  <2>1. post' = [post EXCEPT ![p] = [post[p] EXCEPT !.pc = "publish", !.lines = << >>]]
    BY <1>3, Zenon DEF Admit
  <2>2. UNCHANGED <<truncated, forgotten>>
    BY <1>3 DEF Admit, budget
  <2>3. << >> \in Seq(Entry) /\ EndsAtNotice(<< >>) /\ Lines(<< >>) = {} /\ Distinct(<< >>) /\ 1..Len(<< >>) = {}
    BY DEF EndsAtNotice, Lines, Distinct
  <2>4. truncated \subseteq truncated' \union forgotten' /\ forgotten \subseteq forgotten'
    BY <2>2
  <2> WITNESS << >> \in Seq(Entry)
  <2> QED
    BY <2>1, <2>3, <2>4
<1>4. CASE j \notin truncated
  <2>1. /\ post' = [post EXCEPT ![p] = [post[p] EXCEPT !.pc = "publish", !.lines = new]]
        /\ truncated' = (truncated \ (IF Len(Append(Without(counted, {j}), j)) > MaxTracked
                                      THEN {Head(Append(Without(counted, {j}), j))} ELSE {}))
                        \union IF k < Len(lines) THEN {j} ELSE {}
        /\ forgotten' = forgotten \union ((IF Len(Append(Without(counted, {j}), j)) > MaxTracked
                                           THEN {Head(Append(Without(counted, {j}), j))} ELSE {}) \intersect truncated)
    BY <1>4, Zenon DEF Admit
  <2>2. k \in 0..Len(lines)
    BY <1>1, <1>2, AllowedFits
  <2>3. tail \in {<< >>, <<Notice>>}
    OBVIOUS
  <2>4. /\ new \in Seq(Entry) /\ EndsAtNotice(new) /\ Lines(new) \subseteq Lines(lines)
        /\ Distinct(lines) => Distinct(new)
        /\ tail = << >> => \A i \in 1..Len(new) : new[i] # Notice
    <3> HIDE DEF k, tail
    <3> QED
      BY <1>1, <2>2, <2>3, AdmittedLines
  <2>5. truncated \subseteq truncated' \union forgotten' /\ forgotten \subseteq forgotten'
    <3> HIDE DEF j, k, lines
    <3> QED
      BY <2>1
  <2>6. k < Len(lines) => j \in truncated'
    <3> HIDE DEF j, k, lines
    <3> QED
      BY <2>1
  <2>7. (\E i \in 1..Len(new) : new[i] = Notice) => j \in truncated'
    <3> HIDE DEF new, k
    <3> QED
      BY <2>4, <2>6
  <2> HIDE DEF new
  <2> QED
    BY <1>4, <2>1, <2>4, <2>5, <2>7
<1> QED
  BY <1>3, <1>4

\* Whatever a log request's step was, its locals stay what they are read as.
PostOk(p, new) ==
  /\ new \in PostRecords /\ post' = [post EXCEPT ![p] = new]
  /\ new.pc # "idle" => new.job \in Jobs
  /\ new.pc \in {"test", "admit"} => new.lines \in Seq(Line)
  /\ new.pc # "discard" => new.victims = << >>

\* A step changes the locals of one log request, to locals that fit its place.
LEMMA PostStepOk ==
  ASSUME Typed, \A p \in Posts : PostAt(p), [Next]_vars
  PROVE  UNCHANGED post \/ \E p \in Posts : \E new : PostOk(p, new)
<1>0. post \in [Posts -> PostRecords]
  BY DEF Typed, LocalsTyped
<1>1. ASSUME NEW p \in Posts, NEW j \in Jobs, NEW n \in 1..MaxBatch, Send(p, j, n) PROVE \E new : PostOk(p, new)
  <2> DEFINE new == [pc |-> "test", job |-> j, attempt |-> row[j].attempt,
                     lines |-> NewLines(j, n), victims |-> << >>]
  <2>1. NewLines(j, n) \in Seq(Line) /\ post' = [post EXCEPT ![p] = new]
    BY <1>1, SendWrites
  <2>2. NewLines(j, n) \in Seq(Entry) /\ row[j].attempt \in 0..MaxAttempts /\ << >> \in Seq(Jobs)
    BY <2>1 DEF Entry, Typed, TableTyped, Rows
  <2>3. new \in PostRecords
    BY <2>2 DEF PostRecords, PostPcs
  <2>4. PostOk(p, new)
    BY <2>1, <2>3 DEF PostOk
  <2> QED
    BY <2>4
<1>2. ASSUME NEW p \in Posts, post' = [post EXCEPT ![p] = NoPost] PROVE \E new : PostOk(p, new)
  <2>1. NoPost.pc = "idle" /\ NoPost.victims = << >>
    BY DEF NoPost
  <2>2. PostOk(p, NoPost)
    BY <1>2, <2>1, NoPostTyped DEF PostOk
  <2> QED
    BY <2>2
<1>3. ASSUME NEW p \in Posts, TestLease(p) PROVE \E new : PostOk(p, new)
  <2>1. CASE post' = [post EXCEPT ![p] = NoPost]
    BY <1>2, <2>1
  <2>2. CASE post' = [post EXCEPT ![p] = [post[p] EXCEPT !.pc = "admit"]]
    <3> DEFINE new == [post[p] EXCEPT !.pc = "admit"]
    <3>1. post[p] \in PostRecords /\ "admit" \in PostPcs /\ << >> \in Seq(Entry) /\ << >> \in Seq(Jobs)
      BY <1>0 DEF PostPcs
    <3>2. new \in PostRecords
      BY <3>1, PostReplaced
    <3>3. /\ new.pc = "admit" /\ new.job = post[p].job /\ new.lines = post[p].lines
          /\ new.victims = post[p].victims
      BY <3>1 DEF PostRecords
    <3>4. PostOk(p, new)
      BY <1>3, <2>2, <3>2, <3>3 DEF PostOk, PostAt, TestLease
    <3> QED
      BY <3>4
  <2> QED
    BY <1>3, <2>1, <2>2 DEF TestLease
<1>4. ASSUME NEW p \in Posts, Admit(p) PROVE \E new : PostOk(p, new)
  <2>1. PICK lines \in Seq(Entry) : post' = [post EXCEPT ![p] = [post[p] EXCEPT !.pc = "publish", !.lines = lines]]
    BY <1>4, AdmitWrites
  <2> DEFINE new == [post[p] EXCEPT !.pc = "publish", !.lines = lines]
  <2>2. post[p] \in PostRecords /\ "publish" \in PostPcs /\ << >> \in Seq(Jobs)
    BY <1>0 DEF PostPcs
  <2>3. new \in PostRecords
    BY <2>2, PostReplaced
  <2>4. new.pc = "publish" /\ new.job = post[p].job /\ new.victims = post[p].victims
    BY <2>2 DEF PostRecords
  <2>5. PostOk(p, new)
    BY <1>4, <2>1, <2>3, <2>4 DEF PostOk, PostAt, Admit
  <2> QED
    BY <2>5
<1>5. ASSUME NEW p \in Posts, Publish(p) PROVE \E new : PostOk(p, new)
  <2> DEFINE new == [post[p] EXCEPT !.pc = "track"]
  <2>1. post[p] \in PostRecords /\ "track" \in PostPcs /\ << >> \in Seq(Entry) /\ << >> \in Seq(Jobs)
    BY <1>0 DEF PostPcs
  <2>2. new \in PostRecords
    BY <2>1, PostReplaced
  <2>3. new.pc = "track" /\ new.job = post[p].job /\ new.victims = post[p].victims
    BY <2>1 DEF PostRecords
  <2>4. post' = [post EXCEPT ![p] = new]
    BY <1>5 DEF Publish
  <2>5. PostOk(p, new)
    BY <1>5, <2>2, <2>3, <2>4 DEF PostOk, PostAt, Publish
  <2> QED
    BY <2>5
<1>6. ASSUME NEW p \in Posts, Track(p) PROVE \E new : PostOk(p, new)
  <2>1. CASE post' = [post EXCEPT ![p] = NoPost]
    BY <1>2, <2>1
  <2>2. CASE post[p].job \notin ToSet(tracked)
    <3> DEFINE victims == Evicted(Append(tracked, post[p].job), finished)
               new == [post[p] EXCEPT !.pc = "discard", !.victims = victims]
    <3>1. post[p] \in PostRecords /\ "discard" \in PostPcs /\ << >> \in Seq(Entry) /\ victims \in Seq(Jobs)
      BY <1>0, <1>6, <2>2, TrackBounds DEF PostPcs
    <3>2. post' = [post EXCEPT ![p] = new]
      BY <1>6, <2>2, Zenon DEF Track
    <3> HIDE DEF victims
    <3>3. new \in PostRecords
      BY <3>1, PostReplaced
    <3>4. new.pc = "discard" /\ new.job = post[p].job
      BY <3>1 DEF PostRecords
    <3>5. PostOk(p, new)
      BY <1>6, <3>2, <3>3, <3>4 DEF PostOk, PostAt, Track
    <3> QED
      BY <3>5
  <2> QED
    BY <1>6, <2>1, <2>2 DEF Track
<1>7. ASSUME NEW p \in Posts, PostDiscards(p) PROVE \E new : PostOk(p, new)
  BY <1>2, <1>7 DEF PostDiscards
<1> QED
  BY <1>1, <1>3, <1>4, <1>5, <1>6, <1>7, PostSteps

\* Every step keeps what a log request knows at its place.
LEMMA PostAtNext ==
  ASSUME Typed, \A p \in Posts : PostAt(p), [Next]_vars
  PROVE  post' \in [Posts -> PostRecords] /\ \A p \in Posts : PostAt(p)'
<1>0. post \in [Posts -> PostRecords]
  BY DEF Typed, LocalsTyped
<1>1. CASE UNCHANGED post
  BY <1>0, <1>1 DEF PostAt
<1>2. ASSUME NEW p \in Posts, NEW new, PostOk(p, new)
      PROVE  post' \in [Posts -> PostRecords] /\ \A q \in Posts : PostAt(q)'
  <2>1. post' \in [Posts -> PostRecords] /\ \A q \in Posts : post'[q] = IF q = p THEN new ELSE post[q]
    BY <1>0, <1>2 DEF PostOk
  <2> QED
    BY <1>2, <2>1 DEF PostOk, PostAt
<1> QED
  BY <1>1, <1>2, PostStepOk

\* A result request's locals with its step or its victims replaced.
LEMMA EnderReplaced ==
  ASSUME NEW r \in EnderRecords, NEW victims \in Seq(Jobs),
         NEW pc \in {"none", "close", "retire", "discard", "forget", "over"}
  PROVE  /\ [r EXCEPT !.pc = pc] \in EnderRecords /\ [pc |-> pc, victims |-> victims] \in EnderRecords
         /\ [r EXCEPT !.pc = pc].pc = pc /\ [r EXCEPT !.pc = pc].victims = r.victims
<1>1. [r EXCEPT !.pc = pc] \in EnderRecords
  BY Zenon DEF EnderRecords
<1>2. [pc |-> pc, victims |-> victims] \in EnderRecords
  BY Zenon DEF EnderRecords
<1>3. [r EXCEPT !.pc = pc].pc = pc /\ [r EXCEPT !.pc = pc].victims = r.victims
  BY Zenon DEF EnderRecords
<1> QED
  BY <1>1, <1>2, <1>3

\* A job that is over stays so.
LEMMA OverStays ==
  ASSUME Typed, [Next]_vars, NEW j \in Jobs, IsOver(j)
  PROVE  IsOver(j)' /\ console'[j] = console[j] /\ row'[j] = row[j] /\ sent'[j] = sent[j]
<1>0. /\ row \in [Jobs -> Rows] /\ sent \in [Jobs -> Seq(Line)] /\ console \in [Jobs -> Seq(Line)]
      /\ row[j].status \notin {"queued", "leased"}
  BY DEF Typed, TableTyped, IsOver, Over
<1>1. CASE UNCHANGED table
  BY <1>1 DEF table, IsOver
<1>2. ASSUME NEW k \in Jobs, Lease(k) \/ Reclaim(k) PROVE k # j /\ row'[j] = row[j] /\ sent'[j] = sent[j] /\ console' = console
  BY <1>0, <1>2 DEF Lease, Reclaim
<1>3. ASSUME NEW k \in Jobs, NEW stored \in BOOLEAN, Result(k, stored)
      PROVE  k # j /\ row'[j] = row[j] /\ sent' = sent /\ console'[j] = console[j]
  BY <1>0, <1>3 DEF Result
<1>4. ASSUME NEW k \in Jobs, NEW p \in Posts, NEW n \in 1..MaxBatch, Send(p, k, n)
      PROVE  k # j /\ row' = row /\ sent'[j] = sent[j] /\ console' = console
  BY <1>0, <1>4 DEF Send
<1> QED
  BY <1>1, <1>2, <1>3, <1>4, TableSteps DEF IsOver

\* Every step keeps what a result request knows at its place.
LEMMA EnderAtNext ==
  ASSUME Typed, \A p \in Posts : PostAt(p), \A j \in Jobs : EnderAt(j), [Next]_vars
  PROVE  ender' \in [Jobs -> EnderRecords] /\ \A j \in Jobs : EnderAt(j)'
<1> DEFINE Ok(k, new) == /\ new \in EnderRecords /\ ender' = [ender EXCEPT ![k] = new]
                         /\ new.pc # "none" => IsOver(k)'
                         /\ new.pc # "discard" => new.victims = << >>
<1>0. ender \in [Jobs -> EnderRecords] /\ << >> \in Seq(Jobs)
  BY DEF Typed, LocalsTyped
<1>00. \A j \in Jobs : IsOver(j) => IsOver(j)'
  BY OverStays
<1>1. CASE UNCHANGED ender
  BY <1>0, <1>00, <1>1 DEF EnderAt
<1>2. ASSUME NEW k \in Jobs, NEW new, Ok(k, new)
      PROVE  ender' \in [Jobs -> EnderRecords] /\ \A j \in Jobs : EnderAt(j)'
  <2>1. ender' \in [Jobs -> EnderRecords] /\ \A j \in Jobs : ender'[j] = IF j = k THEN new ELSE ender[j]
    BY <1>0, <1>2
  <2> QED
    BY <1>00, <1>2, <2>1 DEF EnderAt
<1>3. ASSUME NEW k \in Jobs, NEW stored \in BOOLEAN, Result(k, stored) PROVE \E new : Ok(k, new)
  <2>1. PICK pc \in {"close", "over"} : ender' = [ender EXCEPT ![k].pc = pc]
    BY <1>3 DEF Result
  <2> DEFINE new == [ender[k] EXCEPT !.pc = pc]
  <2>2. new \in EnderRecords /\ new.pc = pc /\ new.victims = ender[k].victims
    <3>1. pc \in {"none", "close", "retire", "discard", "forget", "over"} /\ ender[k] \in EnderRecords
      BY <1>0
    <3> QED
      BY <1>0, <3>1, EnderReplaced
  <2>3. IsOver(k)' /\ ~IsOver(k)
    BY <1>3 DEF Result, IsOver, Over, Typed, TableTyped, Rows
  <2>4. ender[k].victims = << >>
    BY <2>3 DEF EnderAt
  <2>5. Ok(k, new)
    BY <2>1, <2>2, <2>3, <2>4
  <2> QED
    BY <2>5
<1>4. ASSUME NEW k \in Jobs, Close(k) PROVE \E new : Ok(k, new)
  <2> DEFINE new == [ender[k] EXCEPT !.pc = "retire"]
  <2>1. new \in EnderRecords /\ new.pc = "retire" /\ new.victims = ender[k].victims
    BY <1>0, EnderReplaced
  <2>2. ender' = [ender EXCEPT ![k] = new] /\ ender[k].pc = "close"
    BY <1>4 DEF Close
  <2>3. Ok(k, new)
    BY <1>00, <2>1, <2>2 DEF EnderAt
  <2> QED
    BY <2>3
<1>5. ASSUME NEW k \in Jobs, CloseRetires(k) PROVE \E new : Ok(k, new)
  <2> DEFINE new == [pc |-> "discard", victims |-> RetireEvicts(k)]
  <2>1. RetireEvicts(k) \in Seq(Jobs)
    BY <1>5, RetireBounds DEF CloseRetires, Typed
  <2>2. new \in EnderRecords
    BY <1>0, <2>1, EnderReplaced
  <2>3. ender' = [ender EXCEPT ![k] = new] /\ ender[k].pc = "retire"
    BY <1>5 DEF CloseRetires
  <2>4. Ok(k, new)
    BY <1>00, <2>2, <2>3 DEF EnderAt
  <2> QED
    BY <2>4
<1>6. ASSUME NEW k \in Jobs, CloseDiscards(k) PROVE \E new : Ok(k, new)
  <2> DEFINE new == [pc |-> "forget", victims |-> << >>]
  <2>1. new \in EnderRecords
    BY <1>0, EnderReplaced
  <2>2. ender' = [ender EXCEPT ![k] = new] /\ ender[k].pc = "discard"
    BY <1>6 DEF CloseDiscards
  <2>3. Ok(k, new)
    BY <1>00, <2>1, <2>2 DEF EnderAt
  <2> QED
    BY <2>3
<1>7. ASSUME NEW k \in Jobs, Forget(k) PROVE \E new : Ok(k, new)
  <2> DEFINE new == [ender[k] EXCEPT !.pc = "over"]
  <2>1. new \in EnderRecords /\ new.pc = "over" /\ new.victims = ender[k].victims
    BY <1>0, EnderReplaced
  <2>2. ender' = [ender EXCEPT ![k] = new] /\ ender[k].pc = "forget"
    BY <1>7 DEF Forget
  <2>3. Ok(k, new)
    BY <1>00, <2>1, <2>2 DEF EnderAt
  <2> QED
    BY <2>3
<1> HIDE DEF Ok
<1> QED
  BY <1>1, <1>2, <1>3, <1>4, <1>5, <1>6, <1>7, EnderSteps

\* Only the result of a job that is over closes a channel.
LEMMA ClosedAtNext ==
  ASSUME Typed, \A p \in Posts : PostAt(p), \A v \in Viewers : ViewerAt(v),
         \A j \in Jobs : EnderAt(j) /\ ClosedAt(j), [Next]_vars
  PROVE  \A j \in Jobs : ClosedAt(j)'
<1>0. \A j \in Jobs : IsOver(j) => IsOver(j)'
  BY OverStays
<1>1. \A j \in Jobs : \A d : Was(j, d).closed => IsOver(j)
  BY DEF ClosedAt, Was, NoChannel
<1>2. CASE UNCHANGED channels
  BY <1>0, <1>2 DEF ClosedAt
<1>3. ASSUME NEW p \in Posts, Publish(p), NEW j \in Jobs PROVE ClosedAt(j)'
  <2>1. CASE j = post[p].job
    BY <1>0, <1>1, <1>3, <2>1, PublishGrows DEF ClosedAt
  <2>2. CASE j # post[p].job
    BY <1>0, <1>3, <2>2, PublishGrows DEF ClosedAt, Grown
  <2> QED
    BY <2>1, <2>2
<1>4. ASSUME NEW k \in Jobs, Close(k), NEW j \in Jobs PROVE ClosedAt(j)'
  <2>1. CASE j = k
    BY <1>0, <1>4, <2>1 DEF ClosedAt, Close, EnderAt
  <2>2. CASE j # k
    BY <1>0, <1>4, <2>2, CloseGrows DEF ClosedAt, Grown
  <2> QED
    BY <2>1, <2>2
<1>5. ASSUME NEW v \in Viewers, Attach(v), NEW j \in Jobs PROVE ClosedAt(j)'
  <2>1. CASE j = viewer[v].job
    BY <1>0, <1>1, <1>5, <2>1, AttachGrows DEF ClosedAt
  <2>2. CASE j # viewer[v].job
    BY <1>0, <1>5, <2>2, AttachGrows DEF ClosedAt, Grown
  <2> QED
    BY <2>1, <2>2
<1> QED
  BY <1>2, <1>3, <1>4, <1>5, BusSteps
----------------------------------------------------------------------------
(* The invariants of the log requests *)

\* A request of the log moves on, ends, or begins.
LEMMA PostKeepsJob ==
  ASSUME Typed, \A p \in Posts : PostAt(p), NEW p \in Posts,
         TestLease(p) \/ Admit(p) \/ Publish(p) \/ Track(p) \/ PostDiscards(p)
  PROVE  /\ post[p].pc # "idle"
         /\ \A q \in Posts : q # p => post'[q] = post[q]
         /\ \/ post'[p] = NoPost
            \/ /\ post'[p].job = post[p].job /\ post'[p].attempt = post[p].attempt
               /\ post'[p].lines = post[p].lines \/ Admit(p)
               /\ post'[p].pc = "admit" => TestLease(p)
               /\ post'[p].pc = "publish" => Admit(p)
               /\ post'[p].pc # "test"
<1>0. post \in [Posts -> PostRecords] /\ post[p] \in PostRecords
  BY DEF Typed, LocalsTyped
<1>1. CASE post' = [post EXCEPT ![p] = NoPost]
  BY <1>0, <1>1 DEF TestLease, Admit, Publish, Track, PostDiscards
<1>2. CASE TestLease(p) /\ post' = [post EXCEPT ![p] = [post[p] EXCEPT !.pc = "admit"]]
  BY <1>0, <1>2 DEF TestLease, PostRecords
<1>3. CASE Admit(p)
  <2>1. PICK lines \in Seq(Entry) : post' = [post EXCEPT ![p] = [post[p] EXCEPT !.pc = "publish", !.lines = lines]]
    BY <1>3, AdmitWrites
  <2> QED
    BY <1>0, <1>3, <2>1 DEF PostRecords, Admit
<1>4. CASE Publish(p)
  <2>1. post' = [post EXCEPT ![p] = [post[p] EXCEPT !.pc = "track"]]
    BY <1>4 DEF Publish
  <2> QED
    BY <1>0, <1>4, <2>1 DEF Publish, PostRecords
<1>5. CASE Track(p) /\ post[p].job \notin ToSet(tracked)
  <2>1. post' = [post EXCEPT ![p] = [post[p] EXCEPT !.pc = "discard",
                               !.victims = Evicted(Append(tracked, post[p].job), finished)]]
    BY <1>5, Zenon DEF Track
  <2> QED
    BY <1>0, <1>5, <2>1 DEF Track, PostRecords
<1> QED
  BY <1>1, <1>2, <1>3, <1>4, <1>5, Zenon DEF TestLease, Track, PostDiscards

\* A job no post of which is late has one post at most, under its lease.
LEMMA FlightNext ==
  ASSUME Typed, \A p \in Posts : PostAt(p), \A j \in Jobs : Flight(j), [Next]_vars
  PROVE  \A j \in Jobs : Flight(j)' /\ (j \in late => j \in late')
<1>0. post \in [Posts -> PostRecords] /\ row \in [Jobs -> Rows]
  BY DEF Typed, LocalsTyped, TableTyped
<1>1. CASE UNCHANGED table /\ UNCHANGED post
  BY <1>1 DEF table, Flight, Flying
<1>2. ASSUME NEW k \in Jobs, Lease(k), NEW j \in Jobs PROVE Flight(j)' /\ late' = late
  BY <1>0, <1>2 DEF Lease, Flight, Flying
<1>3. ASSUME NEW k \in Jobs, Reclaim(k) \/ \E stored \in BOOLEAN : Result(k, stored), NEW j \in Jobs
      PROVE  Flight(j)' /\ (j \in late => j \in late')
  <2>1. /\ post' = post /\ late' = IF InFlight(k) THEN late \union {k} ELSE late
        /\ \A i \in Jobs : i # k => row'[i] = row[i]
    BY <1>0, <1>3 DEF Reclaim, Result
  <2>2. CASE j = k
    <3>1. ASSUME j \notin late', NEW p \in Posts, Flying(p, j) PROVE FALSE
      BY <2>1, <2>2, <3>1 DEF Flight, Flying, InFlight
    <3> QED
      BY <2>1, <3>1 DEF Flight, Flying
  <2>3. CASE j # k
    BY <2>1, <2>3 DEF Flight, Flying
  <2> QED
    BY <2>2, <2>3
<1>4. ASSUME NEW p \in Posts, NEW k \in Jobs, NEW n \in 1..MaxBatch, Send(p, k, n), NEW j \in Jobs
      PROVE  Flight(j)' /\ (j \in late => j \in late')
  <2>1. /\ post'[p].job = k /\ post'[p].attempt = row[k].attempt
        /\ \A q \in Posts : q # p => post'[q] = post[q]
    BY <1>0, <1>4, SendWrites
  <2>2. /\ late' = IF InFlight(k) THEN late \union {k} ELSE late
        /\ row' = row /\ row[k].status = "leased" /\ post[p].pc = "idle"
    BY <1>4 DEF Send
  <2>3. CASE j = k
    <3>1. ASSUME j \notin late', NEW q \in Posts, Flying(q, j) PROVE FALSE
      BY <2>2, <2>3, <3>1 DEF Flight, Flying, InFlight
    <3> QED
      BY <2>1, <2>2, <2>3, <3>1 DEF Flight, Flying
  <2>4. CASE j # k
    BY <2>1, <2>2, <2>4 DEF Flight, Flying
  <2> QED
    BY <2>3, <2>4
<1>5. ASSUME NEW p \in Posts, TestLease(p) \/ Admit(p) \/ Publish(p) \/ Track(p) \/ PostDiscards(p),
             NEW j \in Jobs
      PROVE  Flight(j)' /\ late' = late
  <2>1. row' = row /\ late' = late
    BY <1>5 DEF TestLease, Admit, Publish, Track, PostDiscards, table
  <2>2. \A q \in Posts : Flying(q, j)' => Flying(q, j) /\ post'[q].attempt = post[q].attempt
    <3>1. NoPost.pc = "idle"
      BY DEF NoPost
    <3> QED
      BY <1>5, <3>1, PostKeepsJob DEF Flying
  <2> QED
    BY <2>1, <2>2 DEF Flight
<1>6. \/ UNCHANGED table /\ UNCHANGED post
      \/ \E p \in Posts : TestLease(p) \/ Admit(p) \/ Publish(p) \/ Track(p) \/ PostDiscards(p)
      \/ \E k \in Jobs : \/ Lease(k) \/ Reclaim(k) \/ \E stored \in BOOLEAN : Result(k, stored)
                         \/ \E p \in Posts, n \in 1..MaxBatch : Send(p, k, n)
  BY TableSteps, PostSteps
<1> QED
  BY <1>1, <1>2, <1>3, <1>4, <1>5, <1>6

\* A channel keeps its lines; a job that is over, and none of whose posts was
\* late, gets no more of them.
LEMMA ChannelsGrow ==
  ASSUME Typed, \A p \in Posts : PostAt(p), \A v \in Viewers : ViewerAt(v), \A j \in Jobs : Flight(j),
         [Next]_vars, NEW j \in Jobs, NEW c \in 1..Len(channels[j])
  PROVE  /\ c \in 1..Len(channels'[j]) /\ channels[j][c].lines \in Seq(Entry) /\ channels'[j][c].lines \in Seq(Entry)
         /\ Len(channels[j][c].lines) <= Len(channels'[j][c].lines)
         /\ \A i \in 1..Len(channels[j][c].lines) : channels'[j][c].lines[i] = channels[j][c].lines[i]
         /\ IsOver(j) /\ j \notin late => channels'[j][c].lines = channels[j][c].lines
<1> DEFINE old == channels[j][c].lines
           new == channels'[j][c].lines
<1>0. old \in Seq(Entry)
  <2>1. channels[j][c] \in ChannelRecords
    BY DEF Typed, BusTyped
  <2> QED
    BY <2>1 DEF ChannelRecords
<1>1. CASE new = old /\ c \in 1..Len(channels'[j])
  BY <1>0, <1>1
<1>2. ASSUME NEW k \in Jobs, NEW d, NEW x \in Seq(Entry), Grown(k, d, x),
             IsOver(k) /\ k \notin late => x = << >>
      PROVE  /\ c \in 1..Len(channels'[j]) /\ new \in Seq(Entry)
             /\ Len(old) <= Len(new) /\ \A i \in 1..Len(old) : new[i] = old[i]
             /\ IsOver(j) /\ j \notin late => new = old
  <2>1. CASE j # k
    BY <1>0, <1>2, <2>1 DEF Grown
  <2>2. CASE j = k
    <3>1. c \in 1..Len(channels'[j]) /\ (new = old \o x \/ new = old)
      <4>1. c \in 1..Len(channels'[j])
        BY <1>2, <2>2 DEF Grown
      <4>2. Was(j, c) = channels[j][c]
        BY DEF Was
      <4>3. channels'[j][c].lines = IF c = d THEN Was(j, c).lines \o x ELSE Was(j, c).lines
        BY <1>2, <2>2, <4>1 DEF Grown
      <4> QED
        BY <4>1, <4>2, <4>3
    <3>2. CASE new = old \o x
      <4> HIDE DEF old, new
      <4>1. /\ old \o x \in Seq(Entry) /\ Len(old \o x) = Len(old) + Len(x) /\ Len(x) \in Nat /\ Len(old) \in Nat
            /\ \A i \in 1..Len(old) + Len(x) : (old \o x)[i] = IF i <= Len(old) THEN old[i] ELSE x[i - Len(old)]
            /\ x = << >> => old \o x = old
        BY <1>0, <1>2, ConcatProperties, ConcatEmptySeq, LenProperties
      <4> QED
        BY <1>2, <2>2, <3>1, <3>2, <4>1
    <3>3. CASE new = old
      <4> HIDE DEF old, new
      <4> QED
        BY <1>0, <3>1, <3>3
    <3> QED
      BY <3>1, <3>2, <3>3
  <2> QED
    BY <2>1, <2>2
<1>3. CASE UNCHANGED channels
  BY <1>1, <1>3
<1>4. ASSUME NEW p \in Posts, Publish(p)
      PROVE  \E k \in Jobs, x \in Seq(Entry) : \E d : Grown(k, d, x) /\ (IsOver(k) /\ k \notin late => x = << >>)
  <2>1. post[p].lines \in Seq(Entry)
    BY DEF Typed, LocalsTyped, PostRecords
  <2>2. post[p].job \in Jobs /\ Grown(post[p].job, Channel(post[p].job), post[p].lines)
    BY <1>4, PublishGrows
  <2>3. Flying(p, post[p].job)
    BY <1>4 DEF Publish, Flying
  <2>4. ~(IsOver(post[p].job) /\ post[p].job \notin late)
    BY <2>2, <2>3 DEF Flight, IsOver, Over
  <2> QED
    BY <2>1, <2>2, <2>4, Zenon
<1>5. << >> \in Seq(Entry)
  OBVIOUS
<1>6. ASSUME NEW k \in Jobs, Close(k) PROVE Grown(k, Channel(k), << >>)
  BY <1>6, CloseGrows
<1>7. ASSUME NEW v \in Viewers, Attach(v) PROVE \E k \in Jobs : Grown(k, Channel(k), << >>)
  BY <1>7, AttachGrows
<1>8. \/ UNCHANGED channels
      \/ \E k \in Jobs, x \in Seq(Entry) : \E d : Grown(k, d, x) /\ (IsOver(k) /\ k \notin late => x = << >>)
  BY <1>4, <1>5, <1>6, <1>7, BusSteps, Zenon
<1> QED
  BY <1>0, <1>2, <1>3, <1>8
----------------------------------------------------------------------------
(* The viewers *)

\* A stream's locals with some of their fields replaced.
LEMMA ViewerReplaced ==
  ASSUME NEW w \in ViewerRecords
  PROVE  /\ \A pc \in ViewerPcs : [w EXCEPT !.pc = pc] \in ViewerRecords
         /\ \A pc \in ViewerPcs, j \in Jobs : [w EXCEPT !.pc = pc, !.job = j] \in ViewerRecords
         /\ \A pc \in ViewerPcs, j \in Jobs, got \in Seq(Entry) :
              [w EXCEPT !.pc = pc, !.job = j, !.got = got] \in ViewerRecords
         /\ \A pc \in ViewerPcs, c \in Nat : [w EXCEPT !.pc = pc, !.channel = c] \in ViewerRecords
         /\ \A got \in Seq(Entry), r \in Nat : [w EXCEPT !.got = got, !.read = r] \in ViewerRecords
         /\ \A pc \in ViewerPcs, b \in BOOLEAN : [w EXCEPT !.pc = pc, !.ending = b] \in ViewerRecords
         /\ \A pc \in ViewerPcs, victims \in Seq(Jobs) : [w EXCEPT !.pc = pc, !.victims = victims] \in ViewerRecords
         /\ \A pc \in ViewerPcs, got \in Seq(Entry) : [w EXCEPT !.pc = pc, !.got = got] \in ViewerRecords
<1>1. \A x \in ViewerRecords : \A pc \in ViewerPcs : [x EXCEPT !.pc = pc] \in ViewerRecords
  BY Zenon DEF ViewerRecords
<1>2. \A x \in ViewerRecords : \A j \in Jobs : [x EXCEPT !.job = j] \in ViewerRecords
  BY DEF ViewerRecords
<1>3. \A x \in ViewerRecords : \A got \in Seq(Entry) : [x EXCEPT !.got = got] \in ViewerRecords
  BY Zenon DEF ViewerRecords
<1>4. \A x \in ViewerRecords : \A c \in Nat : [x EXCEPT !.channel = c] \in ViewerRecords
  BY Zenon DEF ViewerRecords
<1>5. \A x \in ViewerRecords : \A r \in Nat : [x EXCEPT !.read = r] \in ViewerRecords
  BY Zenon DEF ViewerRecords
<1>6. \A x \in ViewerRecords : \A b \in BOOLEAN : [x EXCEPT !.ending = b] \in ViewerRecords
  BY Zenon DEF ViewerRecords
<1>7. \A x \in ViewerRecords : \A victims \in Seq(Jobs) : [x EXCEPT !.victims = victims] \in ViewerRecords
  BY Zenon DEF ViewerRecords
<1> QED
  BY <1>1, <1>2, <1>3, <1>4, <1>5, <1>6, <1>7

\* What a viewer's locals say stays true whatever step is taken.
LEMMA ViewerIsStays ==
  ASSUME Typed, \A p \in Posts : PostAt(p), \A v \in Viewers : ViewerAt(v), \A j \in Jobs : Flight(j),
         [Next]_vars, NEW w \in ViewerRecords, ViewerIs(w)
  PROVE  ViewerIs(w)'
<1> DEFINE j == w.job
<1>1. w.channel \in Nat /\ w.read \in Nat /\ w.got \in Seq(Entry)
  BY DEF ViewerRecords
<1>2. j \in Jobs /\ IsOver(j) => IsOver(j)' /\ console'[j] = console[j]
  BY OverStays
<1>3. w.pc # "idle" => j \in Jobs
  BY DEF ViewerIs
<1>4. j \in Jobs /\ Replayed(w) => Replayed(w)'
  BY <1>2 DEF Replayed
<1>5. j \in Jobs /\ j \in late => j \in late'
  BY FlightNext
<1>6. ASSUME w.channel # 0
      PROVE  /\ w.channel <= Len(channels'[j]) /\ w.read <= Len(Seen(w)')
             /\ w.got = SubSeq(Seen(w)', 1, w.read) \/ Replayed(w)'
             /\ w.pc \in {"retire", "discard", "fallback", "over"} =>
                  IsOver(w.job)' /\ (w.job \notin late' => w.read = Len(Seen(w)'))
  <2>1. w.pc \notin {"idle", "attach"} /\ j \in Jobs
    BY <1>3, <1>6 DEF ViewerIs
  <2>2. Len(channels[j]) \in Nat
    BY <2>1 DEF Typed, BusTyped
  <2>3. w.channel \in 1..Len(channels[j]) /\ w.read <= Len(Seen(w))
    BY <1>1, <1>6, <2>2 DEF ViewerIs
  <2>4. /\ w.channel \in 1..Len(channels'[j]) /\ Seen(w) \in Seq(Entry) /\ Seen(w)' \in Seq(Entry)
        /\ Len(Seen(w)) <= Len(Seen(w)') /\ \A i \in 1..Len(Seen(w)) : Seen(w)'[i] = Seen(w)[i]
        /\ IsOver(j) /\ j \notin late => Seen(w)' = Seen(w)
    BY <2>1, <2>3, ChannelsGrow DEF Seen
  <2> DEFINE old == Seen(w)
             new == Seen(w)'
  <2> HIDE DEF old, new
  <2>5. Len(old) \in Nat /\ Len(new) \in Nat /\ w.read \in 0..Len(old) /\ w.read \in 0..Len(new)
    BY <1>1, <2>3, <2>4, LenProperties DEF old, new
  <2>6. SubSeq(new, 1, w.read) = SubSeq(old, 1, w.read)
    <3>1. old \in Seq(Entry) /\ new \in Seq(Entry) /\ Len(old) <= Len(new) /\ \A i \in 1..Len(old) : new[i] = old[i]
      BY <2>4 DEF old, new
    <3>2. /\ SubSeq(old, 1, w.read) \in Seq(Entry) /\ Len(SubSeq(old, 1, w.read)) = w.read
          /\ \A i \in 1..w.read : SubSeq(old, 1, w.read)[i] = old[i]
      BY <2>5, <3>1, FrontOf
    <3>3. /\ SubSeq(new, 1, w.read) \in Seq(Entry) /\ Len(SubSeq(new, 1, w.read)) = w.read
          /\ \A i \in 1..w.read : SubSeq(new, 1, w.read)[i] = new[i]
      BY <2>5, <3>1, FrontOf
    <3>4. \A i \in 1..w.read : new[i] = old[i]
      BY <2>5, <3>1
    <3> QED
      BY <3>2, <3>3, <3>4, SeqEqual
  <2>7. w.channel <= Len(channels'[j])
    BY <2>4
  <2>8. w.read <= Len(new)
    BY <2>5
  <2>9. w.got = SubSeq(new, 1, w.read) \/ Replayed(w)'
    BY <1>4, <1>6, <2>1, <2>6 DEF ViewerIs, old
  <2>10. ASSUME w.pc \in {"retire", "discard", "fallback", "over"}
         PROVE  IsOver(w.job)' /\ (w.job \notin late' => w.read = Len(new))
    <3>1. IsOver(j) /\ (j \notin late => w.read = Len(old))
      BY <1>6, <2>10 DEF ViewerIs, old
    <3> QED
      BY <1>2, <1>5, <2>1, <2>4, <3>1 DEF old, new
  <2> QED
    BY <2>7, <2>8, <2>9, <2>10 DEF new
<1>7. w.ending => j \in Jobs /\ IsOver(j)'
  BY <1>2 DEF ViewerIs
<1>8. w.pc \notin {"idle", "attach"} /\ w.channel = 0 => Replayed(w)'
  BY <1>3, <1>4 DEF ViewerIs
<1> QED
  BY <1>3, <1>6, <1>7, <1>8 DEF ViewerIs

\* What a viewer read is a front of its channel, and a batch is the rest.
LEMMA Reading ==
  ASSUME NEW s \in Seq(Entry), NEW r \in Nat, r <= Len(s)
  PROVE  LET batch == SubSeq(s, r + 1, Len(s)) IN
         /\ batch \in Seq(Entry) /\ Len(batch) \in Nat /\ Len(s) \in Nat /\ r + Len(batch) = Len(s)
         /\ SubSeq(s, 1, r) \o batch = SubSeq(s, 1, Len(s)) /\ SubSeq(s, 1, Len(s)) = s
         /\ batch = << >> => r = Len(s)
<1>1. Len(s) \in Nat /\ r \in 0..Len(s) /\ \A i \in 1..Len(s) : s[i] \in Entry
  BY LenProperties, ElementOfSeq
<1> DEFINE batch == SubSeq(s, r + 1, Len(s))
<1>2. /\ batch \in Seq(Entry)
      /\ Len(batch) = IF r + 1 <= Len(s) THEN Len(s) - (r + 1) + 1 ELSE 0
      /\ \A i \in 1..Len(s) - (r + 1) + 1 : batch[i] = s[r + 1 + i - 1]
  <2>1. \A i \in (r + 1)..Len(s) : s[i] \in Entry
    BY <1>1
  <2> QED
    BY <1>1, <2>1, SubSeqProperties
<1>3. Len(batch) = Len(s) - r
  BY <1>1, <1>2
<1>4. /\ SubSeq(s, 1, r) \in Seq(Entry) /\ Len(SubSeq(s, 1, r)) = r
      /\ \A i \in 1..r : SubSeq(s, 1, r)[i] = s[i]
  BY <1>1, FrontOf
<1>5. /\ SubSeq(s, 1, Len(s)) \in Seq(Entry) /\ Len(SubSeq(s, 1, Len(s))) = Len(s)
      /\ \A i \in 1..Len(s) : SubSeq(s, 1, Len(s))[i] = s[i]
  <2>1. Len(s) \in 0..Len(s)
    BY <1>1
  <2> QED
    BY <2>1, FrontOf
<1>6. SubSeq(s, 1, Len(s)) = s
  BY <1>5, SeqEqual
<1> DEFINE t == SubSeq(s, 1, r)
<1> HIDE DEF batch, t
<1>7. /\ t \o batch \in Seq(Entry) /\ Len(t \o batch) = Len(t) + Len(batch)
      /\ \A i \in 1..Len(t) + Len(batch) : (t \o batch)[i] = IF i <= Len(t) THEN t[i] ELSE batch[i - Len(t)]
  <2>1. t \in Seq(Entry) /\ batch \in Seq(Entry)
    BY <1>2, <1>4 DEF t
  <2> QED
    BY <2>1, ConcatProperties
<1>8. \A i \in 1..Len(s) : (t \o batch)[i] = s[i]
  BY <1>1, <1>2, <1>3, <1>4, <1>7 DEF t
<1>9. t \o batch = s
  <2>1. Len(t \o batch) = Len(s)
    BY <1>1, <1>3, <1>4, <1>7 DEF t
  <2> QED
    BY <1>7, <1>8, <2>1, SeqEqual
<1>10. batch = << >> => r = Len(s)
  BY <1>1, <1>3
<1>11. /\ batch \in Seq(Entry) /\ Len(batch) \in Nat /\ Len(s) \in Nat /\ r + Len(batch) = Len(s)
       /\ t \o batch = SubSeq(s, 1, Len(s))
  BY <1>1, <1>2, <1>3, <1>6, <1>9
<1> QED
  BY <1>6, <1>10, <1>11, Zenon DEF batch, t

\* Each step of a viewer leaves it locals that say the truth.
ViewerOk(v, new) == new \in ViewerRecords /\ viewer' = [viewer EXCEPT ![v] = new] /\ ViewerIs(new)'

\* A step changes the locals of one stream, to locals that fit its place.
LEMMA ViewerStepOk ==
  ASSUME Typed, \A p \in Posts : PostAt(p), \A v \in Viewers : ViewerAt(v),
         \A j \in Jobs : Flight(j) /\ ClosedAt(j), [Next]_vars
  PROVE  UNCHANGED viewer \/ \E v \in Viewers : \E new : ViewerOk(v, new)
<1> DEFINE Ok(v, new) == new \in ViewerRecords /\ viewer' = [viewer EXCEPT ![v] = new] /\ ViewerIs(new)
<1>0. /\ viewer \in [Viewers -> ViewerRecords] /\ console \in [Jobs -> Seq(Line)]
      /\ \A j \in Jobs : console[j] \in Seq(Entry)
  BY DEF Typed, LocalsTyped, TableTyped, Entry
<1>00. \A pc \in {"idle", "attach", "read", "poll", "retire", "discard", "fallback", "over", "gone"} : pc \in ViewerPcs
  BY DEF ViewerPcs
<1>1. ASSUME NEW v \in Viewers, NEW new, Ok(v, new) PROVE ViewerOk(v, new)
  BY <1>1, ViewerIsStays DEF ViewerOk
<1>2. ASSUME NEW v \in Viewers, NEW j \in Jobs, Subscribe(v, j) PROVE \E new : Ok(v, new)
  <2> DEFINE w == viewer[v]
  <2>0. w \in ViewerRecords /\ w.pc = "idle" /\ ViewerIs(w) /\ 0 \in Nat /\ TRUE \in BOOLEAN /\ << >> \in Seq(Jobs)
    BY <1>0, <1>2 DEF Subscribe, ViewerAt
  <2>1. CASE IsOver(j) /\ console[j] # << >>
    <3> DEFINE new == [w EXCEPT !.pc = "over", !.job = j, !.got = console[j]]
    <3>1. viewer' = [viewer EXCEPT ![v] = new]
      BY <1>2, <2>1, Zenon DEF Subscribe
    <3>2. new \in ViewerRecords
      BY <1>0, <1>00, <2>0, ViewerReplaced
    <3>3. /\ new.pc = "over" /\ new.job = j /\ new.got = console[j] /\ new.channel = w.channel
          /\ new.read = w.read /\ new.ending = w.ending /\ new.victims = w.victims
      BY <2>0 DEF ViewerRecords
    <3> HIDE DEF new, w
    <3>4. ViewerIs(new)
      BY <2>0, <2>1, <3>3 DEF ViewerIs, Replayed
    <3> QED
      BY <3>1, <3>2, <3>4
  <2>2. CASE ~(IsOver(j) /\ console[j] # << >>)
    <3> DEFINE new == [w EXCEPT !.pc = "attach", !.job = j]
    <3>1. viewer' = [viewer EXCEPT ![v] = new]
      BY <1>2, <2>2, Zenon DEF Subscribe
    <3>2. new \in ViewerRecords
      BY <1>0, <1>00, <2>0, ViewerReplaced
    <3>3. /\ new.pc = "attach" /\ new.job = j /\ new.got = w.got /\ new.channel = w.channel
          /\ new.read = w.read /\ new.ending = w.ending /\ new.victims = w.victims
      BY <2>0 DEF ViewerRecords
    <3> HIDE DEF new, w
    <3>4. ViewerIs(new)
      BY <2>0, <3>3 DEF ViewerIs
    <3> QED
      BY <3>1, <3>2, <3>4
  <2> QED
    BY <2>1, <2>2
<1>3. ASSUME NEW v \in Viewers, Attach(v) PROVE \E new : ViewerOk(v, new)
  <2> SUFFICES ASSUME NEW CONSTANT w, w = viewer[v], NEW CONSTANT c, c = Channel(w.job),
                      NEW CONSTANT new, new = [w EXCEPT !.pc = "read", !.channel = c]
               PROVE  ViewerOk(v, new)
    OBVIOUS
  <2> DEFINE j == w.job
  <2>0. w \in ViewerRecords /\ w.pc = "attach" /\ ViewerIs(w) /\ j \in Jobs
    BY <1>0, <1>3 DEF Attach, ViewerAt, ViewerIs
  <2>1. Grown(j, c, << >>)
    BY <1>3, AttachGrows
  <2>2. c \in 1..Len(channels'[j]) /\ Len(channels'[j]) \in Nat
    BY <2>1 DEF Grown
  <2>3. viewer' = [viewer EXCEPT ![v] = new]
    BY <1>3, Zenon DEF Attach
  <2>4. c \in Nat
    BY <2>2
  <2>5. new \in ViewerRecords
    BY <1>00, <2>0, <2>4, ViewerReplaced
  <2>6. /\ new.pc = "read" /\ new.job = j /\ new.got = w.got /\ new.channel = c
        /\ new.read = w.read /\ new.ending = w.ending /\ new.victims = w.victims
    BY <2>0 DEF ViewerRecords
  <2>7. w.got = << >> /\ w.read = 0 /\ w.victims = << >> /\ ~w.ending
    BY <2>0 DEF ViewerIs
  <2>8. channels'[j][c].lines \in Seq(Entry)
    <3>1. channels'[j] \in Seq(ChannelRecords)
      BY <2>0, <2>1 DEF Grown, BusTyped
    <3>2. channels'[j][c] \in ChannelRecords
      BY <2>2, <3>1
    <3> QED
      BY <3>2 DEF ChannelRecords
  <2>9. Seen(new)' = channels'[j][c].lines
    BY <2>6 DEF Seen
  <2>10. 0 <= Len(Seen(new)') /\ SubSeq(Seen(new)', 1, 0) = << >>
    <3>1. Len(Seen(new)') \in Nat /\ 0 \in 0..Len(Seen(new)')
      BY <2>8, <2>9
    <3>2. SubSeq(Seen(new)', 1, 0) \in Seq(Entry) /\ Len(SubSeq(Seen(new)', 1, 0)) = 0
      BY <2>8, <2>9, <3>1, FrontOf
    <3> QED
      BY <3>1, <3>2, EmptySeq
  <2>11. new.channel # 0 /\ new.channel <= Len(channels'[new.job])
    BY <2>2, <2>6
  <2>12. new.read <= Len(Seen(new)') /\ new.got = SubSeq(Seen(new)', 1, new.read)
    BY <2>6, <2>7, <2>10
  <2>13. ViewerIs(new)'
    BY <2>0, <2>6, <2>7, <2>11, <2>12 DEF ViewerIs
  <2> QED
    BY <2>3, <2>5, <2>13 DEF ViewerOk
<1>4. ASSUME NEW v \in Viewers, viewer[v].pc \in {"read", "poll"}
      PROVE  LET w == viewer[v] IN
             /\ w \in ViewerRecords /\ ViewerIs(w) /\ w.job \in Jobs /\ w.channel # 0 /\ w.channel \in 1..Len(channels[w.job])
             /\ Seen(w) \in Seq(Entry) /\ w.read \in Nat /\ w.read <= Len(Seen(w))
             /\ w.got = SubSeq(Seen(w), 1, w.read) /\ w.victims = << >>
  <2> DEFINE w == viewer[v]
  <2>1. w \in ViewerRecords /\ ViewerIs(w) /\ w.read \in Nat /\ w.channel \in Nat
    BY <1>0 DEF ViewerAt, ViewerRecords
  <2>2. w.pc \in {"read", "poll"}
    BY <1>4
  <2> HIDE DEF w
  <2>3. w.job \in Jobs /\ ~Replayed(w) /\ w.channel # 0 /\ w.victims = << >>
    BY <2>1, <2>2 DEF ViewerIs, Replayed
  <2>4. w.channel <= Len(channels[w.job]) /\ w.read <= Len(Seen(w)) /\ w.got = SubSeq(Seen(w), 1, w.read)
    BY <2>1, <2>3 DEF ViewerIs
  <2>5. channels[w.job] \in Seq(ChannelRecords) /\ Len(channels[w.job]) \in Nat
    BY <2>3 DEF Typed, BusTyped
  <2>6. w.channel \in 1..Len(channels[w.job])
    BY <2>1, <2>3, <2>4, <2>5
  <2>7. channels[w.job][w.channel] \in ChannelRecords
    BY <2>5, <2>6
  <2> QED
    BY <2>1, <2>3, <2>4, <2>6, <2>7 DEF w, Seen, ChannelRecords
<1>5. ASSUME NEW v \in Viewers, Read(v), Unread(v) # << >> PROVE \E new : Ok(v, new)
  <2> DEFINE w == viewer[v]
             batch == Unread(v)
             got == w.got \o batch
             new == [w EXCEPT !.got = got, !.read = w.read + Len(batch)]
  <2>1. batch = SubSeq(Seen(w), w.read + 1, Len(Seen(w)))
    BY DEF Unread, Seen
  <2>2. viewer' = [viewer EXCEPT ![v] = new] /\ w.pc = "read"
    BY <1>5, Zenon DEF Read
  <2>3. /\ w \in ViewerRecords /\ ViewerIs(w) /\ w.job \in Jobs /\ w.channel # 0 /\ w.channel \in 1..Len(channels[w.job])
        /\ Seen(w) \in Seq(Entry) /\ w.read \in Nat /\ w.read <= Len(Seen(w))
        /\ w.got = SubSeq(Seen(w), 1, w.read) /\ w.victims = << >>
    BY <1>4, <2>2
  <2> HIDE DEF w
  <2>4. /\ Len(batch) \in Nat /\ Len(Seen(w)) \in Nat /\ w.read + Len(batch) = Len(Seen(w))
        /\ got = SubSeq(Seen(w), 1, Len(Seen(w))) /\ got \in Seq(Entry)
    <3> DEFINE s == Seen(w)
    <3>1. s \in Seq(Entry) /\ w.read \in Nat /\ w.read <= Len(s) /\ batch = SubSeq(s, w.read + 1, Len(s))
      BY <2>1, <2>3
    <3> HIDE DEF s, batch
    <3>2. /\ Len(batch) \in Nat /\ Len(s) \in Nat /\ w.read + Len(batch) = Len(s)
          /\ SubSeq(s, 1, w.read) \o batch = SubSeq(s, 1, Len(s)) /\ SubSeq(s, 1, Len(s)) = s
      BY <3>1, Reading
    <3>3. w.got = SubSeq(s, 1, w.read)
      BY <2>3 DEF s
    <3> QED
      BY <3>1, <3>2, <3>3 DEF s
  <2> HIDE DEF batch, got
  <2>5. w.read + Len(batch) \in Nat
    BY <2>3, <2>4
  <2>6. new \in ViewerRecords
    BY <2>3, <2>4, <2>5, ViewerReplaced
  <2>7. /\ new.pc = "read" /\ new.job = w.job /\ new.got = got /\ new.channel = w.channel
        /\ new.read = w.read + Len(batch) /\ new.ending = w.ending /\ new.victims = w.victims
    BY <2>2, <2>3 DEF ViewerRecords, w
  <2> HIDE DEF new
  <2>8. Seen(new) = Seen(w)
    BY <2>7 DEF Seen
  <2>9. ViewerIs(new)
    BY <2>3, <2>4, <2>7, <2>8 DEF ViewerIs
  <2> QED
    BY <2>2, <2>6, <2>9 DEF w
<1>6. ASSUME NEW v \in Viewers, Read(v), Unread(v) = << >> PROVE \E new : Ok(v, new)
  <2> DEFINE w == viewer[v]
             done == channels[w.job][w.channel].closed \/ w.ending
             pc == IF done THEN "retire" ELSE "poll"
             new == [w EXCEPT !.pc = pc]
  <2>1. SubSeq(Seen(w), w.read + 1, Len(Seen(w))) = << >>
    BY <1>6 DEF Unread, Seen
  <2>2. viewer' = [viewer EXCEPT ![v] = new] /\ w.pc = "read"
    BY <1>6, Zenon DEF Read
  <2>3. /\ w \in ViewerRecords /\ ViewerIs(w) /\ w.job \in Jobs /\ w.channel # 0 /\ w.channel \in 1..Len(channels[w.job])
        /\ Seen(w) \in Seq(Entry) /\ w.read \in Nat /\ w.read <= Len(Seen(w))
        /\ w.got = SubSeq(Seen(w), 1, w.read) /\ w.victims = << >>
    BY <1>4, <2>2
  <2> HIDE DEF w
  <2>4. w.read = Len(Seen(w))
    BY <2>1, <2>3, Reading
  <2>5. done => IsOver(w.job)
    BY <2>3 DEF ViewerIs, ClosedAt
  <2> HIDE DEF done
  <2>6. pc \in ViewerPcs /\ 0 \in Nat /\ TRUE \in BOOLEAN /\ << >> \in Seq(Jobs) /\ << >> \in Seq(Entry)
    BY <1>00
  <2>7. new \in ViewerRecords
    BY <2>3, <2>6, ViewerReplaced
  <2>8. /\ new.pc = pc /\ new.job = w.job /\ new.got = w.got /\ new.channel = w.channel
        /\ new.read = w.read /\ new.ending = w.ending /\ new.victims = w.victims
    BY <2>3 DEF ViewerRecords
  <2> HIDE DEF new
  <2>9. Seen(new) = Seen(w)
    BY <2>8 DEF Seen
  <2>10. new.pc \in {"retire", "poll"} /\ (new.pc = "retire" => IsOver(w.job))
    BY <2>5, <2>8
  <2>11. ViewerIs(new)
    BY <2>3, <2>4, <2>8, <2>9, <2>10 DEF ViewerIs
  <2> QED
    BY <2>2, <2>7, <2>11 DEF w
<1>7. ASSUME NEW v \in Viewers, Poll(v) PROVE \E new : Ok(v, new)
  <2> DEFINE w == viewer[v]
             over == IsOver(w.job)
             new == [w EXCEPT !.pc = "read", !.ending = over]
  <2>2. viewer' = [viewer EXCEPT ![v] = new] /\ w.pc = "poll"
    BY <1>7, Zenon DEF Poll
  <2>3. /\ w \in ViewerRecords /\ ViewerIs(w) /\ w.job \in Jobs /\ w.channel # 0 /\ w.channel \in 1..Len(channels[w.job])
        /\ Seen(w) \in Seq(Entry) /\ w.read \in Nat /\ w.read <= Len(Seen(w))
        /\ w.got = SubSeq(Seen(w), 1, w.read) /\ w.victims = << >>
    BY <1>4, <2>2
  <2> HIDE DEF w
  <2>4. over \in BOOLEAN /\ 0 \in Nat /\ << >> \in Seq(Jobs) /\ << >> \in Seq(Entry)
    BY DEF IsOver
  <2>5. new \in ViewerRecords
    <3> HIDE DEF over
    <3> QED
      BY <1>00, <2>3, <2>4, ViewerReplaced
  <2>6. /\ new.pc = "read" /\ new.job = w.job /\ new.got = w.got /\ new.channel = w.channel
        /\ new.read = w.read /\ new.victims = w.victims
    BY <2>3 DEF ViewerRecords
  <2>7. new.ending = over
    BY <2>3, Zenon DEF ViewerRecords
  <2> HIDE DEF new
  <2>8. Seen(new) = Seen(w)
    BY <2>6 DEF Seen
  <2>9. ViewerIs(new)
    BY <2>3, <2>6, <2>7, <2>8 DEF ViewerIs
  <2> QED
    BY <2>2, <2>5, <2>9 DEF w
<1>8. ASSUME NEW v \in Viewers, Disconnect(v) PROVE \E new : Ok(v, new)
  <2> DEFINE w == viewer[v]
             new == [w EXCEPT !.pc = "gone"]
  <2>2. viewer' = [viewer EXCEPT ![v] = new] /\ w.pc \in {"read", "poll"}
    BY <1>8, Zenon DEF Disconnect
  <2>3. /\ w \in ViewerRecords /\ ViewerIs(w) /\ w.job \in Jobs /\ w.channel # 0 /\ w.channel \in 1..Len(channels[w.job])
        /\ Seen(w) \in Seq(Entry) /\ w.read \in Nat /\ w.read <= Len(Seen(w))
        /\ w.got = SubSeq(Seen(w), 1, w.read) /\ w.victims = << >>
    BY <1>4, <2>2
  <2> HIDE DEF w
  <2>4. 0 \in Nat /\ TRUE \in BOOLEAN /\ << >> \in Seq(Jobs) /\ << >> \in Seq(Entry)
    OBVIOUS
  <2>5. new \in ViewerRecords
    BY <1>00, <2>3, <2>4, ViewerReplaced
  <2>6. /\ new.pc = "gone" /\ new.job = w.job /\ new.got = w.got /\ new.channel = w.channel
        /\ new.read = w.read /\ new.ending = w.ending /\ new.victims = w.victims
    BY <2>3 DEF ViewerRecords
  <2> HIDE DEF new
  <2>8. Seen(new) = Seen(w)
    BY <2>6 DEF Seen
  <2>9. ViewerIs(new)
    BY <2>3, <2>6, <2>8 DEF ViewerIs
  <2> QED
    BY <2>2, <2>5, <2>9 DEF w
<1>9. ASSUME NEW v \in Viewers, ViewerRetires(v) \/ ViewerDiscards(v) PROVE \E new : Ok(v, new)
  <2> DEFINE w == viewer[v]
             pc == IF w.pc = "retire" THEN "discard" ELSE "fallback"
             victims == IF w.pc = "retire" THEN RetireEvicts(w.job) ELSE << >>
             new == [w EXCEPT !.pc = pc, !.victims = victims]
  <2>1. viewer' = [viewer EXCEPT ![v] = new] /\ w.pc \in {"retire", "discard"}
    <3>1. CASE ViewerRetires(v)
      <4>1. w.pc = "retire" /\ viewer' = [viewer EXCEPT ![v] = [w EXCEPT !.pc = "discard", !.victims = RetireEvicts(w.job)]]
        BY <3>1, Zenon DEF ViewerRetires
      <4> QED
        BY <4>1
    <3>2. CASE ViewerDiscards(v)
      <4>1. w.pc = "discard" /\ viewer' = [viewer EXCEPT ![v] = [w EXCEPT !.pc = "fallback", !.victims = << >>]]
        BY <3>2, Zenon DEF ViewerDiscards
      <4> QED
        BY <4>1
    <3> QED
      BY <1>9, <3>1, <3>2
  <2>2. w \in ViewerRecords /\ ViewerIs(w) /\ w.job \in Jobs
    BY <1>0, <2>1 DEF ViewerAt, ViewerIs
  <2>3. victims \in Seq(Jobs)
    <3>1. CASE w.pc = "retire"
      <4>1. Retire(w.job)
        BY <1>9, <3>1 DEF ViewerRetires, ViewerDiscards
      <4>2. RetireEvicts(w.job) \in Seq(Jobs)
        BY <2>2, <4>1, RetireBounds DEF Typed
      <4> QED
        BY <3>1, <4>2
    <3>2. CASE w.pc # "retire"
      BY <3>2
    <3> QED
      BY <3>1, <3>2
  <2> HIDE DEF w, victims
  <2>4. pc \in ViewerPcs /\ 0 \in Nat /\ TRUE \in BOOLEAN /\ << >> \in Seq(Entry)
    BY <1>00
  <2> HIDE DEF pc
  <2>5. new \in ViewerRecords
    BY <2>2, <2>3, <2>4, ViewerReplaced
  <2>6. /\ new.pc = pc /\ new.job = w.job /\ new.got = w.got /\ new.channel = w.channel
        /\ new.read = w.read /\ new.ending = w.ending /\ new.victims = victims
    BY <2>2 DEF ViewerRecords
  <2> HIDE DEF new
  <2>7. Seen(new) = Seen(w) /\ pc \in {"discard", "fallback"} /\ (pc # "discard" => victims = << >>)
    BY <2>6 DEF Seen, pc, victims
  <2>8. ViewerIs(new)
    BY <2>1, <2>2, <2>6, <2>7 DEF ViewerIs, Replayed
  <2> QED
    BY <2>1, <2>5, <2>8 DEF w
<1>10. ASSUME NEW v \in Viewers, FallBack(v) PROVE \E new : Ok(v, new)
  <2> DEFINE w == viewer[v]
             replay == w.got = << >> /\ IsOver(w.job)
             got == IF replay THEN console[w.job] ELSE w.got
             new == [w EXCEPT !.pc = "over", !.got = got]
  <2>1. viewer' = [viewer EXCEPT ![v] = new] /\ w.pc = "fallback"
    BY <1>10, Zenon DEF FallBack
  <2>2. w \in ViewerRecords /\ ViewerIs(w) /\ w.job \in Jobs /\ w.got \in Seq(Entry) /\ w.read \in Nat /\ w.channel \in Nat
    BY <1>0, <2>1 DEF ViewerAt, ViewerIs, ViewerRecords
  <2>3. got \in Seq(Entry) /\ 0 \in Nat /\ TRUE \in BOOLEAN /\ << >> \in Seq(Jobs)
    BY <1>0, <2>2
  <2> HIDE DEF w
  <2>4. new \in ViewerRecords
    <3> HIDE DEF got
    <3> QED
      BY <1>00, <2>2, <2>3, ViewerReplaced
  <2>5. /\ new.pc = "over" /\ new.job = w.job /\ new.channel = w.channel
        /\ new.read = w.read /\ new.ending = w.ending /\ new.victims = w.victims
    BY <2>2 DEF ViewerRecords
  <2>6. new.got = got
    BY <2>2, Zenon DEF ViewerRecords
  <2> HIDE DEF new
  <2>7. /\ w.channel # 0 /\ w.channel <= Len(channels[w.job]) /\ w.read <= Len(Seen(w))
        /\ w.got = SubSeq(Seen(w), 1, w.read) /\ IsOver(w.job) /\ w.victims = << >>
        /\ w.job \notin late => w.read = Len(Seen(w))
    BY <2>1, <2>2 DEF ViewerIs, Replayed
  <2>8. Seen(new) = Seen(w)
    BY <2>5 DEF Seen
  <2>9. w.got = << >> => w.read = 0
    <3>1. channels[w.job] \in Seq(ChannelRecords) /\ Len(channels[w.job]) \in Nat
      BY <2>2 DEF Typed, BusTyped
    <3>2. channels[w.job][w.channel] \in ChannelRecords
      BY <2>2, <2>7, <3>1
    <3>3. Seen(w) \in Seq(Entry) /\ Len(Seen(w)) \in Nat
      BY <3>2 DEF Seen, ChannelRecords
    <3>4. w.read \in 0..Len(Seen(w))
      BY <2>2, <2>7, <3>3
    <3>5. Len(w.got) = w.read
      BY <2>7, <3>3, <3>4, FrontOf
    <3> QED
      BY <3>5
  <2>10. new.got = SubSeq(Seen(new), 1, new.read) \/ Replayed(new)
    <3>1. CASE replay
      BY <2>2, <2>5, <2>6, <2>7, <2>9, <3>1 DEF Replayed
    <3>2. CASE ~replay
      BY <2>5, <2>6, <2>7, <2>8, <3>2
    <3> QED
      BY <3>1, <3>2
  <2> HIDE DEF got
  <2>11. ViewerIs(new)
    BY <2>2, <2>5, <2>7, <2>8, <2>10 DEF ViewerIs
  <2> QED
    BY <2>1, <2>4, <2>11 DEF w
<1> HIDE DEF Ok
<1> QED
  BY <1>1, <1>2, <1>3, <1>5, <1>6, <1>7, <1>8, <1>9, <1>10, ViewerSteps

\* Every step keeps what a stream has read, and where it may end.
LEMMA ViewerAtNext ==
  ASSUME Typed, \A p \in Posts : PostAt(p), \A v \in Viewers : ViewerAt(v),
         \A j \in Jobs : Flight(j) /\ ClosedAt(j), [Next]_vars
  PROVE  viewer' \in [Viewers -> ViewerRecords] /\ \A v \in Viewers : ViewerAt(v)'
<1>0. viewer \in [Viewers -> ViewerRecords]
  BY DEF Typed, LocalsTyped
<1>1. ASSUME NEW v \in Viewers, viewer'[v] = viewer[v] PROVE ViewerAt(v)'
  <2>1. ViewerIs(viewer[v])'
    <3> DEFINE w == viewer[v]
    <3> SUFFICES ASSUME NEW CONSTANT x, x = w PROVE ViewerIs(x)'
      BY <1>1 DEF ViewerIs, Seen, Replayed
    <3> QED
      BY <1>0, ViewerIsStays DEF ViewerAt
  <2> QED
    BY <1>1, <2>1 DEF ViewerAt
<1>2. CASE UNCHANGED viewer
  BY <1>0, <1>1, <1>2
<1>3. ASSUME NEW v \in Viewers, NEW new, ViewerOk(v, new)
      PROVE  viewer' \in [Viewers -> ViewerRecords] /\ \A u \in Viewers : ViewerAt(u)'
  <2>1. viewer' \in [Viewers -> ViewerRecords] /\ \A u \in Viewers : viewer'[u] = IF u = v THEN new ELSE viewer[u]
    BY <1>0, <1>3 DEF ViewerOk
  <2>2. ViewerAt(v)'
    BY <1>3, <2>1 DEF ViewerOk, ViewerAt
  <2> QED
    BY <1>1, <2>1, <2>2
<1> QED
  BY <1>2, <1>3, ViewerStepOk
----------------------------------------------------------------------------
(* The notice, and the numbering of the lines *)

\* A step that neither publishes nor admits nor sends changes no line under way.
Quiet(q) ==
  post'[q].pc \in {"test", "admit", "publish"} =>
    /\ post[q].pc \in {"test", "admit", "publish"}
    /\ post'[q].job = post[q].job /\ post'[q].lines = post[q].lines
    /\ post'[q].pc = "publish" => post[q].pc = "publish"

\* All steps but a send and an admission are quiet for every log request.
LEMMA QuietPosts ==
  ASSUME Typed, \A p \in Posts : PostAt(p), [Next]_vars,
         ~\E p \in Posts : Admit(p) \/ \E j \in Jobs, n \in 1..MaxBatch : Send(p, j, n)
  PROVE  \A q \in Posts : Quiet(q)
<1>1. CASE UNCHANGED post
  BY <1>1 DEF Quiet
<1>2. ASSUME NEW p \in Posts, TestLease(p) \/ Publish(p) \/ Track(p) \/ PostDiscards(p), NEW q \in Posts
      PROVE  Quiet(q)
  <2>1. NoPost.pc = "idle"
    BY DEF NoPost
  <2>2. /\ q # p => post'[q] = post[q]
        /\ q = p => \/ post'[q] = NoPost
                    \/ /\ post'[q].job = post[q].job /\ post'[q].lines = post[q].lines
                       /\ post'[q].pc # "publish" /\ post'[q].pc # "test"
                       /\ post'[q].pc = "admit" => post[q].pc = "test"
    <3>1. ~Admit(p)
      OBVIOUS
    <3> QED
      BY <1>2, <3>1, PostKeepsJob, Zenon DEF TestLease
  <2> QED
    BY <2>1, <2>2 DEF Quiet
<1> QED
  BY <1>1, <1>2, PostSteps

\* A step of one request is no step of another.
LEMMA PublishAlone ==
  ASSUME Typed, \A p \in Posts : PostAt(p), NEW p \in Posts, Publish(p)
  PROVE  ~\E q \in Posts : Admit(q) \/ \E j \in Jobs, n \in 1..MaxBatch : Send(q, j, n)
<1>0. post \in [Posts -> PostRecords]
  BY DEF Typed, LocalsTyped
<1>1. post[p].pc = "publish" /\ \A q \in Posts : post'[q].pc = IF q = p THEN "track" ELSE post[q].pc
  BY <1>0 DEF Publish, PostRecords
<1>2. ASSUME NEW q \in Posts, Admit(q) PROVE FALSE
  <2>1. PICK lines \in Seq(Entry) : post' = [post EXCEPT ![q] = [post[q] EXCEPT !.pc = "publish", !.lines = lines]]
    BY <1>2, AdmitWrites
  <2>2. post'[q].pc = "publish" /\ post[q].pc = "admit"
    BY <1>0, <1>2, <2>1 DEF PostRecords, Admit
  <2> QED
    BY <1>1, <2>2
<1>3. ASSUME NEW q \in Posts, NEW j \in Jobs, NEW n \in 1..MaxBatch, Send(q, j, n) PROVE FALSE
  <2>1. post'[q].pc = "test" /\ post[q].pc = "idle"
    BY <1>0, <1>3, SendWrites DEF Send
  <2> QED
    BY <1>1, <2>1
<1> QED
  BY <1>2, <1>3

\* Every step keeps the notice at the end of the log it ends.
LEMMA NoticesNext ==
  ASSUME Typed, \A p \in Posts : PostAt(p), \A v \in Viewers : ViewerAt(v),
         \A j \in Jobs : EnderAt(j) /\ Flight(j) /\ Notices(j), [Next]_vars
  PROVE  \A j \in Jobs : Notices(j)'
<1> SUFFICES ASSUME NEW j \in Jobs, j \notin late' \union forgotten' PROVE Notices(j)'
  BY DEF Notices
<1> DEFINE NoticesAt ==
             /\ \A c \in 1..Len(channels[j]) : EndsAtNotice(channels[j][c].lines)
             /\ ~IsOver(j) /\ Noticed(j) => j \in truncated
           PostAtNotice(p) ==
             post[p].pc = "publish" /\ post[p].job = j =>
               /\ EndsAtNotice(post[p].lines)
               /\ (\E i \in 1..Len(post[p].lines) : post[p].lines[i] = Notice) => j \in truncated
               /\ post[p].lines # << >> => ~Noticed(j)
<1>0. /\ post \in [Posts -> PostRecords] /\ ender \in [Jobs -> EnderRecords]
      /\ channels \in [Jobs -> Seq(ChannelRecords)]
  BY DEF Typed, LocalsTyped, BusTyped
<1>1. forgotten \subseteq forgotten'
  <2>1. ASSUME NEW p \in Posts, Admit(p) PROVE forgotten \subseteq forgotten'
    BY <2>1, AdmitWrites
  <2>2. ASSUME NEW k \in Jobs, Forget(k) PROVE forgotten' = forgotten
    BY <2>2 DEF Forget
  <2> QED
    BY <2>1, <2>2, BudgetSteps DEF budget
<1>2. j \notin late /\ j \notin forgotten
  BY <1>1, FlightNext
<1>3. NoticesAt /\ \A p \in Posts : PostAtNotice(p)
  BY <1>2 DEF Notices
<1>4. ~IsOver(j)' => ~IsOver(j)
  BY OverStays
<1>5. ASSUME NEW p \in Posts, Flying(p, j)
      PROVE  row[j].status = "leased" /\ ~IsOver(j) /\ \A q \in Posts : Flying(q, j) => q = p
  BY <1>2, <1>5 DEF Flight, IsOver, Over
<1>6. Notices(j)' <=> NoticesAt' /\ \A p \in Posts : PostAtNotice(p)'
  BY <1>2 DEF Notices
<1>7. CASE UNCHANGED <<truncated, channels>> /\ \A q \in Posts : Quiet(q)
  <2>1. NoticesAt'
    BY <1>3, <1>4, <1>7 DEF Noticed
  <2>2. \A q \in Posts : PostAtNotice(q)'
    BY <1>3, <1>7 DEF Noticed, Quiet
  <2> QED
    BY <1>6, <2>1, <2>2
<1>8. ASSUME NEW p \in Posts, Admit(p) PROVE Notices(j)'
  <2>1. PICK lines \in Seq(Entry) :
          /\ post' = [post EXCEPT ![p] = [post[p] EXCEPT !.pc = "publish", !.lines = lines]]
          /\ EndsAtNotice(lines)
          /\ lines # << >> => post[p].job \notin truncated
          /\ (\E i \in 1..Len(lines) : lines[i] = Notice) => post[p].job \in truncated'
          /\ truncated \subseteq truncated' \union forgotten'
    BY <1>8, AdmitWrites
  <2>2. j \in truncated => j \in truncated'
    BY <2>1
  <2>3. UNCHANGED <<channels, row>> /\ post[p].pc = "admit"
    BY <1>8 DEF Admit, bus, table
  <2>4. NoticesAt'
    BY <1>3, <1>4, <2>2, <2>3 DEF Noticed
  <2>5. ASSUME NEW q \in Posts PROVE PostAtNotice(q)'
    <3>1. CASE q # p
      <4>1. post'[q] = post[q]
        BY <1>0, <2>1, <3>1
      <4> QED
        BY <1>3, <2>2, <2>3, <4>1 DEF Noticed
    <3>2. CASE q = p
      <4>1. post'[q].job = post[p].job /\ post'[q].lines = lines
        BY <1>0, <2>1, <3>2 DEF PostRecords
      <4>2. ASSUME post[p].job = j PROVE lines # << >> => ~Noticed(j)
        <5>1. ~IsOver(j)
          BY <1>5, <2>3, <4>2 DEF Flying
        <5> QED
          BY <1>3, <2>1, <4>2, <5>1
      <4>3. Noticed(j)' <=> Noticed(j)
        BY <2>3 DEF Noticed
      <4> QED
        BY <2>1, <4>1, <4>2, <4>3
    <3> QED
      BY <3>1, <3>2
  <2> QED
    BY <1>6, <2>4, <2>5
<1>9. ASSUME NEW k \in Jobs, Forget(k) PROVE Notices(j)'
  <2>1. UNCHANGED <<channels, post, row>> /\ truncated' = truncated \ {k} /\ ender[k].pc = "forget"
    BY <1>9 DEF Forget, bus, table
  <2>2. CASE j = k
    <3>1. IsOver(j)
      BY <2>1, <2>2 DEF EnderAt
    <3>2. \A p \in Posts : ~(post[p].pc = "publish" /\ post[p].job = j)
      BY <1>5, <3>1 DEF Flying
    <3>3. NoticesAt'
      BY <1>3, <1>4, <2>1, <3>1
    <3>4. \A p \in Posts : PostAtNotice(p)'
      BY <2>1, <3>2
    <3> QED
      BY <1>6, <3>3, <3>4
  <2>3. CASE j # k
    <3>1. NoticesAt'
      BY <1>3, <1>4, <2>1, <2>3 DEF Noticed
    <3>2. \A p \in Posts : PostAtNotice(p)'
      BY <1>3, <2>1, <2>3 DEF Noticed
    <3> QED
      BY <1>6, <3>1, <3>2
  <2> QED
    BY <2>2, <2>3
<1>10. ASSUME NEW k \in Jobs, NEW c, Grown(k, c, << >>), UNCHANGED <<truncated, post>> PROVE Notices(j)'
  <2>1. \A d \in 1..Len(channels'[j]) : channels'[j][d].lines = Was(j, d).lines
    <3>1. CASE j = k
      <4>1. \A d \in 1..Len(channels'[j]) : Was(j, d).lines \o << >> = Was(j, d).lines
        BY WasTyped, ConcatEmptySeq DEF Typed
      <4> QED
        BY <1>10, <3>1, <4>1 DEF Grown
    <3>2. CASE j # k
      BY <1>10, <3>2 DEF Grown, Was
    <3> QED
      BY <3>1, <3>2
  <2>2. ASSUME NEW d \in 1..Len(channels'[j]) PROVE EndsAtNotice(channels'[j][d].lines)
    BY <1>3, <2>1 DEF Was, NoChannel, EndsAtNotice
  <2>3. Noticed(j)' => Noticed(j)
    BY <2>1 DEF Noticed, Was, NoChannel
  <2>4. NoticesAt'
    BY <1>3, <1>4, <1>10, <2>2, <2>3
  <2>5. \A p \in Posts : PostAtNotice(p)'
    BY <1>3, <1>10, <2>3
  <2> QED
    BY <1>6, <2>4, <2>5
<1>11. ASSUME NEW p \in Posts, Publish(p) PROVE Notices(j)'
  <2> DEFINE k == post[p].job
             x == post[p].lines
             c == Channel(k)
  <2>1. k \in Jobs /\ Grown(k, c, x) /\ post[p].pc = "publish" /\ x \in Seq(Entry)
    BY <1>0, <1>11, PublishGrows DEF Publish, PostRecords
  <2>2. UNCHANGED truncated /\ \A q \in Posts : Quiet(q)
    <3>1. ~\E q \in Posts : Admit(q) \/ \E i \in Jobs, n \in 1..MaxBatch : Send(q, i, n)
      BY <1>11, PublishAlone
    <3> QED
      BY <1>11, <3>1, QuietPosts DEF Publish, budget
  <2>3. CASE j # k
    <3>1. channels'[j] = channels[j]
      BY <2>1, <2>3 DEF Grown
    <3>2. NoticesAt'
      BY <1>3, <1>4, <2>2, <3>1 DEF Noticed
    <3>3. \A q \in Posts : PostAtNotice(q)'
      BY <1>3, <2>2, <3>1 DEF Noticed, Quiet
    <3> QED
      BY <1>6, <3>2, <3>3
  <2>4. CASE j = k
    <3>1. Flying(p, j)
      BY <2>1, <2>4 DEF Flying
    <3>2. ~IsOver(j) /\ \A q \in Posts : Flying(q, j) => q = p
      BY <1>5, <3>1
    <3>3. /\ EndsAtNotice(x) /\ (x # << >> => ~Noticed(j))
          /\ (\E i \in 1..Len(x) : x[i] = Notice) => j \in truncated
      BY <1>3, <2>1, <2>4
    <3>4. \A q \in Posts : PostAtNotice(q)'
      <4> SUFFICES ASSUME NEW q \in Posts, post'[q].pc = "publish" /\ post'[q].job = j PROVE FALSE
        OBVIOUS
      <4>1. Flying(q, j) /\ q = p
        BY <2>2, <3>2 DEF Quiet, Flying
      <4>2. post'[p].pc # "publish"
        BY <1>0, <1>11 DEF Publish, PostRecords
      <4> QED
        BY <4>1, <4>2
    <3>5. ASSUME NEW d \in 1..Len(channels'[j])
          PROVE  /\ EndsAtNotice(channels'[j][d].lines)
                 /\ (\E i \in 1..Len(channels'[j][d].lines) : channels'[j][d].lines[i] = Notice) => j \in truncated
      <4> DEFINE s == Was(j, d).lines
      <4>1. s \in Seq(Entry)
        BY WasTyped DEF Typed
      <4>2. EndsAtNotice(s) /\ ((\E i \in 1..Len(s) : s[i] = Notice) => Noticed(j))
        BY <1>3 DEF Was, NoChannel, EndsAtNotice, Noticed
      <4>3. CASE d # c \/ x = << >>
        <5>1. channels'[j][d].lines = s
          <6>1. channels'[j][d].lines = IF d = c THEN s \o x ELSE s
            BY <2>1, <2>4 DEF Grown
          <6>2. s \o << >> = s
            BY <4>1, ConcatEmptySeq
          <6> QED
            BY <4>3, <6>1, <6>2
        <5> QED
          BY <1>3, <3>2, <4>2, <5>1
      <4>4. CASE d = c /\ x # << >>
        <5>1. channels'[j][d].lines = s \o x
          BY <2>1, <2>4, <4>4 DEF Grown
        <5>2. \A i \in 1..Len(s) : s[i] # Notice
          BY <3>3, <4>2, <4>4
        <5> HIDE DEF s, x
        <5>3. /\ Len(s \o x) = Len(s) + Len(x) /\ Len(s) \in Nat /\ Len(x) \in Nat
              /\ \A i \in 1..Len(s) + Len(x) : (s \o x)[i] = IF i <= Len(s) THEN s[i] ELSE x[i - Len(s)]
          BY <2>1, <4>1, ConcatProperties, LenProperties
        <5>4. ASSUME NEW i \in 1..Len(s \o x), (s \o x)[i] = Notice PROVE i = Len(s \o x) /\ j \in truncated
          <6>1. i > Len(s) /\ i - Len(s) \in 1..Len(x) /\ x[i - Len(s)] = Notice
            BY <5>2, <5>3, <5>4
          <6>2. i - Len(s) = Len(x) /\ j \in truncated
            BY <3>3, <6>1 DEF EndsAtNotice
          <6> QED
            BY <5>3, <6>2
        <5> QED
          BY <5>1, <5>4 DEF EndsAtNotice
      <4> QED
        BY <4>3, <4>4
    <3>6. NoticesAt'
      BY <2>2, <3>5 DEF Noticed
    <3> QED
      BY <1>6, <3>4, <3>6
  <2> QED
    BY <2>3, <2>4
<1>12. ASSUME NEW k \in Jobs, Close(k) PROVE Notices(j)'
  <2>1. Grown(k, Channel(k), << >>) /\ UNCHANGED <<truncated, post>>
    BY <1>12, CloseGrows DEF Close, budget
  <2> QED
    BY <1>10, <2>1
<1>13. ASSUME NEW v \in Viewers, Attach(v) PROVE Notices(j)'
  <2>1. viewer[v].job \in Jobs /\ Grown(viewer[v].job, Channel(viewer[v].job), << >>) /\ UNCHANGED <<truncated, post>>
    BY <1>13, AttachGrows DEF Attach, budget
  <2> QED
    BY <1>10, <2>1
<1>14. ASSUME NEW p \in Posts, NEW k \in Jobs, NEW n \in 1..MaxBatch, Send(p, k, n) PROVE Notices(j)'
  <2>1. UNCHANGED <<truncated, channels>>
    BY <1>14 DEF Send, budget, bus
  <2>2. \A q \in Posts : post'[q].pc = "publish" => post'[q] = post[q]
    BY <1>0, <1>14, SendWrites
  <2>3. NoticesAt'
    BY <1>3, <1>4, <2>1 DEF Noticed
  <2>4. \A q \in Posts : PostAtNotice(q)'
    BY <1>3, <2>1, <2>2 DEF Noticed
  <2> QED
    BY <1>6, <2>3, <2>4
<1> HIDE DEF NoticesAt, PostAtNotice
<1>15. CASE UNCHANGED budget /\ UNCHANGED channels /\ \A q \in Posts : Quiet(q)
  BY <1>7, <1>15 DEF budget
<1> QED
  BY <1>8, <1>9, <1>11, <1>12, <1>13, <1>14, <1>15, BudgetSteps, BusSteps, QuietPosts

\* What is not the notice is a line.
LEMMA LinesTyped ==
  ASSUME NEW s \in Seq(Entry)
  PROVE  Lines(s) \subseteq Line
  BY ElementOfSeq DEF Lines, Entry

\* A known line stays known.
LEMMA KnownStays ==
  ASSUME Typed, [Next]_vars, NEW j \in Jobs, NEW l \in Line, Known(j, l)
  PROVE  Known(j, l)'
<1>0. /\ row \in [Jobs -> Rows] /\ row[j].attempt \in Nat /\ l.attempt \in Int /\ l.n \in Nat
      /\ sent[j] \in Seq(Line) /\ Len(sent[j]) \in Nat /\ sent \in [Jobs -> Seq(Line)]
  <2>1. row \in [Jobs -> Rows] /\ sent \in [Jobs -> Seq(Line)]
    BY DEF Typed, TableTyped
  <2>2. row[j].attempt \in Nat
    <3>1. row[j] \in Rows
      BY <2>1
    <3> QED
      BY <3>1, Caps DEF Rows
  <2>3. l.attempt \in Int /\ l.n \in Nat
    BY Caps DEF Line
  <2>4. sent[j] \in Seq(Line) /\ Len(sent[j]) \in Nat
    BY <2>1, LenProperties
  <2> QED
    BY <2>1, <2>2, <2>3, <2>4
<1>1. CASE UNCHANGED table
  BY <1>1 DEF table, Known
<1>2. ASSUME NEW k \in Jobs, Lease(k) PROVE Known(j, l)'
  <2>1. CASE j = k
    <3>1. row'[j].attempt = row[j].attempt + 1
      BY <1>0, <1>2, <2>1 DEF Lease
    <3> QED
      BY <1>0, <3>1 DEF Known
  <2>2. CASE j # k
    BY <1>0, <1>2, <2>2 DEF Lease, Known
  <2> QED
    BY <2>1, <2>2
<1>3. ASSUME NEW k \in Jobs, Reclaim(k) \/ \E stored \in BOOLEAN : Result(k, stored) PROVE Known(j, l)'
  <2>1. sent' = sent
    BY <1>3 DEF Reclaim, Result
  <2>2. row'[j].attempt = row[j].attempt
    <3>1. CASE Reclaim(k)
      BY <1>0, <3>1 DEF Reclaim, Rows
    <3>2. ASSUME NEW stored \in BOOLEAN, Result(k, stored) PROVE row'[j].attempt = row[j].attempt
      <4>1. row' = [row EXCEPT ![k].status = "over"]
        BY <3>2 DEF Result
      <4> QED
        BY <1>0, <4>1 DEF Rows
    <3> QED
      BY <1>3, <3>1, <3>2
  <2> QED
    BY <2>1, <2>2 DEF Known
<1>4. ASSUME NEW k \in Jobs, NEW p \in Posts, NEW n \in 1..MaxBatch, Send(p, k, n) PROVE Known(j, l)'
  <2>1. row' = row /\ sent' = [sent EXCEPT ![k] = sent[k] \o NewLines(k, n)] /\ NewLines(k, n) \in Seq(Line)
    <3>1. row' = row
      BY <1>4 DEF Send
    <3> QED
      BY <1>4, <3>1, SendWrites
  <2>2. CASE j = k
    <3>1. sent'[j] = sent[j] \o NewLines(k, n)
      BY <1>0, <2>1, <2>2
    <3>2. Len(sent'[j]) = Len(sent[j]) + Len(NewLines(k, n)) /\ Len(NewLines(k, n)) \in Nat
      BY <1>0, <2>1, <3>1, ConcatProperties, LenProperties
    <3> QED
      BY <1>0, <2>1, <3>2 DEF Known
  <2>3. CASE j # k
    BY <1>0, <2>1, <2>3 DEF Known
  <2> QED
    BY <2>2, <2>3
<1> QED
  BY <1>1, <1>2, <1>3, <1>4, TableSteps

\* What is sent, and what is stored, is numbered from one.
LEMMA NumberedNext ==
  ASSUME Typed, [Next]_vars, NEW j \in Jobs, Numbered(sent[j]), Numbered(console[j])
  PROVE  Numbered(sent'[j]) /\ Numbered(console'[j])
<1>0. sent \in [Jobs -> Seq(Line)] /\ console \in [Jobs -> Seq(Line)]
  BY DEF Typed, TableTyped
<1>1. Numbered(<< >>)
  BY DEF Numbered
<1>2. ASSUME NEW k \in Jobs, Lease(k) \/ Reclaim(k) \/ \E stored \in BOOLEAN : Result(k, stored)
      PROVE  sent'[j] \in {sent[j], << >>} /\ console'[j] \in {console[j], sent[j], << >>}
  BY <1>0, <1>2 DEF Lease, Reclaim, Result
<1>3. ASSUME NEW k \in Jobs, NEW p \in Posts, NEW n \in 1..MaxBatch, Send(p, k, n)
      PROVE  Numbered(sent'[j]) /\ Numbered(console'[j])
  <2>1. /\ sent' = [sent EXCEPT ![k] = sent[k] \o NewLines(k, n)] /\ NewLines(k, n) \in Seq(Line)
        /\ Len(NewLines(k, n)) = n /\ n \in Nat /\ Len(sent[k]) \in Nat /\ console' = console
    <3>1. console' = console
      BY <1>3 DEF Send
    <3> QED
      BY <1>3, <3>1, SendWrites
  <2>2. CASE j = k
    <3>1. sent'[j] = sent[j] \o NewLines(j, n)
      BY <1>0, <2>1, <2>2
    <3>2. /\ Len(sent'[j]) = Len(sent[j]) + n
          /\ \A i \in 1..Len(sent[j]) + n : sent'[j][i] = IF i <= Len(sent[j]) THEN sent[j][i]
                                                          ELSE NewLines(j, n)[i - Len(sent[j])]
      <4>1. sent[j] \in Seq(Line) /\ NewLines(j, n) \in Seq(Line) /\ Len(NewLines(j, n)) = n
        BY <1>0, <2>1, <2>2
      <4> QED
        BY <3>1, <4>1, ConcatProperties
    <3>3. \A i \in 1..n : NewLines(j, n)[i].n = Len(sent[j]) + i
      BY DEF NewLines
    <3>4. ASSUME NEW i \in 1..Len(sent'[j]) PROVE sent'[j][i].n = i
      <4>1. CASE i <= Len(sent[j])
        BY <2>1, <2>2, <3>2, <4>1 DEF Numbered
      <4>2. CASE i > Len(sent[j])
        <5>1. i - Len(sent[j]) \in 1..n /\ sent'[j][i] = NewLines(j, n)[i - Len(sent[j])]
          BY <2>1, <2>2, <3>2, <4>2
        <5>2. sent'[j][i].n = Len(sent[j]) + (i - Len(sent[j]))
          BY <3>3, <5>1
        <5> QED
          BY <2>1, <2>2, <3>2, <5>2
      <4> QED
        BY <2>1, <2>2, <3>2, <4>1, <4>2
    <3> QED
      BY <2>1, <3>4 DEF Numbered
  <2>3. CASE j # k
    BY <1>0, <2>1, <2>3
  <2> QED
    BY <2>2, <2>3
<1> QED
  BY <1>1, <1>2, <1>3, TableSteps DEF table

\* The lines sent next were in no post before.
LEMMA NewLinesAreNew ==
  ASSUME Typed, NEW p \in Posts, NEW j \in Jobs, NEW n \in 1..MaxBatch, Send(p, j, n)
  PROVE  LET s == NewLines(j, n) IN
         /\ s \in Seq(Entry) /\ Distinct(s)
         /\ row' = row /\ row[j].attempt \in Nat
         /\ \A l \in Lines(s) : l \in Line /\ l.attempt = row[j].attempt
                               /\ Len(sent[j]) < l.n /\ l.n <= Len(sent'[j])
<1> DEFINE s == NewLines(j, n)
<1>1. /\ s \in Seq(Line) /\ Len(s) = n /\ n \in Nat /\ Len(sent[j]) \in Nat
      /\ sent' = [sent EXCEPT ![j] = sent[j] \o s] /\ sent[j] \in Seq(Line) /\ sent \in [Jobs -> Seq(Line)]
  BY SendWrites DEF Typed, TableTyped
<1>2. s \in Seq(Entry)
  BY <1>1 DEF Entry
<1>3. \A i \in 1..n : s[i].n = Len(sent[j]) + i /\ s[i].attempt = row[j].attempt /\ s[i] \in Line
  <2>1. \A i \in 1..n : s[i].n = Len(sent[j]) + i /\ s[i].attempt = row[j].attempt
    BY DEF NewLines
  <2>2. \A i \in 1..n : s[i] \in Line
    <3> HIDE DEF s
    <3> QED
      BY <1>1
  <2> QED
    BY <2>1, <2>2
<1>4. row' = row /\ row[j].attempt \in Nat
  BY DEF Send, Typed, TableTyped, Rows
<1>5. Len(sent'[j]) = Len(sent[j]) + n
  <2> HIDE DEF s
  <2>1. sent'[j] = sent[j] \o s
    BY <1>1
  <2> QED
    BY <1>1, <2>1, ConcatProperties
<1> HIDE DEF s
<1>6. Distinct(s)
  <2> SUFFICES ASSUME NEW i \in 1..n, NEW k \in 1..n, s[i] = s[k] PROVE i = k
    BY <1>1 DEF Distinct
  <2>1. Len(sent[j]) + i = Len(sent[j]) + k
    BY <1>3
  <2> QED
    BY <1>1, <2>1
<1>7. ASSUME NEW l \in Lines(s)
      PROVE  l \in Line /\ l.attempt = row[j].attempt /\ Len(sent[j]) < l.n /\ l.n <= Len(sent'[j])
  <2>1. PICK i \in 1..n : l = s[i]
    BY <1>1, <1>7 DEF Lines
  <2>2. l.n = Len(sent[j]) + i /\ l.attempt = row[j].attempt /\ l \in Line
    BY <1>3, <2>1
  <2> QED
    BY <1>1, <1>5, <2>2
<1> QED
  BY <1>2, <1>4, <1>6, <1>7 DEF s

\* A sequence with another one behind it has the lines of both, each once when
\* the two share none.
LEMMA LinesOfConcat ==
  ASSUME NEW s \in Seq(Entry), NEW x \in Seq(Entry)
  PROVE  /\ Lines(s \o x) = Lines(s) \union Lines(x)
         /\ Distinct(s) /\ Distinct(x) /\ Lines(s) \intersect Lines(x) = {} => Distinct(s \o x)
<1> DEFINE y == s \o x
<1>1. /\ Len(y) = Len(s) + Len(x) /\ Len(s) \in Nat /\ Len(x) \in Nat
      /\ \A i \in 1..Len(s) + Len(x) : y[i] = IF i <= Len(s) THEN s[i] ELSE x[i - Len(s)]
  BY ConcatProperties, LenProperties
<1> HIDE DEF y
<1>2. ASSUME NEW i \in 1..Len(y)
      PROVE  \/ i \in 1..Len(s) /\ y[i] = s[i]
             \/ i > Len(s) /\ i - Len(s) \in 1..Len(x) /\ y[i] = x[i - Len(s)]
  BY <1>1
<1>3. /\ \A i \in 1..Len(s) : i \in 1..Len(y) /\ y[i] = s[i]
      /\ \A i \in 1..Len(x) : Len(s) + i \in 1..Len(y) /\ y[Len(s) + i] = x[i]
  <2>1. \A i \in 1..Len(s) : i \in 1..Len(y) /\ y[i] = s[i]
    BY <1>1
  <2>2. ASSUME NEW i \in 1..Len(x) PROVE Len(s) + i \in 1..Len(y) /\ y[Len(s) + i] = x[i]
    <3>1. Len(s) + i \in 1..Len(y) /\ ~(Len(s) + i <= Len(s)) /\ Len(s) + i - Len(s) = i
      BY <1>1
    <3> QED
      BY <1>1, <3>1
  <2> QED
    BY <2>1, <2>2
<1>4. Lines(y) \subseteq Lines(s) \union Lines(x)
  BY <1>2 DEF Lines
<1>5. Lines(s) \union Lines(x) \subseteq Lines(y)
  BY <1>3 DEF Lines
<1>6. ASSUME Distinct(s), Distinct(x), Lines(s) \intersect Lines(x) = {} PROVE Distinct(y)
  <2> SUFFICES ASSUME NEW i \in 1..Len(y), NEW k \in 1..Len(y), y[i] = y[k], y[i] # Notice PROVE i = k
    BY DEF Distinct
  <2>1. CASE i \in 1..Len(s) /\ k \in 1..Len(s) /\ y[i] = s[i] /\ y[k] = s[k]
    BY <1>6, <2>1 DEF Distinct
  <2>2. CASE /\ i - Len(s) \in 1..Len(x) /\ k - Len(s) \in 1..Len(x)
             /\ y[i] = x[i - Len(s)] /\ y[k] = x[k - Len(s)]
    <3>1. i - Len(s) = k - Len(s)
      BY <1>6, <2>2 DEF Distinct
    <3> QED
      BY <1>1, <3>1
  <2>3. CASE i \in 1..Len(s) /\ y[i] = s[i] /\ k - Len(s) \in 1..Len(x) /\ y[k] = x[k - Len(s)]
    BY <1>6, <2>3 DEF Lines
  <2>4. CASE k \in 1..Len(s) /\ y[k] = s[k] /\ i - Len(s) \in 1..Len(x) /\ y[i] = x[i - Len(s)]
    BY <1>6, <2>4 DEF Lines
  <2> QED
    BY <1>2, <2>1, <2>2, <2>3, <2>4
<1> QED
  BY <1>4, <1>5, <1>6 DEF y

\* Unique, for a channel that may be new.
LEMMA WasUnique ==
  ASSUME Typed, NEW j \in Jobs, Unique(j), NEW d
  PROVE  /\ Distinct(Was(j, d).lines) /\ Lines(Was(j, d).lines) \subseteq Line
         /\ \A l \in Lines(Was(j, d).lines) : Known(j, l)
         /\ \A p \in Posts : Waiting(p, j) =>
              Lines(post[p].lines) \intersect Lines(Was(j, d).lines) = {}
<1>1. Lines(Was(j, d).lines) \subseteq Line
  BY WasTyped, LinesTyped DEF Typed
<1>2. CASE d \in 1..Len(channels[j])
  BY <1>1, <1>2 DEF Was, Unique
<1>3. CASE d \notin 1..Len(channels[j])
  <2>1. Was(j, d).lines = << >>
    BY <1>3 DEF Was, NoChannel
  <2>2. Lines(<< >>) = {} /\ Distinct(<< >>)
    BY DEF Lines, Distinct
  <2> QED
    BY <2>1, <2>2
<1> QED
  BY <1>2, <1>3

\* Nothing but a publish puts a line on a channel.
Still(j) ==
  Len(channels'[j]) \in Nat /\ \A d \in 1..Len(channels'[j]) : channels'[j][d].lines = Was(j, d).lines

\* All steps but a publish for the job leave the lines of its channels.
LEMMA ChannelsStill ==
  ASSUME Typed, \A p \in Posts : PostAt(p), \A v \in Viewers : ViewerAt(v), [Next]_vars, NEW j \in Jobs,
         ~\E p \in Posts : Publish(p) /\ post[p].job = j
  PROVE  Still(j)
<1>0. BusTyped
  BY DEF Typed
<1>1. CASE channels'[j] = channels[j]
  <2>1. Len(channels[j]) \in Nat
    BY <1>0, LenProperties DEF BusTyped
  <2> QED
    BY <1>1, <2>1 DEF Still, Was
<1>2. ASSUME NEW k \in Jobs, NEW c, Grown(k, c, << >>) PROVE Still(j)
  <2>1. CASE j # k
    BY <1>1, <1>2, <2>1 DEF Grown
  <2>2. CASE j = k
    <3>1. \A d \in 1..Len(channels'[j]) : Was(j, d).lines \o << >> = Was(j, d).lines
      BY <1>0, WasTyped, ConcatEmptySeq
    <3> QED
      BY <1>2, <2>2, <3>1 DEF Grown, Still
  <2> QED
    BY <2>1, <2>2
<1>3. ASSUME NEW p \in Posts, Publish(p) PROVE Still(j)
  <2>1. post[p].job # j /\ Grown(post[p].job, Channel(post[p].job), post[p].lines)
    BY <1>3, PublishGrows
  <2> QED
    BY <1>1, <2>1 DEF Grown
<1>4. ASSUME NEW k \in Jobs, Close(k) PROVE Still(j)
  BY <1>2, <1>4, CloseGrows
<1>5. ASSUME NEW v \in Viewers, Attach(v) PROVE Still(j)
  BY <1>2, <1>5, AttachGrows
<1>6. CASE UNCHANGED channels
  BY <1>1, <1>6
<1> QED
  BY <1>3, <1>4, <1>5, <1>6, BusSteps

\* Every step keeps a line in one place, and there once.
LEMMA UniqueNext ==
  ASSUME Typed, \A p \in Posts : PostAt(p), \A v \in Viewers : ViewerAt(v),
         \A j \in Jobs : Unique(j), [Next]_vars
  PROVE  \A j \in Jobs : Unique(j)'
<1> SUFFICES ASSUME NEW j \in Jobs PROVE Unique(j)'
  OBVIOUS
<1> DEFINE L(q) == Lines(post[q].lines)
           Fewer(q) == Waiting(q, j)' => Waiting(q, j) /\ L(q)' \subseteq L(q)
                                         /\ (Distinct(post[q].lines) => Distinct(post[q].lines)')
<1>0. /\ post \in [Posts -> PostRecords] /\ Unique(j)
      /\ \A q \in Posts : post[q].lines \in Seq(Entry) /\ L(q) \subseteq Line
  <2>1. post \in [Posts -> PostRecords]
    BY DEF Typed, LocalsTyped
  <2>2. \A q \in Posts : post[q].lines \in Seq(Entry)
    BY <2>1 DEF PostRecords
  <2> QED
    BY <2>1, <2>2, LinesTyped
<1>1. Numbered(sent[j])' /\ Numbered(console[j])'
  BY <1>0, NumberedNext DEF Unique
<1>2. \A l \in Line : Known(j, l) => Known(j, l)'
  BY KnownStays
<1>3. \A p \in Posts : Waiting(p, j) => /\ Distinct(post[p].lines) /\ \A l \in L(p) : Known(j, l)
                                        /\ \A q \in Posts : Waiting(q, j) /\ p # q => L(p) \intersect L(q) = {}
  BY <1>0 DEF Unique
<1>4. \A d : /\ Distinct(Was(j, d).lines) /\ Lines(Was(j, d).lines) \subseteq Line
             /\ \A l \in Lines(Was(j, d).lines) : Known(j, l)
             /\ \A p \in Posts : Waiting(p, j) => L(p) \intersect Lines(Was(j, d).lines) = {}
  BY <1>0, WasUnique
<1>5. ASSUME \A d \in 1..Len(channels'[j]) : /\ Distinct(channels'[j][d].lines)
                                             /\ \A l \in Lines(channels'[j][d].lines) : Known(j, l)'
                                             /\ \A p \in Posts : Waiting(p, j)' =>
                                                  L(p)' \intersect Lines(channels'[j][d].lines) = {},
             \A p \in Posts : Waiting(p, j)' =>
               /\ Distinct(post'[p].lines) /\ \A l \in L(p)' : Known(j, l)'
               /\ \A q \in Posts : Waiting(q, j)' /\ p # q => L(p)' \intersect L(q)' = {}
      PROVE  Unique(j)'
  BY <1>1, <1>5 DEF Unique
<1>6. ASSUME Still(j), \A q \in Posts : Fewer(q) PROVE Unique(j)'
  <2>1. ASSUME NEW d \in 1..Len(channels'[j])
        PROVE  /\ Distinct(channels'[j][d].lines) /\ \A l \in Lines(channels'[j][d].lines) : Known(j, l)'
               /\ \A p \in Posts : Waiting(p, j)' => L(p)' \intersect Lines(channels'[j][d].lines) = {}
    <3>1. channels'[j][d].lines = Was(j, d).lines
      BY <1>6 DEF Still
    <3> HIDE DEF L
    <3> QED
      BY <1>2, <1>4, <1>6, <3>1
  <2>2. ASSUME NEW p \in Posts, Waiting(p, j)'
        PROVE  /\ Distinct(post'[p].lines) /\ \A l \in L(p)' : Known(j, l)'
               /\ \A q \in Posts : Waiting(q, j)' /\ p # q => L(p)' \intersect L(q)' = {}
    <3>1. Distinct(post'[p].lines) /\ Waiting(p, j) /\ L(p)' \subseteq L(p)
      BY <1>3, <1>6, <2>2
    <3>2. L(p) \subseteq Line
      BY <1>0
    <3> HIDE DEF L
    <3> QED
      BY <1>2, <1>3, <1>6, <2>2, <3>1, <3>2
  <2> QED
    BY <1>5, <2>1, <2>2
<1>7. ASSUME NEW p \in Posts, Admit(p) PROVE Unique(j)'
  <2>1. PICK lines \in Seq(Entry) :
          /\ post' = [post EXCEPT ![p] = [post[p] EXCEPT !.pc = "publish", !.lines = lines]]
          /\ Lines(lines) \subseteq L(p) /\ (Distinct(post[p].lines) => Distinct(lines))
    BY <1>7, AdmitWrites
  <2>2. Still(j)
    <3>1. channels' = channels /\ Len(channels[j]) \in Nat
      BY <1>7, LenProperties DEF Admit, bus, Typed, BusTyped
    <3> QED
      BY <3>1 DEF Still, Was
  <2>3. ASSUME NEW q \in Posts PROVE Fewer(q)
    <3>1. CASE q # p
      <4>1. post'[q] = post[q]
        BY <1>0, <2>1, <3>1
      <4> QED
        BY <4>1 DEF Waiting
    <3>2. CASE q = p
      <4>1. post'[q].lines = lines /\ post'[q].job = post[q].job /\ post[q].pc = "admit"
        BY <1>0, <1>7, <2>1, <3>2 DEF PostRecords, Admit
      <4> QED
        BY <2>1, <3>2, <4>1 DEF Waiting
    <3> QED
      BY <3>1, <3>2
  <2> QED
    BY <1>6, <2>2, <2>3
<1>8. ASSUME NEW p \in Posts, NEW k \in Jobs, NEW n \in 1..MaxBatch, Send(p, k, n) PROVE Unique(j)'
  <2> DEFINE s == NewLines(k, n)
  <2>1. /\ post' = [post EXCEPT ![p] = [pc |-> "test", job |-> k, attempt |-> row[k].attempt, lines |-> s, victims |-> << >>]]
        /\ post[p].pc = "idle" /\ Still(j)
    <3>1. channels' = channels /\ Len(channels[j]) \in Nat /\ post[p].pc = "idle"
      BY <1>8, LenProperties DEF Send, bus, Typed, BusTyped
    <3> QED
      BY <1>8, <3>1, SendWrites DEF Still, Was
  <2>2. /\ \A q \in Posts : q # p => post'[q] = post[q]
        /\ post'[p].job = k /\ post'[p].lines = s
    <3> HIDE DEF s
    <3> QED
      BY <1>0, <2>1
  <2>3. CASE k # j
    <3>1. \A q \in Posts : Fewer(q)
      BY <2>2, <2>3 DEF Waiting
    <3> QED
      BY <1>6, <2>1, <3>1
  <2>4. CASE k = j
    <3>1. /\ row' = row /\ row[j].attempt \in Nat /\ Distinct(s)
          /\ \A l \in Lines(s) : /\ l \in Line /\ l.attempt = row[j].attempt
                                 /\ Len(sent[j]) < l.n /\ l.n <= Len(sent'[j])
      BY <1>8, <2>4, NewLinesAreNew
    <3>2. Len(sent[j]) \in Nat /\ Len(sent'[j]) \in Nat
      <4>1. sent[j] \in Seq(Line) /\ sent'[j] \in Seq(Line)
        BY TableTypedNext DEF Typed, TableTyped
      <4> QED
        BY <4>1, LenProperties
    <3>3. \A l \in Lines(s) : ~Known(j, l) /\ Known(j, l)'
      <4> SUFFICES ASSUME NEW l \in Lines(s) PROVE ~Known(j, l) /\ Known(j, l)'
        OBVIOUS
      <4>1. /\ l.attempt = row[j].attempt /\ Len(sent[j]) < l.n /\ l.n <= Len(sent'[j])
            /\ row'[j].attempt = row[j].attempt /\ l.n \in Nat
        BY <3>1 DEF Line
      <4> QED
        BY <3>1, <3>2, <4>1 DEF Known
    <3>4. L(p)' = Lines(s) /\ \A q \in Posts : q # p => L(q)' = L(q) /\ (Waiting(q, j)' <=> Waiting(q, j))
      BY <2>2 DEF Waiting
    <3> HIDE DEF s, L
    <3>5. ASSUME NEW d \in 1..Len(channels'[j])
          PROVE  /\ Distinct(channels'[j][d].lines) /\ \A l \in Lines(channels'[j][d].lines) : Known(j, l)'
                 /\ \A q \in Posts : Waiting(q, j)' => L(q)' \intersect Lines(channels'[j][d].lines) = {}
      <4>1. channels'[j][d].lines = Was(j, d).lines
        BY <2>1 DEF Still
      <4>2. L(p)' \intersect Lines(Was(j, d).lines) = {}
        BY <1>4, <3>3, <3>4
      <4> QED
        BY <1>2, <1>4, <3>4, <4>1, <4>2
    <3>6. ASSUME NEW q \in Posts, Waiting(q, j)'
          PROVE  /\ Distinct(post'[q].lines) /\ \A l \in L(q)' : Known(j, l)'
                 /\ \A r \in Posts : Waiting(r, j)' /\ q # r => L(q)' \intersect L(r)' = {}
      <4>1. \A r \in Posts : r # p /\ Waiting(r, j) => L(p)' \intersect L(r) = {}
        BY <1>3, <3>3, <3>4
      <4>2. CASE q = p
        BY <2>2, <3>1, <3>3, <3>4, <4>1, <4>2
      <4>3. CASE q # p
        <5>1. Distinct(post'[q].lines) /\ L(q)' = L(q) /\ Waiting(q, j)
          BY <1>3, <2>2, <3>4, <3>6, <4>3
        <5>2. L(q) \subseteq Line
          BY <1>0
        <5> QED
          BY <1>2, <1>3, <3>4, <4>1, <4>3, <5>1, <5>2
      <4> QED
        BY <4>2, <4>3
    <3> QED
      BY <1>5, <3>5, <3>6
  <2> QED
    BY <2>3, <2>4
<1>9. ASSUME NEW p \in Posts, Publish(p), post[p].job = j PROVE Unique(j)'
  <2> DEFINE x == post[p].lines
             c == Channel(j)
  <2>1. /\ Grown(j, c, x) /\ Waiting(p, j) /\ ~(Waiting(p, j)')
        /\ \A q \in Posts : q # p => post'[q] = post[q]
    <3>1. Grown(j, c, x)
      BY <1>9, PublishGrows
    <3> QED
      BY <1>0, <1>9, <3>1 DEF Publish, Waiting, PostRecords
  <2>2. \A q \in Posts : Waiting(q, j)' => q # p /\ Waiting(q, j) /\ L(q)' = L(q) /\ post'[q].lines = post[q].lines
    BY <2>1 DEF Waiting
  <2>3. ASSUME NEW d \in 1..Len(channels'[j])
        PROVE  /\ Distinct(channels'[j][d].lines) /\ \A l \in Lines(channels'[j][d].lines) : Known(j, l)'
               /\ \A q \in Posts : Waiting(q, j)' => L(q)' \intersect Lines(channels'[j][d].lines) = {}
    <3> DEFINE s == Was(j, d).lines
    <3>1. channels'[j][d].lines = IF d = c THEN s \o x ELSE s
      BY <2>1 DEF Grown
    <3>2. s \in Seq(Entry) /\ x \in Seq(Entry)
      BY <1>0, WasTyped DEF Typed
    <3>3. /\ Distinct(s) /\ Lines(s) \subseteq Line /\ \A l \in Lines(s) : Known(j, l)
          /\ \A q \in Posts : Waiting(q, j) => L(q) \intersect Lines(s) = {}
      BY <1>4
    <3>4. /\ Distinct(x) /\ Lines(x) \subseteq Line /\ \A l \in Lines(x) : Known(j, l)
          /\ \A q \in Posts : Waiting(q, j) /\ q # p => L(q) \intersect Lines(x) = {}
          /\ Lines(x) \intersect Lines(s) = {}
      BY <1>0, <1>3, <2>1, <3>3
    <3>5. Lines(s \o x) = Lines(s) \union Lines(x) /\ Distinct(s \o x)
      BY <3>2, <3>3, <3>4, LinesOfConcat
    <3> HIDE DEF s, x, c, L
    <3>6. CASE d = c
      BY <1>2, <2>2, <3>1, <3>3, <3>4, <3>5, <3>6
    <3>7. CASE d # c
      BY <1>2, <2>2, <3>1, <3>3, <3>7
    <3> QED
      BY <3>6, <3>7
  <2>4. ASSUME NEW q \in Posts, Waiting(q, j)'
        PROVE  /\ Distinct(post'[q].lines) /\ \A l \in L(q)' : Known(j, l)'
               /\ \A r \in Posts : Waiting(r, j)' /\ q # r => L(q)' \intersect L(r)' = {}
    <3>1. Waiting(q, j) /\ L(q)' = L(q) /\ Distinct(post'[q].lines) /\ L(q) \subseteq Line
      BY <1>0, <1>3, <2>2, <2>4
    <3> HIDE DEF L
    <3> QED
      BY <1>2, <1>3, <2>2, <3>1
  <2> QED
    BY <1>5, <2>3, <2>4
<1>10. CASE /\ ~\E p \in Posts : Admit(p) \/ \E k \in Jobs, n \in 1..MaxBatch : Send(p, k, n)
            /\ ~\E p \in Posts : Publish(p) /\ post[p].job = j
  <2>1. \A q \in Posts : Quiet(q)
    BY <1>10, QuietPosts
  <2>2. \A q \in Posts : Fewer(q)
    BY <2>1 DEF Quiet, Waiting
  <2> QED
    BY <1>6, <1>10, <2>2, ChannelsStill
<1> QED
  BY <1>7, <1>8, <1>9, <1>10
----------------------------------------------------------------------------
(* The backlog *)

\* What a request is about to track or to discard stays with it until it does.
LEMMA HeldStays ==
  ASSUME Typed, \A p \in Posts : PostAt(p), \A j \in Jobs : EnderAt(j), [Next]_vars
  PROVE  /\ \A p \in Posts : post[p].pc = "track" => Track(p) \/ post'[p] = post[p]
         /\ \A p \in Posts : post[p].pc = "discard" => PostDiscards(p) \/ post'[p] = post[p]
         /\ \A k \in Jobs : ender[k].pc = "discard" => CloseDiscards(k) \/ ender'[k] = ender[k]
         /\ \A v \in Viewers : viewer[v].pc = "discard" => ViewerDiscards(v) \/ viewer'[v] = viewer[v]
<1>0. /\ post \in [Posts -> PostRecords] /\ ender \in [Jobs -> EnderRecords]
      /\ viewer \in [Viewers -> ViewerRecords]
  BY DEF Typed, LocalsTyped
<1>1. ASSUME NEW p \in Posts, post[p].pc \in {"track", "discard"}, ~Track(p), ~PostDiscards(p)
      PROVE  post'[p] = post[p]
  <2>1. ASSUME NEW q \in Posts, TestLease(q) \/ Admit(q) \/ Publish(q) \/ Track(q) \/ PostDiscards(q)
        PROVE  post'[p] = post[p]
    <3>1. q # p
      BY <1>1, <2>1 DEF TestLease, Admit, Publish
    <3> QED
      BY <2>1, <3>1, PostKeepsJob
  <2>2. ASSUME NEW q \in Posts, NEW j \in Jobs, NEW n \in 1..MaxBatch, Send(q, j, n)
        PROVE  post'[p] = post[p]
    <3>1. q # p
      BY <1>1, <2>2 DEF Send
    <3>2. post' = [post EXCEPT ![q] = [pc |-> "test", job |-> j, attempt |-> row[j].attempt,
                                       lines |-> NewLines(j, n), victims |-> << >>]]
      BY <2>2, SendWrites
    <3> QED
      BY <1>0, <3>1, <3>2, Zenon
  <2> QED
    BY <2>1, <2>2, PostSteps
<1>2. ASSUME NEW k \in Jobs, ender[k].pc = "discard", ~CloseDiscards(k) PROVE ender'[k] = ender[k]
  <2>1. ASSUME NEW j \in Jobs, NEW stored \in BOOLEAN, Result(j, stored) PROVE ender'[k] = ender[k]
    <3>1. j # k
      BY <1>2, <2>1 DEF EnderAt, IsOver, Over, Result
    <3>2. PICK pc \in {"close", "over"} : ender' = [ender EXCEPT ![j].pc = pc]
      BY <2>1 DEF Result
    <3> QED
      BY <1>0, <3>1, <3>2
  <2>2. ASSUME NEW j \in Jobs, Close(j) \/ CloseRetires(j) \/ CloseDiscards(j) \/ Forget(j)
        PROVE  ender'[k] = ender[k]
    <3>1. j # k
      BY <1>2, <2>2 DEF Close, CloseRetires, Forget
    <3>2. PICK new : ender' = [ender EXCEPT ![j] = new]
      BY <2>2, Zenon DEF Close, CloseRetires, CloseDiscards, Forget
    <3> QED
      BY <1>0, <3>1, <3>2
  <2> QED
    BY <2>1, <2>2, EnderSteps
<1>3. ASSUME NEW v \in Viewers, viewer[v].pc = "discard", ~ViewerDiscards(v) PROVE viewer'[v] = viewer[v]
  <2>1. ASSUME NEW w \in Viewers,
               \/ Attach(w) \/ Read(w) \/ Poll(w) \/ ViewerRetires(w) \/ ViewerDiscards(w)
               \/ FallBack(w) \/ Disconnect(w) \/ \E j \in Jobs : Subscribe(w, j)
        PROVE  viewer'[v] = viewer[v]
    <3>1. w # v
      BY <1>3, <2>1 DEF Attach, Read, Poll, ViewerRetires, FallBack, Disconnect, Subscribe
    <3>2. PICK new : viewer' = [viewer EXCEPT ![w] = new]
      BY <2>1, Zenon DEF Attach, Read, Poll, ViewerRetires, ViewerDiscards, FallBack, Disconnect, Subscribe
    <3> QED
      BY <1>0, <3>1, <3>2
  <2> QED
    BY <2>1, ViewerSteps
<1>4. \A p \in Posts : post[p].pc \in {"track", "discard"} =>
        Track(p) \/ PostDiscards(p) \/ post'[p] = post[p]
  BY <1>1
<1>5. \A k \in Jobs : ender[k].pc = "discard" => CloseDiscards(k) \/ ender'[k] = ender[k]
  BY <1>2
<1>6. \A v \in Viewers : viewer[v].pc = "discard" => ViewerDiscards(v) \/ viewer'[v] = viewer[v]
  BY <1>3
<1>7. \A p \in Posts : /\ Track(p) => post[p].pc = "track"
                       /\ PostDiscards(p) => post[p].pc = "discard"
  BY DEF Track, PostDiscards
<1> QED
  BY <1>4, <1>5, <1>6, <1>7

\* Where a job that has a backlog is known.
Held(j) ==
  \/ j \in ToSet(tracked)
  \/ \E p \in Posts : post[p].pc = "track" /\ post[p].job = j
  \/ \E p \in Posts : j \in ToSet(post[p].victims)
  \/ \E k \in Jobs : j \in ToSet(ender[k].victims)
  \/ \E v \in Viewers : j \in ToSet(viewer[v].victims)

\* A job in the order, or about to enter it, is held after the entry.
LEMMA TrackHolds ==
  ASSUME Typed, NEW p \in Posts, PostAt(p), Track(p), NEW j \in Jobs,
         j \in ToSet(tracked) \/ j = post[p].job
  PROVE  Held(j)'
<1>0. post \in [Posts -> PostRecords]
  BY DEF Typed, LocalsTyped
<1>1. CASE post[p].job \in ToSet(tracked)
  BY <1>1 DEF Track, eviction, Held
<1>2. CASE post[p].job \notin ToSet(tracked)
  <2> DEFINE victims == Evicted(Append(tracked, post[p].job), finished)
  <2>1. j \in ToSet(tracked') \union ToSet(victims)
    BY <1>2, TrackBounds
  <2>2. post' = [post EXCEPT ![p] = [post[p] EXCEPT !.pc = "discard", !.victims = victims]]
    BY <1>2, Zenon DEF Track
  <2> HIDE DEF victims
  <2>3. post'[p].victims = victims
    BY <1>0, <2>2 DEF PostRecords
  <2> QED
    BY <2>1, <2>3 DEF Held
<1> QED
  BY <1>1, <1>2

\* A discard takes the channels of its victims from the bus.
LEMMA HeldNext ==
  ASSUME Typed, \A p \in Posts : PostAt(p), \A j \in Jobs : EnderAt(j), \A v \in Viewers : ViewerAt(v),
         [Next]_vars, NEW j \in Jobs, Held(j)
  PROVE  Held(j)' \/ current'[j] = 0
<1>0. /\ post \in [Posts -> PostRecords] /\ ender \in [Jobs -> EnderRecords]
      /\ viewer \in [Viewers -> ViewerRecords] /\ ToSet(<< >>) = {}
  BY DEF Typed, LocalsTyped, ToSet
<1>1. ASSUME NEW victims, j \in ToSet(victims), Discard(victims) PROVE current'[j] = 0
  BY <1>1 DEF Discard
<1>2. CASE j \in ToSet(tracked)
  <2>1. CASE UNCHANGED eviction
    BY <1>2, <2>1 DEF eviction, Held
  <2>2. ASSUME NEW p \in Posts, Track(p) PROVE Held(j)'
    BY <1>2, <2>2, TrackHolds
  <2>3. ASSUME NEW k \in Jobs, CloseRetires(k) PROVE Held(j)'
    <3>1. j \in ToSet(tracked') \union ToSet(RetireEvicts(k))
      BY <1>2, <2>3, RetireBounds DEF CloseRetires, Typed
    <3>2. ender'[k].victims = RetireEvicts(k)
      BY <1>0, <2>3 DEF CloseRetires
    <3> QED
      BY <3>1, <3>2 DEF Held
  <2>4. ASSUME NEW v \in Viewers, ViewerRetires(v) PROVE Held(j)'
    <3>1. viewer[v].job \in Jobs /\ Retire(viewer[v].job) /\ EvictionTyped
      BY <2>4 DEF ViewerAt, ViewerIs, ViewerRetires, Typed
    <3>2. j \in ToSet(tracked') \union ToSet(RetireEvicts(viewer[v].job))
      BY <1>2, <3>1, RetireBounds
    <3>3. viewer' = [viewer EXCEPT ![v] = [viewer[v] EXCEPT !.pc = "discard", !.victims = RetireEvicts(viewer[v].job)]]
      BY <2>4, Zenon DEF ViewerRetires
    <3>4. viewer'[v].victims = RetireEvicts(viewer[v].job)
      BY <1>0, <3>3 DEF ViewerRecords
    <3> QED
      BY <3>2, <3>4 DEF Held
  <2> QED
    BY <2>1, <2>2, <2>3, <2>4, EvictionSteps
<1>3. ASSUME NEW p \in Posts, post[p].pc = "track", post[p].job = j PROVE Held(j)'
  <2>1. CASE Track(p)
    BY <1>3, <2>1, TrackHolds
  <2>2. CASE post'[p] = post[p]
    BY <1>3, <2>2 DEF Held
  <2> QED
    BY <1>3, <2>1, <2>2, HeldStays
<1>4. ASSUME NEW p \in Posts, j \in ToSet(post[p].victims) PROVE Held(j)' \/ current'[j] = 0
  <2>1. post[p].pc = "discard"
    BY <1>0, <1>4 DEF PostAt
  <2>2. CASE PostDiscards(p)
    BY <1>1, <1>4, <2>2 DEF PostDiscards
  <2>3. CASE post'[p] = post[p]
    BY <1>4, <2>3 DEF Held
  <2> QED
    BY <2>1, <2>2, <2>3, HeldStays
<1>5. ASSUME NEW k \in Jobs, j \in ToSet(ender[k].victims) PROVE Held(j)' \/ current'[j] = 0
  <2>1. ender[k].pc = "discard"
    BY <1>0, <1>5 DEF EnderAt
  <2>2. CASE CloseDiscards(k)
    BY <1>1, <1>5, <2>2 DEF CloseDiscards
  <2>3. CASE ender'[k] = ender[k]
    BY <1>5, <2>3 DEF Held
  <2> QED
    BY <2>1, <2>2, <2>3, HeldStays
<1>6. ASSUME NEW v \in Viewers, j \in ToSet(viewer[v].victims) PROVE Held(j)' \/ current'[j] = 0
  <2>1. viewer[v].pc = "discard"
    BY <1>0, <1>6 DEF ViewerAt, ViewerIs
  <2>2. CASE ViewerDiscards(v)
    BY <1>1, <1>6, <2>2 DEF ViewerDiscards
  <2>3. CASE viewer'[v] = viewer[v]
    BY <1>6, <2>3 DEF Held
  <2> QED
    BY <2>1, <2>2, <2>3, HeldStays
<1> QED
  BY <1>2, <1>3, <1>4, <1>5, <1>6 DEF Held

\* The backlog of a job is what the bus holds for it; only a publish starts one.
Backlog(j) == current[j] # 0 /\ channels[j][current[j]].lines # << >>

\* A backlog was there before the step, or a publish started it.
LEMMA BacklogStarts ==
  ASSUME Typed, \A p \in Posts : PostAt(p), \A v \in Viewers : ViewerAt(v), [Next]_vars,
         NEW j \in Jobs, Backlog(j)'
  PROVE  Backlog(j) \/ \E p \in Posts : Publish(p) /\ post[p].job = j
<1>0. current \in [Jobs -> Nat]
  BY DEF Typed, BusTyped
<1>1. ASSUME channels'[j] = channels[j], current'[j] \in {0, current[j]} PROVE Backlog(j)
  BY <1>1 DEF Backlog
<1>2. ASSUME NEW k \in Jobs, NEW c, Grown(k, c, << >>) PROVE Backlog(j)
  <2>1. CASE j # k
    BY <1>0, <1>1, <1>2, <2>1 DEF Grown
  <2>2. CASE j = k
    <3>1. current'[j] = c /\ c \in 1..Len(channels'[j]) /\ Was(j, c).lines \o << >> # << >>
      BY <1>0, <1>2, <2>2 DEF Grown, Backlog
    <3>2. Was(j, c).lines # << >>
      BY <3>1
    <3>3. c \in 1..Len(channels[j]) /\ Was(j, c) = channels[j][c]
      BY <3>2 DEF Was, NoChannel
    <3>4. c = current[j] /\ c # 0
      BY <1>2, <2>2, <3>3 DEF Grown
    <3> QED
      BY <3>2, <3>3, <3>4 DEF Backlog
  <2> QED
    BY <2>1, <2>2
<1>3. ASSUME NEW p \in Posts, Publish(p), post[p].job # j PROVE Backlog(j)
  <2>1. Grown(post[p].job, Channel(post[p].job), post[p].lines)
    BY <1>3, PublishGrows
  <2> QED
    BY <1>0, <1>1, <1>3, <2>1 DEF Grown
<1>4. ASSUME NEW k \in Jobs, Close(k) PROVE Backlog(j)
  BY <1>2, <1>4, CloseGrows
<1>5. ASSUME NEW v \in Viewers, Attach(v) PROVE Backlog(j)
  BY <1>2, <1>5, AttachGrows
<1>6. ASSUME UNCHANGED channels, (\E victims : Discard(victims)) \/ UNCHANGED current PROVE Backlog(j)
  BY <1>1, <1>6 DEF Discard
<1> QED
  BY <1>3, <1>4, <1>5, <1>6, BusSteps

\* Every step keeps each backlog in the order or in hand.
LEMMA BacklogNext ==
  ASSUME Typed, \A p \in Posts : PostAt(p), \A j \in Jobs : EnderAt(j), \A v \in Viewers : ViewerAt(v),
         BacklogIsTracked, [Next]_vars
  PROVE  BacklogIsTracked'
<1>1. BacklogIsTracked <=> \A j \in Jobs : Backlog(j) => Held(j)
  BY DEF BacklogIsTracked, Backlog, Held
<1>2. BacklogIsTracked' <=> \A j \in Jobs : Backlog(j)' => Held(j)'
  BY DEF BacklogIsTracked, Backlog, Held
<1> SUFFICES ASSUME NEW j \in Jobs, Backlog(j)' PROVE Held(j)'
  BY <1>2
<1>3. ASSUME NEW p \in Posts, Publish(p), post[p].job = j PROVE Held(j)'
  <2>1. post'[p].pc = "track" /\ post'[p].job = j
    BY <1>3 DEF Publish, Typed, LocalsTyped, PostRecords
  <2> QED
    BY <2>1 DEF Held
<1>4. CASE Backlog(j)
  <2>1. current'[j] # 0
    BY DEF Backlog
  <2> QED
    BY <1>1, <1>4, <2>1, HeldNext
<1> QED
  BY <1>3, <1>4, BacklogStarts
----------------------------------------------------------------------------
(* The theorems *)

\* The invariant holds of the initial states.
LEMMA InitInv == Init => IInv
<1> SUFFICES ASSUME Init PROVE IInv
  OBVIOUS
<1>1. << >> \in Seq(Line) /\ << >> \in Seq(Jobs) /\ << >> \in Seq(Entry) /\ << >> \in Seq(ChannelRecords)
  OBVIOUS
<1>2. TableTyped
  <2>1. [status |-> "queued", attempt |-> 0] \in Rows
    BY Caps DEF Rows
  <2> QED
    BY <1>1, <2>1 DEF Init, TableTyped
<1>3. BudgetTyped
  <2>1. NoUse \in [lines : 0..LinesPerJob, bytes : 0..BytesPerJob]
    BY Caps DEF NoUse
  <2> QED
    BY <1>1, <2>1, Caps DEF Init, BudgetTyped
<1>4. BusTyped
  BY <1>1 DEF Init, BusTyped
<1>5. EvictionTyped
  BY <1>1, Caps DEF Init, EvictionTyped
<1>6. LocalsTyped
  <2>1. [pc |-> "none", victims |-> << >>] \in EnderRecords
    BY <1>1 DEF EnderRecords
  <2>2. [pc |-> "idle", job |-> 0, channel |-> 0, read |-> 0, ending |-> FALSE, got |-> << >>, victims |-> << >>]
          \in ViewerRecords
    BY <1>1 DEF ViewerRecords, ViewerPcs
  <2> QED
    BY <2>1, <2>2, NoPostTyped DEF Init, LocalsTyped
<1>7. \A p \in Posts : PostAt(p)
  BY DEF Init, NoPost, PostAt
<1>8. ASSUME NEW j \in Jobs PROVE EnderAt(j) /\ ClosedAt(j) /\ Flight(j) /\ Notices(j) /\ Unique(j)
  <2>1. \A p \in Posts : post[p].pc = "idle"
    BY DEF Init, NoPost
  <2>2. channels[j] = << >> /\ sent[j] = << >> /\ console[j] = << >> /\ row[j].status = "queued"
    BY DEF Init
  <2>3. EnderAt(j)
    BY DEF Init, EnderAt
  <2>4. 1..Len(channels[j]) = {} /\ 1..Len(sent[j]) = {} /\ 1..Len(console[j]) = {}
    BY <2>2
  <2>5. ClosedAt(j) /\ Flight(j) /\ Unique(j)
    BY <2>1, <2>4 DEF ClosedAt, Flight, Flying, Unique, Numbered, Waiting
  <2>6. Notices(j)
    BY <2>1, <2>4 DEF Notices, Noticed
  <2> QED
    BY <2>3, <2>5, <2>6
<1>9. BacklogIsTracked
  BY DEF Init, BacklogIsTracked
<1>10. \A v \in Viewers : ViewerAt(v)
  BY DEF Init, ViewerAt, ViewerIs
<1> QED
  BY <1>2, <1>3, <1>4, <1>5, <1>6, <1>7, <1>8, <1>9, <1>10 DEF IInv, Typed

\* Every step keeps the invariant.
LEMMA NextInv == IInv /\ [Next]_vars => IInv'
<1> SUFFICES ASSUME IInv, [Next]_vars PROVE IInv'
  OBVIOUS
<1>1. /\ Typed /\ (\A p \in Posts : PostAt(p)) /\ BacklogIsTracked /\ (\A v \in Viewers : ViewerAt(v))
      /\ \A j \in Jobs : EnderAt(j) /\ ClosedAt(j) /\ Flight(j) /\ Notices(j) /\ Unique(j)
  BY DEF IInv
<1>2. Typed'
  BY <1>1, TableTypedNext, BudgetTypedNext, BusTypedNext, EvictionTypedNext, PostAtNext, EnderAtNext,
     ViewerAtNext DEF Typed, LocalsTyped
<1>3. (\A p \in Posts : PostAt(p)') /\ (\A j \in Jobs : EnderAt(j)') /\ (\A v \in Viewers : ViewerAt(v)')
  BY <1>1, PostAtNext, EnderAtNext, ViewerAtNext
<1>4. \A j \in Jobs : ClosedAt(j)' /\ Flight(j)'
  BY <1>1, ClosedAtNext, FlightNext
<1>5. (\A j \in Jobs : Notices(j)') /\ BacklogIsTracked'
  BY <1>1, NoticesNext, BacklogNext
<1>6. \A j \in Jobs : Unique(j)'
  BY <1>1, UniqueNext
<1> QED
  BY <1>2, <1>3, <1>4, <1>5, <1>6 DEF IInv

\* The invariant holds in every state.
LEMMA InvariantHolds == Spec => []IInv
  BY InitInv, NextInv, PTL DEF Spec

\* The invariant says that the bus is sound.
LEMMA BusFollows == IInv => BusIsSound
<1> SUFFICES ASSUME IInv PROVE BusIsSound
  OBVIOUS
<1>1. TypeOK
  <2>1. Rows = [status : {"queued", "leased"} \union Over, attempt : 0..MaxAttempts]
    BY DEF Rows
  <2>2. ASSUME NEW p \in Posts
        PROVE  /\ post[p].pc \in {"idle", "test", "admit", "publish", "track", "discard"}
               /\ post[p].lines \in Seq(Line \union {Notice})
    BY DEF IInv, Typed, LocalsTyped, PostRecords, PostPcs, Entry
  <2>3. ToSet(counted) \subseteq Jobs /\ ToSet(tracked) \subseteq Jobs /\ finished \subseteq ToSet(tracked)
    BY DEF IInv, Typed, BudgetTyped, EvictionTyped, ToSet
  <2>4. ASSUME NEW j \in Jobs PROVE current[j] \in 0..Len(channels[j])
    BY LenProperties DEF IInv, Typed, BusTyped
  <2>5. ASSUME NEW j \in Jobs
        PROVE  ender[j].pc \in {"none", "close", "retire", "discard", "forget", "over"}
    BY DEF IInv, Typed, LocalsTyped, EnderRecords
  <2>6. ASSUME NEW v \in Viewers
        PROVE  viewer[v].pc \in {"idle", "attach", "read", "poll", "retire", "discard", "fallback",
                                 "over", "gone"}
    BY DEF IInv, Typed, LocalsTyped, ViewerRecords, ViewerPcs
  <2> QED
    BY <2>1, <2>2, <2>3, <2>4, <2>5, <2>6 DEF TypeOK, IInv, Typed, TableTyped, BudgetTyped
<1>2. NoLineAfterNotice
  BY DEF IInv, NoLineAfterNotice, Notices, EndsAtNotice
<1>3. BacklogIsTracked /\ OrdersAreBounded
  BY DEF IInv, Typed, BudgetTyped, EvictionTyped, OrdersAreBounded
<1> QED
  BY <1>1, <1>2, <1>3 DEF BusIsSound

\* The invariant says that viewers see the log.
LEMMA ViewersFollow == IInv => ViewersSeeTheLog
<1> SUFFICES ASSUME IInv, NEW v \in Viewers
             PROVE  /\ LET j == viewer[v].job IN
                       viewer[v].pc = "over" /\ viewer[v].channel # 0 /\ row[j].status = "over" /\ j \notin late =>
                         \/ viewer[v].got = channels[j][viewer[v].channel].lines
                         \/ viewer[v].read = 0 /\ viewer[v].got = console[j]
                    /\ Distinct(viewer[v].got)
  BY DEF ViewersSeeTheLog, StreamIsDrained, NoLineTwice, Distinct
<1> DEFINE w == viewer[v]
<1>1. w \in ViewerRecords /\ ViewerIs(w) /\ w.channel \in Nat /\ w.read \in Nat
  BY DEF IInv, ViewerAt, Typed, LocalsTyped, ViewerRecords
<1>2. ASSUME NEW j \in Jobs PROVE Distinct(console[j])
  <2>1. Numbered(console[j])
    BY DEF IInv, Unique
  <2> QED
    BY <2>1 DEF Numbered, Distinct
<1>3. ASSUME w.channel # 0
      PROVE  /\ w.job \in Jobs /\ Seen(w) \in Seq(Entry) /\ w.read <= Len(Seen(w)) /\ Distinct(Seen(w))
  <2>1. w.job \in Jobs /\ w.channel <= Len(channels[w.job]) /\ w.read <= Len(Seen(w))
    BY <1>1, <1>3 DEF ViewerIs
  <2>2. channels[w.job] \in Seq(ChannelRecords) /\ Len(channels[w.job]) \in Nat
    BY <2>1, LenProperties DEF IInv, Typed, BusTyped
  <2>3. w.channel \in 1..Len(channels[w.job])
    BY <1>1, <1>3, <2>1, <2>2
  <2>4. channels[w.job][w.channel] \in ChannelRecords
    BY <2>2, <2>3, ElementOfSeq
  <2>5. Seen(w) \in Seq(Entry)
    BY <2>4 DEF Seen, ChannelRecords
  <2>6. Distinct(Seen(w))
    BY <2>1, <2>3 DEF Seen, IInv, Unique
  <2> QED
    BY <2>1, <2>5, <2>6
<1>4. Replayed(w) => w.got = console[w.job] /\ w.read = 0 /\ w.pc = "over" /\ w.job \in Jobs
  BY <1>1 DEF Replayed, ViewerIs
<1>5. Distinct(<< >>)
  BY DEF Distinct
<1>6. ASSUME w.channel # 0, w.got = SubSeq(Seen(w), 1, w.read) PROVE Distinct(w.got)
  <2>1. Seen(w) \in Seq(Entry) /\ Len(Seen(w)) \in Nat /\ w.read \in 0..Len(Seen(w)) /\ Distinct(Seen(w))
    <3>1. Seen(w) \in Seq(Entry) /\ w.read <= Len(Seen(w)) /\ w.read \in Nat /\ Distinct(Seen(w))
      BY <1>1, <1>3, <1>6
    <3>2. Len(Seen(w)) \in Nat
      BY <3>1, LenProperties
    <3> QED
      BY <3>1, <3>2
  <2>2. /\ Len(w.got) = w.read /\ w.read \in Nat
        /\ \A i \in 1..w.read : w.got[i] = Seen(w)[i]
    BY <1>6, <2>1, FrontOf
  <2>3. \A i \in 1..w.read : i \in 1..Len(Seen(w))
    BY <2>1
  <2> HIDE DEF w
  <2> QED
    BY <2>1, <2>2, <2>3 DEF Distinct
<1>7. Distinct(w.got)
  BY <1>1, <1>2, <1>4, <1>5, <1>6 DEF ViewerIs
<1>8. ASSUME w.pc = "over", w.channel # 0, w.job \notin late
      PROVE  w.got = Seen(w) \/ (w.read = 0 /\ w.got = console[w.job])
  <2>1. w.read = Len(Seen(w)) /\ (w.got = SubSeq(Seen(w), 1, w.read) \/ Replayed(w))
    BY <1>1, <1>8 DEF ViewerIs
  <2>2. SubSeq(Seen(w), 1, Len(Seen(w))) = Seen(w)
    BY <1>1, <1>3, <1>8, <2>1, Reading
  <2> HIDE DEF w
  <2> QED
    BY <1>4, <2>1, <2>2
<1> QED
  BY <1>7, <1>8 DEF Seen

\* The bus is sound for any jobs, posts, viewers, caps and bounds: no line
\* follows the notice that ended a live log, every backlog is in the eviction
\* order or in the hands of a request that is about to enter or discard it,
\* and neither order outgrows its bound (LiveLineBudget.admit, QueueLogBus).
THEOREM BusIsSoundHolds == Spec => []BusIsSound
  BY InvariantHolds, BusFollows, PTL

\* A stream that ran to its end gave its viewer every line of its channel, and
\* no viewer sees a line twice (QueueLogBus.stream and the console.log replay).
THEOREM ViewersSeeTheLogHolds == Spec => []ViewersSeeTheLog
  BY InvariantHolds, ViewersFollow, PTL
=============================================================================
