----------------------------- MODULE CrawlProofs -----------------------------
(***************************************************************************)
(* Theorems about Crawl, for any apps, budgets, lanes, faults and runs of  *)
(* one map: each operation of a known screen is in one place, a new screen *)
(* has one lane, what the map says of the app is true, and a crawl that    *)
(* says it completed explored what can be reached.                         *)
(*                                                                         *)
(* The invariant says where each operation is, in the map and the frontier *)
(* in memory and in those on disk; what each lane holds and where its      *)
(* device is; that a screen to be replayed has a path that leads there;    *)
(* how many lanes are in the middle of a step; and, while nothing was      *)
(* lost, that every operation and every screen an edge leads to is         *)
(* somewhere and why the crawl stops.                                      *)
(***************************************************************************)
EXTENDS Crawl, SequenceTheorems, FiniteSetTheorems, NaturalsInduction, WellFoundedInduction, TLAPS

----------------------------------------------------------------------------
(* Induction over the naturals, and what the operators on sequences compute *)

\* A set of naturals has a least element: induction, without an operator.
LEMMA Least ==
  ASSUME NEW S, S \subseteq Nat, S # {}
  PROVE \E n \in S : \A m \in S : n <= m
<1>1. PICK n \in S : \A m \in S : <<m, n>> \notin OpToRel(<, Nat)
  BY WFMin, NatLessThanWellFounded, Zenon
<1>2. \A m \in S : ~(m < n)
  BY <1>1, Zenon DEF OpToRel
<1> QED
  BY <1>2

\* f starts at e and takes step after step.
Stepwise(f, n, e, step) == f = [i \in 0..n |-> IF i = 0 THEN e ELSE step[i][f[i - 1]]]

\* A recursive function over the numbers up to n exists.
LEMMA Recursion ==
  ASSUME NEW n \in Nat, NEW R, NEW e \in R, NEW step \in [1..n -> [R -> R]]
  PROVE  \E f \in [0..n -> R] : Stepwise(f, n, e, step)
<1> DEFINE Up(f, k) == f = [i \in 0..k |-> IF i = 0 THEN e ELSE step[i][f[i - 1]]]
           Good(k) == \E f \in [0..k -> R] : Up(f, k)
           Bad == {k \in 0..n : ~Good(k)}
<1>1. Good(0)
  <2>1. [i \in 0..0 |-> e] \in [0..0 -> R] /\ Up([i \in 0..0 |-> e], 0)
    OBVIOUS
  <2> QED
    BY <2>1
<1>2. ASSUME NEW k \in 0..n, k # 0, Good(k - 1) PROVE Good(k)
  <2>1. PICK f \in [0..(k - 1) -> R] : Up(f, k - 1)
    BY <1>2
  <2> DEFINE g == [i \in 0..k |-> IF i = k THEN step[k][f[k - 1]] ELSE f[i]]
  <2>2. g \in [0..k -> R]
    BY <1>2
  <2>3. ASSUME NEW i \in 0..k PROVE g[i] = IF i = 0 THEN e ELSE step[i][g[i - 1]]
    <3>1. CASE i = k
      BY <1>2, <3>1
    <3>2. CASE i # k
      <4>1. i \in 0..(k - 1) /\ f[i] = IF i = 0 THEN e ELSE step[i][f[i - 1]]
        BY <2>1, <3>2
      <4> QED
        BY <3>2, <4>1
    <3> QED
      BY <3>1, <3>2
  <2> HIDE DEF g
  <2>4. Up(g, k)
    BY <2>2, <2>3
  <2> QED
    BY <2>2, <2>4
<1>3. Bad = {}
  <2> SUFFICES ASSUME Bad # {} PROVE FALSE
    OBVIOUS
  <2>1. PICK k \in Bad : \A m \in Bad : k <= m
    <3>1. Bad \subseteq Nat
      OBVIOUS
    <3> HIDE DEF Bad
    <3> QED
      BY <3>1, Least
  <2>2. k \in 0..n /\ k # 0
    <3> HIDE DEF Good
    <3> QED
      BY <1>1, <2>1
  <2>3. k - 1 \in 0..n /\ k - 1 \notin Bad
    <3> HIDE DEF Bad
    <3> QED
      BY <2>1, <2>2
  <2> QED
    BY <1>2, <2>1, <2>2, <2>3
<1>4. Good(n)
  <2> HIDE DEF Good
  <2> QED
    BY <1>3
<1> QED
  BY <1>4 DEF Stepwise

\* The screens are numbers, and what leads nowhere is none of them.
LEMMA Constants ==
  /\ Entry \in Screens /\ Screens \subseteq Nat /\ None \notin Screens
  /\ MaxErrors \in Nat \ {0} /\ MaxFaults \in Nat /\ MaxRuns \in Nat \ {0} /\ MaxLanes \in Nat
  BY CrawlAssumption DEF Entry, None

\* What a setup says.
LEMMA SetupIs ==
  ASSUME setup \in Setups
  PROVE  /\ setup.lanes \in Nat \ {0} /\ setup.screens \in Nat /\ setup.steps \in Nat
         /\ \A s \in Screens :
              /\ setup.ops[s] \in Seq(Ops) /\ OpsOf(s) \subseteq Ops
              /\ \A i, k \in 1..Len(setup.ops[s]) : setup.ops[s][i] = setup.ops[s][k] => i = k
              /\ \A a \in OpsOf(s) : setup.goes[s][a] \in Screens \union {None}
<1>1. /\ setup.lanes \in 1..MaxLanes /\ setup.screens \in Nat /\ setup.steps \in Nat
      /\ setup.ops \in [Screens -> Seq(Ops)]
  BY SetupAssumption, Zenon
<1>2. \A s \in Screens :
        /\ \A i, k \in 1..Len(setup.ops[s]) : setup.ops[s][i] = setup.ops[s][k] => i = k
        /\ \A a \in ToSet(setup.ops[s]) : setup.goes[s][a] \in Screens \union {None}
  BY SetupAssumption, Zenon
<1>3. setup.lanes \in Nat \ {0}
  BY <1>1, Constants
<1>4. \A s \in Screens : setup.ops[s] \in Seq(Ops)
  BY <1>1
<1>5. \A s \in Screens : OpsOf(s) \subseteq Ops
  BY <1>4 DEF OpsOf, ToSet
<1> QED
  BY <1>1, <1>2, <1>3, <1>4, <1>5 DEF OpsOf

\* A path's steps, computed from the front.
Walk(path, f) == f = [i \in 0..Len(path) |-> IF i = 0 THEN Entry ELSE After(f[i - 1], path[i])]

\* A walk along any path exists: it is defined by recursion over the path.
LEMMA WalkExists ==
  ASSUME setup \in Setups, NEW path \in Seq(Ops)
  PROVE  \E f \in [0..Len(path) -> Screens \union {None}] : Walk(path, f)
<1> DEFINE n == Len(path)
           R == Screens \union {None}
           step == [i \in 1..n |-> [s \in R |-> After(s, path[i])]]
<1>1. n \in Nat /\ Entry \in R
  BY Constants
<1>2. \A s \in R : \A a : After(s, a) \in R
  BY SetupIs DEF After
<1>3. step \in [1..n -> [R -> R]]
  BY <1>2
<1>4. PICK f \in [0..n -> R] : Stepwise(f, n, Entry, step)
  <2> HIDE DEF step, n, R
  <2> QED
    BY <1>1, <1>3, Recursion
<1>5. ASSUME NEW i \in 0..n PROVE f[i] = IF i = 0 THEN Entry ELSE After(f[i - 1], path[i])
  <2> SUFFICES ASSUME i # 0 PROVE f[i] = After(f[i - 1], path[i])
    <3> HIDE DEF step
    <3> QED
      BY <1>4 DEF Stepwise
  <2>1. f[i - 1] \in R /\ i \in 1..n
    BY <1>1
  <2>2. step[i][f[i - 1]] = After(f[i - 1], path[i])
    BY <2>1
  <2> HIDE DEF step
  <2> QED
    BY <1>4, <2>2 DEF Stepwise
<1>6. Walk(path, f)
  <2>1. f = [i \in 0..n |-> f[i]]
    BY <1>4
  <2> QED
    BY <1>5, <2>1 DEF Walk
<1> QED
  BY <1>6

\* Leads is where the walk ends.
LEMMA LeadsIs ==
  ASSUME setup \in Setups, NEW path \in Seq(Ops)
  PROVE  \E f : /\ Leads(path) = f[Len(path)] /\ f[0] = Entry
                /\ \A i \in 1..Len(path) : f[i] = After(f[i - 1], path[i])
<1> DEFINE f == CHOOSE h : Walk(path, h)
<1>1. Walk(path, f)
  BY WalkExists, Zenon
<1>2. Leads(path) = f[Len(path)]
  BY Zenon DEF Leads, Walk
<1> HIDE DEF f
<1>3. Len(path) \in Nat
  OBVIOUS
<1>4. \A i \in 0..Len(path) : f[i] = IF i = 0 THEN Entry ELSE After(f[i - 1], path[i])
  BY <1>1 DEF Walk
<1>5. f[0] = Entry
  BY <1>3, <1>4
<1>6. \A i \in 1..Len(path) : f[i] = After(f[i - 1], path[i])
  BY <1>3, <1>4
<1> QED
  BY <1>2, <1>5, <1>6

\* The empty path stays on the entry screen, one more operation goes on from
\* where the path led.
LEMMA LeadsOn ==
  ASSUME setup \in Setups, NEW path \in Seq(Ops), NEW a \in Ops
  PROVE  Leads(<< >>) = Entry /\ Leads(Append(path, a)) = After(Leads(path), a)
<1>1. Leads(<< >>) = Entry
  <2>1. << >> \in Seq(Ops) /\ Len(<< >>) = 0
    OBVIOUS
  <2> QED
    BY <2>1, LeadsIs
<1> DEFINE long == Append(path, a)
           n == Len(path)
<1>2. long \in Seq(Ops) /\ Len(long) = n + 1 /\ n \in Nat /\ long[n + 1] = a /\ \A i \in 1..n : long[i] = path[i]
  BY AppendProperties, LenProperties
<1>3. PICK f : Leads(path) = f[n] /\ f[0] = Entry /\ \A i \in 1..n : f[i] = After(f[i - 1], path[i])
  BY LeadsIs
<1> HIDE DEF long
<1>4. PICK g : Leads(long) = g[n + 1] /\ g[0] = Entry /\ \A i \in 1..(n + 1) : g[i] = After(g[i - 1], long[i])
  BY <1>2, LeadsIs
<1> DEFINE Bad == {i \in 0..n : g[i] # f[i]}
<1> HIDE DEF n
<1>5. Bad = {}
  <2> SUFFICES ASSUME Bad # {} PROVE FALSE
    OBVIOUS
  <2>1. PICK i \in Bad : \A m \in Bad : i <= m
    <3>1. Bad \subseteq Nat
      BY <1>2
    <3> HIDE DEF Bad
    <3> QED
      BY <3>1, Least
  <2>2. i \in 1..n
    BY <1>2, <1>3, <1>4, <2>1
  <2>3. i - 1 \in 0..n /\ i - 1 \notin Bad
    BY <1>2, <2>1, <2>2
  <2>4. g[i - 1] = f[i - 1]
    BY <2>3
  <2>5. g[i] = After(g[i - 1], long[i]) /\ f[i] = After(f[i - 1], path[i]) /\ long[i] = path[i]
    BY <1>2, <1>3, <1>4, <2>2
  <2> QED
    BY <2>1, <2>4, <2>5
<1>6. g[n] = f[n] /\ g[n + 1] = After(g[n], a)
  <2>1. n + 1 \in 1..(n + 1) /\ n + 1 - 1 = n /\ n \in 0..n
    BY <1>2
  <2> QED
    BY <1>2, <1>4, <1>5, <2>1
<1> QED
  BY <1>1, <1>3, <1>4, <1>6 DEF long

\* A path and one more operation.
LEMMA AppendIs ==
  ASSUME NEW path \in Seq(Ops), NEW a \in Ops
  PROVE  /\ Append(path, a) \in Seq(Ops) /\ Append(path, a) # << >>
         /\ Front(Append(path, a)) = path /\ Last(Append(path, a)) = a
<1> DEFINE long == Append(path, a)
<1>1. /\ long \in Seq(Ops) /\ Len(long) = Len(path) + 1 /\ Len(path) \in Nat
      /\ long[Len(path) + 1] = a /\ \A i \in 1..Len(path) : long[i] = path[i]
  BY AppendProperties, LenProperties
<1> HIDE DEF long
<1>2. Front(long) = SubSeq(long, 1, Len(path)) /\ Last(long) = a
  BY <1>1 DEF Front, Last
<1>3. SubSeq(long, 1, Len(path)) = path
  <2>1. /\ SubSeq(long, 1, Len(path)) \in Seq(Ops) /\ Len(SubSeq(long, 1, Len(path))) = Len(path)
        /\ \A i \in 1..Len(path) : SubSeq(long, 1, Len(path))[i] = long[i]
    BY <1>1, SubSeqProperties
  <2> QED
    BY <1>1, <2>1, SeqEqual
<1>4. long # << >>
  BY <1>1
<1> QED
  BY <1>1, <1>2, <1>3, <1>4 DEF long

\* A front of a sequence.
LEMMA FrontOf ==
  ASSUME NEW S, NEW s \in Seq(S), NEW k \in 0..Len(s)
  PROVE  /\ SubSeq(s, 1, k) \in Seq(S) /\ Len(SubSeq(s, 1, k)) = k /\ Len(s) \in Nat /\ k \in Nat
         /\ \A i \in 1..k : SubSeq(s, 1, k)[i] = s[i]
<1>1. Len(s) \in Nat /\ k \in Nat /\ \A i \in 1..k : s[i] \in S
  BY LenProperties, ElementOfSeq
<1> QED
  BY <1>1, SubSeqProperties

\* A path that is not empty is its front and its last operation.
LEMMA FrontIs ==
  ASSUME NEW path \in Seq(Ops), path # << >>
  PROVE  Front(path) \in Seq(Ops) /\ Last(path) \in Ops /\ Append(Front(path), Last(path)) = path
<1>1. Len(path) \in Nat /\ Len(path) # 0
  BY LenProperties, EmptySeq
<1>2. Last(path) \in Ops
  BY <1>1, ElementOfSeq DEF Last
<1>3. /\ Front(path) \in Seq(Ops) /\ Len(Front(path)) = Len(path) - 1
      /\ \A i \in 1..(Len(path) - 1) : Front(path)[i] = path[i]
  <2>1. Len(path) - 1 \in 0..Len(path)
    BY <1>1
  <2>2. Front(path) = SubSeq(path, 1, Len(path) - 1)
    BY DEF Front
  <2> QED
    BY <2>1, <2>2, FrontOf
<1> DEFINE long == Append(Front(path), Last(path))
<1>4. /\ long \in Seq(Ops) /\ Len(long) = Len(Front(path)) + 1 /\ long[Len(Front(path)) + 1] = Last(path)
      /\ \A i \in 1..Len(Front(path)) : long[i] = Front(path)[i]
  BY <1>2, <1>3, AppendProperties
<1> HIDE DEF long
<1>5. Last(path) = path[Len(path)]
  BY DEF Last
<1>6. Len(long) = Len(path) /\ \A i \in 1..Len(path) : long[i] = path[i]
  BY <1>1, <1>3, <1>4, <1>5
<1>7. long = path
  BY <1>4, <1>6, SeqEqual
<1> QED
  BY <1>2, <1>3, <1>7 DEF long

\* Another state of the same setup.
LEMMA SameSetup ==
  ASSUME setup' = setup
  PROVE  /\ \A path : Leads(path)' = Leads(path)
         /\ \A s : OpsOf(s)' = OpsOf(s)
<1>1. \A s : OpsOf(s)' = OpsOf(s)
  BY DEF OpsOf
<1>2. ASSUME NEW path PROVE Leads(path)' = Leads(path)
  BY DEF Leads, After, OpsOf
<1> QED
  BY <1>1, <1>2

----------------------------------------------------------------------------
(* The lists of operations *)

\* No operation is listed twice.
Once(s) == \A i, k \in 1..Len(s) : s[i] = s[k] => i = k

\* What is left of a list without some operations.
LEMMA WithoutGone ==
  ASSUME NEW order \in Seq(Ops), Once(order), NEW gone
  PROVE  /\ Without(order, gone) \in Seq(Ops)
         /\ ToSet(Without(order, gone)) = ToSet(order) \ gone
         /\ Once(Without(order, gone))
<1> DEFINE n == Len(order)
           Keep(f) == f = [i \in 0..n |-> IF i = 0 THEN << >>
                                          ELSE IF order[i] \in gone THEN f[i - 1]
                                               ELSE Append(f[i - 1], order[i])]
           step == [i \in 1..n |-> [x \in Seq(Ops) |-> IF order[i] \in gone THEN x ELSE Append(x, order[i])]]
<1>0. n \in Nat /\ \A i \in 1..n : order[i] \in Ops
  OBVIOUS
<1>2. step \in [1..n -> [Seq(Ops) -> Seq(Ops)]]
  BY <1>0
<1>3. PICK f \in [0..n -> Seq(Ops)] : Stepwise(f, n, << >>, step)
  <2>1. << >> \in Seq(Ops)
    OBVIOUS
  <2> HIDE DEF step, n
  <2> QED
    BY <1>0, <1>2, <2>1, Recursion
<1>4. Keep(f)
  <2>1. ASSUME NEW i \in 0..n
        PROVE  f[i] = IF i = 0 THEN << >>
                      ELSE IF order[i] \in gone THEN f[i - 1] ELSE Append(f[i - 1], order[i])
    <3> SUFFICES ASSUME i # 0
                 PROVE  f[i] = IF order[i] \in gone THEN f[i - 1] ELSE Append(f[i - 1], order[i])
      <4> HIDE DEF step
      <4> QED
        BY <1>3 DEF Stepwise
    <3>1. f[i - 1] \in Seq(Ops) /\ i \in 1..n
      BY <1>0
    <3>2. step[i][f[i - 1]] = IF order[i] \in gone THEN f[i - 1] ELSE Append(f[i - 1], order[i])
      BY <3>1
    <3> HIDE DEF step
    <3> QED
      BY <1>3, <3>2 DEF Stepwise
  <2> HIDE DEF step, n
  <2> QED
    <3>1. DOMAIN f = 0..n
      BY <1>3
    <3> QED
      BY <1>3, <2>1, <3>1 DEF Stepwise
<1> DEFINE s == CHOOSE h : Keep(h)
<1>5. Keep(s)
  BY <1>4, Zenon
<1>6. Without(order, gone) = s[n]
  BY Zenon DEF Without
<1>7. /\ DOMAIN s = 0..n
      /\ \A i \in 0..n : s[i] = IF i = 0 THEN << >>
                                ELSE IF order[i] \in gone THEN s[i - 1] ELSE Append(s[i - 1], order[i])
  <2> HIDE DEF s, n
  <2> QED
    BY <1>5
<1> HIDE DEF s
<1> DEFINE Right(i) == /\ s[i] \in Seq(Ops)
                       /\ {s[i][k] : k \in 1..Len(s[i])} = {order[k] : k \in 1..i} \ gone
                       /\ Once(s[i])
           Bad == {i \in 0..n : ~Right(i)}
<1>8. Right(0)
  <2>1. s[0] = << >>
    BY <1>0, <1>7
  <2>2. s[0] \in Seq(Ops) /\ Len(s[0]) = 0 /\ 1..0 = {}
    BY <2>1
  <2> QED
    BY <2>2 DEF Once
<1>9. ASSUME NEW i \in 0..n, i # 0, Right(i - 1) PROVE Right(i)
  <2>1. i - 1 \in Nat /\ i \in 1..n /\ order[i] \in Ops /\ 1..i = 1..(i - 1) \union {i}
    BY <1>0, <1>9
  <2>2. CASE order[i] \in gone
    <3>1. s[i] = s[i - 1]
      BY <1>7, <1>9, <2>2
    <3>2. {order[k] : k \in 1..i} \ gone = {order[k] : k \in 1..(i - 1)} \ gone
      BY <2>1, <2>2
    <3>3. {s[i][k] : k \in 1..Len(s[i])} = {order[k] : k \in 1..i} \ gone /\ s[i] \in Seq(Ops)
      BY <1>9, <3>1, <3>2
    <3> QED
      BY <1>9, <3>1, <3>3
  <2>3. CASE order[i] \notin gone
    <3> DEFINE t == s[i - 1]
    <3>1. s[i] = Append(t, order[i])
      BY <1>7, <1>9, <2>3
    <3>2. t \in Seq(Ops)
      BY <1>9
    <3> HIDE DEF t
    <3>3. /\ Len(s[i]) = Len(t) + 1 /\ s[i] \in Seq(Ops) /\ s[i][Len(t) + 1] = order[i]
          /\ \A k \in 1..Len(t) : s[i][k] = t[k]
          /\ Len(t) \in Nat /\ 1..(Len(t) + 1) = 1..Len(t) \union {Len(t) + 1}
      BY <2>1, <3>1, <3>2
    <3>4. {s[i][k] : k \in 1..Len(s[i])} = {t[k] : k \in 1..Len(t)} \union {order[i]}
      <4>1. 1..Len(s[i]) = 1..Len(t) \union {Len(t) + 1}
        BY <3>3
      <4>2. {s[i][k] : k \in 1..Len(s[i])} = {s[i][k] : k \in 1..Len(t)} \union {s[i][Len(t) + 1]}
        BY <4>1, Zenon
      <4>3. {s[i][k] : k \in 1..Len(t)} = {t[k] : k \in 1..Len(t)}
        BY <3>3, Zenon
      <4> QED
        BY <3>3, <4>2, <4>3, Zenon
    <3>5. {order[k] : k \in 1..i} \ gone = ({order[k] : k \in 1..(i - 1)} \ gone) \union {order[i]}
      BY <2>1, <2>3
    <3>6. {t[k] : k \in 1..Len(t)} = {order[k] : k \in 1..(i - 1)} \ gone
      BY <1>9 DEF t
    <3>7. Once(t) /\ \A k \in 1..Len(t) : t[k] # order[i]
      <4>1. \A k \in 1..(i - 1) : order[k] # order[i]
        BY <2>1, <1>0 DEF Once
      <4>2. \A k \in 1..Len(t) : t[k] \in {order[l] : l \in 1..(i - 1)}
        BY <3>6
      <4>3. Once(t)
        BY <1>9 DEF t
      <4> QED
        BY <4>1, <4>2, <4>3
    <3>8. {s[i][k] : k \in 1..Len(s[i])} = {order[k] : k \in 1..i} \ gone
      BY <3>4, <3>5, <3>6
    <3>9. Once(s[i])
      <4> HIDE DEF n
      <4> QED
        BY <3>3, <3>7 DEF Once
    <3> QED
      BY <3>3, <3>8, <3>9
  <2> QED
    BY <2>2, <2>3
<1>10. Bad = {}
  <2> SUFFICES ASSUME Bad # {} PROVE FALSE
    OBVIOUS
  <2>1. PICK i \in Bad : \A m \in Bad : i <= m
    <3>1. Bad \subseteq Nat
      BY <1>0
    <3> HIDE DEF Bad
    <3> QED
      BY <3>1, Least
  <2> HIDE DEF Right
  <2>2. i # 0 /\ i - 1 \in 0..n /\ i - 1 \notin Bad
    BY <1>0, <1>8, <2>1
  <2> QED
    BY <1>9, <2>1, <2>2
<1>11. Right(n)
  <2> HIDE DEF Right
  <2> QED
    BY <1>0, <1>10
<1>12. ToSet(s[n]) = {s[n][k] : k \in 1..Len(s[n])} /\ ToSet(order) = {order[k] : k \in 1..n}
  <2>1. s[n] \in Seq(Ops)
    BY <1>11
  <2> QED
    BY <2>1 DEF ToSet
<1> QED
  BY <1>6, <1>11, <1>12

\* A list is empty when it has no member.
LEMMA EmptyIs ==
  /\ ToSet(<< >>) = {} /\ Once(<< >>) /\ << >> \in Seq(Ops)
  /\ \A order \in Seq(Ops) : order # << >> => ToSet(order) # {}
<1>1. << >> \in Seq(Ops) /\ Len(<< >>) = 0 /\ DOMAIN << >> = 1..0 /\ 1..0 = {}
  OBVIOUS
<1>2. ASSUME NEW order \in Seq(Ops), order # << >> PROVE ToSet(order) # {}
  <2>1. DOMAIN order = 1..Len(order) /\ Len(order) \in Nat /\ Len(order) # 0
    BY <1>2, LenProperties, EmptySeq
  <2>2. order[1] \in ToSet(order)
    BY <2>1 DEF ToSet
  <2> QED
    BY <2>2
<1> QED
  BY <1>1, <1>2 DEF ToSet, Once

\* Reserving takes the first operation off a list.
LEMMA HeadIs ==
  ASSUME NEW order \in Seq(Ops), order # << >>, Once(order)
  PROVE  /\ Head(order) \in ToSet(order) /\ Head(order) \in Ops
         /\ Tail(order) \in Seq(Ops) /\ Once(Tail(order))
         /\ ToSet(Tail(order)) = ToSet(order) \ {Head(order)}
<1>1. /\ Len(order) \in Nat /\ Len(order) # 0 /\ Head(order) = order[1] /\ Tail(order) \in Seq(Ops)
      /\ Len(Tail(order)) = Len(order) - 1
      /\ \A i \in 1..Len(Tail(order)) : Tail(order)[i] = order[i + 1]
  BY LenProperties, EmptySeq, HeadTailProperties
<1> DEFINE rest == Tail(order)
           n == Len(order)
<1>2. ToSet(order) = {order[i] : i \in 1..n} /\ ToSet(rest) = {rest[i] : i \in 1..(n - 1)}
  <2>1. DOMAIN order = 1..n /\ DOMAIN rest = 1..(n - 1)
    BY <1>1
  <2> QED
    BY <2>1 DEF ToSet
<1>3. Head(order) \in ToSet(order) /\ order[1] \in Ops
  BY <1>1, <1>2
<1> HIDE DEF rest, n
<1>4. Once(rest)
  BY <1>1 DEF Once, rest, n
<1>5. ASSUME NEW a PROVE a \in ToSet(rest) <=> a \in ToSet(order) /\ a # Head(order)
  <2>1. ASSUME NEW i \in 1..(n - 1) PROVE rest[i] = order[i + 1] /\ rest[i] # order[1] /\ i + 1 \in 1..n
    BY <1>1 DEF Once, rest, n
  <2>2. ASSUME NEW i \in 1..n, order[i] # order[1] PROVE i - 1 \in 1..(n - 1) /\ rest[i - 1] = order[i]
    BY <1>1, <2>2 DEF rest, n
  <2> QED
    BY <1>1, <1>2, <2>1, <2>2
<1>6. ToSet(rest) = ToSet(order) \ {Head(order)}
  BY <1>5
<1> QED
  BY <1>1, <1>3, <1>4, <1>6 DEF rest

\* A hand-back puts an operation in front of a list.
LEMMA PushIs ==
  ASSUME NEW order \in Seq(Ops), Once(order), NEW a \in Ops, a \notin ToSet(order)
  PROVE  /\ <<a>> \o order \in Seq(Ops) /\ <<a>> \o order # << >> /\ Once(<<a>> \o order)
         /\ ToSet(<<a>> \o order) = ToSet(order) \union {a}
<1> DEFINE long == <<a>> \o order
           n == Len(order)
<1>1. /\ long \in Seq(Ops) /\ Len(long) = n + 1 /\ n \in Nat
      /\ \A i \in 1..(n + 1) : long[i] = IF i <= 1 THEN <<a>>[i] ELSE order[i - 1]
  <2>1. <<a>> \in Seq(Ops) /\ Len(<<a>>) = 1
    OBVIOUS
  <2> QED
    BY <2>1, ConcatProperties, LenProperties
<1>2. long[1] = a /\ \A i \in 2..(n + 1) : long[i] = order[i - 1]
  BY <1>1
<1>3. /\ ToSet(order) = {order[i] : i \in 1..n} /\ ToSet(long) = {long[i] : i \in 1..(n + 1)}
  <2>1. DOMAIN order = 1..n /\ DOMAIN long = 1..(n + 1)
    BY <1>1
  <2> QED
    BY <2>1 DEF ToSet
<1> HIDE DEF long, n
<1>4. \A i \in 1..n : order[i] # a
  BY <1>3
<1>5. ASSUME NEW i \in 1..(n + 1)
      PROVE  i = 1 \/ (i \in 2..(n + 1) /\ i - 1 \in 1..n /\ long[i] = order[i - 1] /\ long[i] # a)
  BY <1>1, <1>2, <1>4
<1>6. Once(long)
  <2> SUFFICES ASSUME NEW i \in 1..(n + 1), NEW k \in 1..(n + 1), long[i] = long[k] PROVE i = k
    BY <1>1 DEF Once
  <2>1. CASE i = 1 \/ k = 1
    BY <1>2, <1>5, <2>1
  <2>2. CASE i # 1 /\ k # 1
    <3>1. i - 1 \in 1..n /\ k - 1 \in 1..n /\ order[i - 1] = order[k - 1]
      BY <1>5, <2>2
    <3>2. i - 1 = k - 1
      BY <3>1 DEF Once, n
    <3> QED
      BY <1>1, <3>2
  <2> QED
    BY <2>1, <2>2
<1>7. ASSUME NEW b PROVE b \in ToSet(long) <=> b = a \/ b \in ToSet(order)
  <2>1. ASSUME NEW i \in 1..n PROVE i + 1 \in 1..(n + 1) /\ long[i + 1] = order[i]
    BY <1>1, <1>2
  <2>2. 1 \in 1..(n + 1)
    BY <1>1
  <2> QED
    BY <1>2, <1>3, <1>5, <2>1, <2>2
<1>8. long # << >>
  BY <1>1
<1> QED
  BY <1>1, <1>6, <1>7, <1>8 DEF long

\* What the operations of a screen are.
LEMMA OpsAre ==
  ASSUME setup \in Setups, NEW s \in Screens
  PROVE  setup.ops[s] \in Seq(Ops) /\ Once(setup.ops[s]) /\ ToSet(setup.ops[s]) = OpsOf(s) /\ OpsOf(s) \subseteq Ops
  BY SetupIs DEF Once, OpsOf

----------------------------------------------------------------------------
(* The inductive invariant *)

Screen == Screens \union {None}
LanePcs == {"build", "select", "wait", "walk", "heal", "discover", "over"}
Plans == [Screens -> Seq(Ops)]
Crashes == [src : Screens, path : Seq(Ops)]
Branches == [src : Screens, op : Ops, path : Seq(Ops)]
MainRecords == [pc : {"boot", "walk", "done", "raised"}, mode : {"fresh", "continue", "resume"},
                run : 1..MaxRuns, seed : Seq(Ops)]
MapRecords == [nodes : SUBSET Screens, paths : Plans, edges : SUBSET (Screens \X Ops \X Screens),
               crashes : SUBSET Crashes, pruned : SUBSET Branches, stop : Reasons,
               gone : SUBSET (Screens \X Ops)]
CoordRecords == [pathTo : Plans, pending : Plans, claimed : [Ops -> Screen], discovering : SUBSET Screens,
                 steps : Nat, active : Nat, stopped : BOOLEAN, failed : BOOLEAN]
LaneRecords == [pc : LanePcs, at : Screen, cur : Screen, errors : 0..MaxErrors, src : Screen,
                op : Ops \union {None}, path : Seq(Ops), replay : BOOLEAN]
AllLanes == 1..setup.lanes

Typed ==
  /\ setup \in Setups /\ main \in MainRecords /\ map \in MapRecords /\ coord \in CoordRecords
  /\ lane \in [AllLanes -> LaneRecords] /\ disk \in [map : MapRecords, plan : Plans]
  /\ faults \in 0..MaxFaults /\ hurt \in BOOLEAN

\* What a map says of the app, and that each of its operations is in one place.
Pruned(m) == {<<p.src, p.op>> : p \in m.pruned}
Settled(m) == Tried(m) \union m.gone
MapOk(m) ==
  /\ \A e \in m.edges : e[1] \in m.nodes /\ e[2] \in OpsOf(e[1]) /\ setup.goes[e[1]][e[2]] = e[3]
  /\ \A s \in m.nodes : Leads(m.paths[s]) = s
  /\ \A c \in m.crashes :
       /\ c.path # << >> /\ c.src \in m.nodes /\ Leads(Front(c.path)) = c.src
       /\ Last(c.path) \in OpsOf(c.src) /\ setup.goes[c.src][Last(c.path)] = None
  /\ \A p \in m.pruned :
       /\ p.path # << >> /\ p.src \in m.nodes /\ Leads(Front(p.path)) = p.src
       /\ Last(p.path) = p.op /\ p.op \in OpsOf(p.src)
  /\ \A p, q \in m.pruned : p.src = q.src /\ p.op = q.op => p = q
  /\ \A g \in m.gone : g[1] \in m.nodes
  /\ Settled(m) \intersect Pruned(m) = {}

\* What is planned is an operation of a known screen, once, and neither settled
\* nor pruned.
PlanOk(m, plan) == \A s \in Screens :
  /\ plan[s] # << >> => s \in m.nodes
  /\ Once(plan[s]) /\ ToSet(plan[s]) \subseteq OpsOf(s)
  /\ \A a \in ToSet(plan[s]) : <<s, a>> \notin Settled(m) \union Pruned(m)

\* Every operation of a known screen is somewhere.
Whole(m, plan, held) == \A s \in m.nodes : \A a \in OpsOf(s) :
  a \in ToSet(plan[s]) \/ <<s, a>> \in Settled(m) \union Pruned(m) \union held

\* The frontier's screens, and those a lane holds or discovers, can be replayed.
Reached(s) == Leads(coord.pathTo[s]) = s
Replayable == \A s \in Screens : coord.pending[s] # << >> => Reached(s)

Held(w) == <<lane[w].src, lane[w].op>>
WalkAt(w) ==
  lane[w].pc = "walk" =>
    /\ lane[w].src \in map.nodes /\ lane[w].op \in OpsOf(lane[w].src)
    /\ Reached(lane[w].src) /\ Leads(lane[w].path) = lane[w].src
    /\ ~lane[w].replay => lane[w].at = lane[w].src
    /\ lane[w].op \notin ToSet(coord.pending[lane[w].src])
    /\ Held(w) \notin Settled(map) \union Pruned(map)
    /\ \A v \in AllLanes \ {w} : lane[v].pc = "walk" => Held(v) # Held(w)
DiscoverAt(w) ==
  lane[w].pc = "discover" =>
    /\ lane[w].cur \in coord.discovering /\ Reached(lane[w].cur)
    /\ \A v \in AllLanes \ {w} : lane[v].pc = "discover" => lane[v].cur # lane[w].cur
LaneAt(w) ==
  /\ lane[w].at = lane[w].cur
  /\ lane[w].pc # "over" => lane[w].errors < MaxErrors
  /\ main.pc # "walk" \/ w \notin Lanes => lane[w].pc \in {"build", "over"}
LanesOk == \A w \in AllLanes : WalkAt(w) /\ DiscoverAt(w) /\ LaneAt(w)

\* The lanes that hold something, and those that may still take something.
Busy == {w \in AllLanes : lane[w].pc \in {"walk", "discover"}}
Ready == {w \in AllLanes : lane[w].pc \in {"build", "select", "wait", "heal"}}
Counts ==
  /\ coord.discovering \intersect map.nodes = {}
  /\ coord.steps <= setup.steps
  /\ Cardinality(Busy) <= coord.active /\ coord.active + Cardinality(Ready) <= setup.lanes
  /\ IsFiniteSet(map.nodes)
  /\ \/ map.nodes \subseteq {Entry} /\ Busy = {}
     \/ Cardinality(map.nodes) + Cardinality(Busy) < setup.screens + setup.lanes

\* The map on disk, and what a crawl starts from.
DiskOk ==
  /\ MapOk(disk.map) /\ PlanOk(disk.map, disk.plan) /\ map.nodes = disk.map.nodes
  /\ main.pc = "boot" => coord = NewCoord
  /\ main.pc = "boot" /\ main.mode = "fresh" => map = NewMap
  /\ main.pc = "boot" /\ main.mode = "continue" => map = disk.map
  /\ main.pc = "boot" /\ main.mode = "resume" =>
       \E p \in disk.map.pruned : main.seed = p.path /\ map = [disk.map EXCEPT !.pruned = @ \ {p}]
  /\ main.pc = "done" => map = disk.map

\* While nothing was lost: where every operation is, and why the crawl stops.
Discovering == {lane[w].cur : w \in {v \in AllLanes : lane[v].pc = "discover"}}
HeldNow == {Held(w) : w \in {v \in AllLanes : lane[v].pc = "walk"}}
Leaves(m) == {e[3] : e \in m.edges}
Unhurt ==
  /\ coord.failed => hurt
  /\ ~hurt =>
       /\ disk.map.stop = "completed" => disk.plan = NoFrontier
       /\ main.pc = "walk" =>
            /\ Whole(map, coord.pending, HeldNow)
            /\ Leaves(map) \subseteq map.nodes \union Discovering /\ coord.discovering \subseteq Discovering
            /\ map.stop = "completed" => Frontier = {} /\ Busy = {} /\ coord.stopped
       /\ main.pc # "walk" =>
            /\ Whole(disk.map, disk.plan, {}) /\ Leaves(disk.map) \subseteq disk.map.nodes

IInv ==
  /\ Typed /\ MapOk(map) /\ PlanOk(map, coord.pending) /\ Replayable
  /\ LanesOk /\ Counts /\ DiskOk /\ Unhurt

\* The same facts of another state of the same setup.
LEMMA Primed ==
  ASSUME setup' = setup
  PROVE  /\ MapOk(map)' <=> MapOk(map')
         /\ MapOk(disk.map)' <=> MapOk(disk'.map)
         /\ PlanOk(map, coord.pending)' <=> PlanOk(map', coord'.pending)
         /\ PlanOk(disk.map, disk.plan)' <=> PlanOk(disk'.map, disk'.plan)
         /\ Whole(map, coord.pending, HeldNow)' <=> Whole(map', coord'.pending, HeldNow')
         /\ Whole(disk.map, disk.plan, {})' <=> Whole(disk'.map, disk'.plan, {})
<1>1. \A path : Leads(path)' = Leads(path)
  BY SameSetup
<1>2. \A s : OpsOf(s)' = OpsOf(s)
  BY SameSetup
<1>3. MapOk(map)' <=> MapOk(map')
  BY <1>1, <1>2 DEF MapOk, Settled, Tried, Pruned
<1>4. MapOk(disk.map)' <=> MapOk(disk'.map)
  BY <1>1, <1>2 DEF MapOk, Settled, Tried, Pruned
<1>5. PlanOk(map, coord.pending)' <=> PlanOk(map', coord'.pending)
  BY <1>2 DEF PlanOk, Settled, Tried, Pruned
<1>6. PlanOk(disk.map, disk.plan)' <=> PlanOk(disk'.map, disk'.plan)
  BY <1>2 DEF PlanOk, Settled, Tried, Pruned
<1>7. Whole(map, coord.pending, HeldNow)' <=> Whole(map', coord'.pending, HeldNow')
  BY <1>2 DEF Whole, Settled, Tried, Pruned
<1>8. Whole(disk.map, disk.plan, {})' <=> Whole(disk'.map, disk'.plan, {})
  BY <1>2 DEF Whole, Settled, Tried, Pruned
<1> QED
  BY <1>3, <1>4, <1>5, <1>6, <1>7, <1>8

----------------------------------------------------------------------------
(* What a step writes on a map *)

\* A map that says the same of its screens but for the reason it stopped.
SameMap(m, k) ==
  /\ k.nodes = m.nodes /\ k.paths = m.paths /\ k.edges = m.edges /\ k.crashes = m.crashes
  /\ k.pruned = m.pruned /\ k.gone = m.gone

\* Only the reason changes: all else the map says stays.
LEMMA MapKept ==
  ASSUME NEW m, NEW k, SameMap(m, k)
  PROVE  /\ MapOk(m) => MapOk(k)
         /\ Settled(k) = Settled(m) /\ Pruned(k) = Pruned(m) /\ Leaves(k) = Leaves(m) /\ k.nodes = m.nodes
  BY DEF SameMap, MapOk, Settled, Tried, Pruned, Leaves

\* Operations no device could reach.
LEMMA MapGone ==
  ASSUME NEW m, NEW k, NEW G, MapOk(m),
         k.nodes = m.nodes, k.paths = m.paths, k.edges = m.edges, k.crashes = m.crashes, k.pruned = m.pruned,
         k.gone = m.gone \union G, \A g \in G : g[1] \in m.nodes, G \intersect Pruned(m) = {}
  PROVE  /\ MapOk(k)
         /\ Settled(k) = Settled(m) \union G /\ Pruned(k) = Pruned(m) /\ Leaves(k) = Leaves(m)
<1>1. Settled(k) = Settled(m) \union G /\ Pruned(k) = Pruned(m) /\ Leaves(k) = Leaves(m)
  BY DEF Settled, Tried, Pruned, Leaves
<1>2. Settled(k) \intersect Pruned(k) = {}
  BY <1>1 DEF MapOk
<1> QED
  BY <1>1, <1>2 DEF MapOk

\* An operation that led to a screen.
LEMMA MapEdge ==
  ASSUME NEW m, NEW k, NEW s, NEW a, NEW d, MapOk(m),
         k.nodes = m.nodes, k.paths = m.paths, k.edges = m.edges \union {<<s, a, d>>}, k.crashes = m.crashes,
         k.pruned = m.pruned, k.gone = m.gone,
         s \in m.nodes, a \in OpsOf(s), setup.goes[s][a] = d, <<s, a>> \notin Pruned(m)
  PROVE  /\ MapOk(k)
         /\ Settled(k) = Settled(m) \union {<<s, a>>} /\ Pruned(k) = Pruned(m)
         /\ Leaves(k) = Leaves(m) \union {d}
<1> DEFINE r == <<s, a, d>>
<1>0. r[1] = s /\ r[2] = a /\ r[3] = d
  OBVIOUS
<1> HIDE DEF r
<1>1. Settled(k) = Settled(m) \union {<<s, a>>} /\ Pruned(k) = Pruned(m) /\ Leaves(k) = Leaves(m) \union {d}
  <2>1. Tried(k) = Tried(m) \union {<<s, a>>}
    BY <1>0 DEF Tried, r
  <2>2. Leaves(k) = Leaves(m) \union {d}
    BY <1>0 DEF Leaves, r
  <2> QED
    BY <2>1, <2>2 DEF Settled, Pruned
<1>2. Settled(k) \intersect Pruned(k) = {}
  BY <1>1 DEF MapOk
<1>3. \A e \in k.edges : e[1] \in k.nodes /\ e[2] \in OpsOf(e[1]) /\ setup.goes[e[1]][e[2]] = e[3]
  BY <1>0 DEF MapOk, r
<1> QED
  BY <1>1, <1>2, <1>3 DEF MapOk

\* An operation the app collapsed on.
LEMMA MapCrash ==
  ASSUME NEW m, NEW k, NEW s, NEW a, NEW path, MapOk(m),
         k.nodes = m.nodes, k.paths = m.paths, k.edges = m.edges,
         k.crashes = m.crashes \union {[src |-> s, path |-> path]},
         k.pruned = m.pruned, k.gone = m.gone,
         s \in m.nodes, a \in OpsOf(s), setup.goes[s][a] = None, <<s, a>> \notin Pruned(m),
         path # << >>, Last(path) = a, Leads(Front(path)) = s
  PROVE  /\ MapOk(k)
         /\ Settled(k) = Settled(m) \union {<<s, a>>} /\ Pruned(k) = Pruned(m) /\ Leaves(k) = Leaves(m)
<1> DEFINE r == [src |-> s, path |-> path]
<1>0. r.src = s /\ r.path = path
  OBVIOUS
<1> HIDE DEF r
<1>1. Settled(k) = Settled(m) \union {<<s, a>>} /\ Pruned(k) = Pruned(m) /\ Leaves(k) = Leaves(m)
  BY <1>0 DEF Settled, Tried, Pruned, Leaves, r
<1>2. Settled(k) \intersect Pruned(k) = {}
  BY <1>1 DEF MapOk
<1>3. \A c \in k.crashes :
       /\ c.path # << >> /\ c.src \in k.nodes /\ Leads(Front(c.path)) = c.src
       /\ Last(c.path) \in OpsOf(c.src) /\ setup.goes[c.src][Last(c.path)] = None
  BY <1>0 DEF MapOk, r
<1> QED
  BY <1>1, <1>2, <1>3 DEF MapOk

\* What another screen owns of a new one is recorded with the path to it.
Branched(s, path, T) == {[src |-> s, op |-> a, path |-> Append(path, a)] : a \in T}
NotedAs(m, k, s, path, T) ==
  /\ k.nodes = m.nodes \union {s} /\ k.edges = m.edges /\ k.crashes = m.crashes
  /\ k.paths[s] = path /\ \A z \in Screens \ {s} : k.paths[z] = m.paths[z]
  /\ k.pruned = m.pruned \union Branched(s, path, T) /\ k.gone = m.gone

Owned(m, k, s, T) == Pruned(k) = Pruned(m) \union ({s} \X T)

\* A new screen, with what another one owns of it.
LEMMA MapNoted ==
  ASSUME NEW m \in MapRecords, NEW k, NEW s \in Screens, NEW T, NEW path \in Seq(Ops), MapOk(m), setup \in Setups,
         NotedAs(m, k, s, path, T), s \notin m.nodes, Leads(path) = s, T \subseteq OpsOf(s)
  PROVE  /\ MapOk(k)
         /\ Settled(k) = Settled(m) /\ Owned(m, k, s, T) /\ Leaves(k) = Leaves(m)
         /\ \A x \in Settled(m) \union Pruned(m) : x[1] \in m.nodes
<1>a. /\ k.nodes = m.nodes \union {s} /\ k.edges = m.edges /\ k.crashes = m.crashes
      /\ k.paths[s] = path /\ \A z \in Screens \ {s} : k.paths[z] = m.paths[z]
      /\ k.pruned = m.pruned \union Branched(s, path, T) /\ k.gone = m.gone
  BY DEF NotedAs
<1> DEFINE r(a) == [src |-> s, op |-> a, path |-> Append(path, a)]
           new == {r(a) : a \in T}
<1>0. \A a \in T : r(a).src = s /\ r(a).op = a /\ r(a).path = Append(path, a)
  OBVIOUS
<1>1. \A a \in T : a \in Ops /\ r(a).path # << >> /\ Front(r(a).path) = path /\ Last(r(a).path) = a
  <2>1. \A a \in T : a \in Ops
    BY OpsAre
  <2> QED
    BY <2>1, AppendIs
<1>2. k.pruned = m.pruned \union new
  BY <1>a DEF Branched
<1> HIDE DEF r
<1>3. Settled(k) = Settled(m) /\ Leaves(k) = Leaves(m)
  BY <1>a DEF Settled, Tried, Leaves
<1>4. Pruned(k) = Pruned(m) \union ({s} \X T)
  <2>1. {<<p.src, p.op>> : p \in new} = {s} \X T
    BY <1>0
  <2> HIDE DEF new
  <2> QED
    BY <1>2, <2>1 DEF Pruned
<1>5. \A x \in Settled(m) \union Pruned(m) : x[1] \in m.nodes
  <2>1. \A x \in Tried(m) : x[1] \in m.nodes
    BY DEF MapOk, Tried
  <2>2. \A x \in Pruned(m) : x[1] \in m.nodes
    BY DEF MapOk, Pruned
  <2> QED
    BY <2>1, <2>2 DEF MapOk, Settled
<1>6. \A p \in new :
       /\ p.path # << >> /\ p.src = s /\ Leads(Front(p.path)) = p.src
       /\ Last(p.path) = p.op /\ p.op \in OpsOf(p.src) /\ p = r(p.op)
  BY <1>0, <1>1
<1> HIDE DEF new
<1>7. \A p, q \in k.pruned : p.src = q.src /\ p.op = q.op => p = q
  <2> SUFFICES ASSUME NEW p \in k.pruned, NEW q \in k.pruned, p.src = q.src, p.op = q.op PROVE p = q
    OBVIOUS
  <2>1. CASE p \in m.pruned /\ q \in m.pruned
    BY <2>1 DEF MapOk
  <2>2. CASE p \in new /\ q \in new
    BY <1>6, <2>2
  <2>3. \A z \in m.pruned : z.src # s
    BY DEF MapOk
  <2> QED
    BY <1>2, <1>6, <2>1, <2>2, <2>3
<1>8. Settled(k) \intersect Pruned(k) = {}
  BY <1>3, <1>4, <1>5 DEF MapOk
<1>9. \A z \in k.nodes : Leads(k.paths[z]) = z
  <2>1. m.nodes \subseteq Screens
    BY DEF MapRecords
  <2> QED
    BY <1>a, <2>1 DEF MapOk
<1>10. \A p \in k.pruned :
       /\ p.path # << >> /\ p.src \in k.nodes /\ Leads(Front(p.path)) = p.src
       /\ Last(p.path) = p.op /\ p.op \in OpsOf(p.src)
  BY <1>a, <1>2, <1>6 DEF MapOk
<1>11. /\ \A e \in k.edges : e[1] \in k.nodes /\ e[2] \in OpsOf(e[1]) /\ setup.goes[e[1]][e[2]] = e[3]
       /\ \A c \in k.crashes :
            /\ c.path # << >> /\ c.src \in k.nodes /\ Leads(Front(c.path)) = c.src
            /\ Last(c.path) \in OpsOf(c.src) /\ setup.goes[c.src][Last(c.path)] = None
       /\ \A g \in k.gone : g[1] \in k.nodes
  BY <1>a DEF MapOk
<1>12. MapOk(k)
  BY <1>7, <1>8, <1>9, <1>10, <1>11 DEF MapOk
<1> QED
  BY <1>3, <1>4, <1>5, <1>12 DEF Owned

\* One pruned branch is taken up.
LEMMA MapResumed ==
  ASSUME NEW m \in MapRecords, NEW p \in m.pruned, MapOk(m), NEW k,
         k.nodes = m.nodes, k.paths = m.paths, k.edges = m.edges, k.crashes = m.crashes,
         k.pruned = m.pruned \ {p}, k.gone = m.gone
  PROVE  /\ MapOk(k)
         /\ Settled(k) = Settled(m) /\ Pruned(k) \subseteq Pruned(m) /\ Leaves(k) = Leaves(m)
         /\ <<p.src, p.op>> \notin Settled(k) \union Pruned(k)
         /\ p.src \in k.nodes /\ p.op \in OpsOf(p.src) /\ p.path \in Seq(Ops)
         /\ Leads(Front(p.path)) = p.src /\ Last(p.path) = p.op /\ Front(p.path) \in Seq(Ops) /\ p.op \in Ops
<1>1. Settled(k) = Settled(m) /\ Pruned(k) \subseteq Pruned(m) /\ Leaves(k) = Leaves(m)
  BY DEF Settled, Tried, Pruned, Leaves
<1>2. MapOk(k)
  BY <1>1 DEF MapOk
<1>3. <<p.src, p.op>> \in Pruned(m)
  BY DEF Pruned
<1>4. <<p.src, p.op>> \notin Settled(k)
  BY <1>1, <1>3 DEF MapOk
<1>5. <<p.src, p.op>> \notin Pruned(k)
  BY DEF MapOk, Pruned
<1>6. /\ p.src \in k.nodes /\ p.op \in OpsOf(p.src) /\ p.path # << >>
      /\ Leads(Front(p.path)) = p.src /\ Last(p.path) = p.op
  BY DEF MapOk
<1>7. p.path \in Seq(Ops) /\ p.op \in Ops
  BY DEF MapRecords, Branches
<1>8. Front(p.path) \in Seq(Ops)
  BY <1>6, <1>7, FrontIs
<1> QED
  BY <1>1, <1>2, <1>4, <1>5, <1>6, <1>7, <1>8

\* A plan that loses operations is a plan of a map that settled them.
LEMMA PlanSettles ==
  ASSUME NEW m, NEW k, NEW G, NEW plan \in Plans, NEW less \in Plans, PlanOk(m, plan),
         k.nodes = m.nodes, Settled(k) = Settled(m) \union G, Pruned(k) = Pruned(m),
         \A s \in Screens : /\ Once(less[s]) /\ ToSet(less[s]) \subseteq ToSet(plan[s])
                            /\ \A a \in ToSet(less[s]) : <<s, a>> \notin G
  PROVE  PlanOk(k, less)
<1> SUFFICES ASSUME NEW s \in Screens
             PROVE  /\ less[s] # << >> => s \in k.nodes
                    /\ Once(less[s]) /\ ToSet(less[s]) \subseteq OpsOf(s)
                    /\ \A a \in ToSet(less[s]) : <<s, a>> \notin Settled(k) \union Pruned(k)
  BY DEF PlanOk
<1>1. /\ plan[s] # << >> => s \in m.nodes
      /\ ToSet(plan[s]) \subseteq OpsOf(s)
      /\ \A a \in ToSet(plan[s]) : <<s, a>> \notin Settled(m) \union Pruned(m)
  BY DEF PlanOk
<1>2. less[s] # << >> => plan[s] # << >>
  <2>1. less[s] \in Seq(Ops) /\ plan[s] \in Seq(Ops)
    BY DEF Plans
  <2> QED
    BY <2>1, EmptyIs
<1> QED
  BY <1>1, <1>2

----------------------------------------------------------------------------
(* What a step writes on the lanes *)

\* A lane the others woke, or left alone.
Woken(l, k) == k = l \/ (l.pc = "wait" /\ k = [l EXCEPT !.pc = "select"])
Others(w) == \A v \in AllLanes \ {w} : Woken(lane[v], lane'[v])

\* A lane takes a step: where it is then, on which screen, after how many errors.
Moves(w, p, s, e) ==
  /\ lane' \in [AllLanes -> LaneRecords] /\ Others(w)
  /\ lane'[w].pc = p /\ lane'[w].at = s /\ lane'[w].cur = s /\ lane'[w].errors = e

\* Waking a lane changes where it is alone.
LEMMA WokenIs ==
  ASSUME NEW l \in LaneRecords, NEW k, Woken(l, k)
  PROVE  /\ k \in LaneRecords /\ k.at = l.at /\ k.cur = l.cur /\ k.errors = l.errors /\ k.src = l.src
         /\ k.op = l.op /\ k.path = l.path /\ k.replay = l.replay
         /\ \/ k.pc = l.pc
            \/ l.pc = "wait" /\ k.pc = "select"
<1>1. CASE k = l
  BY <1>1
<1>2. CASE l.pc = "wait" /\ k = [l EXCEPT !.pc = "select"]
  BY <1>2 DEF LaneRecords, LanePcs
<1> QED
  BY <1>1, <1>2 DEF Woken

\* notify_all wakes who waits.
LEMMA NotifiedIs ==
  ASSUME NEW l \in [AllLanes -> LaneRecords]
  PROVE  /\ Notified(l) \in [AllLanes -> LaneRecords]
         /\ \A v \in AllLanes : Woken(l[v], Notified(l)[v])
         /\ \A v \in AllLanes : l[v].pc # "wait" => Notified(l)[v] = l[v]
<1>1. ASSUME NEW v \in AllLanes
      PROVE  Notified(l)[v] = IF l[v].pc = "wait" THEN [l[v] EXCEPT !.pc = "select"] ELSE l[v]
  BY DEF Notified
<1>2. \A v \in AllLanes : Woken(l[v], Notified(l)[v])
  BY <1>1 DEF Woken
<1>3. \A v \in AllLanes : Notified(l)[v] \in LaneRecords
  BY <1>2, WokenIs
<1>4. Notified(l) = [v \in AllLanes |-> Notified(l)[v]]
  BY DEF Notified
<1> QED
  BY <1>1, <1>2, <1>3, <1>4

\* One field of one lane.
LEMMA PcWritten ==
  ASSUME NEW l \in [AllLanes -> LaneRecords], NEW w \in AllLanes, NEW p \in LanePcs,
         NEW k, k = [l EXCEPT ![w].pc = p]
  PROVE  /\ k \in [AllLanes -> LaneRecords] /\ \A v \in AllLanes \ {w} : k[v] = l[v]
         /\ k[w].pc = p /\ k[w].at = l[w].at /\ k[w].cur = l[w].cur /\ k[w].errors = l[w].errors
<1>1. k[w] = [l[w] EXCEPT !.pc = p] /\ \A v \in AllLanes \ {w} : k[v] = l[v]
  OBVIOUS
<1>2. l[w] \in LaneRecords
  OBVIOUS
<1>3. /\ k[w] \in LaneRecords
      /\ k[w].pc = p /\ k[w].at = l[w].at /\ k[w].cur = l[w].cur /\ k[w].errors = l[w].errors
  BY <1>1, <1>2 DEF LaneRecords
<1> QED
  BY <1>1, <1>3

\* Another field of one lane.
LEMMA ErrorsWritten ==
  ASSUME NEW l \in [AllLanes -> LaneRecords], NEW w \in AllLanes, NEW n \in 0..MaxErrors,
         NEW k, k = [l EXCEPT ![w].errors = n]
  PROVE  /\ k \in [AllLanes -> LaneRecords] /\ \A v \in AllLanes \ {w} : k[v] = l[v]
         /\ k[w].pc = l[w].pc /\ k[w].at = l[w].at /\ k[w].cur = l[w].cur /\ k[w].errors = n
<1>1. k[w] = [l[w] EXCEPT !.errors = n] /\ \A v \in AllLanes \ {w} : k[v] = l[v]
  OBVIOUS
<1>2. l[w] \in LaneRecords
  OBVIOUS
<1>3. /\ k[w] \in LaneRecords
      /\ k[w].pc = l[w].pc /\ k[w].at = l[w].at /\ k[w].cur = l[w].cur /\ k[w].errors = n
  BY <1>1, <1>2 DEF LaneRecords
<1> QED
  BY <1>1, <1>3

\* A lane that let go of what it held.
LEMMA FreedIs ==
  ASSUME lane \in [AllLanes -> LaneRecords], NEW w \in AllLanes, NEW s \in Screen
  PROVE  /\ Freed(w, s) \in [AllLanes -> LaneRecords] /\ \A v \in AllLanes \ {w} : Freed(w, s)[v] = lane[v]
         /\ Freed(w, s)[w].pc = "select" /\ Freed(w, s)[w].at = s /\ Freed(w, s)[w].cur = s
         /\ Freed(w, s)[w].errors = lane[w].errors
<1> DEFINE k == Freed(w, s)
           r == [pc |-> "select", at |-> s, cur |-> s, errors |-> lane[w].errors,
                 src |-> None, op |-> None, path |-> << >>, replay |-> FALSE]
<1>1. lane[w] \in LaneRecords
  OBVIOUS
<1>2. \A v \in AllLanes \ {w} : k[v] = lane[v]
  BY DEF Freed
<1>3. k[w] = r
  <2>1. k[w] = [lane[w] EXCEPT !.pc = "select", !.at = s, !.cur = s, !.src = None,
                               !.op = None, !.path = <<>>, !.replay = FALSE]
    BY DEF Freed
  <2> QED
    BY <1>1, <2>1 DEF LaneRecords
<1>4. r \in LaneRecords
  <2>1. lane[w].errors \in 0..MaxErrors /\ None \in Screen /\ << >> \in Seq(Ops)
    BY <1>1 DEF LaneRecords, Screen
  <2> QED
    BY <2>1 DEF LaneRecords, LanePcs
<1>5. k \in [AllLanes -> LaneRecords]
  <2>1. k = [v \in AllLanes |-> k[v]]
    BY DEF Freed
  <2>2. \A v \in AllLanes : k[v] \in LaneRecords
    BY <1>2, <1>3, <1>4
  <2> HIDE DEF k
  <2> QED
    BY <2>1, <2>2
<1> QED
  BY <1>2, <1>3, <1>5

\* A step that leaves the lane on its screen.
LEMMA StayingMoves ==
  ASSUME lane \in [AllLanes -> LaneRecords], NEW w \in AllLanes, LaneAt(w), NEW p \in LanePcs,
         \/ lane' = [lane EXCEPT ![w].pc = p]
         \/ lane[w].pc # "wait" /\ lane' = [Notified(lane) EXCEPT ![w].pc = p]
  PROVE  Moves(w, p, lane[w].cur, lane[w].errors)
<1>1. CASE lane' = [lane EXCEPT ![w].pc = p]
  <2>1. /\ lane' \in [AllLanes -> LaneRecords] /\ \A v \in AllLanes \ {w} : lane'[v] = lane[v]
        /\ lane'[w].pc = p /\ lane'[w].at = lane[w].at /\ lane'[w].cur = lane[w].cur
        /\ lane'[w].errors = lane[w].errors
    BY <1>1, PcWritten
  <2> QED
    BY <2>1 DEF Moves, Others, Woken, LaneAt
<1>2. CASE lane[w].pc # "wait" /\ lane' = [Notified(lane) EXCEPT ![w].pc = p]
  <2> DEFINE l == Notified(lane)
  <2>1. l \in [AllLanes -> LaneRecords] /\ l[w] = lane[w] /\ \A v \in AllLanes : Woken(lane[v], l[v])
    BY <1>2, NotifiedIs
  <2> HIDE DEF l
  <2>2. lane' = [l EXCEPT ![w].pc = p]
    BY <1>2 DEF l
  <2>3. /\ lane' \in [AllLanes -> LaneRecords] /\ \A v \in AllLanes \ {w} : lane'[v] = l[v]
        /\ lane'[w].pc = p /\ lane'[w].at = l[w].at /\ lane'[w].cur = l[w].cur
        /\ lane'[w].errors = l[w].errors
    BY <2>1, <2>2, PcWritten
  <2> QED
    BY <2>1, <2>3 DEF Moves, Others, LaneAt
<1> QED
  BY <1>1, <1>2

\* A step that lets go of what the lane held.
LEMMA FreeingMoves ==
  ASSUME lane \in [AllLanes -> LaneRecords], NEW w \in AllLanes, NEW p \in LanePcs, NEW s \in Screen,
         NEW n \in 0..MaxErrors,
         \/ lane' = Notified(Freed(w, s)) /\ p = "select" /\ n = lane[w].errors
         \/ lane' = [Notified(Freed(w, s)) EXCEPT ![w].errors = n] /\ p = "select"
         \/ lane' = [Notified(Freed(w, s)) EXCEPT ![w].errors = n, ![w].pc = p]
         \/ lane' = [Freed(w, s) EXCEPT ![w].pc = p, ![w].errors = n]
  PROVE  Moves(w, p, s, n)
<1> DEFINE f == Freed(w, s)
           l == Notified(f)
<1>1. /\ f \in [AllLanes -> LaneRecords] /\ \A v \in AllLanes \ {w} : f[v] = lane[v]
      /\ f[w].pc = "select" /\ f[w].at = s /\ f[w].cur = s /\ f[w].errors = lane[w].errors
  BY FreedIs
<1> HIDE DEF f
<1>2. /\ l \in [AllLanes -> LaneRecords] /\ \A v \in AllLanes : Woken(f[v], l[v])
      /\ l[w] = f[w]
  BY <1>1, NotifiedIs
<1> HIDE DEF l
<1>3. \A v \in AllLanes \ {w} : Woken(lane[v], l[v]) /\ Woken(lane[v], f[v])
  BY <1>1, <1>2 DEF Woken
<1>4. CASE lane' = l /\ p = "select" /\ n = lane[w].errors
  BY <1>1, <1>2, <1>3, <1>4 DEF Moves, Others
<1>5. CASE lane' = [l EXCEPT ![w].errors = n] /\ p = "select"
  <2>1. /\ lane' \in [AllLanes -> LaneRecords] /\ \A v \in AllLanes \ {w} : lane'[v] = l[v]
        /\ lane'[w].pc = "select" /\ lane'[w].at = s /\ lane'[w].cur = s /\ lane'[w].errors = n
    BY <1>1, <1>2, <1>5, ErrorsWritten
  <2> QED
    BY <1>3, <1>5, <2>1 DEF Moves, Others
<1>6. CASE lane' = [l EXCEPT ![w].errors = n, ![w].pc = p]
  <2> DEFINE g == [l EXCEPT ![w].errors = n]
  <2>0. g = [l EXCEPT ![w].errors = n] /\ lane' = [g EXCEPT ![w].pc = p]
    BY <1>6
  <2> HIDE DEF g
  <2>1. /\ g \in [AllLanes -> LaneRecords] /\ \A v \in AllLanes \ {w} : g[v] = l[v]
        /\ g[w].at = s /\ g[w].cur = s /\ g[w].errors = n
    <3>1. /\ g \in [AllLanes -> LaneRecords] /\ \A v \in AllLanes \ {w} : g[v] = l[v]
          /\ g[w].at = l[w].at /\ g[w].cur = l[w].cur /\ g[w].errors = n
      BY <1>2, <2>0, ErrorsWritten
    <3> QED
      BY <1>1, <1>2, <3>1
  <2>2. /\ lane' \in [AllLanes -> LaneRecords] /\ \A v \in AllLanes \ {w} : lane'[v] = g[v]
        /\ lane'[w].pc = p /\ lane'[w].at = s /\ lane'[w].cur = s /\ lane'[w].errors = n
    <3>1. g \in [AllLanes -> LaneRecords] /\ lane' = [g EXCEPT ![w].pc = p]
      BY <2>0, <2>1
    <3>2. /\ lane' \in [AllLanes -> LaneRecords] /\ \A v \in AllLanes \ {w} : lane'[v] = g[v]
          /\ lane'[w].pc = p /\ lane'[w].at = g[w].at /\ lane'[w].cur = g[w].cur /\ lane'[w].errors = g[w].errors
      BY <3>1, PcWritten
    <3> QED
      BY <2>1, <3>2
  <2> QED
    BY <1>3, <2>1, <2>2 DEF Moves, Others
<1>7. CASE lane' = [f EXCEPT ![w].pc = p, ![w].errors = n]
  <2> DEFINE g == [f EXCEPT ![w].pc = p]
  <2>0. g = [f EXCEPT ![w].pc = p] /\ lane' = [g EXCEPT ![w].errors = n]
    BY <1>7
  <2> HIDE DEF g
  <2>1. /\ g \in [AllLanes -> LaneRecords] /\ \A v \in AllLanes \ {w} : g[v] = f[v]
        /\ g[w].pc = p /\ g[w].at = s /\ g[w].cur = s
    BY <1>1, <2>0, PcWritten
  <2>2. /\ lane' \in [AllLanes -> LaneRecords] /\ \A v \in AllLanes \ {w} : lane'[v] = g[v]
        /\ lane'[w].pc = p /\ lane'[w].at = s /\ lane'[w].cur = s /\ lane'[w].errors = n
    BY <2>1, <2>0, ErrorsWritten
  <2> QED
    BY <1>3, <2>1, <2>2 DEF Moves, Others
<1> QED
  BY <1>4, <1>5, <1>6, <1>7 DEF f, l

\* What the other lanes do, hold and discover stays.
LEMMA OthersStay ==
  ASSUME lane \in [AllLanes -> LaneRecords], NEW w, Others(w), NEW v \in AllLanes \ {w}
  PROVE  /\ lane'[v] \in LaneRecords /\ lane'[v].at = lane[v].at /\ lane'[v].cur = lane[v].cur
         /\ lane'[v].errors = lane[v].errors /\ lane'[v].src = lane[v].src /\ lane'[v].op = lane[v].op
         /\ lane'[v].path = lane[v].path /\ lane'[v].replay = lane[v].replay /\ Held(v)' = Held(v)
         /\ lane'[v].pc = lane[v].pc \/ (lane[v].pc = "wait" /\ lane'[v].pc = "select")
<1>1. lane[v] \in LaneRecords /\ Woken(lane[v], lane'[v])
  BY DEF Others
<1>2. /\ lane'[v] \in LaneRecords /\ lane'[v].at = lane[v].at /\ lane'[v].cur = lane[v].cur
      /\ lane'[v].errors = lane[v].errors /\ lane'[v].src = lane[v].src /\ lane'[v].op = lane[v].op
      /\ lane'[v].path = lane[v].path /\ lane'[v].replay = lane[v].replay
      /\ lane'[v].pc = lane[v].pc \/ (lane[v].pc = "wait" /\ lane'[v].pc = "select")
  BY <1>1, WokenIs
<1> QED
  BY <1>2 DEF Held

\* What is held and discovered, but by the lane that steps, still is.
LEMMA HeldStays ==
  ASSUME lane \in [AllLanes -> LaneRecords], NEW w \in AllLanes, Others(w), setup' = setup
  PROVE  /\ \A x \in HeldNow : x \in HeldNow' \/ (lane[w].pc = "walk" /\ x = Held(w))
         /\ \A x \in Discovering : x \in Discovering' \/ (lane[w].pc = "discover" /\ x = lane[w].cur)
         /\ lane'[w].pc = "walk" => Held(w)' \in HeldNow'
         /\ lane'[w].pc = "discover" => lane'[w].cur \in Discovering'
<1>1. AllLanes' = AllLanes
  BY DEF AllLanes
<1>2. \A v \in AllLanes \ {w} : /\ lane[v].pc = "walk" => lane'[v].pc = "walk" /\ Held(v)' = Held(v)
                                /\ lane[v].pc = "discover" => lane'[v].pc = "discover" /\ lane'[v].cur = lane[v].cur
  BY OthersStay
<1>3. ASSUME NEW x \in HeldNow PROVE x \in HeldNow' \/ (lane[w].pc = "walk" /\ x = Held(w))
  <2>1. PICK v \in AllLanes : lane[v].pc = "walk" /\ x = Held(v)
    BY DEF HeldNow
  <2>2. CASE v = w
    BY <2>1, <2>2
  <2>3. CASE v # w
    <3>1. v \in AllLanes' /\ lane'[v].pc = "walk" /\ x = Held(v)'
      BY <1>1, <1>2, <2>1, <2>3
    <3> QED
      BY <3>1 DEF HeldNow
  <2> QED
    BY <2>2, <2>3
<1>4. ASSUME NEW x \in Discovering PROVE x \in Discovering' \/ (lane[w].pc = "discover" /\ x = lane[w].cur)
  BY <1>1, <1>2 DEF Discovering
<1> QED
  BY <1>1, <1>3, <1>4 DEF HeldNow, Discovering

----------------------------------------------------------------------------
(* The lanes after a step of one of them *)

\* The other lanes keep what they hold and discover, whatever the step adds to
\* the map, to the plan and to what is settled.
LEMMA LanesNext ==
  ASSUME Typed, LanesOk, NEW w \in AllLanes, Others(w), setup' = setup, main' = main,
         map.nodes \subseteq map'.nodes,
         \A s \in map.nodes \union coord.discovering : coord'.pathTo[s] = coord.pathTo[s],
         \A s \in map.nodes : \A a \in ToSet(coord'.pending[s]) :
           a \in ToSet(coord.pending[s]) \/ (lane[w].pc = "walk" /\ <<s, a>> = Held(w)),
         \A x \in Settled(map') \union Pruned(map') :
           \/ x \in Settled(map) \union Pruned(map) \/ x[1] \notin map.nodes
           \/ (lane[w].pc = "walk" /\ x = Held(w)) \/ x[2] \in ToSet(coord.pending[x[1]]),
         \A s \in coord.discovering : s \in coord'.discovering \/ (lane[w].pc = "discover" /\ s = lane[w].cur),
         WalkAt(w)', DiscoverAt(w)', LaneAt(w)'
  PROVE  LanesOk'
<1> SUFFICES ASSUME NEW v \in AllLanes, v # w PROVE WalkAt(v)' /\ DiscoverAt(v)' /\ LaneAt(v)'
  BY DEF LanesOk, AllLanes
<1>1. AllLanes' = AllLanes /\ Lanes' = Lanes
  BY DEF AllLanes, Lanes
<1>2. /\ \A path : Leads(path)' = Leads(path)
      /\ \A s : OpsOf(s)' = OpsOf(s)
  BY SameSetup
<1>3. lane \in [AllLanes -> LaneRecords]
  BY DEF Typed
<1>4. \A u \in AllLanes \ {w} :
         /\ lane'[u].cur = lane[u].cur /\ Held(u)' = Held(u)
         /\ lane'[u].pc = lane[u].pc \/ (lane[u].pc = "wait" /\ lane'[u].pc = "select")
  BY <1>3, OthersStay
<1>5. /\ lane'[v].at = lane[v].at /\ lane'[v].cur = lane[v].cur
      /\ lane'[v].errors = lane[v].errors /\ lane'[v].src = lane[v].src /\ lane'[v].op = lane[v].op
      /\ lane'[v].path = lane[v].path /\ lane'[v].replay = lane[v].replay /\ Held(v)' = Held(v)
      /\ lane'[v].pc = lane[v].pc \/ (lane[v].pc = "wait" /\ lane'[v].pc = "select")
  BY <1>3, OthersStay
<1>6. WalkAt(v) /\ DiscoverAt(v) /\ LaneAt(v)
  BY DEF LanesOk
<1>7. LaneAt(v)'
  BY <1>1, <1>5, <1>6 DEF LaneAt
<1>8. DiscoverAt(v)'
  <2> SUFFICES ASSUME lane'[v].pc = "discover"
               PROVE  /\ lane'[v].cur \in coord'.discovering /\ Reached(lane[v].cur)'
                      /\ \A u \in AllLanes \ {v} : lane'[u].pc = "discover" => lane'[u].cur # lane'[v].cur
    BY <1>1, <1>5 DEF DiscoverAt
  <2>1. /\ lane[v].pc = "discover" /\ lane[v].cur \in coord.discovering /\ Reached(lane[v].cur)
        /\ \A u \in AllLanes \ {v} : lane[u].pc = "discover" => lane[u].cur # lane[v].cur
    BY <1>5, <1>6 DEF DiscoverAt
  <2>2. Reached(lane[v].cur)'
    <3>1. coord'.pathTo[lane[v].cur] = coord.pathTo[lane[v].cur]
      BY <2>1
    <3>2. Leads(coord.pathTo[lane[v].cur]) = lane[v].cur
      BY <2>1 DEF Reached
    <3> QED
      BY <1>2, <1>5, <3>1, <3>2 DEF Reached
  <2>3. lane'[v].cur \in coord'.discovering
    BY <1>5, <2>1
  <2>4. \A u \in AllLanes \ {v, w} : lane'[u].pc = "discover" => lane'[u].cur # lane'[v].cur
    BY <1>4, <1>5, <2>1
  <2>5. lane'[w].pc = "discover" => lane'[w].cur # lane'[v].cur
    BY <1>1 DEF DiscoverAt
  <2> QED
    BY <2>2, <2>3, <2>4, <2>5
<1>9. WalkAt(v)'
  <2> SUFFICES ASSUME lane'[v].pc = "walk"
               PROVE  WalkAt(v)'
    BY DEF WalkAt
  <2>1. /\ lane[v].pc = "walk" /\ lane[v].src \in map.nodes /\ lane[v].op \in OpsOf(lane[v].src)
        /\ Leads(coord.pathTo[lane[v].src]) = lane[v].src /\ Leads(lane[v].path) = lane[v].src
        /\ ~lane[v].replay => lane[v].at = lane[v].src
        /\ lane[v].op \notin ToSet(coord.pending[lane[v].src])
        /\ Held(v) \notin Settled(map) \union Pruned(map)
        /\ \A u \in AllLanes \ {v} : lane[u].pc = "walk" => Held(u) # Held(v)
    BY <1>5, <1>6 DEF WalkAt, Reached
  <2>2. coord'.pathTo[lane[v].src] = coord.pathTo[lane[v].src]
    BY <2>1
  <2>3. lane[v].op \notin ToSet(coord'.pending[lane[v].src])
    BY <2>1 DEF Held
  <2>4. Held(v) \notin Settled(map') \union Pruned(map')
    <3>1. Held(v)[1] = lane[v].src /\ Held(v)[2] = lane[v].op
      BY DEF Held
    <3> QED
      BY <2>1, <3>1
  <2>5. Held(v) \notin Settled(map)' \union Pruned(map)'
    BY <2>4 DEF Settled, Pruned, Tried
  <2>6. \A u \in AllLanes \ {v, w} : lane'[u].pc = "walk" => Held(u)' # Held(v)'
    BY <1>4, <1>5, <2>1
  <2>7. lane'[w].pc = "walk" => Held(w)' # Held(v)'
    BY <1>1 DEF WalkAt
  <2>8. Reached(lane[v].src)' /\ Leads(lane[v].path)' = lane[v].src
    <3>1. Leads(lane[v].path)' = lane[v].src
      BY <1>2, <1>5, <2>1
    <3>2. Reached(lane[v].src)'
      BY <1>2, <1>5, <2>1, <2>2 DEF Reached
    <3> QED
      BY <3>1, <3>2
  <2>9. lane'[v].src \in map'.nodes /\ lane'[v].op \in OpsOf(lane[v].src)'
    BY <1>2, <1>5, <2>1
  <2>10. \A u \in AllLanes' \ {v} : lane'[u].pc = "walk" => Held(u)' # Held(v)'
    BY <1>1, <2>6, <2>7
  <2> QED
    BY <1>5, <2>1, <2>3, <2>5, <2>8, <2>9, <2>10 DEF WalkAt
<1> QED
  BY <1>7, <1>8, <1>9

\* What one member more or less does to a count.
In(x, S) == IF x \in S THEN 1 ELSE 0

\* Two sets that differ in one member.
LEMMA OneMoves ==
  ASSUME NEW S, NEW T, IsFiniteSet(S), NEW x, S \ {x} = T \ {x}
  PROVE  IsFiniteSet(T) /\ Cardinality(S) \in Nat /\ Cardinality(T) \in Nat
         /\ Cardinality(T) = Cardinality(S) - In(x, S) + In(x, T)
<1> DEFINE R == S \ {x}
<1>1. IsFiniteSet(R) /\ Cardinality(R) \in Nat
  <2>1. IsFiniteSet(R)
    BY FS_Subset
  <2> QED
    BY <2>1, FS_CardinalityType
<1>2. /\ x \in S => S = R \union {x}
      /\ x \notin S => S = R
      /\ x \in T => T = R \union {x}
      /\ x \notin T => T = R
      /\ x \notin R
  OBVIOUS
<1> HIDE DEF R
<1>3. IsFiniteSet(R \union {x}) /\ Cardinality(R \union {x}) = Cardinality(R) + 1
  BY <1>1, <1>2, FS_AddElement
<1>4. Cardinality(S) = Cardinality(R) + In(x, S) /\ Cardinality(T) = Cardinality(R) + In(x, T) /\ IsFiniteSet(T)
  <2>1. Cardinality(S) = Cardinality(R) + In(x, S)
    <3>1. CASE x \in S
      BY <1>2, <1>3, <3>1 DEF In
    <3>2. CASE x \notin S
      BY <1>1, <1>2, <3>2 DEF In
    <3> QED
      BY <3>1, <3>2
  <2>2. Cardinality(T) = Cardinality(R) + In(x, T) /\ IsFiniteSet(T)
    <3>1. CASE x \in T
      BY <1>2, <1>3, <3>1 DEF In
    <3>2. CASE x \notin T
      BY <1>1, <1>2, <3>2 DEF In
    <3> QED
      BY <3>1, <3>2
  <2> QED
    BY <2>1, <2>2
<1> QED
  BY <1>1, <1>4 DEF In

\* How many lanes hold something and how many may take something, after a step.
LEMMA LanesCounted ==
  ASSUME Typed
  PROVE  /\ IsFiniteSet(AllLanes) /\ Cardinality(AllLanes) = setup.lanes /\ IsFiniteSet(Busy) /\ IsFiniteSet(Ready)
         /\ Cardinality(Busy) \in Nat /\ Cardinality(Ready) \in Nat /\ setup.lanes \in Nat \ {0}
         /\ Cardinality(Busy) + Cardinality(Ready) <= setup.lanes
<1>0. setup.lanes \in Nat \ {0}
  BY SetupIs DEF Typed
<1>1. IsFiniteSet(AllLanes) /\ Cardinality(AllLanes) = setup.lanes
  <2>1. IsFiniteSet(1..setup.lanes) /\ Cardinality(1..setup.lanes) = setup.lanes
    <3>1. 1 \in Int /\ setup.lanes \in Int /\ ~(1 > setup.lanes) /\ setup.lanes - 1 + 1 = setup.lanes
      BY <1>0
    <3> QED
      BY <3>1, FS_Interval
  <2> QED
    BY <2>1 DEF AllLanes
<1>2. IsFiniteSet(Busy) /\ IsFiniteSet(Ready) /\ Cardinality(Busy) \in Nat /\ Cardinality(Ready) \in Nat
  <2>1. Busy \subseteq AllLanes /\ Ready \subseteq AllLanes
    BY DEF Busy, Ready
  <2>2. IsFiniteSet(Busy) /\ IsFiniteSet(Ready)
    BY <1>1, <2>1, FS_Subset
  <2> QED
    BY <2>2, FS_CardinalityType
<1>3. Cardinality(Busy \union Ready) = Cardinality(Busy) + Cardinality(Ready)
  <2>1. Busy \intersect Ready = {}
    BY DEF Busy, Ready
  <2>2. Cardinality(Busy \union Ready) = Cardinality(Busy) + Cardinality(Ready) - Cardinality(Busy \intersect Ready)
    BY <1>2, FS_Union
  <2> QED
    BY <1>2, <2>1, <2>2, FS_EmptySet
<1>4. Cardinality(Busy \union Ready) <= setup.lanes
  <2>1. Busy \union Ready \subseteq AllLanes
    BY DEF Busy, Ready
  <2> QED
    BY <1>1, <2>1, FS_Subset
<1> QED
  BY <1>0, <1>1, <1>2, <1>3, <1>4

\* A step of one lane moves that lane alone.
LEMMA LanesMove ==
  ASSUME Typed, NEW w \in AllLanes, Others(w), setup' = setup
  PROVE  /\ Cardinality(Busy') \in Nat /\ Cardinality(Ready') \in Nat
         /\ Cardinality(Busy') = Cardinality(Busy) - In(w, Busy) + In(w, Busy')
         /\ Cardinality(Ready') = Cardinality(Ready) - In(w, Ready) + In(w, Ready')
         /\ w \in Busy <=> lane[w].pc \in {"walk", "discover"}
         /\ w \in Busy' <=> lane'[w].pc \in {"walk", "discover"}
         /\ w \in Ready <=> lane[w].pc \in {"build", "select", "wait", "heal"}
         /\ w \in Ready' <=> lane'[w].pc \in {"build", "select", "wait", "heal"}
<1>1. AllLanes' = AllLanes
  BY DEF AllLanes
<1>2. lane \in [AllLanes -> LaneRecords]
  BY DEF Typed
<1>3. \A v \in AllLanes \ {w} : lane'[v].pc = lane[v].pc \/ (lane[v].pc = "wait" /\ lane'[v].pc = "select")
  BY <1>2, OthersStay
<1>4. Busy \ {w} = Busy' \ {w}
  BY <1>1, <1>3 DEF Busy
<1>5. Ready \ {w} = Ready' \ {w}
  BY <1>1, <1>3 DEF Ready
<1>6. IsFiniteSet(Busy) /\ IsFiniteSet(Ready)
  BY LanesCounted
<1>7. Cardinality(Busy') \in Nat /\ Cardinality(Busy') = Cardinality(Busy) - In(w, Busy) + In(w, Busy')
  <2> DEFINE T == Busy'
  <2>1. Busy \ {w} = T \ {w}
    BY <1>4
  <2> HIDE DEF T
  <2>2. Cardinality(T) \in Nat /\ Cardinality(T) = Cardinality(Busy) - In(w, Busy) + In(w, T)
    BY <1>6, <2>1, OneMoves
  <2> QED
    BY <2>2 DEF T
<1>8. Cardinality(Ready') \in Nat /\ Cardinality(Ready') = Cardinality(Ready) - In(w, Ready) + In(w, Ready')
  <2> DEFINE T == Ready'
  <2>1. Ready \ {w} = T \ {w}
    BY <1>5
  <2> HIDE DEF T
  <2>2. Cardinality(T) \in Nat /\ Cardinality(T) = Cardinality(Ready) - In(w, Ready) + In(w, T)
    BY <1>6, <2>1, OneMoves
  <2> QED
    BY <2>2 DEF T
<1>9. /\ w \in Busy <=> lane[w].pc \in {"walk", "discover"}
      /\ w \in Busy' <=> lane'[w].pc \in {"walk", "discover"}
      /\ w \in Ready <=> lane[w].pc \in {"build", "select", "wait", "heal"}
      /\ w \in Ready' <=> lane'[w].pc \in {"build", "select", "wait", "heal"}
  BY <1>1 DEF Busy, Ready
<1> QED
  BY <1>7, <1>8, <1>9

\* The counts after a step that keeps, takes or releases an operation.
LEMMA CountsNext ==
  ASSUME Typed, Counts, NEW w \in AllLanes, Others(w), setup' = setup,
         coord'.active \in Nat, coord'.steps <= setup.steps, coord'.discovering \intersect map'.nodes = {},
         \/ /\ coord'.active = coord.active /\ map'.nodes = map.nodes
            /\ lane'[w].pc \in {"walk", "discover"} => lane[w].pc \in {"walk", "discover"}
            /\ lane'[w].pc \in {"build", "select", "wait", "heal"}
                 => lane[w].pc \in {"build", "select", "wait", "heal"}
         \/ /\ coord'.active = coord.active + 1 /\ map'.nodes = map.nodes
            /\ lane[w].pc = "select" /\ lane'[w].pc = "walk" /\ Cardinality(map.nodes) < setup.screens
         \/ /\ coord'.active = coord.active - 1
            /\ lane[w].pc \in {"walk", "discover"} /\ lane'[w].pc \notin {"walk", "discover"}
            /\ map'.nodes = map.nodes \/ \E d : map'.nodes = map.nodes \union {d}
  PROVE  Counts'
<1> DEFINE B == Cardinality(Busy)  B2 == Cardinality(Busy')
           R == Cardinality(Ready) R2 == Cardinality(Ready')
           N == Cardinality(map.nodes)  N2 == Cardinality(map'.nodes)
<1>1. /\ B2 \in Nat /\ R2 \in Nat
      /\ B2 = B - In(w, Busy) + In(w, Busy') /\ R2 = R - In(w, Ready) + In(w, Ready')
      /\ w \in Busy <=> lane[w].pc \in {"walk", "discover"}
      /\ w \in Busy' <=> lane'[w].pc \in {"walk", "discover"}
      /\ w \in Ready <=> lane[w].pc \in {"build", "select", "wait", "heal"}
      /\ w \in Ready' <=> lane'[w].pc \in {"build", "select", "wait", "heal"}
  BY LanesMove
<1>2. /\ IsFiniteSet(Busy) /\ B \in Nat /\ R \in Nat /\ setup.lanes \in Nat
  BY LanesCounted
<1>3. /\ B <= coord.active /\ coord.active + R <= setup.lanes /\ IsFiniteSet(map.nodes)
      /\ \/ map.nodes \subseteq {Entry} /\ Busy = {}
         \/ N + B < setup.screens + setup.lanes
  BY DEF Counts
<1>4. coord.active \in Nat /\ setup.screens \in Nat
  BY SetupIs DEF Typed, CoordRecords
<1>5. N \in Nat
  BY <1>3, FS_CardinalityType
<1>6. Busy = {} => B = 0
  BY FS_EmptySet
<1>7. B2 = 0 => Busy' = {}
  <2> DEFINE T == Busy'
  <2>1. AllLanes' = AllLanes /\ T \subseteq AllLanes /\ IsFiniteSet(AllLanes)
    BY LanesCounted DEF AllLanes, Busy
  <2>2. IsFiniteSet(T)
    BY <2>1, FS_Subset
  <2> HIDE DEF T
  <2>3. Cardinality(T) = 0 => T = {}
    BY <2>2, FS_EmptySet
  <2> QED
    BY <2>3 DEF T
<1> SUFFICES /\ B2 <= coord'.active /\ coord'.active + R2 <= setup.lanes
             /\ IsFiniteSet(map'.nodes)
             /\ \/ map'.nodes \subseteq {Entry} /\ Busy' = {}
                \/ N2 + B2 < setup.screens + setup.lanes
  BY DEF Counts
<1>8. CASE /\ coord'.active = coord.active /\ map'.nodes = map.nodes
           /\ lane'[w].pc \in {"walk", "discover"} => lane[w].pc \in {"walk", "discover"}
           /\ lane'[w].pc \in {"build", "select", "wait", "heal"}
                => lane[w].pc \in {"build", "select", "wait", "heal"}
  <2>1. In(w, Busy') <= In(w, Busy) /\ In(w, Ready') <= In(w, Ready)
    BY <1>1, <1>8 DEF In
  <2>2. In(w, Busy') \in Int /\ In(w, Busy) \in Int /\ In(w, Ready') \in Int /\ In(w, Ready) \in Int
    BY DEF In
  <2> HIDE DEF B, B2, R, R2, N, N2
  <2>3. B2 <= B /\ R2 <= R
    BY <1>1, <1>2, <2>1, <2>2
  <2>4. N2 = N /\ IsFiniteSet(map'.nodes)
    BY <1>3, <1>8 DEF N, N2
  <2>5. \/ map'.nodes \subseteq {Entry} /\ Busy' = {}
        \/ N2 + B2 < setup.screens + setup.lanes
    <3>1. CASE map.nodes \subseteq {Entry} /\ Busy = {}
      <4>1. B2 = 0
        BY <1>1, <1>2, <1>6, <2>3, <3>1
      <4> QED
        BY <1>7, <1>8, <3>1, <4>1
    <3>2. CASE N + B < setup.screens + setup.lanes
      BY <1>1, <1>2, <1>4, <1>5, <2>3, <2>4, <3>2
    <3> QED
      BY <1>3, <3>1, <3>2 DEF N, B
  <2>6. B2 <= coord'.active /\ coord'.active + R2 <= setup.lanes
    BY <1>1, <1>2, <1>3, <1>4, <1>8, <2>3 DEF B, R
  <2> QED
    BY <2>4, <2>5, <2>6 DEF B2, R2, N2
<1>9. CASE /\ coord'.active = coord.active + 1 /\ map'.nodes = map.nodes
           /\ lane[w].pc = "select" /\ lane'[w].pc = "walk" /\ Cardinality(map.nodes) < setup.screens
  <2>1. In(w, Busy) = 0 /\ In(w, Busy') = 1 /\ In(w, Ready) = 1 /\ In(w, Ready') = 0
    BY <1>1, <1>9 DEF In
  <2>2. N2 = N /\ IsFiniteSet(map'.nodes) /\ N < setup.screens
    BY <1>3, <1>9
  <2>3. B <= coord.active /\ coord.active + R <= setup.lanes
    BY <1>3
  <2> HIDE DEF B, B2, R, R2, N, N2
  <2>4. B2 = B + 1 /\ R2 = R - 1
    BY <1>1, <1>2, <2>1
  <2>5. B2 <= coord'.active /\ coord'.active + R2 <= setup.lanes
    BY <1>2, <1>4, <1>9, <2>3, <2>4
  <2>6. N2 + B2 < setup.screens + setup.lanes
    BY <1>1, <1>2, <1>4, <1>5, <1>9, <2>2, <2>4, <2>5
  <2> QED
    BY <2>2, <2>5, <2>6 DEF B2, R2, N2
<1>10. CASE /\ coord'.active = coord.active - 1
            /\ lane[w].pc \in {"walk", "discover"} /\ lane'[w].pc \notin {"walk", "discover"}
            /\ map'.nodes = map.nodes \/ \E d : map'.nodes = map.nodes \union {d}
  <2>1. In(w, Busy) = 1 /\ In(w, Busy') = 0 /\ In(w, Ready) = 0 /\ In(w, Ready') \in 0..1
    BY <1>1, <1>10 DEF In
  <2>2. IsFiniteSet(map'.nodes) /\ N2 \in Nat /\ N2 <= N + 1
    <3>1. CASE map'.nodes = map.nodes
      BY <1>3, <1>5, <3>1
    <3>2. CASE \E d : map'.nodes = map.nodes \union {d}
      <4>1. PICK d : map'.nodes = map.nodes \union {d}
        BY <3>2
      <4>2. CASE d \in map.nodes
        <5>1. map'.nodes = map.nodes
          BY <4>1, <4>2
        <5> QED
          BY <1>3, <1>5, <5>1
      <4>3. CASE d \notin map.nodes
        <5>1. IsFiniteSet(map.nodes \union {d}) /\ Cardinality(map.nodes \union {d}) = Cardinality(map.nodes) + 1
          BY <1>3, <4>3, FS_AddElement
        <5> QED
          BY <1>5, <4>1, <5>1
      <4> QED
        BY <4>2, <4>3
    <3> QED
      BY <1>10, <3>1, <3>2
  <2>3. B <= coord.active /\ coord.active + R <= setup.lanes
    BY <1>3
  <2>4. N + B < setup.screens + setup.lanes
    BY <1>1, <1>3, <1>10
  <2> HIDE DEF B, B2, R, R2, N, N2
  <2>5. B2 = B - 1 /\ R2 <= R + 1
    BY <1>1, <1>2, <2>1
  <2>6. B2 <= coord'.active /\ coord'.active + R2 <= setup.lanes
    BY <1>1, <1>2, <1>4, <1>10, <2>3, <2>5
  <2>7. N2 + B2 < setup.screens + setup.lanes
    BY <1>1, <1>2, <1>4, <1>5, <2>2, <2>4, <2>5
  <2> QED
    BY <2>2, <2>6, <2>7 DEF B2, R2, N2
<1> QED
  BY <1>8, <1>9, <1>10, Zenon

\* Every operation is still somewhere.
LEMMA WholeNext ==
  ASSUME NEW w, Whole(map, coord.pending, HeldNow), setup' = setup, map.nodes \subseteq Screens, map'.nodes = map.nodes,
         \A x \in HeldNow : x \in HeldNow' \/ (lane[w].pc = "walk" /\ x = Held(w)),
         Settled(map) \subseteq Settled(map'), Pruned(map) \subseteq Pruned(map'),
         lane[w].pc = "walk" =>
           Held(w) \in Settled(map') \/ lane[w].op \in ToSet(coord'.pending[lane[w].src]),
         \A s \in Screens : \A a \in ToSet(coord.pending[s]) :
           a \in ToSet(coord'.pending[s]) \/ <<s, a>> \in Settled(map') \union HeldNow'
  PROVE  Whole(map', coord'.pending, HeldNow')
<1> SUFFICES ASSUME NEW s \in map.nodes, NEW a \in OpsOf(s)
             PROVE  a \in ToSet(coord'.pending[s]) \/ <<s, a>> \in Settled(map') \union Pruned(map') \union HeldNow'
  BY DEF Whole
<1>1. a \in ToSet(coord.pending[s]) \/ <<s, a>> \in Settled(map) \union Pruned(map) \union HeldNow
  BY DEF Whole
<1>2. CASE <<s, a>> \in HeldNow
  <2>1. CASE lane[w].pc = "walk" /\ <<s, a>> = Held(w)
    <3>1. s = lane[w].src /\ a = lane[w].op
      BY <2>1 DEF Held
    <3> QED
      BY <2>1, <3>1
  <2> QED
    BY <1>2, <2>1
<1> QED
  BY <1>1, <1>2

\* A step of a lane keeps the invariant when what it adds to the map is true,
\* what it leaves in the plan is right and nothing of another lane is touched.
LEMMA StepKeeps ==
  ASSUME IInv, NEW w \in Lanes, w \in AllLanes, setup' = setup, main' = main, main.pc = "walk",
         map' \in MapRecords, coord' \in CoordRecords, faults' \in 0..MaxFaults, hurt' \in BOOLEAN,
         NEW p, NEW s, NEW e, Moves(w, p, s, e), p # "over" => e < MaxErrors,
         MapOk(map'), PlanOk(map', coord'.pending), Replayable',
         map.nodes \subseteq map'.nodes,
         \A z \in map.nodes \union coord.discovering : coord'.pathTo[z] = coord.pathTo[z],
         \A z \in map.nodes : \A a \in ToSet(coord'.pending[z]) :
           a \in ToSet(coord.pending[z]) \/ (lane[w].pc = "walk" /\ <<z, a>> = Held(w)),
         \A x \in Settled(map') \union Pruned(map') :
           \/ x \in Settled(map) \union Pruned(map) \/ x[1] \notin map.nodes
           \/ (lane[w].pc = "walk" /\ x = Held(w)) \/ x[2] \in ToSet(coord.pending[x[1]]),
         \A z \in coord.discovering : z \in coord'.discovering \/ (lane[w].pc = "discover" /\ z = lane[w].cur),
         WalkAt(w)', DiscoverAt(w)',
         Counts',
         \/ disk' = disk /\ map'.nodes = map.nodes
         \/ disk' = [map |-> map', plan |-> coord'.pending],
         coord'.failed => hurt', hurt => hurt',
         ~hurt' => /\ Whole(map', coord'.pending, HeldNow')
                   /\ Leaves(map') \subseteq map'.nodes \union Discovering'
                   /\ coord'.discovering \subseteq Discovering'
                   /\ map'.stop = "completed" => Frontier' = {} /\ Busy' = {} /\ coord'.stopped
  PROVE  IInv'
<1>1. /\ Typed /\ MapOk(map) /\ PlanOk(map, coord.pending) /\ Replayable
      /\ LanesOk /\ Counts /\ DiskOk /\ Unhurt
  BY DEF IInv
<1>2. AllLanes' = AllLanes /\ Lanes' = Lanes
  BY DEF AllLanes, Lanes
<1>3. disk' \in [map : MapRecords, plan : Plans]
  <2>1. disk \in [map : MapRecords, plan : Plans] /\ coord'.pending \in Plans
    BY <1>1 DEF Typed, CoordRecords
  <2> QED
    BY <2>1
<1>4. Typed'
  <2>1. lane' \in [AllLanes -> LaneRecords]
    BY DEF Moves
  <2> QED
    BY <1>1, <1>2, <1>3, <2>1 DEF Typed
<1>5. MapOk(map)' /\ PlanOk(map, coord.pending)'
  BY Primed
<1>6. LanesOk'
  <2>1. LaneAt(w)'
    <3>1. lane'[w].pc = p /\ lane'[w].at = s /\ lane'[w].cur = s /\ lane'[w].errors = e
      BY DEF Moves
    <3> QED
      BY <1>2, <3>1 DEF LaneAt
  <2>2. Others(w)
    BY DEF Moves
  <2> QED
    BY <1>1, <2>1, <2>2, LanesNext
<1>7. DiskOk'
  <2>1. MapOk(disk'.map) /\ PlanOk(disk'.map, disk'.plan) /\ map'.nodes = disk'.map.nodes
    <3>1. CASE disk' = disk /\ map'.nodes = map.nodes
      BY <1>1, <3>1 DEF DiskOk
    <3>2. CASE disk' = [map |-> map', plan |-> coord'.pending]
      BY <3>2
    <3> QED
      BY <3>1, <3>2
  <2>2. MapOk(disk.map)' /\ PlanOk(disk.map, disk.plan)'
    BY <2>1, Primed
  <2> QED
    BY <2>1, <2>2 DEF DiskOk
<1>8. Unhurt'
  <2> SUFFICES ASSUME ~hurt'
               PROVE  /\ disk'.map.stop = "completed" => disk'.plan = NoFrontier
                      /\ Whole(map, coord.pending, HeldNow)'
                      /\ Leaves(map)' \subseteq map'.nodes \union Discovering'
                      /\ coord'.discovering \subseteq Discovering'
                      /\ map'.stop = "completed" => Frontier' = {} /\ Busy' = {} /\ coord'.stopped
    BY DEF Unhurt
  <2>1. Whole(map, coord.pending, HeldNow)'
    BY Primed
  <2>2. Leaves(map)' \subseteq map'.nodes \union Discovering'
    BY DEF Leaves
  <2>3. disk'.map.stop = "completed" => disk'.plan = NoFrontier
    <3>1. CASE disk' = disk
      BY <1>1, <3>1 DEF Unhurt
    <3>2. CASE disk' = [map |-> map', plan |-> coord'.pending]
      <4>1. disk'.map = map' /\ disk'.plan = coord'.pending
        BY <3>2
      <4>2. Frontier' = {} => coord'.pending = NoFrontier
        <5>1. coord'.pending \in [Screens -> Seq(Ops)]
          BY DEF CoordRecords, Plans
        <5>2. Frontier' = {} => \A z \in Screens : coord'.pending[z] = << >>
          BY DEF Frontier
        <5> QED
          BY <5>1, <5>2 DEF NoFrontier
      <4> QED
        BY <4>1, <4>2
    <3> QED
      BY <3>1, <3>2
  <2> QED
    BY <2>1, <2>2, <2>3
<1> QED
  BY <1>4, <1>5, <1>6, <1>7, <1>8 DEF IInv

----------------------------------------------------------------------------
(* Each action of a lane keeps the invariant *)

\* A lane of the crawl is one of its setup.
LEMMA LanesAre ==
  ASSUME Typed
  PROVE  Lanes \subseteq AllLanes /\ 1 \in AllLanes
<1>1. setup.lanes \in Nat \ {0}
  BY SetupIs DEF Typed
<1> QED
  BY <1>1 DEF Lanes, AllLanes

\* What a lane in the middle of a step knows.
LEMMA BusyIs ==
  ASSUME IInv, NEW w \in Lanes, lane[w].pc \in {"walk", "discover"}
  PROVE  /\ w \in AllLanes /\ main.pc = "walk" /\ w \in Busy
         /\ coord.active \in Nat \ {0} /\ (map.stop = "completed" => hurt)
         /\ WalkAt(w) /\ DiscoverAt(w) /\ LaneAt(w) /\ lane[w] \in LaneRecords /\ lane[w].errors < MaxErrors
<1>1. w \in AllLanes
  BY LanesAre DEF IInv
<1>2. WalkAt(w) /\ DiscoverAt(w) /\ LaneAt(w)
  BY <1>1 DEF IInv, LanesOk
<1>3. main.pc = "walk" /\ lane[w].errors < MaxErrors
  BY <1>2 DEF LaneAt
<1>4. w \in Busy
  BY <1>1 DEF Busy
<1>5. map.stop = "completed" => hurt
  BY <1>3, <1>4 DEF IInv, Unhurt
<1>6. coord.active \in Nat \ {0}
  <2>1. IsFiniteSet(Busy) /\ Cardinality(Busy) \in Nat /\ Cardinality(Busy) <= coord.active /\ coord.active \in Nat
    BY LanesCounted DEF IInv, Counts, Typed, CoordRecords
  <2>2. Cardinality(Busy) # 0
    BY <1>4, <2>1, FS_EmptySet
  <2> QED
    BY <2>1, <2>2
<1>7. lane[w] \in LaneRecords
  BY <1>1 DEF IInv, Typed
<1> QED
  BY <1>1, <1>2, <1>3, <1>4, <1>5, <1>6, <1>7

\* A step that touches neither the plan nor what the map says.
LEMMA IdleKeeps ==
  ASSUME IInv, NEW w \in Lanes, w \in AllLanes, setup' = setup, main' = main, disk' = disk, main.pc = "walk",
         faults' \in 0..MaxFaults, hurt' \in BOOLEAN, hurt => hurt',
         map' \in MapRecords, SameMap(map, map'),
         coord' \in CoordRecords, coord'.pathTo = coord.pathTo, coord'.pending = coord.pending,
         coord'.discovering = coord.discovering, coord'.steps = coord.steps, coord'.active = coord.active,
         coord'.failed => coord.failed \/ hurt',
         NEW p \in {"select", "wait", "over"}, Moves(w, p, lane[w].cur, lane[w].errors), lane[w].pc # "over",
         lane[w].pc \in {"walk", "discover"} => hurt' /\ p = "over",
         ~hurt' => (map'.stop = "completed" => Frontier = {} /\ Busy = {} /\ coord'.stopped)
  PROVE  IInv'
<1>1. /\ Typed /\ MapOk(map) /\ PlanOk(map, coord.pending) /\ Replayable
      /\ LanesOk /\ Counts /\ DiskOk /\ Unhurt
  BY DEF IInv
<1>2. lane \in [AllLanes -> LaneRecords] /\ lane[w] \in LaneRecords
  BY <1>1 DEF Typed
<1>3. Others(w) /\ lane'[w].pc = p
  BY DEF Moves
<1>4. /\ MapOk(map') /\ Settled(map') = Settled(map) /\ Pruned(map') = Pruned(map)
      /\ Leaves(map') = Leaves(map) /\ map'.nodes = map.nodes
  BY <1>1, MapKept
<1>5. PlanOk(map', coord'.pending)
  BY <1>1, <1>4 DEF PlanOk
<1>6. Replayable'
  BY <1>1, SameSetup DEF Replayable, Reached
<1>7. WalkAt(w)' /\ DiscoverAt(w)'
  BY <1>3 DEF WalkAt, DiscoverAt
<1>8. Counts'
  <2>1. coord'.active \in Nat /\ coord'.steps <= setup.steps /\ coord'.discovering \intersect map'.nodes = {}
    BY <1>1, <1>4 DEF CoordRecords, Counts
  <2>2. /\ lane'[w].pc \in {"walk", "discover"} => lane[w].pc \in {"walk", "discover"}
        /\ lane'[w].pc \in {"build", "select", "wait", "heal"}
             => lane[w].pc \in {"build", "select", "wait", "heal"}
    BY <1>2, <1>3 DEF LaneRecords, LanePcs
  <2> QED
    BY <1>1, <1>3, <1>4, <2>1, <2>2, CountsNext
<1>9. LaneAt(w)
  BY <1>1 DEF LanesOk
<1>10. lane[w].errors < MaxErrors
  BY <1>9 DEF LaneAt
<1>11. ASSUME ~hurt'
       PROVE  /\ Whole(map', coord'.pending, HeldNow')
              /\ Leaves(map') \subseteq map'.nodes \union Discovering'
              /\ coord'.discovering \subseteq Discovering'
              /\ map'.stop = "completed" => Frontier' = {} /\ Busy' = {} /\ coord'.stopped
  <2>1. /\ \A x \in HeldNow : x \in HeldNow' \/ (lane[w].pc = "walk" /\ x = Held(w))
        /\ \A x \in Discovering : x \in Discovering' \/ (lane[w].pc = "discover" /\ x = lane[w].cur)
    BY <1>2, <1>3, HeldStays
  <2>2. ~hurt /\ lane[w].pc \notin {"walk", "discover"}
    BY <1>11
  <2>3. Whole(map, coord.pending, HeldNow) /\ Leaves(map) \subseteq map.nodes \union Discovering
        /\ coord.discovering \subseteq Discovering
    BY <1>1, <2>2 DEF Unhurt
  <2>4. map.nodes \subseteq Screens
    BY <1>1 DEF Typed, MapRecords
  <2>5. Whole(map', coord'.pending, HeldNow')
    BY <1>4, <2>1, <2>2, <2>3, <2>4, WholeNext
  <2>6. Frontier' = Frontier
    BY DEF Frontier
  <2>7. Busy' \subseteq Busy
    <3>1. AllLanes' = AllLanes
      BY DEF AllLanes
    <3>2. \A v \in AllLanes \ {w} : lane'[v].pc = lane[v].pc \/ (lane[v].pc = "wait" /\ lane'[v].pc = "select")
      BY <1>2, <1>3, OthersStay
    <3> QED
      BY <1>3, <3>1, <3>2 DEF Busy
  <2> QED
    BY <1>4, <1>11, <2>1, <2>2, <2>3, <2>5, <2>6, <2>7
<1>12. /\ \A z \in map.nodes : \A a \in ToSet(coord'.pending[z]) : a \in ToSet(coord.pending[z])
       /\ map.nodes \subseteq map'.nodes
       /\ \A x \in Settled(map') \union Pruned(map') : x \in Settled(map) \union Pruned(map)
       /\ \A z \in coord.discovering : z \in coord'.discovering
  BY <1>4
<1>13. coord'.failed => hurt'
  BY <1>1 DEF Unhurt
<1> QED
  BY <1>4, <1>5, <1>6, <1>7, <1>8, <1>10, <1>11, <1>12, <1>13, StepKeeps

\* The reason a crawl stops for is written once.
LEMMA StoppedIs ==
  ASSUME NEW m \in MapRecords, NEW reason \in Reasons, NEW k, k = Stopped(m, reason)
  PROVE  k \in MapRecords /\ SameMap(m, k) /\ k.stop = IF m.stop = "" THEN reason ELSE m.stop
<1>1. CASE m.stop = ""
  <2>1. k = [m EXCEPT !.stop = reason]
    BY <1>1 DEF Stopped
  <2> QED
    BY <1>1, <2>1 DEF MapRecords, SameMap
<1>2. CASE m.stop # ""
  <2>1. k = m
    BY <1>2 DEF Stopped
  <2> QED
    BY <1>2, <2>1 DEF SameMap
<1> QED
  BY <1>1, <1>2

\* One more fault is within the bound.
LEMMA FaultIs ==
  ASSUME faults \in 0..MaxFaults, Fault
  PROVE  faults' \in 0..MaxFaults
  BY Constants DEF Fault

\* An error nothing handles stops every lane, and what it loses is owned up to.
LEMMA NoteFailureKeeps ==
  ASSUME IInv, NEW w \in Lanes, main.pc = "walk", lane[w].pc \in {"build", "heal", "walk", "discover"}, NoteFailure(w)
  PROVE  IInv'
<1>1. w \in AllLanes /\ Typed /\ LaneAt(w)
  BY LanesAre DEF IInv, LanesOk
<1>2. /\ lane \in [AllLanes -> LaneRecords] /\ map \in MapRecords /\ coord \in CoordRecords
      /\ faults \in 0..MaxFaults
  BY <1>1 DEF Typed
<1>3. Moves(w, "over", lane[w].cur, lane[w].errors)
  BY <1>1, <1>2, StayingMoves DEF NoteFailure, LanePcs
<1>4. map' \in MapRecords /\ SameMap(map, map')
  BY <1>2, StoppedIs DEF NoteFailure, Reasons
<1>5. /\ coord' \in CoordRecords /\ coord'.pathTo = coord.pathTo /\ coord'.pending = coord.pending
      /\ coord'.discovering = coord.discovering /\ coord'.steps = coord.steps /\ coord'.active = coord.active
  BY <1>2 DEF NoteFailure, CoordRecords
<1>6. faults' \in 0..MaxFaults /\ hurt' = TRUE /\ setup' = setup /\ main' = main /\ disk' = disk
  BY <1>2, FaultIs DEF NoteFailure
<1> QED
  BY <1>1, <1>3, <1>4, <1>5, <1>6, IdleKeeps

\* Build, Heal, Wait and Finish.
LEMMA RestingKeeps ==
  ASSUME IInv, NEW w \in Lanes, Build(w) \/ Heal(w) \/ Wait(w) \/ Finish(w)
  PROVE  IInv'
<1>1. w \in AllLanes /\ Typed /\ LaneAt(w) /\ Counts /\ Unhurt
  BY LanesAre DEF IInv, LanesOk
<1>2. /\ lane \in [AllLanes -> LaneRecords] /\ map \in MapRecords /\ coord \in CoordRecords
      /\ faults \in 0..MaxFaults /\ hurt \in BOOLEAN
  BY <1>1 DEF Typed
<1>3. main.pc = "walk"
  BY <1>1 DEF LaneAt, Build, Heal, Wait, Finish
<1>4. ASSUME NEW p \in {"select", "wait"}, lane' = [lane EXCEPT ![w].pc = p],
             lane[w].pc \in {"build", "heal", "select"}, UNCHANGED <<setup, main, map, coord, disk, faults, hurt>>
      PROVE  IInv'
  <2>1. Moves(w, p, lane[w].cur, lane[w].errors)
    BY <1>1, <1>2, <1>4, StayingMoves DEF LanePcs
  <2>2. SameMap(map, map') /\ map' \in MapRecords
    BY <1>2, <1>4 DEF SameMap
  <2>3. ~hurt' => (map'.stop = "completed" => Frontier = {} /\ Busy = {} /\ coord'.stopped)
    BY <1>1, <1>3, <1>4 DEF Unhurt
  <2> QED
    BY <1>1, <1>2, <1>3, <1>4, <2>1, <2>2, <2>3, IdleKeeps
<1>5. CASE Build(w)
  BY <1>3, <1>4, <1>5, NoteFailureKeeps DEF Build
<1>6. CASE Heal(w)
  BY <1>3, <1>4, <1>6, NoteFailureKeeps DEF Heal
<1>7. CASE Wait(w)
  BY <1>4, <1>7 DEF Wait
<1>8. CASE Finish(w)
  <2>1. Moves(w, "over", lane[w].cur, lane[w].errors)
    <3>1. CASE coord.stopped
      BY <1>1, <1>2, <1>8, <3>1, StayingMoves DEF Finish, LanePcs
    <3>2. CASE ~coord.stopped
      BY <1>1, <1>2, <1>8, <3>2, StayingMoves DEF Finish, LanePcs
    <3> QED
      BY <3>1, <3>2
  <2>2. Spent \in Reasons
    BY DEF Spent, Reasons
  <2>3. map' \in MapRecords /\ SameMap(map, map')
    <3>1. CASE coord.stopped
      BY <1>2, <1>8, <3>1 DEF Finish, SameMap
    <3>2. CASE ~coord.stopped
      <4>1. map' = Stopped(map, Spent)
        BY <1>8, <3>2 DEF Finish
      <4> QED
        BY <1>2, <2>2, <4>1, StoppedIs
    <3> QED
      BY <3>1, <3>2
  <2>4. /\ coord' \in CoordRecords /\ coord'.pathTo = coord.pathTo /\ coord'.pending = coord.pending
        /\ coord'.discovering = coord.discovering /\ coord'.steps = coord.steps /\ coord'.active = coord.active
        /\ coord'.failed = coord.failed /\ coord'.stopped = TRUE
    BY <1>2, <1>8 DEF Finish, CoordRecords
  <2>5. ~hurt' => (map'.stop = "completed" => Frontier = {} /\ Busy = {} /\ coord'.stopped)
    <3> SUFFICES ASSUME ~hurt, map'.stop = "completed" PROVE Frontier = {} /\ Busy = {}
      BY <1>8, <2>4 DEF Finish
    <3>1. CASE map.stop = "completed"
      BY <1>1, <1>3, <3>1 DEF Unhurt
    <3>2. CASE map.stop # "completed"
      <4>1. ~coord.stopped /\ map' = Stopped(map, Spent)
        BY <1>8, <3>2 DEF Finish
      <4>2. Spent = "completed"
        BY <1>2, <2>2, <3>2, <4>1, StoppedIs
      <4>3. Frontier = {} /\ coord.active = 0
        BY <4>2 DEF Spent
      <4>4. IsFiniteSet(Busy) /\ Cardinality(Busy) \in Nat /\ Cardinality(Busy) <= 0
        BY <1>1, <4>3, LanesCounted DEF Counts
      <4>5. Busy = {}
        BY <4>4, FS_EmptySet
      <4> QED
        BY <4>3, <4>5
    <3> QED
      BY <3>1, <3>2
  <2>6. setup' = setup /\ main' = main /\ disk' = disk /\ faults' = faults /\ hurt' = hurt /\ lane[w].pc = "select"
    BY <1>8 DEF Finish
  <2> QED
    BY <1>1, <1>2, <1>3, <2>1, <2>3, <2>4, <2>5, <2>6, IdleKeeps
<1> QED
  BY <1>5, <1>6, <1>7, <1>8

\* The screen a lane takes an operation of is on the frontier.
LEMMA SourceIs ==
  ASSUME Typed, NEW w, Frontier # {}
  PROVE  Source(w) \in Frontier /\ Frontier \subseteq Screens
<1> DEFINE L(s) == Len(coord.pathTo[s])
           S1 == {L(s) : s \in Frontier}
           First(s) == \A r \in Frontier : L(s) < L(r) \/ (L(s) = L(r) /\ s <= r)
<1>1. Frontier \subseteq Screens /\ Screens \subseteq Nat
  BY Constants DEF Frontier
<1>2. \A s \in Frontier : L(s) \in Nat
  <2>1. \A s \in Screens : coord.pathTo[s] \in Seq(Ops)
    BY DEF Typed, CoordRecords, Plans
  <2> QED
    BY <1>1, <2>1
<1> HIDE DEF L
<1>3. PICK n \in S1 : \A m \in S1 : n <= m
  <2>1. S1 \subseteq Nat /\ S1 # {}
    BY <1>2
  <2> HIDE DEF S1
  <2> QED
    BY <2>1, Least
<1> DEFINE S2 == {s \in Frontier : L(s) = n}
<1>4. PICK s \in S2 : \A m \in S2 : s <= m
  <2>1. S2 \subseteq Nat /\ S2 # {}
    BY <1>1, <1>3
  <2> HIDE DEF S2
  <2> QED
    BY <2>1, Least
<1>5. s \in Frontier /\ First(s)
  <2>1. \A r \in Frontier : L(r) \in Nat /\ n <= L(r) /\ (L(r) = n => s <= r)
    BY <1>2, <1>3, <1>4
  <2> QED
    BY <1>2, <1>4, <2>1
<1>6. Source(w) = IF lane[w].cur \in Frontier THEN lane[w].cur ELSE CHOOSE z \in Frontier : First(z)
  BY DEF Source, L
<1> HIDE DEF First
<1> QED
  BY <1>1, <1>5, <1>6

\* What Reserve writes.
LEMMA ReserveWrites ==
  ASSUME IInv, NEW w \in Lanes, Reserve(w)
  PROVE  \E s \in Screens :
           /\ coord.pending[s] # << >>
           /\ coord' \in CoordRecords /\ coord'.pathTo = coord.pathTo /\ coord'.discovering = coord.discovering
           /\ coord'.pending[s] = Tail(coord.pending[s])
           /\ \A z \in Screens \ {s} : coord'.pending[z] = coord.pending[z]
           /\ coord'.steps = coord.steps + 1 /\ coord'.active = coord.active + 1
           /\ coord'.failed = coord.failed /\ coord'.stopped = coord.stopped
           /\ Moves(w, "walk", lane[w].cur, lane[w].errors)
           /\ lane'[w].src = s /\ lane'[w].op = Head(coord.pending[s]) /\ lane'[w].path = coord.pathTo[s]
           /\ ~lane'[w].replay => lane[w].cur = s
<1> DEFINE s == Source(w)
           order == coord.pending[s]
<1>0. Typed /\ w \in AllLanes /\ LaneAt(w) /\ PlanOk(map, coord.pending)
  BY LanesAre DEF IInv, LanesOk
<1>1. s \in Screens /\ order # << >>
  BY <1>0, SourceIs DEF Reserve, Frontier
<1>2. coord \in CoordRecords /\ lane[w] \in LaneRecords /\ lane \in [AllLanes -> LaneRecords]
  BY <1>0 DEF Typed
<1>3. order \in Seq(Ops) /\ coord.pathTo[s] \in Seq(Ops) /\ coord.pending \in Plans
  BY <1>1, <1>2 DEF CoordRecords, Plans
<1>4. Head(order) \in Ops /\ Tail(order) \in Seq(Ops)
  BY <1>1, <1>3, HeadTailProperties
<1>5. /\ lane' = [lane EXCEPT ![w].pc = "walk", ![w].src = s, ![w].op = Head(coord.pending[s]),
                              ![w].path = coord.pathTo[s], ![w].replay = (s # lane[w].cur)]
      /\ coord' = [coord EXCEPT !.pending[s] = Tail(@), !.steps = @ + 1, !.active = @ + 1]
  BY DEF Reserve
<1> HIDE DEF s, order
<1> DEFINE plan == [coord.pending EXCEPT ![s] = Tail(coord.pending[s])]
<1>6. /\ plan \in Plans /\ plan[s] = Tail(coord.pending[s])
      /\ \A z \in Screens \ {s} : plan[z] = coord.pending[z]
  BY <1>1, <1>3, <1>4 DEF Plans, order
<1>7. coord' = [coord EXCEPT !.pending = plan, !.steps = coord.steps + 1, !.active = coord.active + 1]
  BY <1>2, <1>5 DEF CoordRecords
<1> HIDE DEF plan
<1>8. /\ coord' \in CoordRecords /\ coord'.pathTo = coord.pathTo /\ coord'.discovering = coord.discovering
      /\ coord'.pending = plan /\ coord'.steps = coord.steps + 1 /\ coord'.active = coord.active + 1
      /\ coord'.failed = coord.failed /\ coord'.stopped = coord.stopped
  <2>1. coord' \in CoordRecords
    <3>1. coord.steps + 1 \in Nat /\ coord.active + 1 \in Nat
      BY <1>2 DEF CoordRecords
    <3> DEFINE n == coord.steps + 1  k == coord.active + 1
    <3> HIDE DEF n, k
    <3>2. coord' = [coord EXCEPT !.pending = plan, !.steps = n, !.active = k] /\ n \in Nat /\ k \in Nat
      BY <1>7, <3>1 DEF n, k
    <3> QED
      BY <1>2, <1>6, <3>2 DEF CoordRecords
  <2>2. /\ coord'.pathTo = coord.pathTo /\ coord'.discovering = coord.discovering
        /\ coord'.failed = coord.failed /\ coord'.stopped = coord.stopped
    BY <1>2, <1>7, Zenon DEF CoordRecords
  <2>3. coord'.pending = plan /\ coord'.steps = coord.steps + 1 /\ coord'.active = coord.active + 1
    BY <1>2, <1>7 DEF CoordRecords
  <2> QED
    BY <2>1, <2>2, <2>3
<1> DEFINE r == [pc |-> "walk", at |-> lane[w].at, cur |-> lane[w].cur, errors |-> lane[w].errors,
                 src |-> s, op |-> Head(order), path |-> coord.pathTo[s], replay |-> (s # lane[w].cur)]
<1>9. lane'[w] = r /\ \A v \in AllLanes \ {w} : lane'[v] = lane[v]
  <2>1. lane'[w] = [lane[w] EXCEPT !.pc = "walk", !.src = s, !.op = Head(coord.pending[s]),
                              !.path = coord.pathTo[s], !.replay = (s # lane[w].cur)]
    BY <1>0, <1>2, <1>5
  <2>2. lane'[w] = r
    BY <1>2, <2>1 DEF LaneRecords, order
  <2> QED
    BY <1>0, <1>2, <1>5, <2>2
<1>10. r \in LaneRecords
  <2>1. lane[w].at \in Screen /\ lane[w].cur \in Screen /\ lane[w].errors \in 0..MaxErrors /\ s \in Screen
    BY <1>1, <1>2 DEF LaneRecords, Screen
  <2> QED
    BY <1>3, <1>4, <2>1 DEF LaneRecords, LanePcs
<1>11. lane' \in [AllLanes -> LaneRecords]
  <2>1. lane' = [v \in AllLanes |-> lane'[v]]
    BY <1>2, <1>5
  <2>2. \A v \in AllLanes : lane'[v] \in LaneRecords
    BY <1>2, <1>9, <1>10
  <2> QED
    BY <2>1, <2>2
<1>12. Moves(w, "walk", lane[w].cur, lane[w].errors)
  BY <1>0, <1>9, <1>11 DEF Moves, Others, Woken, LaneAt
<1>13. /\ lane'[w].src = s /\ lane'[w].op = Head(coord.pending[s]) /\ lane'[w].path = coord.pathTo[s]
       /\ ~lane'[w].replay => lane[w].cur = s
  <2>1. lane'[w].src = s /\ lane'[w].op = Head(coord.pending[s]) /\ lane'[w].path = coord.pathTo[s]
    BY <1>9 DEF order
  <2>2. lane'[w].replay = (s # lane[w].cur)
    <3>1. r.replay = (s # lane[w].cur)
      BY Zenon
    <3> HIDE DEF r
    <3> QED
      BY <1>9, <3>1, Zenon
  <2> QED
    BY <2>1, <2>2
<1>14. coord.pending[s] # << >>
  BY <1>1 DEF order
<1> HIDE DEF r
<1> QED
  BY <1>1, <1>6, <1>8, <1>12, <1>13, <1>14

\* A lane reserves an operation: it leaves the plan and is held.
LEMMA ReserveKeeps ==
  ASSUME IInv, NEW w \in Lanes, Reserve(w)
  PROVE  IInv'
<1>1. /\ Typed /\ MapOk(map) /\ PlanOk(map, coord.pending) /\ Replayable
      /\ LanesOk /\ Counts /\ DiskOk /\ Unhurt /\ w \in AllLanes
  BY LanesAre DEF IInv
<1>2. /\ lane \in [AllLanes -> LaneRecords] /\ map \in MapRecords /\ coord \in CoordRecords
      /\ faults \in 0..MaxFaults /\ hurt \in BOOLEAN /\ setup \in Setups
  BY <1>1 DEF Typed
<1>3. UNCHANGED <<setup, main, map, disk, faults, hurt>> /\ lane[w].pc = "select" /\ ~coord.stopped /\ Spent = ""
  BY DEF Reserve
<1>4. LaneAt(w) /\ main.pc = "walk" /\ lane[w].errors < MaxErrors
  BY <1>1, <1>3 DEF LanesOk, LaneAt
<1>5. PICK s \in Screens :
           /\ coord.pending[s] # << >>
           /\ coord' \in CoordRecords /\ coord'.pathTo = coord.pathTo /\ coord'.discovering = coord.discovering
           /\ coord'.pending[s] = Tail(coord.pending[s])
           /\ \A z \in Screens \ {s} : coord'.pending[z] = coord.pending[z]
           /\ coord'.steps = coord.steps + 1 /\ coord'.active = coord.active + 1
           /\ coord'.failed = coord.failed /\ coord'.stopped = coord.stopped
           /\ Moves(w, "walk", lane[w].cur, lane[w].errors)
           /\ lane'[w].src = s /\ lane'[w].op = Head(coord.pending[s]) /\ lane'[w].path = coord.pathTo[s]
           /\ ~lane'[w].replay => lane[w].cur = s
  BY ReserveWrites
<1> DEFINE a == Head(coord.pending[s])
<1>6. /\ coord.pending \in Plans /\ coord'.pending \in Plans
      /\ \A z \in Screens : Once(coord.pending[z]) /\ ToSet(coord.pending[z]) \subseteq OpsOf(z)
      /\ s \in map.nodes
      /\ \A b \in ToSet(coord.pending[s]) : <<s, b>> \notin Settled(map) \union Pruned(map)
  BY <1>1, <1>2, <1>5 DEF PlanOk, CoordRecords
<1>7. /\ a \in ToSet(coord.pending[s]) /\ Once(coord'.pending[s])
      /\ ToSet(coord'.pending[s]) = ToSet(coord.pending[s]) \ {a}
  <2>1. coord.pending[s] \in Seq(Ops)
    BY <1>6 DEF Plans
  <2> QED
    BY <1>5, <1>6, <2>1, HeadIs
<1>8. Others(w) /\ lane'[w].pc = "walk" /\ lane'[w].at = lane[w].cur /\ Held(w)' = <<s, a>>
  BY <1>5 DEF Moves, Held
<1> HIDE DEF a
<1>9. \A z \in Screens : ToSet(coord'.pending[z]) \subseteq ToSet(coord.pending[z]) /\ Once(coord'.pending[z])
  BY <1>5, <1>6, <1>7
<1>10. PlanOk(map', coord'.pending)
  <2>1. map' = map
    BY <1>3
  <2>2. \A z \in Screens : coord'.pending[z] # << >> => coord.pending[z] # << >>
    BY <1>5
  <2>3. PlanOk(map, coord'.pending)
    BY <1>1, <1>9, <2>2 DEF PlanOk
  <2> QED
    BY <2>1, <2>3
<1>11. MapOk(map')
  BY <1>1, <1>3
<1>12. Replayable'
  <2>1. \A z \in Screens : coord'.pending[z] # << >> => coord.pending[z] # << >>
    BY <1>5
  <2> QED
    BY <1>1, <1>3, <1>5, <2>1, SameSetup DEF Replayable, Reached
<1>13. /\ Leads(coord.pathTo[s]) = s /\ \A path : Leads(path)' = Leads(path)
       /\ \A z : OpsOf(z)' = OpsOf(z)
  BY <1>1, <1>3, <1>5, SameSetup DEF Replayable, Reached
<1>14. WalkAt(w)'
  <2>1. lane'[w].src \in map'.nodes /\ lane'[w].op \in OpsOf(s)'
    BY <1>3, <1>5, <1>6, <1>7, <1>13 DEF a
  <2>2. Reached(s)' /\ Leads(lane[w].path)' = s
    BY <1>5, <1>13 DEF Reached
  <2>3. ~lane'[w].replay => lane'[w].at = lane'[w].src
    BY <1>5, <1>8
  <2>4. lane'[w].op \notin ToSet(coord'.pending[s])
    BY <1>5, <1>7 DEF a
  <2>5. Held(w)' \notin Settled(map)' \union Pruned(map)'
    BY <1>3, <1>6, <1>7, <1>8 DEF Settled, Tried, Pruned
  <2>6. ASSUME NEW v \in AllLanes', v # w, lane'[v].pc = "walk" PROVE Held(v)' # Held(w)'
    <3>1. v \in AllLanes \ {w}
      BY <1>3, <2>6 DEF AllLanes
    <3>2. lane[v].pc = "walk" /\ Held(v)' = Held(v)
      BY <1>2, <1>8, <2>6, <3>1, OthersStay
    <3>3. WalkAt(v)
      BY <1>1, <3>1 DEF LanesOk
    <3>4. lane[v].op \notin ToSet(coord.pending[lane[v].src])
      BY <3>2, <3>3 DEF WalkAt
    <3> QED
      BY <1>7, <1>8, <3>2, <3>4 DEF Held
  <2> QED
    BY <1>5, <2>1, <2>2, <2>3, <2>4, <2>5, <2>6 DEF WalkAt
<1>15. DiscoverAt(w)'
  BY <1>8 DEF DiscoverAt
<1>16. Counts'
  <2>1. Cardinality(map.nodes) < setup.screens /\ coord.steps < setup.steps
    <3>1. ~(Cardinality(map.nodes) >= setup.screens) /\ ~(coord.steps >= setup.steps)
      BY <1>3 DEF Spent
    <3>2. IsFiniteSet(map.nodes) /\ setup.screens \in Nat /\ setup.steps \in Nat /\ coord.steps \in Nat
      BY <1>1, <1>2, SetupIs DEF Counts, CoordRecords
    <3>3. Cardinality(map.nodes) \in Nat
      BY <3>2, FS_CardinalityType
    <3> QED
      BY <3>1, <3>2, <3>3
  <2>2. coord'.active \in Nat /\ coord'.steps <= setup.steps /\ coord'.discovering \intersect map'.nodes = {}
    <3>1. setup.steps \in Nat /\ coord.steps \in Nat
      BY <1>2, SetupIs DEF CoordRecords
    <3>2. coord'.active \in Nat
      BY <1>5 DEF CoordRecords
    <3>3. coord'.steps <= setup.steps
      BY <1>5, <2>1, <3>1
    <3>4. coord'.discovering \intersect map'.nodes = {}
      BY <1>1, <1>3, <1>5 DEF Counts
    <3> QED
      BY <3>2, <3>3, <3>4
  <2> QED
    BY <1>1, <1>3, <1>5, <1>8, <2>1, <2>2, CountsNext
<1>17. ASSUME ~hurt'
       PROVE  /\ Whole(map', coord'.pending, HeldNow')
              /\ Leaves(map') \subseteq map'.nodes \union Discovering'
              /\ coord'.discovering \subseteq Discovering'
              /\ map'.stop = "completed" => Frontier' = {} /\ Busy' = {} /\ coord'.stopped
  <2>1. /\ \A x \in HeldNow : x \in HeldNow' \/ (lane[w].pc = "walk" /\ x = Held(w))
        /\ \A x \in Discovering : x \in Discovering' \/ (lane[w].pc = "discover" /\ x = lane[w].cur)
        /\ <<s, a>> \in HeldNow'
    BY <1>1, <1>2, <1>3, <1>8, HeldStays
  <2>2. /\ Whole(map, coord.pending, HeldNow) /\ Leaves(map) \subseteq map.nodes \union Discovering
        /\ coord.discovering \subseteq Discovering
        /\ map.stop # "completed"
    BY <1>1, <1>3, <1>4, <1>17 DEF Unhurt
  <2>3. \A z \in Screens : \A b \in ToSet(coord.pending[z]) :
          b \in ToSet(coord'.pending[z]) \/ <<z, b>> \in Settled(map') \union HeldNow'
    BY <1>5, <1>7, <2>1
  <2>4. map.nodes \subseteq Screens
    BY <1>2 DEF MapRecords
  <2>5. Whole(map', coord'.pending, HeldNow')
    BY <1>3, <2>1, <2>2, <2>3, <2>4, WholeNext
  <2> QED
    BY <1>3, <1>5, <2>1, <2>2, <2>5
<1>18. coord'.failed => hurt'
  BY <1>1, <1>3, <1>5 DEF Unhurt
<1>19. /\ \A z \in map.nodes : \A b \in ToSet(coord'.pending[z]) : b \in ToSet(coord.pending[z])
       /\ map.nodes \subseteq map'.nodes
       /\ \A x \in Settled(map') \union Pruned(map') : x \in Settled(map) \union Pruned(map)
       /\ \A z \in coord.discovering : z \in coord'.discovering
  <2>1. map.nodes \subseteq Screens
    BY <1>2 DEF MapRecords
  <2> QED
    BY <1>3, <1>5, <1>9, <2>1
<1> QED
  <2>1. map' \in MapRecords /\ faults' \in 0..MaxFaults /\ hurt' \in BOOLEAN /\ (hurt => hurt') /\ disk' = disk
    BY <1>2, <1>3
  <2> QED
    BY <1>1, <1>3, <1>4, <1>5, <1>10, <1>11, <1>12, <1>14, <1>15, <1>16, <1>17, <1>18, <1>19, <2>1, StepKeeps

\* What a lane performs is performed on the screen it was reserved of.
LEMMA OnIs ==
  ASSUME IInv, NEW w \in Lanes, lane[w].pc = "walk"
  PROVE  /\ On(w) = lane[w].src /\ lane[w].src \in Screens /\ lane[w].src \in map.nodes
         /\ lane[w].op \in Ops /\ lane[w].op \in OpsOf(lane[w].src)
         /\ Landed(w) = setup.goes[lane[w].src][lane[w].op] /\ Landed(w) \in Screen
         /\ Path(w) \in Seq(Ops) /\ Path(w) # << >> /\ Last(Path(w)) = lane[w].op
         /\ Front(Path(w)) = lane[w].path /\ Leads(lane[w].path) = lane[w].src /\ Leads(Path(w)) = Landed(w)
         /\ Held(w) \notin Settled(map) \union Pruned(map) /\ Held(w) = <<lane[w].src, lane[w].op>>
         /\ lane[w].op \notin ToSet(coord.pending[lane[w].src]) /\ Reached(lane[w].src)
<1>1. WalkAt(w) /\ lane[w] \in LaneRecords
  BY BusyIs
<1>2. setup \in Setups /\ map.nodes \subseteq Screens
  BY DEF IInv, Typed, MapRecords
<1>3. /\ lane[w].src \in map.nodes /\ lane[w].op \in OpsOf(lane[w].src)
      /\ Reached(lane[w].src) /\ Leads(lane[w].path) = lane[w].src
      /\ ~lane[w].replay => lane[w].at = lane[w].src
      /\ lane[w].op \notin ToSet(coord.pending[lane[w].src])
      /\ Held(w) \notin Settled(map) \union Pruned(map)
  BY <1>1 DEF WalkAt
<1>4. lane[w].src \in Screens /\ lane[w].op \in Ops /\ lane[w].path \in Seq(Ops)
  <2>1. lane[w].src \in Screens
    BY <1>2, <1>3
  <2>2. OpsOf(lane[w].src) \subseteq Ops
    BY <1>2, <2>1, OpsAre
  <2> QED
    BY <1>1, <1>3, <2>1, <2>2 DEF LaneRecords
<1>5. On(w) = lane[w].src
  BY <1>3 DEF On
<1>6. Landed(w) = setup.goes[lane[w].src][lane[w].op]
  BY <1>3, <1>5 DEF Landed
<1>7. Landed(w) \in Screen
  BY <1>2, <1>3, <1>4, <1>6, SetupIs DEF Screen
<1>8. Path(w) \in Seq(Ops) /\ Path(w) # << >> /\ Last(Path(w)) = lane[w].op /\ Front(Path(w)) = lane[w].path
  BY <1>4, AppendIs DEF Path
<1>9. Leads(Path(w)) = Landed(w)
  <2>1. Leads(Path(w)) = After(Leads(lane[w].path), lane[w].op)
    BY <1>2, <1>4, LeadsOn DEF Path
  <2>2. lane[w].src # None
    BY <1>4, Constants
  <2> QED
    BY <1>3, <1>6, <2>1, <2>2 DEF After
<1> QED
  BY <1>3, <1>4, <1>5, <1>6, <1>7, <1>8, <1>9 DEF Held

\* A lane lets go of the operation it held: it is settled or handed back, and
\* with it, perhaps, what was planned of its screen.
LEMMA FreeKeeps ==
  ASSUME IInv, NEW w \in Lanes, lane[w].pc = "walk", setup' = setup, main' = main, hurt' = hurt,
         faults' \in 0..MaxFaults, map' \in MapRecords, coord' \in CoordRecords,
         NEW p \in {"select", "heal", "over"}, NEW d, NEW n, Moves(w, p, d, n), p # "over" => n < MaxErrors,
         NEW G, MapOk(map'), map'.nodes = map.nodes, map'.stop = map.stop,
         Settled(map') = Settled(map) \union G, Pruned(map') = Pruned(map),
         Leaves(map') \subseteq Leaves(map) \union map.nodes \union coord.discovering,
         PlanOk(map', coord'.pending),
         coord'.pathTo = coord.pathTo, coord'.discovering = coord.discovering, coord'.steps = coord.steps,
         coord'.failed = coord.failed, coord'.stopped = coord.stopped, coord'.active = coord.active - 1,
         \A z \in Screens : \A a \in ToSet(coord'.pending[z]) :
           a \in ToSet(coord.pending[z]) \/ <<z, a>> = Held(w),
         \A z \in Screens : \A a \in ToSet(coord.pending[z]) : a \in ToSet(coord'.pending[z]) \/ <<z, a>> \in G,
         \A x \in G : x = Held(w) \/ x[2] \in ToSet(coord.pending[x[1]]),
         Held(w) \in G \/ lane[w].op \in ToSet(coord'.pending[lane[w].src]),
         disk' = disk \/ disk' = [map |-> map', plan |-> coord'.pending]
  PROVE  IInv'
<1>1. /\ Typed /\ MapOk(map) /\ PlanOk(map, coord.pending) /\ Replayable
      /\ LanesOk /\ Counts /\ DiskOk /\ Unhurt
  BY DEF IInv
<1>2. /\ w \in AllLanes /\ main.pc = "walk" /\ w \in Busy
      /\ coord.active \in Nat \ {0} /\ (map.stop = "completed" => hurt)
  BY BusyIs
<1>3. /\ lane \in [AllLanes -> LaneRecords] /\ map \in MapRecords /\ coord \in CoordRecords
      /\ hurt \in BOOLEAN /\ setup \in Setups
  BY <1>1 DEF Typed
<1>4. Others(w) /\ lane'[w].pc = p
  BY DEF Moves
<1>5. WalkAt(w)' /\ DiscoverAt(w)'
  BY <1>4 DEF WalkAt, DiscoverAt
<1>6. coord'.pending \in Plans /\ coord.pending \in Plans /\ map.nodes \subseteq Screens
  BY <1>3 DEF CoordRecords, MapRecords
<1>7. lane[w].src \in Screens /\ Held(w) = <<lane[w].src, lane[w].op>> /\ Reached(lane[w].src)
  BY OnIs
<1>8. Replayable'
  <2>1. ASSUME NEW z \in Screens, coord'.pending[z] # << >> PROVE Reached(z)
    <3>1. coord'.pending[z] \in Seq(Ops) /\ coord.pending[z] \in Seq(Ops)
      BY <1>6 DEF Plans
    <3>2. PICK a \in ToSet(coord'.pending[z]) : TRUE
      BY <2>1, <3>1, EmptyIs
    <3>3. CASE a \in ToSet(coord.pending[z])
      <4>1. coord.pending[z] # << >>
        BY <3>3, EmptyIs
      <4> QED
        BY <1>1, <4>1 DEF Replayable
    <3>4. CASE <<z, a>> = Held(w)
      BY <1>7, <3>4
    <3> QED
      BY <3>2, <3>3, <3>4
  <2> QED
    BY <2>1, SameSetup DEF Replayable, Reached
<1>9. Counts'
  <2>1. coord'.active \in Nat /\ coord'.steps <= setup.steps /\ coord'.discovering \intersect map'.nodes = {}
    BY <1>1 DEF CoordRecords, Counts
  <2>2. lane'[w].pc \notin {"walk", "discover"}
    BY <1>4
  <2> QED
    BY <1>1, <1>2, <1>4, <2>1, <2>2, CountsNext
<1>10. ASSUME ~hurt'
       PROVE  /\ Whole(map', coord'.pending, HeldNow')
              /\ Leaves(map') \subseteq map'.nodes \union Discovering'
              /\ coord'.discovering \subseteq Discovering'
              /\ map'.stop = "completed" => Frontier' = {} /\ Busy' = {} /\ coord'.stopped
  <2>1. /\ \A x \in HeldNow : x \in HeldNow' \/ (lane[w].pc = "walk" /\ x = Held(w))
        /\ \A x \in Discovering : x \in Discovering'
    BY <1>2, <1>3, <1>4, HeldStays
  <2>2. /\ Whole(map, coord.pending, HeldNow) /\ Leaves(map) \subseteq map.nodes \union Discovering
        /\ coord.discovering \subseteq Discovering
    BY <1>1, <1>2, <1>10 DEF Unhurt
  <2>3. Whole(map', coord'.pending, HeldNow')
    BY <1>6, <2>1, <2>2, WholeNext
  <2>4. Leaves(map') \subseteq map'.nodes \union Discovering' /\ coord'.discovering \subseteq Discovering'
    BY <2>1, <2>2
  <2>5. map'.stop # "completed"
    BY <1>2, <1>10
  <2> QED
    BY <2>3, <2>4, <2>5
<1>11. /\ \A z \in map.nodes : \A a \in ToSet(coord'.pending[z]) :
            a \in ToSet(coord.pending[z]) \/ (lane[w].pc = "walk" /\ <<z, a>> = Held(w))
       /\ \A x \in Settled(map') \union Pruned(map') :
           \/ x \in Settled(map) \union Pruned(map) \/ x[1] \notin map.nodes
           \/ (lane[w].pc = "walk" /\ x = Held(w)) \/ x[2] \in ToSet(coord.pending[x[1]])
       /\ \A z \in coord.discovering : z \in coord'.discovering
       /\ map.nodes \subseteq map'.nodes
  BY <1>6
<1>12. (coord'.failed => hurt') /\ hurt' \in BOOLEAN /\ (hurt => hurt')
  BY <1>1, <1>3 DEF Unhurt
<1> QED
  BY <1>2, <1>5, <1>8, <1>9, <1>10, <1>11, <1>12, StepKeeps

\* What releasing an operation writes.
LEMMA ReleasedIs ==
  ASSUME NEW c \in CoordRecords, c.active \in Nat \ {0}
  PROVE  /\ Released(c) \in CoordRecords /\ Released(c).pathTo = c.pathTo /\ Released(c).pending = c.pending
         /\ Released(c).claimed = c.claimed /\ Released(c).discovering = c.discovering
         /\ Released(c).steps = c.steps
         /\ Released(c).active = c.active - 1 /\ Released(c).stopped = c.stopped /\ Released(c).failed = c.failed
<1> DEFINE n == c.active - 1
           k == Released(c)
<1>1. n \in Nat
  OBVIOUS
<1>2. k = [c EXCEPT !.active = n]
  BY DEF Released
<1> HIDE DEF n, k
<1>3. k \in CoordRecords
  BY <1>1, <1>2 DEF CoordRecords
<1>4. /\ k.pathTo = c.pathTo /\ k.pending = c.pending /\ k.claimed = c.claimed /\ k.discovering = c.discovering
      /\ k.steps = c.steps /\ k.stopped = c.stopped /\ k.failed = c.failed
  BY <1>2 DEF CoordRecords
<1>5. k.active = n
  BY <1>2 DEF CoordRecords
<1> QED
  BY <1>3, <1>4, <1>5 DEF k, n

\* ... and what giving a screen another list writes.
Planned(c, s, order) == [c EXCEPT !.pending = [c.pending EXCEPT ![s] = order]]

\* A list of one screen replaced: what else the coordinator keeps is as it was.
LEMMA PlannedIs ==
  ASSUME NEW c \in CoordRecords, NEW s \in Screens, NEW order \in Seq(Ops), NEW k, k = Planned(c, s, order)
  PROVE  /\ k \in CoordRecords /\ k.pathTo = c.pathTo /\ k.claimed = c.claimed /\ k.discovering = c.discovering
         /\ k.steps = c.steps /\ k.active = c.active /\ k.stopped = c.stopped /\ k.failed = c.failed
         /\ k.pending[s] = order /\ \A z \in Screens \ {s} : k.pending[z] = c.pending[z]
<1> DEFINE plan == [c.pending EXCEPT ![s] = order]
<1>1. plan \in Plans /\ plan[s] = order /\ \A z \in Screens \ {s} : plan[z] = c.pending[z]
  BY DEF CoordRecords, Plans
<1>2. k = [c EXCEPT !.pending = plan]
  BY DEF Planned
<1> HIDE DEF plan
<1>3. k \in CoordRecords
  BY <1>1, <1>2 DEF CoordRecords
<1>4. /\ k.pathTo = c.pathTo /\ k.claimed = c.claimed /\ k.discovering = c.discovering
      /\ k.steps = c.steps /\ k.active = c.active /\ k.stopped = c.stopped /\ k.failed = c.failed
  BY <1>2 DEF CoordRecords
<1>5. k.pending = plan
  BY <1>2 DEF CoordRecords
<1> QED
  BY <1>1, <1>3, <1>4, <1>5

\* A lane hands its operation back.
LEMMA GiveBackKeeps ==
  ASSUME IInv, NEW w \in Lanes, GiveBack(w)
  PROVE  IInv'
<1> DEFINE s == lane[w].src
           a == lane[w].op
           n == lane[w].errors + 1
<1>1. /\ Typed /\ PlanOk(map, coord.pending) /\ MapOk(map)
      /\ coord \in CoordRecords /\ map \in MapRecords /\ lane \in [AllLanes -> LaneRecords] /\ faults \in 0..MaxFaults
  BY DEF IInv, Typed
<1>2. /\ lane[w].pc = "walk" /\ Fault /\ UNCHANGED <<setup, main, map, disk, hurt>>
      /\ coord' = [Released(coord) EXCEPT !.pending[s] = <<a>> \o @]
  BY DEF GiveBack
<1>3. /\ s \in Screens /\ s \in map.nodes /\ a \in Ops /\ a \in OpsOf(s)
      /\ Held(w) \notin Settled(map) \union Pruned(map) /\ Held(w) = <<s, a>> /\ a \notin ToSet(coord.pending[s])
  BY <1>2, OnIs
<1>4. w \in AllLanes /\ coord.active \in Nat \ {0} /\ lane[w].errors < MaxErrors /\ lane[w] \in LaneRecords
  BY <1>2, BusyIs
<1>5. \E p \in {"select", "heal", "over"} :
         /\ p # "over" => n < MaxErrors
         /\ lane' = [Notified(Freed(w, None)) EXCEPT ![w].errors = n, ![w].pc = p]
  <2>1. PICK stale \in {FALSE, lane[w].replay} :
          lane' = [Notified(Freed(w, None)) EXCEPT
                  ![w].errors = n,
                  ![w].pc = IF n >= MaxErrors THEN "over" ELSE IF setup.heals /\ ~stale THEN "heal" ELSE "select"]
    BY DEF GiveBack
  <2> DEFINE p == IF n >= MaxErrors THEN "over" ELSE IF setup.heals /\ ~stale THEN "heal" ELSE "select"
  <2>2. p \in {"select", "heal", "over"} /\ (p # "over" => ~(n >= MaxErrors))
    OBVIOUS
  <2>3. n \in Nat /\ MaxErrors \in Nat
    BY <1>4, Constants DEF LaneRecords
  <2> HIDE DEF p, n
  <2>4. p # "over" => n < MaxErrors
    BY <2>2, <2>3
  <2>5. lane' = [Notified(Freed(w, None)) EXCEPT ![w].errors = n, ![w].pc = p]
    BY <2>1 DEF p
  <2> QED
    BY <2>2, <2>4, <2>5
<1>6. PICK p \in {"select", "heal", "over"} :
         /\ p # "over" => n < MaxErrors
         /\ lane' = [Notified(Freed(w, None)) EXCEPT ![w].errors = n, ![w].pc = p]
  BY <1>5
<1>7. Moves(w, p, None, n)
  <2>1. n \in 0..MaxErrors
    BY <1>4, Constants DEF LaneRecords
  <2>2. None \in Screen /\ p \in LanePcs
    BY DEF Screen, LanePcs
  <2> HIDE DEF n
  <2> QED
    BY <1>1, <1>4, <1>6, <2>1, <2>2, FreeingMoves
<1> HIDE DEF s, a, n
<1> DEFINE order == <<a>> \o coord.pending[s]
<1>8. /\ order \in Seq(Ops) /\ Once(order) /\ ToSet(order) = ToSet(coord.pending[s]) \union {a}
      /\ coord.pending \in Plans
  <2>1. coord.pending \in Plans /\ coord.pending[s] \in Seq(Ops)
    BY <1>1, <1>3 DEF CoordRecords, Plans
  <2>2. Once(coord.pending[s])
    BY <1>1, <1>3 DEF PlanOk
  <2> QED
    BY <1>3, <2>1, <2>2, PushIs
<1>9. coord' = [Released(coord) EXCEPT !.pending[s] = order]
  <2>1. Released(coord).pending = coord.pending /\ Released(coord) \in CoordRecords
    BY <1>1, <1>4, ReleasedIs
  <2> QED
    BY <1>2, <2>1 DEF CoordRecords
<1> HIDE DEF order
<1>10. /\ coord' \in CoordRecords /\ coord'.pathTo = coord.pathTo /\ coord'.discovering = coord.discovering
       /\ coord'.steps = coord.steps /\ coord'.failed = coord.failed /\ coord'.stopped = coord.stopped
       /\ coord'.active = coord.active - 1
       /\ coord'.pending[s] = order /\ \A z \in Screens \ {s} : coord'.pending[z] = coord.pending[z]
  <2> DEFINE c == Released(coord)
  <2>1. /\ c \in CoordRecords /\ c.pathTo = coord.pathTo /\ c.pending = coord.pending
        /\ c.discovering = coord.discovering /\ c.steps = coord.steps
        /\ c.active = coord.active - 1 /\ c.stopped = coord.stopped /\ c.failed = coord.failed
    BY <1>1, <1>4, ReleasedIs
  <2> HIDE DEF c
  <2>2. coord' = [c EXCEPT !.pending[s] = order]
    BY <1>9 DEF c
  <2>3. /\ coord' \in CoordRecords /\ coord'.pathTo = c.pathTo /\ coord'.discovering = c.discovering
        /\ coord'.steps = c.steps /\ coord'.active = c.active /\ coord'.stopped = c.stopped /\ coord'.failed = c.failed
        /\ coord'.pending[s] = order /\ \A z \in Screens \ {s} : coord'.pending[z] = c.pending[z]
    <3>1. c \in CoordRecords /\ s \in Screens /\ order \in Seq(Ops)
      BY <1>3, <1>8, <2>1
    <3>2. coord' = Planned(c, s, order)
      BY <2>2, <3>1 DEF CoordRecords, Planned
    <3> QED
      BY <3>1, <3>2, PlannedIs
  <2> QED
    BY <2>1, <2>3
<1>11. PlanOk(map', coord'.pending)
  <2>1. ASSUME NEW z \in Screens
        PROVE  /\ coord'.pending[z] # << >> => z \in map.nodes
               /\ Once(coord'.pending[z]) /\ ToSet(coord'.pending[z]) \subseteq OpsOf(z)
               /\ \A b \in ToSet(coord'.pending[z]) : <<z, b>> \notin Settled(map) \union Pruned(map)
    <3>1. /\ coord.pending[z] # << >> => z \in map.nodes
          /\ Once(coord.pending[z]) /\ ToSet(coord.pending[z]) \subseteq OpsOf(z)
          /\ \A b \in ToSet(coord.pending[z]) : <<z, b>> \notin Settled(map) \union Pruned(map)
      BY <1>1 DEF PlanOk
    <3>2. CASE z = s
      BY <1>3, <1>8, <1>10, <3>1, <3>2
    <3>3. CASE z # s
      BY <1>10, <3>1, <3>3
    <3> QED
      BY <3>2, <3>3
  <2>2. map' = map
    BY <1>2
  <2> QED
    BY <2>1, <2>2 DEF PlanOk
<1>12. /\ \A z \in Screens : \A b \in ToSet(coord'.pending[z]) : b \in ToSet(coord.pending[z]) \/ <<z, b>> = Held(w)
       /\ \A z \in Screens : \A b \in ToSet(coord.pending[z]) : b \in ToSet(coord'.pending[z])
       /\ lane[w].op \in ToSet(coord'.pending[lane[w].src])
  BY <1>3, <1>8, <1>10 DEF s, a
<1>13. /\ map' \in MapRecords /\ MapOk(map') /\ map'.nodes = map.nodes /\ map'.stop = map.stop
       /\ Settled(map') = Settled(map) \union {} /\ Pruned(map') = Pruned(map)
       /\ Leaves(map') \subseteq Leaves(map) \union map.nodes \union coord.discovering
       /\ disk' = disk /\ hurt' = hurt /\ setup' = setup /\ main' = main
  BY <1>1, <1>2
<1>14. faults' \in 0..MaxFaults
  BY <1>1, <1>2, FaultIs
<1> DEFINE G == {}
<1>15. /\ Settled(map') = Settled(map) \union G
       /\ \A z \in Screens : \A b \in ToSet(coord.pending[z]) : b \in ToSet(coord'.pending[z]) \/ <<z, b>> \in G
       /\ \A x \in G : x = Held(w) \/ x[2] \in ToSet(coord.pending[x[1]])
       /\ Held(w) \in G \/ lane[w].op \in ToSet(coord'.pending[lane[w].src])
  BY <1>12, <1>13
<1> HIDE DEF G
<1> QED
  BY <1>2, <1>6, <1>7, <1>10, <1>11, <1>12, <1>13, <1>14, <1>15, FreeKeeps

\* What every step of a walking lane starts from.
LEMMA WalkFrom ==
  ASSUME IInv, NEW w \in Lanes, lane[w].pc = "walk"
  PROVE  /\ Typed /\ MapOk(map) /\ PlanOk(map, coord.pending) /\ w \in AllLanes
         /\ map \in MapRecords /\ coord \in CoordRecords /\ lane \in [AllLanes -> LaneRecords]
         /\ faults \in 0..MaxFaults /\ coord.active \in Nat \ {0} /\ coord.pending \in Plans
         /\ lane[w].errors \in 0..MaxErrors /\ lane[w].errors < MaxErrors
         /\ 0 \in 0..MaxErrors /\ 0 < MaxErrors /\ None \in Screen
<1>1. Typed /\ MapOk(map) /\ PlanOk(map, coord.pending)
  BY DEF IInv
<1>2. /\ map \in MapRecords /\ coord \in CoordRecords /\ lane \in [AllLanes -> LaneRecords]
      /\ faults \in 0..MaxFaults
  BY <1>1 DEF Typed
<1>3. w \in AllLanes /\ coord.active \in Nat \ {0} /\ lane[w].errors < MaxErrors /\ lane[w] \in LaneRecords
  BY BusyIs
<1>4. lane[w].errors \in 0..MaxErrors /\ coord.pending \in Plans
  BY <1>2, <1>3 DEF LaneRecords, CoordRecords
<1>5. 0 \in 0..MaxErrors /\ 0 < MaxErrors /\ None \in Screen
  BY Constants DEF Screen
<1> QED
  BY <1>1, <1>2, <1>3, <1>4, <1>5

\* A lane settles the operation it held, and nothing else.
LEMMA SettleKeeps ==
  ASSUME IInv, NEW w \in Lanes, lane[w].pc = "walk", setup' = setup, main' = main, hurt' = hurt,
         faults' \in 0..MaxFaults, map' \in MapRecords, coord' = Released(coord),
         NEW d, NEW n, Moves(w, "select", d, n), n < MaxErrors,
         MapOk(map'), map'.nodes = map.nodes, map'.stop = map.stop,
         Settled(map') = Settled(map) \union {Held(w)}, Pruned(map') = Pruned(map),
         Leaves(map') \subseteq Leaves(map) \union map.nodes \union coord.discovering,
         disk' = disk \/ Emit(map', coord')
  PROVE  IInv'
<1>1. /\ PlanOk(map, coord.pending) /\ coord \in CoordRecords /\ coord.active \in Nat \ {0} /\ coord.pending \in Plans
  BY WalkFrom
<1>2. /\ coord' \in CoordRecords /\ coord'.pathTo = coord.pathTo /\ coord'.pending = coord.pending
      /\ coord'.discovering = coord.discovering /\ coord'.steps = coord.steps
      /\ coord'.active = coord.active - 1 /\ coord'.stopped = coord.stopped /\ coord'.failed = coord.failed
  BY <1>1, ReleasedIs
<1>3. Held(w) = <<lane[w].src, lane[w].op>> /\ lane[w].op \notin ToSet(coord.pending[lane[w].src])
  BY OnIs
<1> DEFINE G == {Held(w)}
<1>4. \A z \in Screens : \A a \in ToSet(coord.pending[z]) : <<z, a>> \notin G
  BY <1>3
<1>5. /\ \A x \in G : x = Held(w) \/ x[2] \in ToSet(coord.pending[x[1]])
      /\ Held(w) \in G /\ Settled(map') = Settled(map) \union G
  OBVIOUS
<1> HIDE DEF G
<1>6. PlanOk(map', coord'.pending)
  <2>1. \A z \in Screens : /\ Once(coord.pending[z]) /\ ToSet(coord.pending[z]) \subseteq ToSet(coord.pending[z])
                           /\ \A a \in ToSet(coord.pending[z]) : <<z, a>> \notin G
    BY <1>1, <1>4 DEF PlanOk
  <2>2. PlanOk(map', coord.pending)
    BY <1>1, <1>5, <2>1, PlanSettles
  <2> QED
    BY <1>2, <2>2
<1>7. disk' = disk \/ disk' = [map |-> map', plan |-> coord'.pending]
  BY DEF Emit
<1>8. /\ \A z \in Screens : \A a \in ToSet(coord'.pending[z]) :
           a \in ToSet(coord.pending[z]) \/ <<z, a>> = Held(w)
      /\ \A z \in Screens : \A a \in ToSet(coord.pending[z]) : a \in ToSet(coord'.pending[z]) \/ <<z, a>> \in G
  BY <1>2
<1> QED
  BY <1>2, <1>5, <1>6, <1>7, <1>8, FreeKeeps

\* What is settled of the map, and the map it is settled on.
LEMMA GoneWritten ==
  ASSUME NEW m \in MapRecords, NEW G \in SUBSET (Screens \X Ops), NEW k, k = [m EXCEPT !.gone = @ \union G]
  PROVE  /\ k \in MapRecords /\ k.nodes = m.nodes /\ k.paths = m.paths /\ k.edges = m.edges
         /\ k.crashes = m.crashes /\ k.pruned = m.pruned /\ k.stop = m.stop /\ k.gone = m.gone \union G
<1> DEFINE X == m.gone \union G
<1>1. X \in SUBSET (Screens \X Ops) /\ k = [m EXCEPT !.gone = X]
  BY DEF MapRecords
<1> HIDE DEF X
<1> QED
  BY <1>1 DEF MapRecords, X

\* One more crash on a map.
LEMMA CrashWritten ==
  ASSUME NEW m \in MapRecords, NEW r \in Crashes, NEW k, k = [m EXCEPT !.crashes = @ \union {r}]
  PROVE  /\ k \in MapRecords /\ k.nodes = m.nodes /\ k.paths = m.paths /\ k.edges = m.edges
         /\ k.crashes = m.crashes \union {r} /\ k.pruned = m.pruned /\ k.stop = m.stop /\ k.gone = m.gone
<1> DEFINE X == m.crashes \union {r}
<1>1. X \in SUBSET Crashes /\ k = [m EXCEPT !.crashes = X]
  BY DEF MapRecords
<1> HIDE DEF X
<1> QED
  BY <1>1 DEF MapRecords, X

\* One more edge on a map.
LEMMA EdgeWritten ==
  ASSUME NEW m \in MapRecords, NEW r \in Screens \X Ops \X Screens, NEW k, k = [m EXCEPT !.edges = @ \union {r}]
  PROVE  /\ k \in MapRecords /\ k.nodes = m.nodes /\ k.paths = m.paths /\ k.edges = m.edges \union {r}
         /\ k.crashes = m.crashes /\ k.pruned = m.pruned /\ k.stop = m.stop /\ k.gone = m.gone
<1> DEFINE X == m.edges \union {r}
<1>1. X \in SUBSET (Screens \X Ops \X Screens) /\ k = [m EXCEPT !.edges = X]
  BY DEF MapRecords
<1> HIDE DEF X
<1> QED
  BY <1>1 DEF MapRecords, X

\* The operation's element is not there, or is covered: it is given up.
LEMMA CancelActionKeeps ==
  ASSUME IInv, NEW w \in Lanes, CancelAction(w)
  PROVE  IInv'
<1>1. /\ lane[w].pc = "walk" /\ Fault /\ map' = [map EXCEPT !.gone = @ \union {<<lane[w].src, lane[w].op>>}]
      /\ coord' = Released(coord) /\ lane' = Notified(Freed(w, None))
      /\ setup' = setup /\ main' = main /\ disk' = disk /\ hurt' = hurt
  BY DEF CancelAction
<1>2. /\ MapOk(map) /\ w \in AllLanes /\ map \in MapRecords /\ lane \in [AllLanes -> LaneRecords]
      /\ faults \in 0..MaxFaults /\ lane[w].errors \in 0..MaxErrors /\ lane[w].errors < MaxErrors /\ None \in Screen
  BY <1>1, WalkFrom
<1>3. /\ lane[w].src \in Screens /\ lane[w].src \in map.nodes /\ lane[w].op \in Ops
      /\ Held(w) \notin Settled(map) \union Pruned(map) /\ Held(w) = <<lane[w].src, lane[w].op>>
  BY <1>1, OnIs
<1>4. Moves(w, "select", None, lane[w].errors)
  BY <1>1, <1>2, FreeingMoves DEF LanePcs
<1> DEFINE G == {<<lane[w].src, lane[w].op>>}
<1>5. /\ G \in SUBSET (Screens \X Ops) /\ (\A g \in G : g[1] \in map.nodes)
      /\ G \intersect Pruned(map) = {} /\ G = {Held(w)}
  BY <1>3
<1> HIDE DEF G
<1>6. map' = [map EXCEPT !.gone = @ \union G]
  BY <1>1 DEF G
<1>7. /\ map' \in MapRecords /\ map'.nodes = map.nodes /\ map'.paths = map.paths /\ map'.edges = map.edges
      /\ map'.crashes = map.crashes /\ map'.pruned = map.pruned /\ map'.stop = map.stop /\ map'.gone = map.gone \union G
  BY <1>2, <1>5, <1>6, GoneWritten
<1>8. /\ MapOk(map') /\ Settled(map') = Settled(map) \union {Held(w)}
      /\ Pruned(map') = Pruned(map) /\ Leaves(map') = Leaves(map)
  <2>1. \A g \in G : g[1] \in map.nodes
    BY <1>5
  <2>2. G \intersect Pruned(map) = {}
    BY <1>5
  <2>3. MapOk(map') /\ Settled(map') = Settled(map) \union G /\ Pruned(map') = Pruned(map) /\ Leaves(map') = Leaves(map)
    BY <1>2, <1>7, <2>1, <2>2, MapGone
  <2> QED
    BY <1>5, <2>3
<1>9. faults' \in 0..MaxFaults
  BY <1>1, <1>2, FaultIs
<1> QED
  BY <1>1, <1>2, <1>4, <1>7, <1>8, <1>9, SettleKeeps

\* The operation collapsed the app: the crash is recorded of the screen it was performed on.
LEMMA RecordCrashKeeps ==
  ASSUME IInv, NEW w \in Lanes, RecordCrash(w)
  PROVE  IInv'
<1> DEFINE r == [src |-> lane[w].src, path |-> Path(w)]
<1>1. /\ lane[w].pc = "walk" /\ Landed(w) = None /\ map' = [map EXCEPT !.crashes = @ \union {r}]
      /\ coord' = Released(coord) /\ Emit(map', coord')
      /\ lane' = [Notified(Freed(w, None)) EXCEPT ![w].errors = 0]
      /\ setup' = setup /\ main' = main /\ faults' = faults /\ hurt' = hurt
  BY DEF RecordCrash
<1>2. /\ MapOk(map) /\ w \in AllLanes /\ map \in MapRecords /\ lane \in [AllLanes -> LaneRecords]
      /\ faults \in 0..MaxFaults /\ 0 \in 0..MaxErrors /\ 0 < MaxErrors /\ None \in Screen
  BY <1>1, WalkFrom
<1>3. /\ lane[w].src \in Screens /\ lane[w].src \in map.nodes /\ lane[w].op \in Ops /\ lane[w].op \in OpsOf(lane[w].src)
      /\ setup.goes[lane[w].src][lane[w].op] = None
      /\ Path(w) \in Seq(Ops) /\ Path(w) # << >> /\ Last(Path(w)) = lane[w].op
      /\ Leads(Front(Path(w))) = lane[w].src
      /\ Held(w) \notin Settled(map) \union Pruned(map) /\ Held(w) = <<lane[w].src, lane[w].op>>
  BY <1>1, OnIs
<1>4. Moves(w, "select", None, 0)
  BY <1>1, <1>2, FreeingMoves DEF LanePcs
<1>5. r \in Crashes
  BY <1>3 DEF Crashes
<1>6. /\ map' \in MapRecords /\ map'.nodes = map.nodes /\ map'.paths = map.paths /\ map'.edges = map.edges
      /\ map'.crashes = map.crashes \union {r} /\ map'.pruned = map.pruned /\ map'.stop = map.stop
      /\ map'.gone = map.gone
  <2> HIDE DEF r
  <2> QED
    BY <1>1, <1>2, <1>5, CrashWritten
<1>7. /\ MapOk(map') /\ Settled(map') = Settled(map) \union {<<lane[w].src, lane[w].op>>}
      /\ Pruned(map') = Pruned(map) /\ Leaves(map') = Leaves(map)
  <2> DEFINE s == lane[w].src  a == lane[w].op  path == Path(w)
  <2>1. /\ s \in map.nodes /\ a \in OpsOf(s) /\ setup.goes[s][a] = None /\ <<s, a>> \notin Pruned(map)
        /\ path # << >> /\ Last(path) = a /\ Leads(Front(path)) = s
        /\ map'.crashes = map.crashes \union {[src |-> s, path |-> path]}
    BY <1>3, <1>6
  <2> HIDE DEF s, a, path
  <2>2. /\ MapOk(map') /\ Settled(map') = Settled(map) \union {<<s, a>>}
        /\ Pruned(map') = Pruned(map) /\ Leaves(map') = Leaves(map)
    BY <1>2, <1>6, <2>1, MapCrash
  <2> QED
    BY <2>2 DEF s, a
<1> HIDE DEF r
<1> QED
  BY <1>1, <1>2, <1>3, <1>4, <1>6, <1>7, SettleKeeps

\* A lone lane gives up the screen its replay no longer reaches, with all that was planned of it.
LEMMA DropScreenKeeps ==
  ASSUME IInv, NEW w \in Lanes, DropScreen(w)
  PROVE  IInv'
<1> DEFINE s == lane[w].src
           a == lane[w].op
           c == Released(coord)
           G == {s} \X ({a} \union ToSet(coord.pending[s]))
<1>1. /\ lane[w].pc = "walk" /\ Fault /\ map' = [map EXCEPT !.gone = @ \union G]
      /\ coord' = [c EXCEPT !.pending[s] = << >>] /\ lane' = Notified(Freed(w, None))
      /\ setup' = setup /\ main' = main /\ disk' = disk /\ hurt' = hurt
  BY DEF DropScreen
<1>2. /\ MapOk(map) /\ PlanOk(map, coord.pending) /\ w \in AllLanes /\ map \in MapRecords /\ coord \in CoordRecords
      /\ lane \in [AllLanes -> LaneRecords] /\ coord.active \in Nat \ {0} /\ coord.pending \in Plans
      /\ faults \in 0..MaxFaults /\ lane[w].errors \in 0..MaxErrors /\ lane[w].errors < MaxErrors /\ None \in Screen
  BY <1>1, WalkFrom
<1>3. /\ s \in Screens /\ s \in map.nodes /\ a \in Ops
      /\ Held(w) \notin Settled(map) \union Pruned(map) /\ Held(w) = <<s, a>>
  BY <1>1, OnIs
<1>4. Moves(w, "select", None, lane[w].errors)
  BY <1>1, <1>2, FreeingMoves DEF LanePcs
<1>5. /\ c \in CoordRecords /\ c.pathTo = coord.pathTo /\ c.pending = coord.pending
      /\ c.discovering = coord.discovering /\ c.steps = coord.steps
      /\ c.active = coord.active - 1 /\ c.stopped = coord.stopped /\ c.failed = coord.failed
  BY <1>2, ReleasedIs
<1>6. ToSet(coord.pending[s]) \subseteq Ops /\ \A b \in ToSet(coord.pending[s]) : <<s, b>> \notin Pruned(map)
  <2>1. OpsOf(s) \subseteq Ops
    BY <1>3, OpsAre DEF IInv, Typed
  <2> QED
    BY <1>2, <1>3, <2>1 DEF PlanOk
<1>7. /\ G \in SUBSET (Screens \X Ops) /\ \A g \in G : g[1] = s /\ (g = Held(w) \/ g[2] \in ToSet(coord.pending[s]))
      /\ Held(w) \in G /\ G \intersect Pruned(map) = {}
      /\ \A b \in ToSet(coord.pending[s]) : <<s, b>> \in G
  BY <1>3, <1>6
<1> HIDE DEF s, a, c, G
<1>8. /\ map' \in MapRecords /\ map'.nodes = map.nodes /\ map'.paths = map.paths /\ map'.edges = map.edges
      /\ map'.crashes = map.crashes /\ map'.pruned = map.pruned /\ map'.stop = map.stop /\ map'.gone = map.gone \union G
  <2>1. G \in SUBSET (Screens \X Ops) /\ map' = [map EXCEPT !.gone = @ \union G]
    BY <1>1, <1>7
  <2> QED
    BY <1>2, <2>1, GoneWritten
<1>9. MapOk(map') /\ Settled(map') = Settled(map) \union G /\ Pruned(map') = Pruned(map) /\ Leaves(map') = Leaves(map)
  <2>1. \A g \in G : g[1] \in map.nodes
    BY <1>3, <1>7
  <2>2. G \intersect Pruned(map) = {}
    BY <1>7
  <2> QED
    BY <1>2, <1>8, <2>1, <2>2, MapGone
<1>10. /\ coord' \in CoordRecords /\ coord'.pathTo = coord.pathTo /\ coord'.discovering = coord.discovering
       /\ coord'.steps = coord.steps /\ coord'.failed = coord.failed /\ coord'.stopped = coord.stopped
       /\ coord'.active = coord.active - 1
       /\ coord'.pending[s] = << >> /\ \A z \in Screens \ {s} : coord'.pending[z] = coord.pending[z]
  <2> DEFINE none == << >>
  <2>1. none \in Seq(Ops) /\ c \in CoordRecords /\ s \in Screens
    BY <1>3, <1>5, EmptyIs
  <2>2. coord' = Planned(c, s, none)
    BY <1>1, <1>3, <1>5 DEF CoordRecords, Planned
  <2> HIDE DEF none
  <2>3. /\ coord' \in CoordRecords /\ coord'.pathTo = c.pathTo /\ coord'.discovering = c.discovering
        /\ coord'.steps = c.steps /\ coord'.active = c.active /\ coord'.stopped = c.stopped /\ coord'.failed = c.failed
        /\ coord'.pending[s] = none /\ \A z \in Screens \ {s} : coord'.pending[z] = c.pending[z]
    BY <2>1, <2>2, PlannedIs
  <2> QED
    BY <1>5, <2>3 DEF none
<1>11. \A z \in Screens : /\ Once(coord'.pending[z]) /\ ToSet(coord'.pending[z]) \subseteq ToSet(coord.pending[z])
                          /\ \A b \in ToSet(coord'.pending[z]) : <<z, b>> \notin G
  <2> SUFFICES ASSUME NEW z \in Screens
               PROVE  /\ Once(coord'.pending[z]) /\ ToSet(coord'.pending[z]) \subseteq ToSet(coord.pending[z])
                      /\ \A b \in ToSet(coord'.pending[z]) : <<z, b>> \notin G
    OBVIOUS
  <2>1. CASE z = s
    BY <1>10, <2>1, EmptyIs
  <2>2. CASE z # s
    <3>1. coord'.pending[z] = coord.pending[z] /\ Once(coord.pending[z])
      BY <1>2, <1>10, <2>2 DEF PlanOk
    <3>2. \A g \in G : g[1] # z
      BY <1>7, <2>2
    <3> QED
      BY <3>1, <3>2
  <2> QED
    BY <2>1, <2>2
<1>12. PlanOk(map', coord'.pending)
  <2> DEFINE less == coord'.pending
  <2>1. less \in Plans /\ coord.pending \in Plans /\ PlanOk(map, coord.pending)
    BY <1>2, <1>10 DEF CoordRecords
  <2>2. map'.nodes = map.nodes /\ Settled(map') = Settled(map) \union G /\ Pruned(map') = Pruned(map)
    BY <1>8, <1>9
  <2>3. \A z \in Screens : /\ Once(less[z]) /\ ToSet(less[z]) \subseteq ToSet(coord.pending[z])
                           /\ \A b \in ToSet(less[z]) : <<z, b>> \notin G
    BY <1>11
  <2> HIDE DEF less
  <2>4. PlanOk(map', less)
    BY <2>1, <2>2, <2>3, PlanSettles
  <2> QED
    BY <2>4 DEF less
<1>13. /\ \A z \in Screens : \A b \in ToSet(coord'.pending[z]) : b \in ToSet(coord.pending[z]) \/ <<z, b>> = Held(w)
       /\ \A z \in Screens : \A b \in ToSet(coord.pending[z]) : b \in ToSet(coord'.pending[z]) \/ <<z, b>> \in G
       /\ \A x \in G : x = Held(w) \/ x[2] \in ToSet(coord.pending[x[1]])
  BY <1>7, <1>10, <1>11
<1>14. faults' \in 0..MaxFaults
  BY <1>1, <1>2, FaultIs
<1> QED
  BY <1>1, <1>2, <1>4, <1>7, <1>8, <1>9, <1>10, <1>12, <1>13, <1>14, FreeKeeps

\* A step that led to a screen that is known, or that another lane discovers.
LEMMA KnownEdgeKeeps ==
  ASSUME IInv, NEW w \in Lanes, RecordEdge(w), Landed(w) \in map.nodes \union coord.discovering
  PROVE  IInv'
<1> DEFINE s == lane[w].src
           a == lane[w].op
           d == Landed(w)
           r == <<s, a, d>>
<1>1. /\ lane[w].pc = "walk" /\ d # None /\ map' = [map EXCEPT !.edges = @ \union {r}]
      /\ coord' = Released(coord) /\ Emit(map', coord')
      /\ lane' = [Notified(Freed(w, d)) EXCEPT ![w].errors = 0]
      /\ setup' = setup /\ main' = main /\ faults' = faults /\ hurt' = hurt
  BY DEF RecordEdge
<1>2. /\ MapOk(map) /\ w \in AllLanes /\ map \in MapRecords /\ lane \in [AllLanes -> LaneRecords]
      /\ faults \in 0..MaxFaults /\ 0 \in 0..MaxErrors /\ 0 < MaxErrors
  BY <1>1, WalkFrom
<1>3. /\ s \in Screens /\ s \in map.nodes /\ a \in Ops /\ a \in OpsOf(s) /\ setup.goes[s][a] = d /\ d \in Screen
      /\ Held(w) \notin Settled(map) \union Pruned(map) /\ Held(w) = <<s, a>>
  BY <1>1, OnIs
<1> HIDE DEF d
<1>4. Moves(w, "select", d, 0)
  BY <1>1, <1>2, <1>3, FreeingMoves DEF LanePcs
<1>5. d \in Screens /\ r \in Screens \X Ops \X Screens
  BY <1>1, <1>3 DEF Screen
<1>6. /\ map' \in MapRecords /\ map'.nodes = map.nodes /\ map'.paths = map.paths /\ map'.edges = map.edges \union {r}
      /\ map'.crashes = map.crashes /\ map'.pruned = map.pruned /\ map'.stop = map.stop
      /\ map'.gone = map.gone
  <2> HIDE DEF r
  <2> QED
    BY <1>1, <1>2, <1>5, EdgeWritten
<1> HIDE DEF s, a
<1>7. /\ MapOk(map') /\ Settled(map') = Settled(map) \union {<<s, a>>}
      /\ Pruned(map') = Pruned(map) /\ Leaves(map') = Leaves(map) \union {d}
  <2>1. map'.edges = map.edges \union {<<s, a, d>>}
    BY <1>6
  <2>2. <<s, a>> \notin Pruned(map)
    BY <1>3
  <2> HIDE DEF r
  <2> QED
    BY <1>2, <1>3, <1>6, <2>1, <2>2, MapEdge
<1>8. Leaves(map') \subseteq Leaves(map) \union map.nodes \union coord.discovering
  BY <1>7 DEF d
<1> HIDE DEF r
<1> QED
  BY <1>1, <1>2, <1>3, <1>4, <1>6, <1>7, <1>8, SettleKeeps

\* Reserving a new screen writes the path to it.
Claimed(c, d, path) ==
  [c EXCEPT !.discovering = c.discovering \union {d}, !.pathTo = [c.pathTo EXCEPT ![d] = path]]

\* ... of that screen alone.
LEMMA ClaimedIs ==
  ASSUME NEW c \in CoordRecords, NEW d \in Screens, NEW path \in Seq(Ops), NEW k, k = Claimed(c, d, path)
  PROVE  /\ k \in CoordRecords /\ k.pending = c.pending /\ k.discovering = c.discovering \union {d}
         /\ k.steps = c.steps /\ k.active = c.active /\ k.stopped = c.stopped /\ k.failed = c.failed
         /\ k.pathTo[d] = path /\ \A z \in Screens \ {d} : k.pathTo[z] = c.pathTo[z]
<1> DEFINE paths == [c.pathTo EXCEPT ![d] = path]
           X == c.discovering \union {d}
<1>1. /\ paths \in Plans /\ paths[d] = path /\ \A z \in Screens \ {d} : paths[z] = c.pathTo[z]
      /\ X \in SUBSET Screens
  BY DEF CoordRecords, Plans
<1>2. k = [c EXCEPT !.discovering = X, !.pathTo = paths]
  BY DEF Claimed
<1> HIDE DEF paths, X
<1>3. k \in CoordRecords
  BY <1>1, <1>2 DEF CoordRecords
<1>4. /\ k.pending = c.pending /\ k.steps = c.steps /\ k.active = c.active
      /\ k.stopped = c.stopped /\ k.failed = c.failed
  BY <1>2 DEF CoordRecords
<1>5. k.pathTo = paths /\ k.discovering = X
  BY <1>2 DEF CoordRecords
<1> QED
  BY <1>1, <1>3, <1>4, <1>5 DEF X

\* A step that led to a screen nobody knew.
LEMMA NewEdgeKeeps ==
  ASSUME IInv, NEW w \in Lanes, RecordEdge(w), Landed(w) \notin map.nodes \union coord.discovering
  PROVE  IInv'
<1> SUFFICES ASSUME NEW CONSTANT d, d = Landed(w)
             PROVE  IInv'
  OBVIOUS
<1> DEFINE s == lane[w].src
           a == lane[w].op
           r == <<s, a, d>>
<1>1. /\ lane[w].pc = "walk" /\ d # None /\ map' = [map EXCEPT !.edges = @ \union {r}]
      /\ coord' = [coord EXCEPT !.discovering = @ \union {d}, !.pathTo[d] = Path(w)] /\ disk' = disk
      /\ lane' = [Freed(w, d) EXCEPT ![w].pc = "discover", ![w].errors = 0]
      /\ setup' = setup /\ main' = main /\ faults' = faults /\ hurt' = hurt
  BY DEF RecordEdge
<1>2. /\ MapOk(map) /\ PlanOk(map, coord.pending) /\ w \in AllLanes /\ map \in MapRecords
      /\ lane \in [AllLanes -> LaneRecords] /\ coord \in CoordRecords /\ coord.pending \in Plans
      /\ faults \in 0..MaxFaults /\ 0 \in 0..MaxErrors /\ 0 < MaxErrors
  BY <1>1, WalkFrom
<1>3. /\ s \in Screens /\ s \in map.nodes /\ a \in Ops /\ a \in OpsOf(s) /\ setup.goes[s][a] = d /\ d \in Screen
      /\ Held(w) \notin Settled(map) \union Pruned(map) /\ Held(w) = <<s, a>>
      /\ Path(w) \in Seq(Ops) /\ Leads(Path(w)) = d /\ a \notin ToSet(coord.pending[s])
  BY <1>1, OnIs
<1>4. /\ main.pc = "walk" /\ Typed /\ Replayable /\ LanesOk /\ Counts /\ Unhurt /\ (map.stop = "completed" => hurt)
      /\ map.nodes \subseteq Screens /\ hurt \in BOOLEAN
  BY <1>1, <1>2, BusyIs DEF IInv, Typed, MapRecords
<1>5. d \in Screens /\ d \notin map.nodes /\ d \notin coord.discovering /\ r \in Screens \X Ops \X Screens
  BY <1>1, <1>3 DEF Screen
<1>6. Moves(w, "discover", d, 0)
  <2>1. "discover" \in LanePcs /\ lane' = [Freed(w, d) EXCEPT ![w].pc = "discover", ![w].errors = 0]
    BY <1>1 DEF LanePcs
  <2> QED
    BY <1>2, <1>3, <2>1, FreeingMoves
<1>7. Others(w) /\ lane'[w].pc = "discover" /\ lane'[w].cur = d
  BY <1>6 DEF Moves
<1>8. /\ map' \in MapRecords /\ map'.nodes = map.nodes /\ map'.paths = map.paths /\ map'.edges = map.edges \union {r}
      /\ map'.crashes = map.crashes /\ map'.pruned = map.pruned /\ map'.stop = map.stop
      /\ map'.gone = map.gone
  <2> HIDE DEF r
  <2> QED
    BY <1>1, <1>2, <1>5, EdgeWritten
<1> HIDE DEF s, a
<1>9. /\ MapOk(map') /\ Settled(map') = Settled(map) \union {<<s, a>>}
      /\ Pruned(map') = Pruned(map) /\ Leaves(map') = Leaves(map) \union {d}
  <2>1. map'.edges = map.edges \union {<<s, a, d>>}
    BY <1>8
  <2>2. <<s, a>> \notin Pruned(map)
    BY <1>3
  <2> HIDE DEF r
  <2> QED
    BY <1>2, <1>3, <1>8, <2>1, <2>2, MapEdge
<1> HIDE DEF r
<1>10. /\ coord' \in CoordRecords /\ coord'.pending = coord.pending /\ coord'.discovering = coord.discovering \union {d}
       /\ coord'.steps = coord.steps /\ coord'.active = coord.active /\ coord'.stopped = coord.stopped
       /\ coord'.failed = coord.failed
       /\ coord'.pathTo[d] = Path(w) /\ \A z \in Screens \ {d} : coord'.pathTo[z] = coord.pathTo[z]
  <2> DEFINE path == Path(w)
  <2>1. coord' = Claimed(coord, d, path) /\ path \in Seq(Ops)
    BY <1>1, <1>2, <1>3, <1>5 DEF Claimed, CoordRecords
  <2> HIDE DEF path
  <2>2. /\ coord' \in CoordRecords /\ coord'.pending = coord.pending /\ coord'.discovering = coord.discovering \union {d}
        /\ coord'.steps = coord.steps /\ coord'.active = coord.active /\ coord'.stopped = coord.stopped
        /\ coord'.failed = coord.failed
        /\ coord'.pathTo[d] = path /\ \A z \in Screens \ {d} : coord'.pathTo[z] = coord.pathTo[z]
    BY <1>2, <1>5, <2>1, ClaimedIs
  <2> QED
    BY <2>2 DEF path
<1> DEFINE G == {<<s, a>>}
<1>11. /\ \A x \in G : x = Held(w)
       /\ Held(w) \in G /\ Settled(map') = Settled(map) \union G
       /\ \A z \in Screens : \A b \in ToSet(coord.pending[z]) : <<z, b>> \notin G
  BY <1>3, <1>9
<1> HIDE DEF G
<1>12. PlanOk(map', coord'.pending)
  <2>1. \A z \in Screens : /\ Once(coord.pending[z]) /\ ToSet(coord.pending[z]) \subseteq ToSet(coord.pending[z])
                           /\ \A b \in ToSet(coord.pending[z]) : <<z, b>> \notin G
    BY <1>2, <1>11 DEF PlanOk
  <2>2. map'.nodes = map.nodes /\ Settled(map') = Settled(map) \union G /\ Pruned(map') = Pruned(map)
    BY <1>8, <1>9, <1>11
  <2>3. PlanOk(map', coord.pending)
    BY <1>2, <2>1, <2>2, PlanSettles
  <2> QED
    BY <1>10, <2>3
<1>13. \A path : Leads(path)' = Leads(path)
  BY <1>1, SameSetup
<1>14. Replayable'
  <2>1. \A z \in Screens : coord.pending[z] # << >> => z \in map.nodes
    BY <1>2 DEF PlanOk
  <2> QED
    BY <1>4, <1>5, <1>10, <1>13, <2>1 DEF Replayable, Reached
<1>15. WalkAt(w)'
  BY <1>7 DEF WalkAt
<1>16. DiscoverAt(w)'
  <2>1. Reached(d)'
    <3>1. coord'.pathTo[d] = Path(w)
      BY <1>10
    <3>2. Leads(coord'.pathTo[d]) = d
      BY <1>3, <3>1
    <3> QED
      BY <1>13, <3>2 DEF Reached
  <2>2. ASSUME NEW v \in AllLanes', v # w, lane'[v].pc = "discover" PROVE lane'[v].cur # d
    <3>1. v \in AllLanes \ {w}
      BY <1>1, <2>2 DEF AllLanes
    <3>2. lane[v].pc = "discover" /\ lane'[v].cur = lane[v].cur
      BY <1>2, <1>7, <2>2, <3>1, OthersStay
    <3>3. DiscoverAt(v)
      BY <1>4, <3>1 DEF LanesOk
    <3>4. lane[v].cur \in coord.discovering
      BY <3>2, <3>3 DEF DiscoverAt
    <3> QED
      BY <1>5, <3>2, <3>4
  <2>3. d \in coord'.discovering
    BY <1>10
  <2> QED
    BY <1>7, <2>1, <2>2, <2>3 DEF DiscoverAt
<1>17. Counts'
  <2>1. coord'.active \in Nat /\ coord'.steps <= setup.steps /\ coord'.discovering \intersect map'.nodes = {}
    <3>1. coord'.active \in Nat
      BY <1>10 DEF CoordRecords
    <3>2. coord.steps <= setup.steps /\ coord.discovering \intersect map.nodes = {}
      BY <1>4 DEF Counts
    <3> QED
      BY <1>5, <1>8, <1>10, <3>1, <3>2
  <2> QED
    BY <1>1, <1>2, <1>4, <1>7, <1>8, <1>10, <2>1, CountsNext
<1>18. ASSUME ~hurt'
       PROVE  /\ Whole(map', coord'.pending, HeldNow')
              /\ Leaves(map') \subseteq map'.nodes \union Discovering'
              /\ coord'.discovering \subseteq Discovering'
              /\ map'.stop = "completed" => Frontier' = {} /\ Busy' = {} /\ coord'.stopped
  <2>1. /\ \A x \in HeldNow : x \in HeldNow' \/ (lane[w].pc = "walk" /\ x = Held(w))
        /\ \A x \in Discovering : x \in Discovering'
        /\ d \in Discovering'
    BY <1>1, <1>2, <1>7, HeldStays
  <2>2. /\ Whole(map, coord.pending, HeldNow) /\ Leaves(map) \subseteq map.nodes \union Discovering
        /\ coord.discovering \subseteq Discovering /\ map.stop # "completed"
    BY <1>1, <1>4, <1>18 DEF Unhurt
  <2>3. Held(w) \in Settled(map') /\ Settled(map) \subseteq Settled(map') /\ Pruned(map) \subseteq Pruned(map')
    BY <1>9, <1>11
  <2>4. Whole(map', coord'.pending, HeldNow')
    BY <1>1, <1>4, <1>8, <1>10, <2>1, <2>2, <2>3, WholeNext
  <2>5. Leaves(map') \subseteq map'.nodes \union Discovering' /\ coord'.discovering \subseteq Discovering'
    BY <1>8, <1>9, <1>10, <2>1, <2>2
  <2> QED
    BY <1>8, <2>2, <2>4, <2>5
<1>19. (coord'.failed => hurt') /\ hurt' \in BOOLEAN /\ (hurt => hurt')
  BY <1>1, <1>4, <1>10 DEF Unhurt
<1>20. /\ \A z \in map.nodes \union coord.discovering : coord'.pathTo[z] = coord.pathTo[z]
       /\ \A z \in map.nodes : \A b \in ToSet(coord'.pending[z]) :
            b \in ToSet(coord.pending[z]) \/ (lane[w].pc = "walk" /\ <<z, b>> = Held(w))
       /\ \A x \in Settled(map') \union Pruned(map') :
           \/ x \in Settled(map) \union Pruned(map) \/ x[1] \notin map.nodes
           \/ (lane[w].pc = "walk" /\ x = Held(w)) \/ x[2] \in ToSet(coord.pending[x[1]])
       /\ \A z \in coord.discovering : z \in coord'.discovering
       /\ map.nodes \subseteq map'.nodes
  <2>1. coord.discovering \subseteq Screens
    BY <1>2 DEF CoordRecords
  <2>2. \A z \in map.nodes \union coord.discovering : coord'.pathTo[z] = coord.pathTo[z]
    BY <1>4, <1>5, <1>10, <2>1
  <2> QED
    BY <1>1, <1>8, <1>9, <1>10, <1>11, <2>2
<1>21. faults' \in 0..MaxFaults
  BY <1>1, <1>2
<1> QED
  BY <1>1, <1>2, <1>4, <1>6, <1>8, <1>9, <1>10, <1>12, <1>14, <1>15, <1>16, <1>17, <1>18, <1>19, <1>20, <1>21, StepKeeps

\* What _publish writes on the map.
LEMMA NotedIs ==
  ASSUME Typed, NEW m \in MapRecords, NEW c \in CoordRecords, NEW s \in Screens, NEW k, k = Noted(m, c, s),
         MapOk(m), s \notin m.nodes, Leads(c.pathTo[s]) = s
  PROVE  /\ k \in MapRecords /\ k.nodes = m.nodes \union {s} /\ k.stop = m.stop
         /\ MapOk(k) /\ Settled(k) = Settled(m) /\ Pruned(k) = Pruned(m) \union ({s} \X Taken(c, s))
         /\ Leaves(k) = Leaves(m) /\ \A x \in Settled(m) \union Pruned(m) : x[1] \in m.nodes
<1> DEFINE T == Taken(c, s)
           path == c.pathTo[s]
           new == Branched(s, path, T)
           N == m.nodes \union {s}
           P == [m.paths EXCEPT ![s] = path]
           Q == m.pruned \union new
<1>1. setup \in Setups /\ T \subseteq OpsOf(s) /\ OpsOf(s) \subseteq Ops
  BY OpsAre DEF Typed, Taken
<1>2. path \in Seq(Ops)
  BY DEF CoordRecords, Plans
<1>3. new \subseteq Branches
  <2>1. \A a \in T : a \in Ops /\ Append(path, a) \in Seq(Ops)
    BY <1>1, <1>2, AppendIs
  <2> HIDE DEF T, path
  <2> QED
    BY <2>1 DEF Branches, Branched
<1>4. k = [m EXCEPT !.nodes = N, !.paths = P, !.pruned = Q]
  BY DEF Noted, MapRecords, Branched
<1>5. N \in SUBSET Screens /\ P \in Plans /\ Q \in SUBSET Branches
  <2>1. P \in Plans
    BY <1>2 DEF MapRecords, Plans
  <2> QED
    BY <1>3, <2>1 DEF MapRecords
<1>6. /\ k \in MapRecords /\ k.nodes = N /\ k.paths = P /\ k.edges = m.edges /\ k.crashes = m.crashes
      /\ k.pruned = Q /\ k.stop = m.stop /\ k.gone = m.gone
  <2> HIDE DEF N, P, Q, new, T, path
  <2>1. k \in MapRecords
    BY <1>4, <1>5 DEF MapRecords
  <2>2. /\ k.edges = m.edges /\ k.crashes = m.crashes /\ k.stop = m.stop /\ k.gone = m.gone
    BY <1>4 DEF MapRecords
  <2>3. k.nodes = N /\ k.paths = P /\ k.pruned = Q
    BY <1>4 DEF MapRecords
  <2> QED
    BY <2>1, <2>2, <2>3
<1>7. k.paths[s] = path /\ \A z \in Screens \ {s} : k.paths[z] = m.paths[z]
  BY <1>2, <1>6 DEF MapRecords, Plans
<1> HIDE DEF T, path, P
<1>8. /\ MapOk(k) /\ Settled(k) = Settled(m) /\ Pruned(k) = Pruned(m) \union ({s} \X T)
      /\ Leaves(k) = Leaves(m) /\ \A x \in Settled(m) \union Pruned(m) : x[1] \in m.nodes
  <2>1. Leads(path) = s
    BY DEF path
  <2>2. /\ k.nodes = m.nodes \union {s} /\ k.edges = m.edges /\ k.crashes = m.crashes /\ k.gone = m.gone
        /\ k.pruned = m.pruned \union Branched(s, path, T)
    BY <1>6
  <2> HIDE DEF N, Q, new
  <2>3. setup \in Setups /\ T \subseteq OpsOf(s) /\ path \in Seq(Ops)
    BY <1>1, <1>2
  <2>4. NotedAs(m, k, s, path, T)
    BY <1>7, <2>2 DEF NotedAs
  <2>5. MapOk(k) /\ Settled(k) = Settled(m) /\ Owned(m, k, s, T) /\ Leaves(k) = Leaves(m)
    BY <2>1, <2>3, <2>4, MapNoted
  <2>6. \A x \in Settled(m) \union Pruned(m) : x[1] \in m.nodes
    BY <2>1, <2>3, <2>4, MapNoted
  <2> QED
    BY <2>5, <2>6 DEF Owned
<1> QED
  BY <1>6, <1>8 DEF T

\* What _publish writes on the coordinator.
LEMMA OpenedIs ==
  ASSUME Typed, NEW c \in CoordRecords, NEW s \in Screens, NEW k, k = Opened(c, s)
  PROVE  /\ k \in CoordRecords /\ k.pathTo = c.pathTo /\ k.discovering = c.discovering
         /\ k.steps = c.steps /\ k.active = c.active /\ k.stopped = c.stopped /\ k.failed = c.failed
         /\ Once(k.pending[s]) /\ ToSet(k.pending[s]) = OpsOf(s) \ Taken(c, s)
         /\ \A z \in Screens \ {s} : k.pending[z] = c.pending[z]
<1> DEFINE order == Without(setup.ops[s], Taken(c, s))
           plan == [c.pending EXCEPT ![s] = order]
           own == [a \in Ops |-> IF Prunes /\ a \in OpsOf(s) /\ c.claimed[a] = None THEN s ELSE c.claimed[a]]
<1>1. order \in Seq(Ops) /\ Once(order) /\ ToSet(order) = OpsOf(s) \ Taken(c, s)
  <2>1. setup.ops[s] \in Seq(Ops) /\ Once(setup.ops[s]) /\ ToSet(setup.ops[s]) = OpsOf(s)
    BY OpsAre DEF Typed
  <2> QED
    BY <2>1, WithoutGone
<1>2. plan \in Plans /\ plan[s] = order /\ \A z \in Screens \ {s} : plan[z] = c.pending[z]
  <2> HIDE DEF order
  <2> QED
    BY <1>1 DEF CoordRecords, Plans
<1>3. own \in [Ops -> Screen]
  BY DEF CoordRecords, Screen
<1>4. k = [c EXCEPT !.pending = plan, !.claimed = own]
  BY DEF Opened, CoordRecords
<1> HIDE DEF plan, own
<1>5. k \in CoordRecords
  BY <1>2, <1>3, <1>4 DEF CoordRecords
<1>6. /\ k.pathTo = c.pathTo /\ k.discovering = c.discovering
      /\ k.steps = c.steps /\ k.active = c.active /\ k.stopped = c.stopped /\ k.failed = c.failed
  BY <1>4 DEF CoordRecords
<1>7. k.pending = plan
  BY <1>4 DEF CoordRecords
<1> HIDE DEF order
<1> QED
  BY <1>1, <1>2, <1>5, <1>6, <1>7

\* The plan of a map with a new screen.
LEMMA PublishedPlan ==
  ASSUME NEW m, NEW k, NEW s \in Screens, NEW T, NEW plan \in Plans, NEW more, PlanOk(m, plan),
         k.nodes = m.nodes \union {s}, Settled(k) = Settled(m), Pruned(k) = Pruned(m) \union ({s} \X T),
         \A x \in Settled(m) \union Pruned(m) : x[1] \in m.nodes, s \notin m.nodes,
         Once(more[s]), ToSet(more[s]) = OpsOf(s) \ T, \A z \in Screens \ {s} : more[z] = plan[z]
  PROVE  PlanOk(k, more)
<1> SUFFICES ASSUME NEW z \in Screens
             PROVE  /\ more[z] # << >> => z \in k.nodes
                    /\ Once(more[z]) /\ ToSet(more[z]) \subseteq OpsOf(z)
                    /\ \A a \in ToSet(more[z]) : <<z, a>> \notin Settled(k) \union Pruned(k)
  BY DEF PlanOk
<1>1. CASE z = s
  <2>1. \A x \in Settled(m) \union Pruned(m) : x[1] # s
    OBVIOUS
  <2>2. \A a \in ToSet(more[s]) : <<s, a>> \notin Settled(m) \union Pruned(m) /\ <<s, a>> \notin {s} \X T
    BY <2>1
  <2> QED
    BY <1>1, <2>2
<1>2. CASE z # s
  <2>1. /\ plan[z] # << >> => z \in m.nodes
        /\ Once(plan[z]) /\ ToSet(plan[z]) \subseteq OpsOf(z)
        /\ \A a \in ToSet(plan[z]) : <<z, a>> \notin Settled(m) \union Pruned(m)
    BY DEF PlanOk
  <2> QED
    BY <1>2, <2>1
<1> QED
  BY <1>1, <1>2

\* A new screen is published with its operations, each of them planned or pruned.
LEMMA FinishDiscoveryKeeps ==
  ASSUME IInv, NEW w \in Lanes, FinishDiscovery(w)
  PROVE  IInv'
<1> SUFFICES ASSUME NEW CONSTANT d, d = lane[w].cur
             PROVE  IInv'
  OBVIOUS
<1> DEFINE c == Opened(coord, d)
           b == Released(c)
           T == Taken(coord, d)
<1>1. /\ lane[w].pc = "discover" /\ map' = Noted(map, coord, d)
      /\ coord' = [b EXCEPT !.discovering = @ \ {d}] /\ Emit(map', coord')
      /\ lane' = [Notified(lane) EXCEPT ![w].pc = "select"]
      /\ setup' = setup /\ main' = main /\ faults' = faults /\ hurt' = hurt
  BY DEF FinishDiscovery
<1>2. /\ main.pc = "walk" /\ Typed /\ MapOk(map) /\ PlanOk(map, coord.pending) /\ Replayable /\ LanesOk /\ Counts
      /\ Unhurt /\ (map.stop = "completed" => hurt) /\ w \in AllLanes /\ coord.active \in Nat \ {0}
      /\ DiscoverAt(w) /\ LaneAt(w) /\ lane[w].errors < MaxErrors
  BY <1>1, BusyIs DEF IInv
<1>3. /\ map \in MapRecords /\ lane \in [AllLanes -> LaneRecords] /\ coord \in CoordRecords /\ coord.pending \in Plans
      /\ faults \in 0..MaxFaults /\ hurt \in BOOLEAN /\ map.nodes \subseteq Screens
  BY <1>2 DEF Typed, CoordRecords, MapRecords
<1>4. d \in coord.discovering /\ d \in Screens /\ d \notin map.nodes /\ Leads(coord.pathTo[d]) = d
  <2>1. d \in coord.discovering /\ Leads(coord.pathTo[d]) = d
    BY <1>1, <1>2 DEF DiscoverAt, Reached
  <2> QED
    BY <1>2, <1>3, <2>1 DEF Counts, CoordRecords
<1>5. Moves(w, "select", d, lane[w].errors)
  BY <1>1, <1>2, <1>3, StayingMoves DEF LanePcs
<1>6. Others(w) /\ lane'[w].pc = "select"
  BY <1>5 DEF Moves
<1>7. /\ map' \in MapRecords /\ map'.nodes = map.nodes \union {d} /\ map'.stop = map.stop
      /\ MapOk(map') /\ Settled(map') = Settled(map) /\ Pruned(map') = Pruned(map) \union ({d} \X T)
      /\ Leaves(map') = Leaves(map) /\ \A x \in Settled(map) \union Pruned(map) : x[1] \in map.nodes
  BY <1>1, <1>2, <1>3, <1>4, NotedIs
<1>8. /\ c \in CoordRecords /\ c.pathTo = coord.pathTo /\ c.discovering = coord.discovering
      /\ c.steps = coord.steps /\ c.active = coord.active /\ c.stopped = coord.stopped /\ c.failed = coord.failed
      /\ Once(c.pending[d]) /\ ToSet(c.pending[d]) = OpsOf(d) \ T
      /\ \A z \in Screens \ {d} : c.pending[z] = coord.pending[z]
  BY <1>2, <1>3, <1>4, OpenedIs
<1> HIDE DEF c, T
<1>9. /\ b \in CoordRecords /\ b.pathTo = c.pathTo /\ b.pending = c.pending /\ b.discovering = c.discovering
      /\ b.steps = c.steps /\ b.active = c.active - 1 /\ b.stopped = c.stopped /\ b.failed = c.failed
  BY <1>2, <1>8, ReleasedIs
<1> HIDE DEF b
<1>10. /\ coord' \in CoordRecords /\ coord'.pathTo = coord.pathTo /\ coord'.discovering = coord.discovering \ {d}
       /\ coord'.steps = coord.steps /\ coord'.active = coord.active - 1 /\ coord'.stopped = coord.stopped
       /\ coord'.failed = coord.failed /\ coord'.pending = c.pending
  <2> DEFINE X == b.discovering \ {d}
  <2>1. X \in SUBSET Screens /\ coord' = [b EXCEPT !.discovering = X]
    BY <1>1, <1>9 DEF CoordRecords
  <2> HIDE DEF X
  <2>2. coord' \in CoordRecords
    BY <1>9, <2>1 DEF CoordRecords
  <2>3. /\ coord'.pathTo = b.pathTo /\ coord'.pending = b.pending
        /\ coord'.steps = b.steps /\ coord'.active = b.active /\ coord'.stopped = b.stopped
        /\ coord'.failed = b.failed
    BY <1>9, <2>1 DEF CoordRecords
  <2>4. coord'.discovering = X
    BY <1>9, <2>1 DEF CoordRecords
  <2> QED
    BY <1>8, <1>9, <2>2, <2>3, <2>4 DEF X
<1>11. PlanOk(map', coord'.pending)
  <2>1. PlanOk(map', c.pending)
    BY <1>2, <1>3, <1>4, <1>7, <1>8, PublishedPlan
  <2> QED
    BY <1>10, <2>1
<1>12. \A path : Leads(path)' = Leads(path)
  BY <1>1, SameSetup
<1>13. Replayable'
  <2>1. ASSUME NEW z \in Screens, coord'.pending[z] # << >> PROVE Leads(coord.pathTo[z]) = z
    <3>1. CASE z = d
      BY <1>4, <3>1
    <3>2. CASE z # d
      BY <1>2, <1>8, <1>10, <2>1, <3>2 DEF Replayable, Reached
    <3> QED
      BY <3>1, <3>2
  <2> QED
    BY <1>10, <1>12, <2>1 DEF Replayable, Reached
<1>14. WalkAt(w)' /\ DiscoverAt(w)'
  BY <1>6 DEF WalkAt, DiscoverAt
<1>15. Counts'
  <2>1. coord'.active \in Nat /\ coord'.steps <= setup.steps /\ coord'.discovering \intersect map'.nodes = {}
    <3>1. coord'.active \in Nat
      BY <1>10 DEF CoordRecords
    <3>2. coord.steps <= setup.steps /\ coord.discovering \intersect map.nodes = {}
      BY <1>2 DEF Counts
    <3> QED
      BY <1>7, <1>10, <3>1, <3>2
  <2>2. lane[w].pc \in {"walk", "discover"} /\ lane'[w].pc \notin {"walk", "discover"}
    BY <1>1, <1>6
  <2> QED
    BY <1>1, <1>2, <1>6, <1>7, <1>10, <2>1, <2>2, CountsNext
<1>16. ASSUME ~hurt'
       PROVE  /\ Whole(map', coord'.pending, HeldNow')
              /\ Leaves(map') \subseteq map'.nodes \union Discovering'
              /\ coord'.discovering \subseteq Discovering'
              /\ map'.stop = "completed" => Frontier' = {} /\ Busy' = {} /\ coord'.stopped
  <2>1. /\ \A x \in HeldNow : x \in HeldNow'
        /\ \A x \in Discovering : x \in Discovering' \/ x = d
    BY <1>1, <1>2, <1>3, <1>6, HeldStays
  <2>2. /\ Whole(map, coord.pending, HeldNow) /\ Leaves(map) \subseteq map.nodes \union Discovering
        /\ coord.discovering \subseteq Discovering /\ map.stop # "completed"
    BY <1>1, <1>2, <1>16 DEF Unhurt
  <2>3. Whole(map', coord'.pending, HeldNow')
    <3> SUFFICES ASSUME NEW s \in map'.nodes, NEW a \in OpsOf(s)
                 PROVE  a \in ToSet(c.pending[s]) \/ <<s, a>> \in Settled(map') \union Pruned(map') \union HeldNow'
      BY <1>10 DEF Whole
    <3>1. CASE s = d
      BY <1>7, <1>8, <3>1
    <3>2. CASE s # d
      <4>1. s \in map.nodes /\ s \in Screens /\ c.pending[s] = coord.pending[s]
        BY <1>3, <1>7, <1>8, <3>2
      <4>2. a \in ToSet(coord.pending[s]) \/ <<s, a>> \in Settled(map) \union Pruned(map) \union HeldNow
        BY <2>2, <4>1 DEF Whole
      <4> QED
        BY <1>7, <2>1, <4>1, <4>2
    <3> QED
      BY <3>1, <3>2
  <2>4. Leaves(map') \subseteq map'.nodes \union Discovering' /\ coord'.discovering \subseteq Discovering'
    BY <1>7, <1>10, <2>1, <2>2
  <2> QED
    BY <1>7, <2>2, <2>3, <2>4
<1>17. (coord'.failed => hurt') /\ hurt' \in BOOLEAN /\ (hurt => hurt')
  BY <1>1, <1>2, <1>3, <1>10 DEF Unhurt
<1>18. /\ \A z \in map.nodes \union coord.discovering : coord'.pathTo[z] = coord.pathTo[z]
       /\ \A z \in map.nodes : \A a \in ToSet(coord'.pending[z]) :
            a \in ToSet(coord.pending[z]) \/ (lane[w].pc = "walk" /\ <<z, a>> = Held(w))
       /\ \A x \in Settled(map') \union Pruned(map') :
           \/ x \in Settled(map) \union Pruned(map) \/ x[1] \notin map.nodes
           \/ (lane[w].pc = "walk" /\ x = Held(w)) \/ x[2] \in ToSet(coord.pending[x[1]])
       /\ \A z \in coord.discovering : z \in coord'.discovering \/ (lane[w].pc = "discover" /\ z = lane[w].cur)
       /\ map.nodes \subseteq map'.nodes
  <2>1. \A z \in map.nodes : coord'.pending[z] = coord.pending[z]
    BY <1>3, <1>4, <1>8, <1>10
  <2>2. \A x \in {d} \X T : x[1] \notin map.nodes
    BY <1>4
  <2> QED
    BY <1>1, <1>7, <1>10, <2>1, <2>2
<1>19. faults' \in 0..MaxFaults /\ disk' = [map |-> map', plan |-> coord'.pending]
  BY <1>1, <1>3 DEF Emit
<1> QED
  BY <1>1, <1>2, <1>3, <1>5, <1>7, <1>10, <1>11, <1>13, <1>14, <1>15, <1>16, <1>17, <1>18, <1>19, StepKeeps

\* A step of a lane keeps the invariant.
LEMMA LaneStepKeeps ==
  ASSUME IInv, NEW w \in Lanes, LaneStep(w)
  PROVE  IInv'
<1>1. CASE Build(w) \/ Heal(w) \/ Wait(w) \/ Finish(w)
  BY <1>1, RestingKeeps
<1>2. CASE Reserve(w)
  BY <1>2, ReserveKeeps
<1>3. CASE GiveBack(w)
  BY <1>3, GiveBackKeeps
<1>4. CASE DropScreen(w)
  BY <1>4, DropScreenKeeps
<1>5. CASE CancelAction(w)
  BY <1>5, CancelActionKeeps
<1>6. CASE RecordCrash(w)
  BY <1>6, RecordCrashKeeps
<1>7. CASE RecordEdge(w)
  BY <1>7, KnownEdgeKeeps, NewEdgeKeeps
<1>8. CASE FinishDiscovery(w)
  BY <1>8, FinishDiscoveryKeeps
<1>9. CASE Fails(w)
  <2>1. lane[w].pc \in {"walk", "discover"} /\ NoteFailure(w)
    BY <1>9 DEF Fails
  <2>2. main.pc = "walk"
    BY <2>1, BusyIs
  <2> QED
    BY <2>1, <2>2, NoteFailureKeeps
<1> QED
  BY <1>1, <1>2, <1>3, <1>4, <1>5, <1>6, <1>7, <1>8, <1>9 DEF LaneStep

----------------------------------------------------------------------------
(* The main thread keeps the invariant *)

\* Nothing is planned.
LEMMA NothingPlanned ==
  /\ NoFrontier \in Plans /\ \A s \in Screens : NoFrontier[s] = << >>
  /\ \A m : PlanOk(m, NoFrontier)
  /\ \A plan \in Plans : (\A s \in Screens : plan[s] = << >>) => plan = NoFrontier
<1>1. NoFrontier \in Plans /\ \A s \in Screens : NoFrontier[s] = << >>
  BY EmptyIs DEF NoFrontier, Plans
<1>2. \A m : PlanOk(m, NoFrontier)
  BY <1>1, EmptyIs DEF PlanOk
<1>3. \A plan \in Plans : (\A s \in Screens : plan[s] = << >>) => plan = NoFrontier
  BY DEF NoFrontier, Plans
<1> QED
  BY <1>1, <1>2, <1>3

\* A crawl starts with a coordinator that knows nothing ...
LEMMA NewCoordIs ==
  /\ NewCoord \in CoordRecords /\ NewCoord.pending = NoFrontier /\ NewCoord.discovering = {}
  /\ \A s \in Screens : NewCoord.pathTo[s] = << >>
  /\ NewCoord.steps = 0 /\ NewCoord.active = 0 /\ NewCoord.stopped = FALSE /\ NewCoord.failed = FALSE
<1> DEFINE paths == [s \in Screens |-> << >>]
           own == [a \in Ops |-> None]
<1>1. paths \in Plans /\ own \in [Ops -> Screen] /\ \A s \in Screens : paths[s] = << >>
  BY EmptyIs DEF Plans, Screen
<1>2. NewCoord = [pathTo |-> paths, pending |-> NoFrontier, claimed |-> own, discovering |-> {},
                  steps |-> 0, active |-> 0, stopped |-> FALSE, failed |-> FALSE]
  BY DEF NewCoord
<1> HIDE DEF paths, own
<1>3. NewCoord \in CoordRecords
  BY <1>1, <1>2, NothingPlanned DEF CoordRecords
<1>4. /\ NewCoord.pending = NoFrontier /\ NewCoord.discovering = {} /\ NewCoord.pathTo = paths
      /\ NewCoord.steps = 0 /\ NewCoord.active = 0
  BY <1>2
<1>5. NewCoord.stopped = FALSE /\ NewCoord.failed = FALSE
  BY <1>2, Zenon
<1> QED
  BY <1>1, <1>3, <1>4, <1>5

\* ... and a fresh one with an empty map.
LEMMA NewMapIs ==
  /\ NewMap \in MapRecords /\ NewMap.nodes = {} /\ NewMap.stop = ""
  /\ MapOk(NewMap) /\ Settled(NewMap) = {} /\ Pruned(NewMap) = {} /\ Leaves(NewMap) = {}
<1> DEFINE paths == [s \in Screens |-> << >>]
<1>1. paths \in Plans
  BY EmptyIs DEF Plans
<1>2. NewMap = [nodes |-> {}, paths |-> paths, edges |-> {}, crashes |-> {}, pruned |-> {}, stop |-> "", gone |-> {}]
  BY DEF NewMap
<1> HIDE DEF paths
<1>3. /\ NewMap.nodes = {} /\ NewMap.edges = {} /\ NewMap.crashes = {} /\ NewMap.pruned = {} /\ NewMap.gone = {}
      /\ NewMap.stop = ""
  BY <1>2
<1>4. NewMap \in MapRecords
  BY <1>1, <1>2 DEF MapRecords, Reasons
<1>5. Settled(NewMap) = {} /\ Pruned(NewMap) = {} /\ Leaves(NewMap) = {}
  BY <1>3 DEF Settled, Tried, Pruned, Leaves
<1>6. MapOk(NewMap)
  BY <1>3, <1>5 DEF MapOk
<1> QED
  BY <1>3, <1>4, <1>5, <1>6

\* The lanes as the threads start.
LEMMA StartIs ==
  ASSUME Typed, NEW at \in Screen, NEW k, k = Start(at)
  PROVE  /\ k \in [AllLanes -> LaneRecords]
         /\ \A v \in AllLanes :
              /\ k[v].at = k[v].cur /\ k[v].errors = 0
              /\ v = 1 => k[v].pc = "select"
              /\ v # 1 => k[v].pc = "build"
<1>1. 0 \in 0..MaxErrors /\ None \in Screen /\ << >> \in Seq(Ops)
  BY Constants, EmptyIs DEF Screen
<1>2. NewLane \in LaneRecords /\ NewLane.pc = "build" /\ NewLane.at = None /\ NewLane.cur = None /\ NewLane.errors = 0
  BY <1>1 DEF NewLane, LaneRecords, LanePcs
<1> DEFINE first == [NewLane EXCEPT !.pc = "select", !.at = at, !.cur = at]
<1>3. first \in LaneRecords /\ first.pc = "select" /\ first.at = at /\ first.cur = at /\ first.errors = 0
  BY <1>2 DEF LaneRecords, LanePcs
<1>4. k = [v \in AllLanes |-> IF v = 1 THEN first ELSE NewLane]
  BY DEF Start, AllLanes
<1> HIDE DEF first
<1> QED
  BY <1>2, <1>3, <1>4

\* No lane holds anything.
LEMMA Idle ==
  ASSUME \A v \in AllLanes : lane[v].pc \notin {"walk", "discover"}
  PROVE  Busy = {} /\ HeldNow = {} /\ Discovering = {}
  BY DEF Busy, HeldNow, Discovering

\* The crawl's thread starts its lanes on a map and a frontier it has written.
LEMMA StartKeeps ==
  ASSUME IInv, main.pc = "boot", setup' = setup, main' = [main EXCEPT !.pc = "walk"],
         NEW at \in Screen, lane' = Start(at),
         map' \in MapRecords, coord' \in CoordRecords, faults' \in 0..MaxFaults, hurt' \in BOOLEAN,
         disk' = [map |-> map', plan |-> coord'.pending],
         MapOk(map'), PlanOk(map', coord'.pending), Replayable',
         coord'.discovering = {}, coord'.steps = 0, coord'.active = 0, coord'.failed = FALSE,
         map'.nodes = map.nodes \/ map'.nodes = {Entry},
         ~hurt' => Whole(map', coord'.pending, {}) /\ Leaves(map') \subseteq map'.nodes /\ map'.stop # "completed"
  PROVE  IInv'
<1>1. Typed /\ Counts
  BY DEF IInv
<1>2. main' \in MainRecords /\ main'.pc = "walk" /\ main'.mode = main.mode
  BY <1>1 DEF Typed, MainRecords
<1>3. /\ lane' \in [AllLanes -> LaneRecords]
      /\ \A v \in AllLanes :
           /\ lane'[v].at = lane'[v].cur /\ lane'[v].errors = 0
           /\ v = 1 => lane'[v].pc = "select"
           /\ v # 1 => lane'[v].pc = "build"
  BY <1>1, StartIs
<1>4. AllLanes' = AllLanes /\ setup.lanes \in Nat \ {0} /\ disk'.map = map' /\ disk'.plan = coord'.pending
  BY <1>1, LanesCounted DEF AllLanes
<1>5. disk' \in [map : MapRecords, plan : Plans]
  <2>1. coord'.pending \in Plans
    BY DEF CoordRecords
  <2> QED
    BY <2>1
<1>6. Typed'
  BY <1>1, <1>2, <1>3, <1>4, <1>5 DEF Typed
<1>7. LanesOk'
  <2>1. 1 \in Lanes'
    BY <1>4 DEF Lanes
  <2> SUFFICES ASSUME NEW v \in AllLanes PROVE WalkAt(v)' /\ DiscoverAt(v)' /\ LaneAt(v)'
    BY <1>4 DEF LanesOk
  <2>2. WalkAt(v)' /\ DiscoverAt(v)'
    BY <1>3 DEF WalkAt, DiscoverAt
  <2>3. LaneAt(v)'
    BY <1>3, <2>1, Constants DEF LaneAt
  <2> QED
    BY <2>2, <2>3
<1>8. Busy' = {} /\ HeldNow' = {} /\ Discovering' = {}
  <2>1. \A v \in AllLanes' : lane'[v].pc \notin {"walk", "discover"}
    BY <1>3, <1>4
  <2> QED
    BY <2>1 DEF Busy, HeldNow, Discovering
<1>9. Counts'
  <2>1. Cardinality(Busy') = 0
    BY <1>8, FS_EmptySet
  <2>2. Cardinality(Busy') + Cardinality(Ready') <= setup.lanes /\ Cardinality(Ready') \in Nat
    <3>1. Ready' \subseteq AllLanes
      BY <1>4 DEF Ready
    <3>2. IsFiniteSet(AllLanes) /\ Cardinality(AllLanes) = setup.lanes
      BY <1>1, LanesCounted
    <3>3. IsFiniteSet(Ready') /\ Cardinality(Ready') <= setup.lanes
      BY <3>1, <3>2, FS_Subset
    <3>4. Cardinality(Ready') \in Nat
      BY <3>3, FS_CardinalityType
    <3> QED
      BY <1>4, <2>1, <3>3, <3>4
  <2>3. IsFiniteSet(map'.nodes) /\ setup.steps \in Nat
    <3>1. setup.steps \in Nat
      BY <1>1, SetupIs DEF Typed
    <3>2. IsFiniteSet(map.nodes)
      BY <1>1 DEF Counts
    <3>3. IsFiniteSet({Entry})
      BY FS_Singleton
    <3> QED
      BY <3>1, <3>2, <3>3
  <2>4. \/ map'.nodes \subseteq {Entry}
        \/ Cardinality(map'.nodes) + 0 < setup.screens + setup.lanes
    <3> SUFFICES ASSUME map'.nodes = map.nodes, ~(map.nodes \subseteq {Entry})
                 PROVE  Cardinality(map.nodes) + 0 < setup.screens + setup.lanes
      OBVIOUS
    <3>1. Cardinality(map.nodes) + Cardinality(Busy) < setup.screens + setup.lanes
      BY <1>1 DEF Counts
    <3>2. Cardinality(map.nodes) \in Nat /\ Cardinality(Busy) \in Nat /\ setup.screens \in Nat
      BY <1>1, LanesCounted, SetupIs, FS_CardinalityType DEF Counts, Typed
    <3> QED
      BY <1>4, <3>1, <3>2
  <2>5. coord'.discovering \intersect map'.nodes = {}
    OBVIOUS
  <2>6. Cardinality(Busy') <= coord'.active /\ coord'.active + Cardinality(Ready') <= setup'.lanes
        /\ coord'.steps <= setup'.steps
    BY <1>4, <2>1, <2>2, <2>3
  <2> QED
    BY <1>8, <2>1, <2>3, <2>4, <2>5, <2>6 DEF Counts
<1>10. MapOk(map)' /\ PlanOk(map, coord.pending)' /\ MapOk(disk.map)' /\ PlanOk(disk.map, disk.plan)'
  BY <1>4, Primed
<1>11. DiskOk'
  BY <1>2, <1>4, <1>10 DEF DiskOk
<1>12. Unhurt'
  <2> SUFFICES ASSUME ~hurt'
               PROVE  /\ disk'.map.stop = "completed" => disk'.plan = NoFrontier
                      /\ Whole(map, coord.pending, HeldNow)'
                      /\ Leaves(map)' \subseteq map'.nodes \union Discovering'
                      /\ coord'.discovering \subseteq Discovering'
                      /\ map'.stop # "completed"
    BY <1>2 DEF Unhurt
  <2>1. Whole(map, coord.pending, HeldNow)'
    BY <1>8, Primed
  <2>2. Leaves(map)' \subseteq map'.nodes
    BY DEF Leaves
  <2> QED
    BY <1>4, <2>1, <2>2
<1> QED
  BY <1>6, <1>7, <1>9, <1>10, <1>11, <1>12 DEF IInv

\* A step of the main thread while every lane rests: it ends the crawl, or
\* starts another over the map on disk.
LEMMA RestKeeps ==
  ASSUME IInv, setup' = setup, lane' = lane, main' \in MainRecords, main'.pc # "walk",
         \A v \in AllLanes : lane[v].pc \in {"build", "over"},
         map' \in MapRecords, coord' \in CoordRecords, faults' \in 0..MaxFaults, hurt' \in BOOLEAN,
         disk' \in [map : MapRecords, plan : Plans],
         MapOk(map'), PlanOk(map', coord'.pending), Replayable',
         coord'.discovering \intersect map'.nodes = {}, coord'.steps <= setup.steps,
         coord'.active = coord.active \/ coord'.active = 0,
         map'.nodes = map.nodes, map'.nodes = disk'.map.nodes,
         MapOk(disk'.map), PlanOk(disk'.map, disk'.plan),
         main'.pc = "boot" => coord' = NewCoord,
         main'.pc = "boot" => main'.mode \in {"continue", "resume"},
         main'.pc = "boot" /\ main'.mode = "continue" => map' = disk'.map,
         main'.pc = "boot" /\ main'.mode = "resume" =>
           \E p \in disk'.map.pruned : main'.seed = p.path /\ map' = [disk'.map EXCEPT !.pruned = @ \ {p}],
         main'.pc = "done" => map' = disk'.map,
         coord'.failed => hurt',
         ~hurt' => /\ disk'.map.stop = "completed" => disk'.plan = NoFrontier
                   /\ Whole(disk'.map, disk'.plan, {}) /\ Leaves(disk'.map) \subseteq disk'.map.nodes
  PROVE  IInv'
<1>1. Typed /\ Counts /\ LanesOk
  BY DEF IInv
<1>2. AllLanes' = AllLanes /\ Ready' = Ready /\ Busy' = {} /\ Busy = {}
  BY DEF AllLanes, Ready, Busy
<1>3. Typed'
  BY <1>1, <1>2 DEF Typed
<1>4. LanesOk'
  <2> SUFFICES ASSUME NEW v \in AllLanes PROVE WalkAt(v)' /\ DiscoverAt(v)' /\ LaneAt(v)'
    BY <1>2 DEF LanesOk
  <2>1. WalkAt(v)' /\ DiscoverAt(v)'
    BY DEF WalkAt, DiscoverAt
  <2>2. LaneAt(v)
    BY <1>1 DEF LanesOk
  <2>3. LaneAt(v)'
    BY <2>2 DEF LaneAt
  <2> QED
    BY <2>1, <2>3
<1>5. Counts'
  <2>1. Cardinality(Busy) = 0 /\ Cardinality(Busy') = 0
    BY <1>2, FS_EmptySet
  <2>2. /\ Cardinality(Ready) \in Nat /\ Cardinality(Busy) + Cardinality(Ready) <= setup.lanes
        /\ coord.active + Cardinality(Ready) <= setup.lanes /\ IsFiniteSet(map.nodes)
    BY <1>1, LanesCounted DEF Counts
  <2>3. coord'.active \in Nat
    BY DEF CoordRecords
  <2>4. Cardinality(Busy') <= coord'.active /\ coord'.active + Cardinality(Ready') <= setup'.lanes
    <3>1. Cardinality(Ready') = Cardinality(Ready) /\ setup.lanes \in Nat
      BY <1>1, <1>2, LanesCounted
    <3>2. coord'.active + Cardinality(Ready) <= setup.lanes
      <4>1. CASE coord'.active = coord.active
        BY <2>2, <4>1
      <4>2. CASE coord'.active = 0
        BY <2>1, <2>2, <4>2
      <4> QED
        BY <4>1, <4>2
    <3> QED
      BY <2>1, <2>3, <3>1, <3>2
  <2>5. \/ map.nodes \subseteq {Entry} \/ Cardinality(map.nodes) + Cardinality(Busy) < setup.screens + setup.lanes
    BY <1>1 DEF Counts
  <2>6. \/ map'.nodes \subseteq {Entry}
        \/ Cardinality(map'.nodes) + Cardinality(Busy') < setup'.screens + setup'.lanes
    BY <2>1, <2>5
  <2> QED
    BY <1>2, <2>2, <2>4, <2>6 DEF Counts
<1>6. MapOk(map)' /\ PlanOk(map, coord.pending)' /\ MapOk(disk.map)' /\ PlanOk(disk.map, disk.plan)'
  BY Primed
<1>7. NewCoord' = NewCoord /\ NoFrontier' = NoFrontier
  BY DEF NewCoord, NoFrontier
<1>8. DiskOk'
  BY <1>6, <1>7 DEF DiskOk
<1>9. Unhurt'
  <2> SUFFICES ASSUME ~hurt'
               PROVE  /\ disk'.map.stop = "completed" => disk'.plan = NoFrontier
                      /\ Whole(disk.map, disk.plan, {})' /\ Leaves(disk.map)' \subseteq disk'.map.nodes
    BY DEF Unhurt
  <2>1. Whole(disk.map, disk.plan, {})'
    BY Primed
  <2>2. Leaves(disk.map)' = Leaves(disk'.map)
    BY DEF Leaves
  <2> QED
    BY <2>1, <2>2
<1> QED
  BY <1>3, <1>4, <1>5, <1>6, <1>8, <1>9 DEF IInv

\* What the main thread knows between two crawls, and before its lanes start.
LEMMA RestIs ==
  ASSUME IInv, main.pc # "walk"
  PROVE  /\ \A v \in AllLanes : lane[v].pc \in {"build", "over"}
         /\ map \in MapRecords /\ coord \in CoordRecords /\ disk \in [map : MapRecords, plan : Plans]
         /\ disk.map \in MapRecords /\ disk.plan \in Plans /\ main \in MainRecords
         /\ faults \in 0..MaxFaults /\ hurt \in BOOLEAN /\ setup \in Setups /\ setup.steps \in Nat
         /\ MapOk(map) /\ PlanOk(map, coord.pending) /\ Replayable /\ map.nodes = disk.map.nodes
         /\ MapOk(disk.map) /\ PlanOk(disk.map, disk.plan)
         /\ coord.discovering \intersect map.nodes = {} /\ coord.steps <= setup.steps
         /\ (coord.failed => hurt)
         /\ ~hurt => /\ disk.map.stop = "completed" => disk.plan = NoFrontier
                     /\ Whole(disk.map, disk.plan, {}) /\ Leaves(disk.map) \subseteq disk.map.nodes
<1>1. Typed /\ LanesOk /\ Counts /\ DiskOk /\ Unhurt /\ MapOk(map) /\ PlanOk(map, coord.pending) /\ Replayable
  BY DEF IInv
<1>2. \A v \in AllLanes : lane[v].pc \in {"build", "over"}
  BY <1>1 DEF LanesOk, LaneAt
<1>3. /\ map \in MapRecords /\ coord \in CoordRecords /\ disk \in [map : MapRecords, plan : Plans]
      /\ disk.map \in MapRecords /\ disk.plan \in Plans /\ main \in MainRecords
      /\ faults \in 0..MaxFaults /\ hurt \in BOOLEAN /\ setup \in Setups
  BY <1>1 DEF Typed
<1>4. MapOk(disk.map) /\ PlanOk(disk.map, disk.plan) /\ map.nodes = disk.map.nodes
  BY <1>1 DEF DiskOk
<1>5. coord.discovering \intersect map.nodes = {} /\ coord.steps <= setup.steps /\ setup.steps \in Nat
  BY <1>1, <1>3, SetupIs DEF Counts
<1>6. /\ (coord.failed => hurt)
      /\ ~hurt => /\ disk.map.stop = "completed" => disk.plan = NoFrontier
                  /\ Whole(disk.map, disk.plan, {}) /\ Leaves(disk.map) \subseteq disk.map.nodes
  BY <1>1 DEF Unhurt
<1> QED
  BY <1>1, <1>2, <1>3, <1>4, <1>5, <1>6

\* A coordinator that knows nothing is right about any map.
LEMMA NewCoordKeeps ==
  ASSUME setup' = setup, coord' = NewCoord, setup.steps \in Nat
  PROVE  /\ coord' \in CoordRecords /\ coord'.pending = NoFrontier /\ PlanOk(map', coord'.pending) /\ Replayable'
         /\ coord'.discovering \intersect map'.nodes = {} /\ coord'.steps <= setup.steps /\ coord'.active = 0
         /\ coord'.failed = FALSE
<1>1. /\ coord' \in CoordRecords /\ coord'.pending = NoFrontier /\ coord'.discovering = {}
      /\ coord'.steps = 0 /\ coord'.active = 0 /\ coord'.failed = FALSE
  BY NewCoordIs
<1>2. PlanOk(map', coord'.pending)
  BY <1>1, NothingPlanned
<1>3. Replayable'
  <2>1. \A s \in Screens : NoFrontier[s] = << >>
    BY NothingPlanned
  <2> QED
    BY <1>1, <2>1 DEF Replayable
<1>4. coord'.discovering \intersect map'.nodes = {} /\ coord'.steps <= setup.steps
  BY <1>1
<1> QED
  BY <1>1, <1>2, <1>3, <1>4

\* A device that fails before the lanes start.
LEMMA BootFailsKeeps ==
  ASSUME IInv, BootFails
  PROVE  IInv'
<1>1. /\ main.pc = "boot" /\ Fault /\ main' = [main EXCEPT !.pc = "raised"]
      /\ setup' = setup /\ map' = map /\ coord' = coord /\ lane' = lane /\ disk' = disk /\ hurt' = hurt
  BY DEF BootFails
<1>2. faults' \in 0..MaxFaults
  BY <1>1, RestIs, FaultIs
<1>3. main' \in MainRecords /\ main'.pc = "raised"
  BY <1>1, RestIs DEF MainRecords
<1>4. Replayable'
  BY <1>1, RestIs, SameSetup DEF Replayable, Reached
<1> QED
  BY <1>1, <1>2, <1>3, <1>4, RestIs, RestKeeps

\* Another crawl over the map on disk.
LEMMA ContinueKeeps ==
  ASSUME IInv, Continue
  PROVE  IInv'
<1>1. /\ main.pc \in {"done", "raised"} /\ main.run < MaxRuns
      /\ main' = [pc |-> "boot", mode |-> "continue", run |-> main.run + 1, seed |-> << >>]
      /\ map' = disk.map /\ coord' = NewCoord
      /\ setup' = setup /\ lane' = lane /\ disk' = disk /\ faults' = faults /\ hurt' = hurt
  BY DEF Continue
<1>2. main' \in MainRecords /\ main'.pc = "boot" /\ main'.mode = "continue"
  <2> DEFINE n == main.run + 1
  <2>1. n \in 1..MaxRuns /\ << >> \in Seq(Ops)
    BY <1>1, RestIs, Constants, EmptyIs DEF MainRecords
  <2>2. main' = [pc |-> "boot", mode |-> "continue", run |-> n, seed |-> << >>]
    BY <1>1
  <2> HIDE DEF n
  <2> QED
    BY <2>1, <2>2 DEF MainRecords
<1>3. main.pc # "walk"
  BY <1>1
<1> QED
  BY <1>1, <1>2, <1>3, RestIs, NewCoordKeeps, RestKeeps

\* One pruned branch of the map on disk.
LEMMA ResumeKeeps ==
  ASSUME IInv, Resume
  PROVE  IInv'
<1>1. /\ main.pc # "walk" /\ main.run < MaxRuns /\ coord' = NewCoord
      /\ setup' = setup /\ lane' = lane /\ disk' = disk /\ faults' = faults /\ hurt' = hurt
  BY DEF Resume
<1>2. PICK p \in disk.map.pruned :
        /\ main' = [pc |-> "boot", mode |-> "resume", run |-> main.run + 1, seed |-> p.path]
        /\ map' = [disk.map EXCEPT !.pruned = @ \ {p}]
  BY DEF Resume
<1>3. disk.map \in MapRecords /\ MapOk(disk.map)
  BY <1>1, RestIs
<1>4. /\ map' \in MapRecords /\ map'.nodes = disk.map.nodes /\ map'.paths = disk.map.paths
      /\ map'.edges = disk.map.edges /\ map'.crashes = disk.map.crashes /\ map'.gone = disk.map.gone
      /\ map'.pruned = disk.map.pruned \ {p}
  BY <1>2, <1>3 DEF MapRecords
<1>5. MapOk(map') /\ p.path \in Seq(Ops)
  BY <1>3, <1>4, MapResumed
<1>6. main' \in MainRecords /\ main'.pc = "boot" /\ main'.mode = "resume" /\ main'.seed = p.path
  <2> DEFINE n == main.run + 1
             q == p.path
  <2>1. n \in 1..MaxRuns
    BY <1>1, RestIs, Constants DEF MainRecords
  <2>2. main' = [pc |-> "boot", mode |-> "resume", run |-> n, seed |-> q]
    BY <1>2
  <2> HIDE DEF n, q
  <2>3. main'.pc = "boot" /\ main'.mode = "resume" /\ main'.seed = q
    BY <2>2
  <2>4. main' \in MainRecords
    BY <1>5, <2>1, <2>2 DEF MainRecords, q
  <2> QED
    BY <2>3, <2>4 DEF q
<1>7. map'.nodes = map.nodes
  BY <1>1, <1>4, RestIs
<1> QED
  BY <1>1, <1>2, <1>4, <1>5, <1>6, <1>7, RestIs, NewCoordKeeps, RestKeeps

\* Where nothing was tried a device is on the entry screen.
LEMMA NoPath ==
  ASSUME setup \in Setups
  PROVE  Leads(<< >>) = Entry /\ << >> \in Seq(Ops)
<1>1. << >> \in Seq(Ops) /\ Len(<< >>) = 0
  OBVIOUS
<1> QED
  BY <1>1, LeadsIs

\* The first screen of a crawl.
LEMMA BootFreshKeeps ==
  ASSUME IInv, BootFresh
  PROVE  IInv'
<1> DEFINE T == Taken(NewCoord, Entry)
<1>1. /\ main.pc = "boot" /\ main.mode = "fresh" /\ map' = Noted(map, coord, Entry) /\ coord' = Opened(coord, Entry)
      /\ Emit(map', coord') /\ main' = [main EXCEPT !.pc = "walk"] /\ lane' = Start(Entry)
      /\ setup' = setup /\ faults' = faults /\ hurt' = hurt
  BY DEF BootFresh
<1>2. map = NewMap /\ coord = NewCoord /\ Typed
  BY <1>1 DEF IInv, DiskOk
<1>3. faults \in 0..MaxFaults /\ hurt \in BOOLEAN /\ setup \in Setups /\ Entry \in Screens /\ Entry \in Screen
  BY <1>1, RestIs, Constants DEF Screen
<1>4. /\ NewMap \in MapRecords /\ NewMap.nodes = {} /\ NewMap.stop = ""
      /\ MapOk(NewMap) /\ Settled(NewMap) = {} /\ Pruned(NewMap) = {} /\ Leaves(NewMap) = {}
  BY NewMapIs
<1>5. /\ NewCoord \in CoordRecords /\ NewCoord.pending = NoFrontier /\ NewCoord.discovering = {}
      /\ \A s \in Screens : NewCoord.pathTo[s] = << >>
      /\ NewCoord.steps = 0 /\ NewCoord.active = 0 /\ NewCoord.stopped = FALSE /\ NewCoord.failed = FALSE
  BY NewCoordIs
<1>6. Leads(NewCoord.pathTo[Entry]) = Entry
  BY <1>3, <1>5, NoPath
<1>7. map' = Noted(NewMap, NewCoord, Entry) /\ coord' = Opened(NewCoord, Entry)
  BY <1>1, <1>2
<1>8. /\ map' \in MapRecords /\ map'.nodes = NewMap.nodes \union {Entry} /\ map'.stop = NewMap.stop
      /\ MapOk(map') /\ Settled(map') = Settled(NewMap) /\ Pruned(map') = Pruned(NewMap) \union ({Entry} \X T)
      /\ Leaves(map') = Leaves(NewMap) /\ \A x \in Settled(NewMap) \union Pruned(NewMap) : x[1] \in NewMap.nodes
  <2>1. Typed /\ Entry \in Screens
    BY <1>2, <1>3
  <2>2. NewMap \in MapRecords /\ MapOk(NewMap) /\ Entry \notin NewMap.nodes
    BY <1>4
  <2>3. NewCoord \in CoordRecords /\ map' = Noted(NewMap, NewCoord, Entry)
    BY <1>5, <1>7
  <2> QED
    BY <1>6, <2>1, <2>2, <2>3, NotedIs
<1>9. /\ coord' \in CoordRecords /\ coord'.pathTo = NewCoord.pathTo /\ coord'.discovering = NewCoord.discovering
      /\ coord'.steps = NewCoord.steps /\ coord'.active = NewCoord.active /\ coord'.failed = NewCoord.failed
      /\ Once(coord'.pending[Entry]) /\ ToSet(coord'.pending[Entry]) = OpsOf(Entry) \ T
      /\ \A z \in Screens \ {Entry} : coord'.pending[z] = NewCoord.pending[z]
  BY <1>2, <1>3, <1>5, <1>7, OpenedIs
<1> HIDE DEF T
<1>10. PlanOk(map', coord'.pending)
  <2>1. NewCoord.pending \in Plans /\ PlanOk(NewMap, NewCoord.pending) /\ Entry \notin NewMap.nodes
    BY <1>4, <1>5, NothingPlanned
  <2> QED
    BY <1>3, <1>8, <1>9, <2>1, PublishedPlan
<1>11. Replayable'
  <2>1. \A z \in Screens : coord'.pending[z] # << >> => z = Entry
    BY <1>5, <1>9, NothingPlanned
  <2>2. coord'.pathTo[Entry] = << >>
    BY <1>3, <1>5, <1>9
  <2>3. Leads(<< >>)' = Entry
    BY <1>1, <1>3, NoPath, SameSetup
  <2> QED
    BY <2>1, <2>2, <2>3 DEF Replayable, Reached
<1>12. ASSUME ~hurt'
       PROVE  Whole(map', coord'.pending, {}) /\ Leaves(map') \subseteq map'.nodes /\ map'.stop # "completed"
  <2>1. Whole(map', coord'.pending, {})
    BY <1>4, <1>8, <1>9 DEF Whole
  <2> QED
    BY <1>4, <1>8, <2>1
<1>13. disk' = [map |-> map', plan |-> coord'.pending] /\ map'.nodes = {Entry}
  BY <1>1, <1>4, <1>8 DEF Emit
<1> QED
  BY <1>1, <1>3, <1>5, <1>8, <1>9, <1>10, <1>11, <1>12, <1>13, StartKeeps

\* The frontier of a crawl that continues another: what is left of the plan.
Left(plan, stale) == [s \in Screens |-> IF s \in stale THEN << >>
                        ELSE Without(setup.ops[s], OpsOf(s) \ ToSet(plan[s]))]

\* ... is planned of the same map, and is the whole plan of a screen that is not stale.
LEMMA LeftIs ==
  ASSUME setup \in Setups, NEW m, NEW plan \in Plans, PlanOk(m, plan), NEW stale, NEW left, left = Left(plan, stale)
  PROVE  /\ left \in Plans /\ PlanOk(m, left)
         /\ \A s \in Screens : s \notin stale => ToSet(left[s]) = ToSet(plan[s])
<1>1. ASSUME NEW s \in Screens, s \notin stale
      PROVE  left[s] \in Seq(Ops) /\ Once(left[s]) /\ ToSet(left[s]) = ToSet(plan[s])
  <2> DEFINE gone == OpsOf(s) \ ToSet(plan[s])
  <2>1. setup.ops[s] \in Seq(Ops) /\ Once(setup.ops[s]) /\ ToSet(setup.ops[s]) = OpsOf(s)
    BY OpsAre
  <2>2. left[s] = Without(setup.ops[s], gone)
    BY <1>1 DEF Left
  <2>3. ToSet(plan[s]) \subseteq OpsOf(s)
    BY DEF PlanOk
  <2>4. OpsOf(s) \ gone = ToSet(plan[s])
    BY <2>3
  <2> HIDE DEF gone
  <2> QED
    BY <2>1, <2>2, <2>4, WithoutGone
<1>2. ASSUME NEW s \in Screens, s \in stale
      PROVE  left[s] = << >>
  BY <1>2 DEF Left
<1>3. ASSUME NEW s \in Screens
      PROVE  left[s] \in Seq(Ops) /\ Once(left[s]) /\ ToSet(left[s]) \subseteq ToSet(plan[s])
  BY <1>1, <1>2, EmptyIs
<1>4. left \in Plans
  <2>1. left = [s \in Screens |-> left[s]]
    BY DEF Left
  <2> QED
    BY <1>3, <2>1 DEF Plans
<1>5. PlanOk(m, left)
  <2> SUFFICES ASSUME NEW s \in Screens
               PROVE  /\ left[s] # << >> => s \in m.nodes
                      /\ Once(left[s]) /\ ToSet(left[s]) \subseteq OpsOf(s)
                      /\ \A a \in ToSet(left[s]) : <<s, a>> \notin Settled(m) \union Pruned(m)
    BY DEF PlanOk
  <2>1. /\ plan[s] # << >> => s \in m.nodes
        /\ ToSet(plan[s]) \subseteq OpsOf(s)
        /\ \A a \in ToSet(plan[s]) : <<s, a>> \notin Settled(m) \union Pruned(m)
    BY DEF PlanOk
  <2>2. left[s] # << >> => plan[s] # << >>
    BY <1>3, EmptyIs
  <2> QED
    BY <1>3, <2>1, <2>2
<1> QED
  BY <1>1, <1>4, <1>5

\* What a crawl that continues another writes on its coordinator.
Planful(c, left, paths) ==
  [c EXCEPT !.pending = left, !.pathTo = [s \in Screens |-> IF left[s] # << >> THEN paths[s] ELSE << >>]]

\* Its paths are the map's.
LEMMA PlanfulIs ==
  ASSUME NEW c \in CoordRecords, NEW left \in Plans, NEW paths \in Plans, NEW k, k = Planful(c, left, paths)
  PROVE  /\ k \in CoordRecords /\ k.pending = left /\ k.discovering = c.discovering
         /\ k.steps = c.steps /\ k.active = c.active /\ k.stopped = c.stopped /\ k.failed = c.failed
         /\ \A s \in Screens : left[s] # << >> => k.pathTo[s] = paths[s]
<1> DEFINE to == [s \in Screens |-> IF left[s] # << >> THEN paths[s] ELSE << >>]
<1>1. to \in Plans /\ \A s \in Screens : left[s] # << >> => to[s] = paths[s]
  BY EmptyIs DEF Plans
<1>2. k = [c EXCEPT !.pending = left, !.pathTo = to]
  BY DEF Planful
<1> HIDE DEF to
<1>3. k \in CoordRecords
  BY <1>1, <1>2 DEF CoordRecords
<1>4. /\ k.discovering = c.discovering /\ k.steps = c.steps /\ k.active = c.active
      /\ k.stopped = c.stopped /\ k.failed = c.failed
  BY <1>2 DEF CoordRecords
<1>5. k.pending = left /\ k.pathTo = to
  BY <1>2 DEF CoordRecords
<1> QED
  BY <1>1, <1>3, <1>4, <1>5

\* A crawl continues from the map on disk.
LEMMA BootContinueKeeps ==
  ASSUME IInv, BootContinue
  PROVE  IInv'
<1>1. /\ main.pc = "boot" /\ main.mode = "continue" /\ setup' = setup
  BY DEF BootContinue
<1>2. PICK stale \in SUBSET {s \in Screens : disk.plan[s] # << >>} :
        /\ IF stale = {} THEN faults' = faults ELSE Fault
        /\ LET left == Left(disk.plan, stale)
           IN IF left # NoFrontier
              THEN /\ coord' = Planful(coord, left, map.paths)
                   /\ map' = [map EXCEPT !.stop = ""]
                   /\ Emit(map', coord')
                   /\ main' = [main EXCEPT !.pc = "walk"] /\ lane' = Start(None)
                   /\ hurt' = (hurt \/ stale # {})
              ELSE /\ map' = Stopped(map, "max_steps")
                   /\ disk' = [disk EXCEPT !.map = map']
                   /\ main' = [main EXCEPT !.pc = "done"]
                   /\ UNCHANGED <<coord, lane, hurt>>
  BY DEF BootContinue, Left, Planful
<1> SUFFICES ASSUME NEW CONSTANT left, left = Left(disk.plan, stale)
             PROVE  IInv'
  OBVIOUS
<1>3. coord = NewCoord /\ map = disk.map /\ Typed
  BY <1>1 DEF IInv, DiskOk
<1>4. /\ map \in MapRecords /\ disk.map \in MapRecords /\ disk.plan \in Plans /\ main \in MainRecords
      /\ faults \in 0..MaxFaults /\ hurt \in BOOLEAN /\ setup \in Setups /\ setup.steps \in Nat
      /\ MapOk(map) /\ PlanOk(map, disk.plan) /\ map.paths \in Plans
  BY <1>1, <1>3, RestIs DEF MapRecords
<1>5. /\ left \in Plans /\ PlanOk(map, left)
      /\ \A s \in Screens : s \notin stale => ToSet(left[s]) = ToSet(disk.plan[s])
  <2>1. setup \in Setups /\ disk.plan \in Plans /\ PlanOk(map, disk.plan)
    BY <1>4
  <2> QED
    BY <2>1, LeftIs
<1>6. faults' \in 0..MaxFaults
  BY <1>2, <1>4, FaultIs
<1>7. /\ NewCoord \in CoordRecords /\ NewCoord.discovering = {} /\ NewCoord.steps = 0 /\ NewCoord.active = 0
      /\ NewCoord.failed = FALSE
  BY NewCoordIs
<1>8. CASE left # NoFrontier
  <2>1. /\ coord' = Planful(NewCoord, left, map.paths) /\ map' = [map EXCEPT !.stop = ""]
        /\ Emit(map', coord') /\ main' = [main EXCEPT !.pc = "walk"] /\ lane' = Start(None)
        /\ hurt' = (hurt \/ stale # {})
    BY <1>2, <1>3, <1>8
  <2>2. /\ coord' \in CoordRecords /\ coord'.pending = left /\ coord'.discovering = {}
        /\ coord'.steps = 0 /\ coord'.active = 0 /\ coord'.failed = FALSE
        /\ \A s \in Screens : left[s] # << >> => coord'.pathTo[s] = map.paths[s]
    <3>1. NewCoord \in CoordRecords /\ left \in Plans /\ map.paths \in Plans
          /\ coord' = Planful(NewCoord, left, map.paths)
      BY <1>4, <1>5, <1>7, <2>1
    <3> QED
      BY <1>7, <3>1, PlanfulIs
  <2>3. map' \in MapRecords /\ SameMap(map, map') /\ map'.stop = ""
    BY <1>4, <2>1 DEF MapRecords, Reasons, SameMap
  <2>4. MapOk(map') /\ Settled(map') = Settled(map) /\ Pruned(map') = Pruned(map) /\ Leaves(map') = Leaves(map)
        /\ map'.nodes = map.nodes
    BY <1>4, <2>3, MapKept
  <2>5. PlanOk(map', coord'.pending)
    BY <1>5, <2>2, <2>4 DEF PlanOk
  <2>6. Replayable'
    <3>1. ASSUME NEW s \in Screens, left[s] # << >> PROVE Leads(coord'.pathTo[s]) = s
      <4>1. s \in map.nodes
        BY <1>5, <3>1 DEF PlanOk
      <4>2. Leads(map.paths[s]) = s
        BY <1>4, <4>1 DEF MapOk
      <4>3. coord'.pathTo[s] = map.paths[s]
        BY <2>2, <3>1
      <4> QED
        BY <4>2, <4>3
    <3>2. \A path : Leads(path)' = Leads(path)
      BY <1>1, SameSetup
    <3> QED
      BY <2>2, <3>1, <3>2 DEF Replayable, Reached
  <2>7. ASSUME ~hurt'
        PROVE Whole(map', coord'.pending, {}) /\ Leaves(map') \subseteq map'.nodes /\ map'.stop # "completed"
    <3>1. ~hurt /\ stale = {}
      BY <2>1, <2>7
    <3>2. Whole(map, disk.plan, {}) /\ Leaves(map) \subseteq map.nodes
      BY <1>1, <1>3, <3>1, RestIs
    <3>3. \A s \in map.nodes : ToSet(left[s]) = ToSet(disk.plan[s])
      BY <1>4, <1>5, <3>1 DEF MapRecords
    <3>4. Whole(map', coord'.pending, {})
      BY <2>2, <2>4, <3>2, <3>3 DEF Whole
    <3> QED
      BY <2>3, <2>4, <3>2, <3>4
  <2>8. disk' = [map |-> map', plan |-> coord'.pending] /\ None \in Screen /\ hurt' \in BOOLEAN
    BY <1>4, <2>1 DEF Emit, Screen
  <2> QED
    BY <1>1, <1>6, <2>1, <2>2, <2>3, <2>4, <2>5, <2>6, <2>7, <2>8, StartKeeps
<1>9. CASE left = NoFrontier
  <2>1. /\ map' = Stopped(map, "max_steps") /\ disk' = [disk EXCEPT !.map = map']
        /\ main' = [main EXCEPT !.pc = "done"] /\ coord' = NewCoord /\ lane' = lane /\ hurt' = hurt
    BY <1>2, <1>3, <1>9
  <2>2. map' \in MapRecords /\ SameMap(map, map') /\ map'.stop = IF map.stop = "" THEN "max_steps" ELSE map.stop
    BY <1>4, <2>1, StoppedIs DEF Reasons
  <2>3. MapOk(map') /\ Settled(map') = Settled(map) /\ Pruned(map') = Pruned(map) /\ Leaves(map') = Leaves(map)
        /\ map'.nodes = map.nodes
    BY <1>4, <2>2, MapKept
  <2>4. disk' \in [map : MapRecords, plan : Plans] /\ disk'.map = map' /\ disk'.plan = disk.plan
    <3>1. disk \in [map : MapRecords, plan : Plans]
      BY <1>1, RestIs
    <3>2. disk' = [map |-> map', plan |-> disk.plan]
      BY <2>1, <3>1
    <3> QED
      BY <1>4, <2>2, <3>2
  <2>5. main' \in MainRecords /\ main'.pc = "done"
    BY <1>4, <2>1 DEF MainRecords
  <2>6. PlanOk(map', disk.plan)
    BY <1>4, <2>3 DEF PlanOk
  <2>7. ASSUME ~hurt'
        PROVE  /\ disk'.map.stop = "completed" => disk'.plan = NoFrontier
               /\ Whole(disk'.map, disk'.plan, {}) /\ Leaves(disk'.map) \subseteq disk'.map.nodes
    <3>1. /\ map.stop = "completed" => disk.plan = NoFrontier
          /\ Whole(map, disk.plan, {}) /\ Leaves(map) \subseteq map.nodes
      BY <1>1, <1>3, <2>1, <2>7, RestIs
    <3>2. Whole(map', disk.plan, {})
      BY <2>3, <3>1 DEF Whole
    <3> QED
      BY <2>2, <2>3, <2>4, <3>1, <3>2
  <2>8. /\ coord' \in CoordRecords /\ PlanOk(map', coord'.pending) /\ Replayable'
        /\ coord'.discovering \intersect map'.nodes = {} /\ coord'.steps <= setup.steps /\ coord'.active = 0
        /\ coord'.failed = FALSE
    BY <1>1, <1>4, <2>1, NewCoordKeeps
  <2>9. main.pc # "walk" /\ \A v \in AllLanes : lane[v].pc \in {"build", "over"}
    BY <1>1, RestIs
  <2>10. /\ main'.pc # "walk" /\ main'.pc # "boot" /\ hurt' \in BOOLEAN /\ map'.nodes = disk'.map.nodes
         /\ MapOk(disk'.map) /\ PlanOk(disk'.map, disk'.plan)
    BY <1>4, <2>1, <2>3, <2>4, <2>5, <2>6
  <2> QED
    BY <1>1, <1>6, <2>1, <2>2, <2>3, <2>4, <2>5, <2>7, <2>8, <2>9, <2>10, RestKeeps
<1> QED
  BY <1>8, <1>9

\* What a resumed branch writes on its coordinator: one path, one operation.
Branch(c, s, path, a) == [c EXCEPT !.pathTo[s] = path, !.pending[s] = <<a>>]

\* That operation is all that is planned.
LEMMA BranchIs ==
  ASSUME NEW c \in CoordRecords, NEW s \in Screens, NEW path \in Seq(Ops), NEW a \in Ops,
         NEW k, k = Branch(c, s, path, a)
  PROVE  /\ k \in CoordRecords /\ k.discovering = c.discovering /\ k.steps = c.steps
         /\ k.active = c.active /\ k.failed = c.failed
         /\ k.pathTo[s] = path /\ Once(k.pending[s]) /\ \A b \in ToSet(k.pending[s]) : b = a
         /\ \A z \in Screens : z # s => k.pending[z] = c.pending[z]
<1> DEFINE order == <<a>>
           to == [c.pathTo EXCEPT ![s] = path]
           plan == [c.pending EXCEPT ![s] = order]
<1>1. order \in Seq(Ops) /\ Once(order) /\ ToSet(order) = {a}
  BY DEF Once, ToSet
<1>2. c.pathTo \in Plans /\ c.pending \in Plans
  BY DEF CoordRecords
<1> HIDE DEF order
<1>3. to \in Plans /\ to[s] = path
  BY <1>2 DEF Plans
<1>4. plan \in Plans /\ plan[s] = order /\ \A z \in Screens : z # s => plan[z] = c.pending[z]
  BY <1>1, <1>2 DEF Plans
<1>5. k = [c EXCEPT !.pathTo = to, !.pending = plan]
  BY <1>2 DEF Branch, order, CoordRecords
<1> HIDE DEF to, plan
<1>6. k \in CoordRecords
  BY <1>3, <1>4, <1>5 DEF CoordRecords
<1>7. k.discovering = c.discovering /\ k.steps = c.steps /\ k.active = c.active /\ k.failed = c.failed
  BY <1>5 DEF CoordRecords
<1>8. k.pathTo = to /\ k.pending = plan
  BY <1>5 DEF CoordRecords
<1> QED
  BY <1>1, <1>3, <1>4, <1>6, <1>7, <1>8

\* A lane starts on the one operation of a resumed branch.
LEMMA BranchKeeps ==
  ASSUME IInv, main.pc = "boot", setup' = setup, hurt' = TRUE, map' = map, faults' = faults,
         main' = [main EXCEPT !.pc = "walk"], NEW s \in Screens, lane' = Start(s),
         NEW path \in Seq(Ops), Leads(path) = s, NEW a \in Ops, coord' = Branch(NewCoord, s, path, a),
         disk' = [map |-> map', plan |-> coord'.pending],
         s \in map.nodes, a \in OpsOf(s), <<s, a>> \notin Settled(map) \union Pruned(map)
  PROVE  IInv'
<1>1. /\ coord' \in CoordRecords /\ coord'.discovering = {} /\ coord'.steps = 0 /\ coord'.active = 0
      /\ coord'.failed = FALSE /\ coord'.pathTo[s] = path
      /\ Once(coord'.pending[s]) /\ \A b \in ToSet(coord'.pending[s]) : b = a
      /\ \A z \in Screens : z # s => coord'.pending[z] = << >>
  <2> DEFINE c == NewCoord
  <2>1. c \in CoordRecords /\ coord' = Branch(c, s, path, a)
    BY NewCoordIs
  <2> HIDE DEF c
  <2>2. /\ coord' \in CoordRecords /\ coord'.discovering = c.discovering
        /\ coord'.steps = c.steps /\ coord'.active = c.active /\ coord'.failed = c.failed
        /\ coord'.pathTo[s] = path
    BY <2>1, BranchIs
  <2>3. Once(coord'.pending[s]) /\ \A b \in ToSet(coord'.pending[s]) : b = a
    BY <2>1, BranchIs
  <2>4. \A z \in Screens : z # s => coord'.pending[z] = c.pending[z]
    BY <2>1, BranchIs
  <2> QED
    BY <2>2, <2>3, <2>4, NewCoordIs, NothingPlanned DEF c
<1>2. PlanOk(map, coord'.pending)
  <2> SUFFICES ASSUME NEW z \in Screens
               PROVE  /\ coord'.pending[z] # << >> => z \in map.nodes
                      /\ Once(coord'.pending[z]) /\ ToSet(coord'.pending[z]) \subseteq OpsOf(z)
                      /\ \A b \in ToSet(coord'.pending[z]) : <<z, b>> \notin Settled(map) \union Pruned(map)
    BY DEF PlanOk
  <2>1. CASE z = s
    BY <1>1, <2>1
  <2>2. CASE z # s
    BY <1>1, <2>2, EmptyIs
  <2> QED
    BY <2>1, <2>2
<1>3. Replayable'
  <2>1. \A z \in Screens : coord'.pending[z] # << >> => z = s
    BY <1>1
  <2>2. \A q : Leads(q)' = Leads(q)
    BY SameSetup
  <2>3. Leads(coord'.pathTo[s]) = s
    BY <1>1
  <2> QED
    BY <2>1, <2>2, <2>3 DEF Replayable, Reached
<1>4. /\ map' \in MapRecords /\ MapOk(map') /\ PlanOk(map', coord'.pending) /\ map'.nodes = map.nodes
      /\ faults' \in 0..MaxFaults /\ hurt' \in BOOLEAN /\ hurt' /\ s \in Screen
  BY <1>2, RestIs DEF Screen
<1> QED
  BY <1>1, <1>3, <1>4, StartKeeps

\* One pruned branch is explored, or can no longer be reached.
LEMMA BootResumeKeeps ==
  ASSUME IInv, BootResume
  PROVE  IInv'
<1>1. /\ main.pc = "boot" /\ main.mode = "resume" /\ setup' = setup /\ hurt' = TRUE /\ Emit(map', coord')
  BY DEF BootResume
<1>2. /\ Typed /\ coord = NewCoord
      /\ \E p \in disk.map.pruned : main.seed = p.path /\ map = [disk.map EXCEPT !.pruned = @ \ {p}]
  BY <1>1 DEF IInv, DiskOk
<1>3. /\ map \in MapRecords /\ disk.map \in MapRecords /\ MapOk(disk.map) /\ MapOk(map) /\ main \in MainRecords
      /\ faults \in 0..MaxFaults /\ setup \in Setups /\ setup.steps \in Nat
  BY <1>1, RestIs
<1>4. PICK p \in disk.map.pruned : main.seed = p.path /\ map = [disk.map EXCEPT !.pruned = @ \ {p}]
  BY <1>2
<1> SUFFICES ASSUME NEW CONSTANT path, path = Front(main.seed), NEW CONSTANT s, s = Leads(path),
                    NEW CONSTANT a, a = Last(main.seed)
             PROVE  IInv'
  OBVIOUS
<1>5. /\ <<s, a>> \notin Settled(map) \union Pruned(map) /\ s \in map.nodes /\ a \in OpsOf(s)
      /\ path \in Seq(Ops) /\ a \in Ops
  <2>1. /\ map.nodes = disk.map.nodes /\ map.paths = disk.map.paths /\ map.edges = disk.map.edges
        /\ map.crashes = disk.map.crashes /\ map.gone = disk.map.gone /\ map.pruned = disk.map.pruned \ {p}
    BY <1>3, <1>4 DEF MapRecords
  <2>2. /\ <<p.src, p.op>> \notin Settled(map) \union Pruned(map)
        /\ p.src \in map.nodes /\ p.op \in OpsOf(p.src)
        /\ Leads(Front(p.path)) = p.src /\ Last(p.path) = p.op /\ Front(p.path) \in Seq(Ops) /\ p.op \in Ops
    BY <1>3, <2>1, MapResumed
  <2>3. s = p.src /\ a = p.op /\ path = Front(p.path)
    BY <1>4, <2>2
  <2> QED
    BY <2>2, <2>3
<1>6. s \in Screens /\ s \in Screen
  <2> QED
    BY <1>3, <1>5 DEF MapRecords, Screen
<1>7. CASE /\ coord' = Branch(NewCoord, s, path, a)
           /\ main' = [main EXCEPT !.pc = "walk"] /\ lane' = Start(s) /\ map' = map /\ faults' = faults
  <2>1. s \in Screens /\ path \in Seq(Ops) /\ a \in Ops /\ Leads(path) = s
    BY <1>5, <1>6
  <2>2. disk' = [map |-> map', plan |-> coord'.pending]
    BY <1>1 DEF Emit
  <2> QED
    BY <1>1, <1>5, <1>7, <2>1, <2>2, BranchKeeps
<1>8. CASE /\ Fault /\ map' = [map EXCEPT !.stop = "completed"] /\ main' = [main EXCEPT !.pc = "done"]
           /\ coord' = coord /\ lane' = lane
  <2>1. map' \in MapRecords /\ SameMap(map, map')
    BY <1>3, <1>8 DEF MapRecords, SameMap, Reasons
  <2>2. MapOk(map') /\ map'.nodes = map.nodes
    BY <1>3, <2>1, MapKept
  <2>3. /\ coord' \in CoordRecords /\ PlanOk(map', coord'.pending) /\ Replayable'
        /\ coord'.discovering \intersect map'.nodes = {} /\ coord'.steps <= setup.steps /\ coord'.active = 0
        /\ coord'.failed = FALSE
    <3>1. coord' = NewCoord
      BY <1>2, <1>8
    <3> QED
      BY <1>1, <1>3, <3>1, NewCoordKeeps
  <2>4. disk'.map = map' /\ disk'.plan = coord'.pending /\ disk' \in [map : MapRecords, plan : Plans]
    <3>1. disk' = [map |-> map', plan |-> coord'.pending] /\ coord'.pending \in Plans
      BY <1>1, <2>3 DEF Emit, CoordRecords
    <3> QED
      BY <2>1, <3>1
  <2>5. main' \in MainRecords /\ main'.pc = "done" /\ main'.pc # "walk" /\ main'.pc # "boot"
    BY <1>3, <1>8 DEF MainRecords
  <2>6. main.pc # "walk" /\ \A v \in AllLanes : lane[v].pc \in {"build", "over"}
    BY <1>1, RestIs
  <2>7. faults' \in 0..MaxFaults /\ hurt' \in BOOLEAN /\ hurt' /\ map'.nodes = disk'.map.nodes /\ MapOk(disk'.map)
        /\ PlanOk(disk'.map, disk'.plan) /\ lane' = lane
    BY <1>1, <1>3, <1>8, <2>2, <2>3, <2>4, FaultIs
  <2> QED
    BY <1>1, <2>1, <2>2, <2>3, <2>4, <2>5, <2>6, <2>7, RestKeeps
<1>9. \/ /\ coord' = Branch(coord, s, path, a)
         /\ main' = [main EXCEPT !.pc = "walk"] /\ lane' = Start(s) /\ map' = map /\ faults' = faults
      \/ /\ Fault /\ map' = [map EXCEPT !.stop = "completed"] /\ main' = [main EXCEPT !.pc = "done"]
         /\ coord' = coord /\ lane' = lane
  BY DEF BootResume, Branch
<1> QED
  BY <1>2, <1>7, <1>8, <1>9

\* Every lane was joined.
LEMMA JoinKeeps ==
  ASSUME IInv, Join
  PROVE  IInv'
<1>1. /\ main.pc = "walk" /\ \A w \in Lanes : lane[w].pc = "over"
      /\ setup' = setup /\ coord' = coord /\ lane' = lane /\ faults' = faults /\ hurt' = hurt
  BY DEF Join
<1>2. /\ Typed /\ LanesOk /\ Counts /\ DiskOk /\ Unhurt /\ MapOk(map) /\ PlanOk(map, coord.pending) /\ Replayable
  BY DEF IInv
<1>3. /\ map \in MapRecords /\ coord \in CoordRecords /\ disk \in [map : MapRecords, plan : Plans]
      /\ coord.pending \in Plans /\ main \in MainRecords /\ faults \in 0..MaxFaults /\ hurt \in BOOLEAN
  BY <1>2 DEF Typed, CoordRecords
<1>4. \A v \in AllLanes : lane[v].pc \in {"build", "over"}
  <2> TAKE v \in AllLanes
  <2>1. CASE v \in Lanes
    BY <1>1, <2>1
  <2>2. CASE v \notin Lanes
    BY <1>2, <2>2 DEF LanesOk, LaneAt
  <2> QED
    BY <2>1, <2>2
<1>5. HeldNow = {} /\ Discovering = {}
  BY <1>4, Idle
<1>6. Replayable'
  BY <1>1, <1>2, SameSetup DEF Replayable, Reached
<1>7. coord.discovering \intersect map.nodes = {} /\ coord.steps <= setup.steps
  BY <1>2 DEF Counts
<1>8. MapOk(disk.map) /\ PlanOk(disk.map, disk.plan) /\ map.nodes = disk.map.nodes
  BY <1>2 DEF DiskOk
<1>9. CASE coord.failed
  <2>1. main' = [main EXCEPT !.pc = "raised"] /\ map' = map /\ disk' = disk
    BY <1>9 DEF Join
  <2>2. main' \in MainRecords /\ main'.pc = "raised"
    BY <1>3, <2>1 DEF MainRecords
  <2>3. hurt'
    BY <1>1, <1>2, <1>9 DEF Unhurt
  <2>4. main'.pc # "walk" /\ main'.pc # "boot" /\ main'.pc # "done"
    BY <2>2
  <2> QED
    BY <1>1, <1>2, <1>3, <1>4, <1>6, <1>7, <1>8, <2>1, <2>2, <2>3, <2>4, RestKeeps
<1>10. CASE ~coord.failed
  <2> DEFINE reason == IF Frontier = {} THEN "completed"
                       ELSE IF Cardinality(map.nodes) >= setup.screens THEN "max_screens" ELSE "max_steps"
  <2>1. main' = [main EXCEPT !.pc = "done"] /\ map' = Stopped(map, reason) /\ Emit(map', coord)
    BY <1>10 DEF Join
  <2>2. reason \in Reasons /\ (reason = "completed" => Frontier = {})
    BY DEF Reasons
  <2> HIDE DEF reason
  <2>3. map' \in MapRecords /\ SameMap(map, map') /\ map'.stop = IF map.stop = "" THEN reason ELSE map.stop
    BY <1>3, <2>1, <2>2, StoppedIs
  <2>4. MapOk(map') /\ Settled(map') = Settled(map) /\ Pruned(map') = Pruned(map) /\ Leaves(map') = Leaves(map)
        /\ map'.nodes = map.nodes
    BY <1>2, <2>3, MapKept
  <2>5. PlanOk(map', coord.pending)
    BY <1>2, <2>4 DEF PlanOk
  <2>6. disk'.map = map' /\ disk'.plan = coord.pending /\ disk' \in [map : MapRecords, plan : Plans]
    <3>1. disk' = [map |-> map', plan |-> coord.pending]
      BY <2>1 DEF Emit
    <3> QED
      BY <1>3, <2>3, <3>1
  <2>7. main' \in MainRecords /\ main'.pc = "done" /\ main'.pc # "walk" /\ main'.pc # "boot"
    BY <1>3, <2>1 DEF MainRecords
  <2>8. ASSUME ~hurt'
        PROVE  /\ disk'.map.stop = "completed" => disk'.plan = NoFrontier
               /\ Whole(disk'.map, disk'.plan, {}) /\ Leaves(disk'.map) \subseteq disk'.map.nodes
    <3>1. /\ Whole(map, coord.pending, {}) /\ Leaves(map) \subseteq map.nodes
          /\ map.stop = "completed" => Frontier = {}
      BY <1>1, <1>2, <1>5, <2>8 DEF Unhurt
    <3>2. Whole(map', coord.pending, {})
      BY <2>4, <3>1 DEF Whole
    <3>3. Frontier = {} => coord.pending = NoFrontier
      <4>1. Frontier = {} => \A z \in Screens : coord.pending[z] = << >>
        BY DEF Frontier
      <4> QED
        BY <1>3, <4>1, NothingPlanned
    <3>4. map'.stop = "completed" => Frontier = {}
      BY <2>2, <2>3, <3>1
    <3> QED
      BY <2>4, <2>6, <3>1, <3>2, <3>3, <3>4
  <2>9. /\ coord'.discovering \intersect map'.nodes = {} /\ coord'.steps <= setup.steps /\ coord' \in CoordRecords
        /\ coord'.active = coord.active /\ faults' \in 0..MaxFaults /\ hurt' \in BOOLEAN
        /\ map'.nodes = disk'.map.nodes /\ MapOk(disk'.map) /\ PlanOk(disk'.map, disk'.plan)
        /\ PlanOk(map', coord'.pending) /\ (coord'.failed => hurt')
    BY <1>1, <1>3, <1>7, <1>10, <2>4, <2>5, <2>6
  <2> QED
    BY <1>1, <1>4, <1>6, <2>3, <2>4, <2>6, <2>7, <2>8, <2>9, RestKeeps
<1> QED
  BY <1>9, <1>10

\* A crawl starts on nothing.
LEMMA InitHolds ==
  ASSUME Init
  PROVE  IInv
<1>1. /\ setup \in Setups /\ main = [pc |-> "boot", mode |-> "fresh", run |-> 1, seed |-> << >>]
      /\ map = NewMap /\ coord = NewCoord /\ lane = [w \in 1..setup.lanes |-> NewLane]
      /\ disk = [map |-> NewMap, plan |-> NoFrontier] /\ faults = 0 /\ hurt = FALSE
  BY DEF Init
<1>2. main \in MainRecords /\ main.pc = "boot" /\ main.mode = "fresh"
  <2>1. 1 \in 1..MaxRuns /\ << >> \in Seq(Ops)
    BY Constants, EmptyIs
  <2> QED
    BY <1>1, <2>1 DEF MainRecords
<1>3. NewLane \in LaneRecords /\ NewLane.pc = "build" /\ NewLane.at = NewLane.cur /\ NewLane.errors = 0
  <2>1. 0 \in 0..MaxErrors /\ None \in Screen /\ << >> \in Seq(Ops)
    BY Constants, EmptyIs DEF Screen
  <2> QED
    BY <2>1 DEF NewLane, LaneRecords, LanePcs
<1>4. lane \in [AllLanes -> LaneRecords] /\ \A v \in AllLanes : lane[v] = NewLane
  BY <1>1, <1>3 DEF AllLanes
<1>5. Typed
  <2>1. disk \in [map : MapRecords, plan : Plans]
    BY <1>1, NewMapIs, NothingPlanned
  <2>2. faults \in 0..MaxFaults /\ hurt \in BOOLEAN /\ map \in MapRecords /\ coord \in CoordRecords
    <3>0. hurt \in BOOLEAN
      BY <1>1, Zenon
    <3>1. faults \in 0..MaxFaults
      BY <1>1, Constants
    <3>2. map \in MapRecords /\ coord \in CoordRecords
      BY <1>1, NewMapIs, NewCoordIs
    <3> QED
      BY <3>0, <3>1, <3>2
  <2> QED
    BY <1>1, <1>2, <1>4, <2>1, <2>2 DEF Typed
<1>6. MapOk(map) /\ PlanOk(map, coord.pending)
  BY <1>1, NewMapIs, NewCoordIs, NothingPlanned
<1>7. Replayable
  BY <1>1, NewCoordIs, NothingPlanned DEF Replayable
<1>8. LanesOk
  <2> SUFFICES ASSUME NEW v \in AllLanes PROVE WalkAt(v) /\ DiscoverAt(v) /\ LaneAt(v)
    BY DEF LanesOk
  <2>1. lane[v].pc = "build" /\ lane[v].at = lane[v].cur /\ lane[v].errors = 0
    BY <1>3, <1>4
  <2> QED
    BY <2>1, Constants DEF WalkAt, DiscoverAt, LaneAt
<1>9. Counts
  <2>1. Busy = {}
    BY <1>3, <1>4 DEF Busy
  <2>2. /\ Cardinality(Busy) = 0 /\ Cardinality(Ready) \in Nat /\ Cardinality(Busy) + Cardinality(Ready) <= setup.lanes
        /\ setup.lanes \in Nat /\ setup.steps \in Nat
    BY <1>5, <2>1, FS_EmptySet, LanesCounted, SetupIs DEF Typed
  <2>3. coord.discovering = {} /\ coord.steps = 0 /\ coord.active = 0 /\ map.nodes = {}
    BY <1>1, NewMapIs, NewCoordIs
  <2>4. IsFiniteSet(map.nodes) /\ map.nodes \subseteq {Entry}
    BY <2>3, FS_EmptySet
  <2> QED
    BY <2>1, <2>2, <2>3, <2>4 DEF Counts
<1>10. disk.map = NewMap /\ disk.plan = NoFrontier
  BY <1>1
<1>11. DiskOk
  BY <1>1, <1>2, <1>6, <1>10, NewMapIs, NothingPlanned DEF DiskOk
<1>12. Unhurt
  <2>1. coord.failed = FALSE
    BY <1>1, NewCoordIs
  <2>2. Whole(disk.map, disk.plan, {}) /\ Leaves(disk.map) \subseteq disk.map.nodes
    BY <1>10, NewMapIs DEF Whole
  <2> QED
    BY <1>2, <1>10, <2>1, <2>2 DEF Unhurt
<1> QED
  BY <1>5, <1>6, <1>7, <1>8, <1>9, <1>11, <1>12 DEF IInv

\* Nothing changes.
LEMMA StutterKeeps ==
  ASSUME IInv, UNCHANGED vars
  PROVE  IInv'
<1>1. /\ setup' = setup /\ main' = main /\ map' = map /\ coord' = coord /\ lane' = lane /\ disk' = disk
      /\ faults' = faults /\ hurt' = hurt
  BY DEF vars
<1>2. Typed' /\ LanesOk' /\ Counts' /\ Replayable'
  <2>1. Typed'
    BY <1>1 DEF IInv, Typed, AllLanes
  <2>2. \A path : Leads(path)' = Leads(path)
    BY <1>1, SameSetup
  <2>3. \A s : OpsOf(s)' = OpsOf(s)
    BY <1>1, SameSetup
  <2>4. AllLanes' = AllLanes /\ Lanes' = Lanes /\ Busy' = Busy /\ Ready' = Ready
    BY <1>1 DEF AllLanes, Lanes, Busy, Ready
  <2>5. Replayable'
    BY <1>1, <2>2 DEF IInv, Replayable, Reached
  <2>6. Counts'
    BY <1>1, <2>4 DEF IInv, Counts
  <2>7. Settled(map)' = Settled(map) /\ Pruned(map)' = Pruned(map)
    BY <1>1 DEF Settled, Tried, Pruned
  <2>8. LanesOk'
    <3> SUFFICES ASSUME NEW v \in AllLanes PROVE WalkAt(v)' /\ DiscoverAt(v)' /\ LaneAt(v)'
      BY <2>4 DEF LanesOk
    <3>1. WalkAt(v) /\ DiscoverAt(v) /\ LaneAt(v)
      BY DEF IInv, LanesOk
    <3>2. WalkAt(v)'
      BY <1>1, <2>2, <2>3, <2>4, <2>7, <3>1 DEF WalkAt, Reached, Held
    <3>3. DiscoverAt(v)'
      BY <1>1, <2>2, <2>4, <3>1 DEF DiscoverAt, Reached
    <3>4. LaneAt(v)'
      BY <1>1, <2>4, <3>1 DEF LaneAt
    <3> QED
      BY <3>2, <3>3, <3>4
  <2> QED
    BY <2>1, <2>5, <2>6, <2>8
<1>3. MapOk(map)' /\ PlanOk(map, coord.pending)' /\ MapOk(disk.map)' /\ PlanOk(disk.map, disk.plan)'
  BY <1>1, Primed DEF IInv, DiskOk
<1>4. DiskOk'
  BY <1>1, <1>3 DEF IInv, DiskOk, NewCoord, NewMap, NoFrontier
<1>5. Unhurt'
  <2>1. HeldNow' = HeldNow /\ Discovering' = Discovering /\ Frontier' = Frontier /\ Busy' = Busy
    BY <1>1 DEF HeldNow, Held, Discovering, Frontier, Busy, AllLanes
  <2>2. Leaves(map)' = Leaves(map) /\ Leaves(disk.map)' = Leaves(disk.map)
    BY <1>1 DEF Leaves
  <2>3. /\ Whole(map, coord.pending, HeldNow)' <=> Whole(map, coord.pending, HeldNow)
        /\ Whole(disk.map, disk.plan, {})' <=> Whole(disk.map, disk.plan, {})
    BY <1>1, <2>1, Primed
  <2> QED
    BY <1>1, <2>1, <2>2, <2>3 DEF IInv, Unhurt, NoFrontier
<1> QED
  BY <1>2, <1>3, <1>4, <1>5 DEF IInv

\* A step keeps the invariant.
LEMMA NextKeeps ==
  ASSUME IInv, [Next]_vars
  PROVE  IInv'
<1>1. CASE BootFresh
  BY <1>1, BootFreshKeeps
<1>2. CASE BootContinue
  BY <1>2, BootContinueKeeps
<1>3. CASE BootResume
  BY <1>3, BootResumeKeeps
<1>4. CASE BootFails
  BY <1>4, BootFailsKeeps
<1>5. CASE Join
  BY <1>5, JoinKeeps
<1>6. CASE Continue
  BY <1>6, ContinueKeeps
<1>7. CASE Resume
  BY <1>7, ResumeKeeps
<1>8. ASSUME NEW w \in Lanes, LaneStep(w) PROVE IInv'
  BY <1>8, LaneStepKeeps
<1>9. CASE UNCHANGED vars
  BY <1>9, StutterKeeps
<1> QED
  BY <1>1, <1>2, <1>3, <1>4, <1>5, <1>6, <1>7, <1>8, <1>9 DEF Next, MainStep

\* The inductive invariant holds of every reachable state.
THEOREM InvariantHolds == Spec => []IInv
<1>1. Init => IInv
  BY InitHolds
<1>2. IInv /\ [Next]_vars => IInv'
  BY NextKeeps
<1> QED
  BY <1>1, <1>2, PTL DEF Spec

----------------------------------------------------------------------------
(* What the invariant says *)

\* The fields of the state.
LEMMA TypesHold ==
  ASSUME IInv
  PROVE  TypeOK
<1>1. Typed /\ Counts
  BY DEF IInv
<1>2. /\ main.pc \in {"boot", "walk", "done", "raised"} /\ main.run \in 1..MaxRuns
      /\ main.mode \in {"fresh", "continue", "resume"} /\ faults \in 0..MaxFaults
  BY <1>1 DEF Typed, MainRecords
<1>3. map.nodes \subseteq Screens /\ map.stop \in Reasons /\ map.edges \subseteq Screens \X Ops \X Screens
  BY <1>1 DEF Typed, MapRecords
<1>4. /\ coord.pending \in [Screens -> Seq(Ops)] /\ coord.discovering \subseteq Screens
      /\ coord.active \in Nat /\ coord.steps \in Nat
  BY <1>1 DEF Typed, CoordRecords, Plans
<1>5. coord.discovering \subseteq Screens \ map.nodes
  BY <1>1, <1>4 DEF Counts
<1>6. coord.active \in 0..setup.lanes /\ coord.steps \in 0..setup.steps
  <2>1. coord.active + Cardinality(Ready) <= setup.lanes /\ coord.steps <= setup.steps
    BY <1>1 DEF Counts
  <2>2. Cardinality(Ready) \in Nat /\ setup.lanes \in Nat /\ setup.steps \in Nat
    BY <1>1, LanesCounted, SetupIs DEF Typed
  <2> QED
    BY <1>4, <2>1, <2>2
<1>7. ASSUME NEW w \in Lanes
      PROVE  /\ lane[w].pc \in {"build", "select", "wait", "walk", "heal", "discover", "over"}
             /\ lane[w].errors \in 0..MaxErrors
  <2>1. lane[w] \in LaneRecords
    BY <1>1, LanesAre DEF Typed
  <2> QED
    BY <2>1 DEF LaneRecords, LanePcs
<1> QED
  BY <1>2, <1>3, <1>4, <1>5, <1>6, <1>7 DEF TypeOK

\* The lanes that hold an operation.
Holders(s, a) == {w \in Lanes : main.pc = "walk" /\ lane[w].pc = "walk" /\ lane[w].src = s /\ lane[w].op = a}

\* An operation is in one place when what says so excludes the others.
LEMMA PlacesAre ==
  ASSUME NEW s, NEW a, NEW plan, plan = IF main.pc = "walk" THEN coord.pending ELSE disk.plan,
         Holders(s, a) = {} \/ \E w : Holders(s, a) = {w},
         a \in ToSet(plan[s]) => <<s, a>> \notin Settled(map) \union Pruned(map),
         <<s, a>> \in Settled(map) => <<s, a>> \notin Pruned(map),
         Holders(s, a) # {} => a \notin ToSet(plan[s]) /\ <<s, a>> \notin Settled(map) \union Pruned(map)
  PROVE  /\ Places(s, a) <= 1
         /\ a \in ToSet(plan[s]) \/ <<s, a>> \in Settled(map) \union Pruned(map) \/ Holders(s, a) # {}
              => Places(s, a) = 1
<1> DEFINE One(b) == IF b THEN 1 ELSE 0
<1>1. <<s, a>> \in Pruned(map) <=> \E p \in map.pruned : p.src = s /\ p.op = a
  BY DEF Pruned
<1>2. Places(s, a) = One(a \in ToSet(plan[s])) + Cardinality(Holders(s, a)) + One(<<s, a>> \in Settled(map))
                       + One(<<s, a>> \in Pruned(map))
  BY <1>1 DEF Places, Holders, Settled
<1>3. /\ Holders(s, a) = {} => Cardinality(Holders(s, a)) = 0
      /\ Holders(s, a) # {} => Cardinality(Holders(s, a)) = 1
  BY FS_EmptySet, FS_Singleton
<1> DEFINE H == Holders(s, a)
           n == Cardinality(H)
<1>4. Places(s, a) = One(a \in ToSet(plan[s])) + n + One(<<s, a>> \in Settled(map)) + One(<<s, a>> \in Pruned(map))
  BY <1>2
<1>5. (H = {} => n = 0) /\ (H # {} => n = 1)
  BY <1>3
<1> HIDE DEF H, n
<1>6. CASE a \in ToSet(plan[s])
  <2>1. H = {} /\ <<s, a>> \notin Settled(map) /\ <<s, a>> \notin Pruned(map)
    BY <1>6 DEF H
  <2> QED
    BY <1>4, <1>5, <1>6, <2>1
<1>7. CASE a \notin ToSet(plan[s]) /\ <<s, a>> \in Settled(map)
  <2>1. H = {} /\ <<s, a>> \notin Pruned(map)
    BY <1>7 DEF H
  <2> QED
    BY <1>4, <1>5, <1>7, <2>1
<1>8. CASE a \notin ToSet(plan[s]) /\ <<s, a>> \notin Settled(map) /\ <<s, a>> \in Pruned(map)
  <2>1. H = {}
    BY <1>8 DEF H
  <2> QED
    BY <1>4, <1>5, <1>8, <2>1
<1>9. CASE a \notin ToSet(plan[s]) /\ <<s, a>> \notin Settled(map) /\ <<s, a>> \notin Pruned(map)
  <2>1. Places(s, a) = n
    BY <1>4, <1>5, <1>9
  <2> QED
    BY <1>5, <1>9, <2>1 DEF H
<1> QED
  BY <1>6, <1>7, <1>8, <1>9

\* Each operation of a known screen is in one place.
LEMMA FrontierHolds ==
  ASSUME IInv
  PROVE  FrontierIsExact
<1> SUFFICES ASSUME main.pc \in {"walk", "done"}, NEW s \in map.nodes, NEW a \in OpsOf(s)
             PROVE  Places(s, a) <= 1 /\ (hurt \/ Places(s, a) = 1)
  BY DEF FrontierIsExact
<1>1. Typed /\ MapOk(map) /\ LanesOk /\ DiskOk /\ Unhurt /\ s \in Screens
  BY DEF IInv, Typed, MapRecords
<1>2. <<s, a>> \in Settled(map) => <<s, a>> \notin Pruned(map)
  BY <1>1 DEF MapOk
<1>3. CASE main.pc = "walk"
  <2>1. PlanOk(map, coord.pending)
    BY DEF IInv
  <2>2. a \in ToSet(coord.pending[s]) => <<s, a>> \notin Settled(map) \union Pruned(map)
    BY <1>1, <2>1 DEF PlanOk
  <2>3. ASSUME NEW w \in Holders(s, a)
        PROVE  /\ w \in AllLanes /\ lane[w].pc = "walk" /\ Held(w) = <<s, a>>
               /\ a \notin ToSet(coord.pending[s]) /\ <<s, a>> \notin Settled(map) \union Pruned(map)
    <3>1. w \in Lanes /\ lane[w].pc = "walk" /\ lane[w].src = s /\ lane[w].op = a
      BY DEF Holders
    <3>2. w \in AllLanes
      BY <1>1, <3>1, LanesAre
    <3>3. WalkAt(w)
      BY <1>1, <3>2 DEF LanesOk
    <3> QED
      BY <3>1, <3>2, <3>3 DEF WalkAt, Held
  <2>4. ASSUME NEW w \in Holders(s, a), NEW v \in Holders(s, a) PROVE w = v
    <3>1. w \in AllLanes /\ v \in AllLanes /\ lane[w].pc = "walk" /\ lane[v].pc = "walk" /\ Held(w) = Held(v)
      BY <2>3
    <3>2. WalkAt(w)
      BY <1>1, <3>1 DEF LanesOk
    <3> QED
      BY <3>1, <3>2 DEF WalkAt
  <2>5. Holders(s, a) = {} \/ \E w : Holders(s, a) = {w}
    BY <2>4
  <2>6. ASSUME ~hurt
        PROVE  a \in ToSet(coord.pending[s]) \/ <<s, a>> \in Settled(map) \union Pruned(map) \/ Holders(s, a) # {}
    <3>1. Whole(map, coord.pending, HeldNow)
      BY <1>1, <1>3, <2>6 DEF Unhurt
    <3>2. a \in ToSet(coord.pending[s]) \/ <<s, a>> \in Settled(map) \union Pruned(map) \union HeldNow
      BY <3>1 DEF Whole
    <3> SUFFICES ASSUME <<s, a>> \in HeldNow PROVE Holders(s, a) # {}
      BY <3>2
    <3>3. PICK w \in AllLanes : lane[w].pc = "walk" /\ <<s, a>> = Held(w)
      BY DEF HeldNow
    <3>4. w \in Lanes
      <4>1. LaneAt(w)
        BY <1>1 DEF LanesOk
      <4> QED
        BY <3>3, <4>1 DEF LaneAt
    <3>5. w \in Holders(s, a)
      BY <1>3, <3>3, <3>4 DEF Holders, Held
    <3> QED
      BY <3>5
  <2> DEFINE plan == IF main.pc = "walk" THEN coord.pending ELSE disk.plan
  <2>7. plan = coord.pending
    BY <1>3
  <2> HIDE DEF plan
  <2>8. /\ plan = (IF main.pc = "walk" THEN coord.pending ELSE disk.plan)
        /\ a \in ToSet(plan[s]) => <<s, a>> \notin Settled(map) \union Pruned(map)
        /\ Holders(s, a) # {} => a \notin ToSet(plan[s]) /\ <<s, a>> \notin Settled(map) \union Pruned(map)
    BY <2>2, <2>3, <2>7 DEF plan
  <2>9. /\ Places(s, a) <= 1
        /\ a \in ToSet(plan[s]) \/ <<s, a>> \in Settled(map) \union Pruned(map) \/ Holders(s, a) # {}
             => Places(s, a) = 1
    BY <1>2, <2>5, <2>8, PlacesAre
  <2> QED
    BY <2>6, <2>7, <2>9
<1>4. CASE main.pc = "done"
  <2>1. PlanOk(map, disk.plan) /\ map = disk.map
    BY <1>1, <1>4 DEF DiskOk
  <2>2. a \in ToSet(disk.plan[s]) => <<s, a>> \notin Settled(map) \union Pruned(map)
    BY <1>1, <2>1 DEF PlanOk
  <2>3. Holders(s, a) = {}
    BY <1>4 DEF Holders
  <2>4. ASSUME ~hurt
        PROVE  a \in ToSet(disk.plan[s]) \/ <<s, a>> \in Settled(map) \union Pruned(map)
    <3>1. Whole(map, disk.plan, {})
      BY <1>1, <1>4, <2>1, <2>4 DEF Unhurt
    <3> QED
      BY <3>1 DEF Whole
  <2> DEFINE plan == IF main.pc = "walk" THEN coord.pending ELSE disk.plan
  <2>5. plan = disk.plan
    BY <1>4
  <2> HIDE DEF plan
  <2>6. /\ plan = (IF main.pc = "walk" THEN coord.pending ELSE disk.plan)
        /\ a \in ToSet(plan[s]) => <<s, a>> \notin Settled(map) \union Pruned(map)
        /\ Holders(s, a) # {} => a \notin ToSet(plan[s]) /\ <<s, a>> \notin Settled(map) \union Pruned(map)
        /\ Holders(s, a) = {} \/ \E w : Holders(s, a) = {w}
    BY <2>2, <2>3, <2>5 DEF plan
  <2>7. /\ Places(s, a) <= 1
        /\ a \in ToSet(plan[s]) \/ <<s, a>> \in Settled(map) \union Pruned(map) \/ Holders(s, a) # {}
             => Places(s, a) = 1
    BY <1>2, <2>6, PlacesAre
  <2> QED
    BY <2>4, <2>5, <2>7
<1> QED
  BY <1>3, <1>4

\* A new screen has one lane.
LEMMA DiscoveredHolds ==
  ASSUME IInv
  PROVE  DiscoveredOnce
<1> SUFFICES ASSUME NEW w \in Lanes, main.pc = "walk", lane[w].pc = "discover"
             PROVE  /\ lane[w].cur \notin map.nodes
                    /\ \A v \in Lanes \ {w} : lane[v].pc = "discover" => lane[v].cur # lane[w].cur
  BY DEF DiscoveredOnce
<1>1. Lanes \subseteq AllLanes /\ DiscoverAt(w)
  BY BusyIs, LanesAre DEF IInv
<1>2. coord.discovering \intersect map.nodes = {}
  BY DEF IInv, Counts
<1> QED
  BY <1>1, <1>2 DEF DiscoverAt

\* What the map says of the app.
LEMMA MapHolds ==
  ASSUME IInv
  PROVE  MapIsTrue
<1>1. setup \in Setups /\ MapOk(map) /\ map \in MapRecords
  BY DEF IInv, Typed
<1>2. ASSUME NEW c \in map.crashes
      PROVE  Leads(Front(c.path)) = c.src /\ Leads(c.path) = None
  <2>1. /\ c.path # << >> /\ Leads(Front(c.path)) = c.src /\ Last(c.path) \in OpsOf(c.src)
        /\ setup.goes[c.src][Last(c.path)] = None
    BY <1>1 DEF MapOk
  <2>2. c.path \in Seq(Ops)
    BY <1>1 DEF MapRecords, Crashes
  <2>3. Front(c.path) \in Seq(Ops) /\ Last(c.path) \in Ops /\ Append(Front(c.path), Last(c.path)) = c.path
    BY <2>1, <2>2, FrontIs
  <2>4. Leads(c.path) = After(c.src, Last(c.path))
    BY <1>1, <2>1, <2>3, LeadsOn
  <2>5. After(c.src, Last(c.path)) = None
    BY <2>1 DEF After
  <2> QED
    BY <2>1, <2>4, <2>5
<1>3. \A e \in map.edges : e[2] \in OpsOf(e[1]) /\ setup.goes[e[1]][e[2]] = e[3]
  BY <1>1 DEF MapOk
<1>4. \A s \in map.nodes : Leads(map.paths[s]) = s
  BY <1>1 DEF MapOk
<1> QED
  BY <1>2, <1>3, <1>4 DEF MapIsTrue

\* A crawl that says it explored everything did.
LEMMA CompletedHolds ==
  ASSUME IInv
  PROVE  CompletedIsExplored
<1> SUFFICES ASSUME main.pc = "done", map.stop = "completed", ~hurt, NEW s \in map.nodes, NEW a \in OpsOf(s)
             PROVE  \/ <<s, a>> \in map.gone \/ \E p \in map.pruned : p.src = s /\ p.op = a
                    \/ <<s, a>> \in Tried(map) /\ setup.goes[s][a] \in map.nodes \union {None}
  BY DEF CompletedIsExplored
<1>1. map = disk.map /\ MapOk(map) /\ Unhurt /\ s \in Screens
  BY DEF IInv, DiskOk, Typed, MapRecords
<1>2. Whole(map, NoFrontier, {}) /\ Leaves(map) \subseteq map.nodes
  BY <1>1 DEF Unhurt
<1>3. <<s, a>> \in Settled(map) \union Pruned(map)
  <2>1. a \notin ToSet(NoFrontier[s])
    BY <1>1, EmptyIs, NothingPlanned
  <2> QED
    BY <1>2, <2>1 DEF Whole
<1>4. CASE <<s, a>> \in Pruned(map)
  BY <1>4 DEF Pruned
<1>5. CASE <<s, a>> \in map.gone
  BY <1>5
<1>6. CASE <<s, a>> \in Tried(map)
  <2>1. CASE \E e \in map.edges : e[1] = s /\ e[2] = a
    <3>1. PICK e \in map.edges : e[1] = s /\ e[2] = a
      BY <2>1
    <3>2. setup.goes[s][a] = e[3] /\ e[3] \in Leaves(map)
      BY <1>1, <3>1 DEF MapOk, Leaves
    <3> QED
      BY <1>2, <1>6, <3>2
  <2>2. CASE \E c \in map.crashes : c.src = s /\ Last(c.path) = a
    <3>1. setup.goes[s][a] = None
      BY <1>1, <2>2 DEF MapOk
    <3> QED
      BY <1>6, <3>1
  <2>3. (\E e \in map.edges : e[1] = s /\ e[2] = a) \/ (\E c \in map.crashes : c.src = s /\ Last(c.path) = a)
    BY <1>6 DEF Tried
  <2> QED
    BY <2>1, <2>2, <2>3
<1> QED
  BY <1>3, <1>4, <1>5, <1>6 DEF Settled

\* The screens a crawl finds.
LEMMA ScreensHold ==
  ASSUME IInv
  PROVE  ScreensBounded
<1>1. Typed /\ Counts
  BY DEF IInv
<1>2. Cardinality(Busy) \in Nat /\ Cardinality(map.nodes) \in Nat /\ setup.lanes \in Nat /\ setup.screens \in Nat
  BY <1>1, LanesCounted, SetupIs, FS_CardinalityType DEF Typed, Counts
<1>3. \/ map.nodes \subseteq {Entry}
      \/ Cardinality(map.nodes) + Cardinality(Busy) < setup.screens + setup.lanes
  BY <1>1 DEF Counts
<1> QED
  BY <1>2, <1>3 DEF ScreensBounded

\* "Two workers never pop the same action", and no operation is forgotten,
\* whatever lanes fault, retire or stop, in a crawl and those that continue
\* it; and no two workers discover one screen.
THEOREM FrontierIsSoundHolds == Spec => []FrontierIsSound
<1>1. IInv => FrontierIsSound
  BY TypesHold, FrontierHolds, DiscoveredHolds DEF FrontierIsSound
<1> QED
  BY <1>1, InvariantHolds, PTL

\* Every edge of the map is a transition of the app, every screen's path leads
\* to it and every crash's path collapses the app.
THEOREM MapIsTrueHolds == Spec => []MapIsTrue
<1>1. IInv => MapIsTrue
  BY MapHolds
<1> QED
  BY <1>1, InvariantHolds, PTL

\* A crawl that says it completed has explored what can be reached, and none
\* finds more screens than its budget and its lanes allow.
THEOREM StopIsTrueHolds == Spec => []StopIsTrue
<1>1. IInv => StopIsTrue
  BY CompletedHolds, ScreensHold DEF StopIsTrue
<1> QED
  BY <1>1, InvariantHolds, PTL
=============================================================================
