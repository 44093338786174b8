----------------------------- MODULE OrderedLog -----------------------------
(***************************************************************************)
(* What a live log promises of a run's lines: they arrive in the order the *)
(* run printed them, none of them twice, and possibly with gaps (a live    *)
(* log is best effort; console.log is the complete copy).                  *)
(***************************************************************************)
EXTENDS Naturals, Sequences, SequencesExt

VARIABLES
  printed,   \* how many lines the run printed: line n is the number n
  arrived    \* the lines that arrived, in order of arrival

vars == <<printed, arrived>>

Init == printed = 0 /\ arrived = << >>

PrintLine == printed' = printed + 1 /\ UNCHANGED arrived

Increasing(lines) == \A i \in 2..Len(lines) : lines[i - 1] < lines[i]

\* A batch of newer lines arrives.
Arrive ==
  /\ IsStrictPrefix(arrived, arrived')
  /\ Increasing(arrived')
  /\ \A i \in 1..Len(arrived') : arrived'[i] \in 1..printed
  /\ UNCHANGED printed

Next == PrintLine \/ Arrive

Spec == Init /\ [][Next]_vars
=============================================================================
