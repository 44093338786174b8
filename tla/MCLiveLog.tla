----------------------------- MODULE MCLiveLog ------------------------------
(* LiveLog on a small instance. *)
EXTENDS LiveLog

\* The first job prints a line past the byte cap and one that would fit.
ThreeLinesAndNone == <<<<1, 2, 1>>, << >>>>
=============================================================================
