------------------------------ MODULE MCCrawl -------------------------------
(* The crawls explored.  Screen 1 opens 2 and 3, 2 opens 3, and 3 collapses
   under "x"; "t" is a tab both 1 and 3 show. *)
EXTENDS Crawl

App == [ops |-> <<<<"t", "a">>, <<"b">>, <<"x", "t">>>>,
        goes |-> <<[t |-> 2, a |-> 3], [b |-> 3], [t |-> 1, x |-> None]>>]
Of(lanes, heals, prune, screens, steps) ==
  [ops |-> App.ops, goes |-> App.goes, lanes |-> lanes, heals |-> heals, prune |-> prune,
   screens |-> screens, steps |-> steps]

\* Two Simulators with room for everything, two browsers on a screen budget,
\* two devices that may see one screen, two on a step budget, and one device.
AllSetups ==
  {Of(2, FALSE, FALSE, 9, 9), Of(2, TRUE, TRUE, 2, 9), Of(2, FALSE, TRUE, 1, 9), Of(2, FALSE, TRUE, 9, 3),
   Of(1, FALSE, TRUE, 9, 4)}
=============================================================================
