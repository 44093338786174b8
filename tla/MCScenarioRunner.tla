-------------------------- MODULE MCScenarioRunner --------------------------
(* The runs explored.  Devices 1 and 2 are Simulators, 3 is the replacement
   that can be created, 4 and 5 are browser lanes. *)
EXTENDS ScenarioRunner

Lanes2(sims, webs) == [xcuitest |-> sims, playwright |-> webs]
Needs(n) == [xcuitest |-> n[1], playwright |-> n[2]]

\* Two pinned devices, two workers; scenario 2 keeps its data.
Pinned == [lanes |-> Lanes2(<<1, 2>>, <<>>), spares |-> {}, workers |-> 2, retries |-> 1, booted |-> FALSE,
           need |-> [s \in Scenario |-> Needs(<<1, 0>>)], erase |-> {1}, refused |-> {}, unfit |-> {}]

\* The booted Simulator, which a retry may replace; scenario 2 keeps its data.
Booted == [lanes |-> Lanes2(<<1>>, <<>>), spares |-> {3}, workers |-> 2, retries |-> 2, booted |-> TRUE,
           need |-> [s \in Scenario |-> Needs(<<1, 0>>)], erase |-> {1}, refused |-> {}, unfit |-> {}]

\* Two scenarios that hold two Simulators each, one with a browser beside them.
Several == [lanes |-> Lanes2(<<1, 2>>, <<4, 5>>), spares |-> {}, workers |-> 2, retries |-> 1, booted |-> FALSE,
            need |-> [s \in Scenario |-> Needs(<<2, s - 1>>)],
            erase |-> {1, 2}, refused |-> {}, unfit |-> {}]

\* Two scenarios that hold a browser and a Simulator each.
Paired == [lanes |-> Lanes2(<<1, 2>>, <<4, 5>>), spares |-> {}, workers |-> 2, retries |-> 0, booted |-> FALSE,
           need |-> [s \in Scenario |-> Needs(<<1, 1>>)], erase |-> {}, refused |-> {}, unfit |-> {}]

\* What the preflight refuses and what this worker cannot run.
Unrun == [Booted EXCEPT !.refused = {1}, !.unfit = {2}]

AllPlans == {Pinned, Booted, Several, Paired, Unrun}
=============================================================================
