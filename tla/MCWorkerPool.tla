---------------------------- MODULE MCWorkerPool ----------------------------
(* WorkerPool on small instances.                                          *)
EXTENDS WorkerPool, TLC

CONSTANTS w1, w2, s1, s2

AllServable == Workers \X Jobs

\* Two serial workers.
SerialWorkers == (s1 :> w1) @@ (s2 :> w2)
=============================================================================
