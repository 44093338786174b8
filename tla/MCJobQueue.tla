----------------------------- MODULE MCJobQueue -----------------------------
(* JobQueue on small instances: who can serve what, and the symmetry.      *)
EXTENDS JobQueue, TLC

\* Every worker can serve every job.
AllServable == Workers \X Jobs

\* Request threads and workers are interchangeable while all serve all jobs.
Symmetry == Permutations(Workers) \union Permutations(Polls) \union Permutations(Cancels)
=============================================================================
