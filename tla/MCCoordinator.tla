--------------------------- MODULE MCCoordinator ---------------------------
(* Model-checking instance of Coordinator: two worker machines given as     *)
(* model values in the .cfg files, which also fix the job and batch counts, *)
(* the fault budget and the timing assumptions of each run.                 *)
EXTENDS Coordinator, TLC

CONSTANTS w1, w2

MCWorkers == {w1, w2}

\* The workers are interchangeable addresses: nothing in the coordinator
\* orders them (ResourceManager is a map, GetIdleWorkers has map order).
WorkerSymmetry == Permutations(MCWorkers)
====
