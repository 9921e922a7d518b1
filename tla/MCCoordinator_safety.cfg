\* Safety of batch ownership and of the worker assignments, with any global
\* allocation, dispatches that start and return promptly, and one fault.
CONSTANTS
  w1 = w1
  w2 = w2
  Workers <- MCWorkers
  NumJobs = 2
  NumBatches = 2
  MaxFaults = 1
  AllocMode = "global"
  PromptStart = TRUE
  PromptReply = TRUE
  PromptReset = FALSE
SYMMETRY WorkerSymmetry
SPECIFICATION Spec
INVARIANT TypeOK
INVARIANT BatchHeldAtMostOnce
INVARIANT AssignedWorkerRunsJob
PROPERTY LifecycleRefined
