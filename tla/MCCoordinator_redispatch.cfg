\* Dispatch goroutines outliving the 200ms RescheduleJobs waits for them: an
\* idle worker sent two jobs by two reschedules.
CONSTANTS
  w1 = w1
  w2 = w2
  Workers <- MCWorkers
  NumJobs = 2
  NumBatches = 1
  MaxFaults = 0
  AllocMode = "global"
  PromptStart = TRUE
  PromptReply = FALSE
  PromptReset = TRUE
SYMMETRY WorkerSymmetry
SPECIFICATION Spec
INVARIANT AssignedWorkerRunsJob
