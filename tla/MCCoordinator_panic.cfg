\* A dispatch goroutine of RescheduleJobs may read ActiveJobs after
\* FlushPendingJobs deleted the job: the coordinator dereferences nil.
CONSTANTS
  w1 = w1
  w2 = w2
  Workers <- MCWorkers
  NumJobs = 1
  NumBatches = 1
  MaxFaults = 0
  AllocMode = "global"
  PromptStart = FALSE
  PromptReply = TRUE
  PromptReset = TRUE
SYMMETRY WorkerSymmetry
SPECIFICATION Spec
INVARIANT CoordinatorNeverPanics
