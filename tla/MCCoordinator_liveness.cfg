\* Every active job eventually completes: local fair-time allocation, prompt
\* dispatches, one fault, and the fairness of the coordinator's loops.
CONSTANTS
  w1 = w1
  w2 = w2
  Workers <- MCWorkers
  NumJobs = 2
  NumBatches = 1
  MaxFaults = 1
  AllocMode = "local"
  PromptStart = TRUE
  PromptReply = TRUE
  PromptReset = TRUE
SPECIFICATION FairSpec
PROPERTY EveryJobCompletes
