\* GlobalFairTimeRalloc against the brute-force fairest allocation, for up
\* to three jobs and three workers.
CONSTANTS
    Profiles <- MCProfiles
    MaxJobs = 3
    MaxWorkers = 3
    Scale = 60
SPECIFICATION Spec
INVARIANT AllocationFairest
