------------------------------- MODULE Ralloc -------------------------------
(***************************************************************************)
(* GlobalFairTimeRalloc (src/ralloc/ralloc.go), the allocation that       *)
(* RefreshSchedule uses by default (utils.LAST_SECONDS = MaxFloat64): a    *)
(* dynamic program over jobs and worker counts that is meant to give every *)
(* job a number of workers, summing to the number of workers, so that the *)
(* jobs' expected query rates are as close to each other as possible.     *)
(*                                                                         *)
(* The DP and its backtracking are recursive operators; they are checked   *)
(* against a brute-force reference over every allocation.  Each step of   *)
(* the specification is one RefreshSchedule call with the job statistics  *)
(* and the worker count it finds.                                          *)
(***************************************************************************)
EXTENDS Integers, Sequences, FiniteSetsExt, Functions

CONSTANTS
    Profiles,    \* job statistics the coordinator may hold: [total, completed, elapsed]
    MaxJobs,     \* the most active jobs in one RefreshSchedule
    MaxWorkers,  \* the most workers in the resource manager
    Scale        \* fixed-point scale of a query rate (Go uses float64)

ASSUME /\ \A p \in Profiles : /\ p.total >= 1 /\ p.completed \in 0..p.total
                              /\ p.elapsed >= 1
       /\ MaxJobs >= 1 /\ MaxWorkers >= 1 /\ Scale >= 1

VARIABLES
    jobs,   \* the active jobs, sorted by id as RefreshSchedule sorts them
    m,      \* ResourceManager.Len()
    alloc   \* the resources returned for each job

vars == <<jobs, m, alloc>>

-----------------------------------------------------------------------------
(* Job.GetExpectedQPS (api/job.go): total queries over the elapsed time    *)
(* plus the remaining queries at SecondPerQuery spread over k workers.     *)
(* SecondPerQuery is elapsed / completed, or 1 before any completion.      *)
(* The rational result is scaled by Scale and rounded down.                *)
GetExpectedQPS(p, k) ==
    IF k = 0 THEN 0
    ELSE LET spqNum == IF p.completed = 0 THEN 1 ELSE p.elapsed
             spqDen == IF p.completed = 0 THEN 1 ELSE p.completed
         IN  (Scale * p.total * spqDen * k)
               \div (p.elapsed * spqDen * k + (p.total - p.completed) * spqNum)

\* JobToQPS: qps[i][k] for job i and k workers, k in 0..mm.
JobToQPS(js, mm) == [i \in 1..Len(js) |-> [k \in 0..mm |-> GetExpectedQPS(js[i], k)]]

Abs(x) == IF x < 0 THEN -x ELSE x

\* One DP cell for job i and j workers from the row of jobs 1..i-1: the
\* first k (the loop keeps a strictly smaller maxDiff only) minimising the
\* largest of the two distances to the prefix's min and max qps and the
\* prefix's own dp value; min and max are then updated with qps[i][k].
Cell(q, prev, i, j) ==
    LET maxDiff(k) == Max({Abs(q[i][k] - prev[j - k].lo),
                           Abs(q[i][k] - prev[j - k].hi), prev[j - k].dp})
        least == Min({maxDiff(k) : k \in 0..j})
        k == Min({r \in 0..j : maxDiff(r) = least})
    IN  [dp |-> least, k |-> k,
         lo |-> Min({q[i][k], prev[j - k].lo}),
         hi |-> Max({q[i][k], prev[j - k].hi})]

\* The table dp/min/max/alloc of the code, row by row (base case: one job
\* takes every j workers).
RECURSIVE Table(_, _, _)
Table(q, mm, i) ==
    IF i = 1 THEN [j \in 0..mm |-> [dp |-> 0, k |-> j, lo |-> q[1][j], hi |-> q[1][j]]]
    ELSE LET prev == Table(q, mm, i - 1)
         IN  [j \in 0..mm |-> Cell(q, prev, i, j)]

\* Backtracking from the last job with curr = mm.  The table of job i is
\* recomputed for each i, which TLC can afford for a few jobs.
RECURSIVE Backtrack(_, _, _, _)
Backtrack(q, mm, i, curr) ==
    IF i = 0 THEN <<>>
    ELSE LET r == Table(q, mm, i)[curr].k
         IN  Append(Backtrack(q, mm, i - 1, curr - r), r)

GlobalFairTimeRalloc(q, mm) == Backtrack(q, mm, Len(q), mm)

-----------------------------------------------------------------------------
(* Reference: the allocations summing to mm, and the smallest spread of    *)
(* the expected query rates any of them achieves.                          *)
Spread(q, a) == LET v == {q[i][a[i]] : i \in DOMAIN a} IN Max(v) - Min(v)

AllAllocations(n, mm) == {a \in [1..n -> 0..mm] : SumFunction(a) = mm}

FairestSpread(q, mm) == Min({Spread(q, a) : a \in AllAllocations(Len(q), mm)})

-----------------------------------------------------------------------------
\* The inputs of one RefreshSchedule call past its early return (no worker
\* or no active job).
Inputs == [js : UNION {[1..n -> Profiles] : n \in 1..MaxJobs}, mm : 1..MaxWorkers]

\* RefreshSchedule (idunno/scheduler.go) computing JobToQPS and the global
\* allocation for the jobs and workers it finds.
RefreshSchedule(in) ==
    /\ jobs' = in.js
    /\ m' = in.mm
    /\ alloc' = GlobalFairTimeRalloc(JobToQPS(in.js, in.mm), in.mm)

Init == \E in \in Inputs : /\ jobs = in.js /\ m = in.mm
                           /\ alloc = GlobalFairTimeRalloc(JobToQPS(in.js, in.mm), in.mm)

Next == \E in \in Inputs : RefreshSchedule(in)

Spec == Init /\ [][Next]_vars

-----------------------------------------------------------------------------
TypeOK ==
    /\ m \in 1..MaxWorkers
    /\ alloc \in [1..Len(jobs) -> 0..m]

\* The function's comment (ralloc.go:17-20) promises an allocation summing
\* to m "while minimizing the pair-wise difference of query per second
\* between each job": no allocation of the same workers spreads the jobs'
\* expected query rates less than the one returned.
AllocationFairest ==
    /\ SumFunction(alloc) = m
    /\ Spread(JobToQPS(jobs, m), alloc) = FairestSpread(JobToQPS(jobs, m), m)

=============================================================================
