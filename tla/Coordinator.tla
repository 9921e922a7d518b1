---------------------------- MODULE Coordinator ----------------------------
(***************************************************************************)
(* The IDunno coordinator (src/idunno/coordinator.go, coordinator_service.go), *)
(* its scheduler and resource manager (scheduler.go, resource_manager.go), *)
(* the worker agents that poll it for batches (worker.go, worker_service.go) *)
(* and the view of the membership ring that drives OnMemberUpdate.          *)
(*                                                                         *)
(* Every action that takes ic.Lock() is guarded by CoordinatorFree.  The   *)
(* goroutines RescheduleJobs starts run without the lock: they are the     *)
(* records of the set `dispatch`.                                          *)
(***************************************************************************)
EXTENDS Integers, Sequences, FiniteSets, FiniteSetsExt, Functions

CONSTANTS
  Workers,      \* addresses of the ring members running a worker agent
  NumJobs,      \* inference requests the client submits; job ids 1..NumJobs
  NumBatches,   \* batches of every job (ceil(#inputs / batch size))
  MaxFaults,    \* bound on crashes, false suspicions, lost replies, failed RPCs
  AllocMode,    \* "global" (LAST_SECONDS = MaxFloat64) or "local"
  PromptStart,  \* a dispatch goroutine reads ActiveJobs before the lock is taken again
  PromptReply,  \* every Inference RPC of a reschedule returns before the next one
  PromptReset   \* a FinishInference goroutine's Reset runs before the lock is taken again

ASSUME /\ Workers # {} /\ NumJobs \in Nat \ {0} /\ NumBatches \in Nat \ {0}
       /\ MaxFaults \in Nat /\ AllocMode \in {"global", "local"}
       /\ PromptStart \in BOOLEAN /\ PromptReply \in BOOLEAN /\ PromptReset \in BOOLEAN

Jobs == 1..NumJobs
Batches == 1..NumBatches
NoJob == 0          \* utils.EMPTY_STRING as a job id
NoBatch == 0        \* a nil *BatchInput / *BatchOutput
MaxInc == 3         \* bound on re-insertions of one worker into the resource manager
MaxTrains == 1      \* bound on Train RPCs the client sends

VARIABLES
  taskQueue,   \* ic.TaskQueue: inference tasks not yet turned into jobs
  submitted,   \* jobs the client has submitted (bounds Inference)
  active,      \* DOMAIN of Scheduler.ActiveJobs
  pending,     \* Scheduler.PendingJobs, a FIFO queue
  completed,   \* DOMAIN of Scheduler.CompletedJobs
  batch,       \* batch[j][b]: BatchStates[b].Status of job j
  rm,          \* DOMAIN of the ResourceManager map
  wJob,        \* Worker.JobId of the resource manager entry
  wBatch,      \* Worker.CurrBatchInput's batch id, or NoBatch
  wInc,        \* which *Worker struct the entry is (AddWorker allocates a new one)
  dispatch,    \* goroutines of RescheduleJobs: [w, j, inc, st]
  resets,      \* FinishInference goroutines past wg.Done, before worker.Reset: [w, inc]
  panicked,    \* the coordinator process died of a nil-pointer dereference
  alive,       \* the worker agent's process is running
  aJob,        \* IDunnoWorker.JobId
  aOut,        \* IDunnoWorker.BatchOutput's batch id, or NoBatch
  aEval,       \* batch the agent is evaluating inside QueryData, holding iw.Lock
  member,      \* the coordinator's ring membership list
  memEvents,   \* OnMemberUpdate callbacks spawned with `go`, not yet run
  faults,      \* faults injected so far
  trained,     \* the model is in the ModelStore (every job is of this one model)
  train,       \* the Train RPC in progress: [on, pend], pend the members yet to ack
  trains       \* Train RPCs accepted so far

coord == <<taskQueue, submitted, active, pending, completed, batch>>
sched == <<rm, wJob, wBatch, wInc, dispatch, resets, panicked>>
agents == <<alive, aJob, aOut, aEval>>
ring == <<member, memEvents, faults>>
models == <<trained, train, trains>>
vars == <<coord, sched, agents, ring, models>>

Status == {"Available", "InProgress", "Completed"}
Dispatch == [w : Workers, j : Jobs, inc : 0..MaxInc, st : {"new", "sent", "acked"}]

TypeOK ==
  /\ taskQueue \in Seq(Jobs) /\ submitted \subseteq Jobs
  /\ active \subseteq Jobs /\ pending \in Seq(Jobs) /\ completed \subseteq Jobs
  /\ batch \in [Jobs -> [Batches -> Status]]
  /\ rm \subseteq Workers
  /\ wJob \in [Workers -> Jobs \cup {NoJob}]
  /\ wBatch \in [Workers -> Batches \cup {NoBatch}]
  /\ wInc \in [Workers -> 0..MaxInc]
  /\ dispatch \subseteq Dispatch /\ panicked \in BOOLEAN
  /\ resets \subseteq [w : Workers, inc : 0..MaxInc]
  /\ alive \in [Workers -> BOOLEAN]
  /\ aJob \in [Workers -> Jobs \cup {NoJob}]
  /\ aOut \in [Workers -> Batches \cup {NoBatch}]
  /\ aEval \in [Workers -> Batches \cup {NoBatch}]
  /\ member \subseteq Workers
  /\ memEvents \subseteq [kind : {"insert", "delete"}, w : Workers]
  /\ faults \in 0..MaxFaults
  /\ trained \in BOOLEAN /\ train \in [on : BOOLEAN, pend : SUBSET Workers]
  /\ trains \in 0..MaxTrains

Init ==
  /\ taskQueue = <<>> /\ submitted = {} /\ active = {} /\ pending = <<>>
  /\ completed = {} /\ batch = [j \in Jobs |-> [b \in Batches |-> "Available"]]
  /\ rm = Workers /\ wJob = [w \in Workers |-> NoJob]
  /\ wBatch = [w \in Workers |-> NoBatch] /\ wInc = [w \in Workers |-> 0]
  /\ dispatch = {} /\ resets = {} /\ panicked = FALSE
  /\ alive = [w \in Workers |-> TRUE] /\ aJob = [w \in Workers |-> NoJob]
  /\ aOut = [w \in Workers |-> NoBatch] /\ aEval = [w \in Workers |-> NoBatch]
  /\ member = Workers /\ memEvents = {} /\ faults = 0
  /\ trained = FALSE /\ train = [on |-> FALSE, pend |-> {}] /\ trains = 0

\* ic.Lock() can be taken: the process is alive and, under PromptStart, no
\* dispatch goroutine is still about to read ActiveJobs; under PromptReset,
\* no FinishInference goroutine is still about to Reset its worker.
CoordinatorFree ==
  /\ ~panicked
  /\ PromptStart => \A d \in dispatch : d.st # "new"
  /\ PromptReset => resets = {}

Fault == faults' = faults + 1
CanFault == faults < MaxFaults

\* ResourceManager.GetWorkersById
WorkersOf(j) == {w \in rm : wJob[w] = j}

\* Worker.Idle over the resource manager (GetIdleWorkers)
IdleWorkers == {w \in rm : wJob[w] = NoJob}

InPending(j) == \E i \in 1..Len(pending) : pending[i] = j

\* Mutant: the job counts as done one completed batch early.
JobDoneOneShort(bs) == Cardinality({b \in Batches : bs[b] = "Completed"}) >= NumBatches - 1

\* OnReceiveBatchOutput's test CompletedQueries < TotalQueries, with
\* CompletedQueries the number of Completed batches.
JobDone(bs) == \A b \in Batches : bs[b] = "Completed"

-----------------------------------------------------------------------------
(* Allocation: GlobalFairTimeRalloc may return any vector of the active   *)
(* jobs summing to the resource manager's size; LocalFairTimeRalloc with   *)
(* equal processing times rounds m/n cumulatively and clamps at m.         *)

Rank(j) == Cardinality({k \in active : k <= j})

LocalShare(m) ==
  LET n == Cardinality(active)
      r == (2 * m + n) \div (2 * n)      \* math.Round(m * t / (n * t))
  IN [j \in active |-> Min({Rank(j) * r, m}) - Min({(Rank(j) - 1) * r, m})]

Allocations(m) ==
  IF AllocMode = "global"
  THEN {a \in [active -> 0..m] : SumFunction(a) = m}
  ELSE {LocalShare(m)}

\* RefreshSchedule's greedy loop: jobs in id order each take idle workers
\* until their count reaches the allocation or the idle list is exhausted.
Granted(need, idle, j) ==
  Min({SumFunctionOnSet(need, {k \in active : k <= j}), idle})
    - Min({SumFunctionOnSet(need, {k \in active : k < j}), idle})

-----------------------------------------------------------------------------
(* Coordinator handlers and periodic loops (each takes ic.Lock()).         *)

\* Inference RPC (coordinator_service.go): refuse a model missing from the
\* ModelStore (read before the lock is taken), else push the task on the
\* TaskQueue.
Inference(j) ==
  /\ trained
  /\ CoordinatorFree /\ j \notin submitted
  /\ taskQueue' = Append(taskQueue, j) /\ submitted' = submitted \cup {j}
  /\ UNCHANGED <<models, active, pending, completed, batch, sched, agents, ring>>

\* Train RPC (coordinator_service.go), up to the broadcast: under the lock,
\* refuse while serving (IsServing: ActiveJobs is not empty); then send
\* Train to every process of the ring's list, one goroutine each.
TrainStart ==
  /\ CoordinatorFree /\ ~train.on /\ trains < MaxTrains
  /\ active = {}
  /\ train' = [on |-> TRUE, pend |-> member] /\ trains' = trains + 1
  /\ UNCHANGED <<trained, coord, sched, agents, ring>>

\* IDunnoWorker.Train of a live agent forwards the request to its model
\* runner, which acks; the goroutine sends the reply on resChan.
TrainAck(w) ==
  /\ train.on /\ w \in train.pend /\ alive[w]
  /\ train' = [train EXCEPT !.pend = @ \ {w}]
  /\ UNCHANGED <<trained, trains, coord, sched, agents, ring>>

\* A goroutine fails to reach its process, or the runner reports an error:
\* the error on quitChan ends Train with nothing registered.
TrainFail(w) ==
  /\ train.on /\ w \in train.pend
  /\ \/ ~alive[w] /\ UNCHANGED faults
     \/ alive[w] /\ CanFault /\ Fault
  /\ train' = [on |-> FALSE, pend |-> {}]
  /\ UNCHANGED <<trained, trains, coord, sched, agents, member, memEvents>>

\* Every process acked: ModelStore.AddModel under the lock.
TrainRegister ==
  /\ CoordinatorFree /\ train.on /\ train.pend = {}
  /\ trained' = TRUE /\ train' = [on |-> FALSE, pend |-> {}]
  /\ UNCHANGED <<trains, coord, sched, agents, ring>>

\* ProcessQueuedJob: pop the task, fetch its dataset from SDFS and add a job
\* whose batches are all Available.  The task is popped before the fetch, so
\* a failed fetch drops it.
ProcessQueuedJob ==
  /\ CoordinatorFree /\ taskQueue # <<>>
  /\ taskQueue' = Tail(taskQueue)
  /\ \/ /\ active' = active \cup {Head(taskQueue)}
        /\ batch' = [batch EXCEPT ![Head(taskQueue)] = [b \in Batches |-> "Available"]]
        /\ UNCHANGED faults
     \/ /\ CanFault /\ Fault
        /\ UNCHANGED <<active, batch>>
  /\ UNCHANGED <<models, submitted, pending, completed, sched, agents, member, memEvents>>

\* The goroutines RescheduleJobs starts: one per worker of the new schedule,
\* each capturing the *Worker currently under the address.
NewDispatches(asg) ==
  {[w |-> w, j |-> asg[w], inc |-> wInc[w], st |-> "new"] : w \in {v \in DOMAIN asg : asg[v] # NoJob}}

\* RescheduleJobs: RefreshSchedule under the lock, then one goroutine per
\* (job, idle worker) of the new schedule.  Preemption takes the first
\* len - alloc workers of a job after sorting on LastQueryTime; the model lets
\* it take any such subset.  A preempted worker's batch becomes Available.
RescheduleJobs ==
  /\ CoordinatorFree /\ rm # {} /\ active # {}
  /\ PromptReply => dispatch = {}
  /\ \E alloc \in Allocations(Cardinality(rm)), pre \in [active -> SUBSET rm] :
       /\ \A j \in active :
            /\ pre[j] \subseteq WorkersOf(j)
            /\ Cardinality(pre[j]) = Max({0, Cardinality(WorkersOf(j)) - alloc[j]})
       /\ LET preempted == UNION {pre[j] : j \in active}
              idle == IdleWorkers \cup preempted
              need == [j \in active |-> alloc[j] - Min({Cardinality(WorkersOf(j)), alloc[j]})]
          IN /\ wJob' = [w \in Workers |-> IF w \in preempted THEN NoJob ELSE wJob[w]]
             /\ wBatch' = [w \in Workers |-> IF w \in preempted THEN NoBatch ELSE wBatch[w]]
             /\ batch' = [j \in Jobs |-> [b \in Batches |->
                            IF j \in active /\ \E w \in pre[j] : wBatch[w] = b
                            THEN "Available" ELSE batch[j][b]]]
             /\ \E asg \in [idle -> active \cup {NoJob}] :
                  /\ \A j \in active :
                       Cardinality({w \in idle : asg[w] = j}) = Granted(need, Cardinality(idle), j)
                  /\ dispatch' = dispatch \cup NewDispatches(asg)
  /\ UNCHANGED <<models, taskQueue, submitted, active, pending, completed, rm, wInc, resets, panicked,
                 agents, ring>>

\* Mutant: with no Available batch, FetchBatchInput returns the index past
\* the last batch instead of nil.
FirstAvailablePastEnd(bs) ==
  IF \E b \in Batches : bs[b] = "Available"
  THEN Min({b \in Batches : bs[b] = "Available"}) ELSE NumBatches + 1

\* FirstAvailable: Job.FetchBatchInput's choice, the lowest Available batch.
FirstAvailable(bs) ==
  IF \E b \in Batches : bs[b] = "Available"
  THEN Min({b \in Batches : bs[b] = "Available"}) ELSE NoBatch

\* QueryData RPC of agent w, handled by the coordinator: record the piggybacked
\* output (OnReceiveBatchOutput), then, if the worker is assigned to the job,
\* hand out the next Available batch.  The agent holds iw.Lock from the call
\* to the end of its evaluation; a reply lost to QUERY_DATA_DEADLINE leaves
\* the batch handed out but never evaluated.
QueryData(w) ==
  LET j == aJob[w]
      out == aOut[w]
      batch1 == IF out = NoBatch THEN batch ELSE [batch EXCEPT ![j][out] = "Completed"]
      wBatch1 == IF out = NoBatch THEN wBatch ELSE [wBatch EXCEPT ![w] = NoBatch]
      done == out # NoBatch /\ JobDone(batch1[j])
      next == FirstAvailable(batch1[j])
  IN
  /\ CoordinatorFree /\ alive[w] /\ aEval[w] = NoBatch
  /\ j # NoJob /\ w \in rm /\ j \in active
  /\ pending' = IF done /\ ~InPending(j) THEN Append(pending, j) ELSE pending
  /\ \/ /\ wJob[w] # j
        /\ batch' = batch1 /\ wBatch' = wBatch1
        /\ UNCHANGED <<aEval, faults>>
     \/ /\ wJob[w] = j
        /\ batch' = IF next = NoBatch THEN batch1 ELSE [batch1 EXCEPT ![j][next] = "InProgress"]
        /\ wBatch' = [wBatch1 EXCEPT ![w] = next]
        /\ \/ aEval' = [aEval EXCEPT ![w] = next] /\ UNCHANGED faults
           \/ CanFault /\ Fault /\ UNCHANGED aEval
  /\ UNCHANGED <<models, taskQueue, submitted, active, completed, rm, wJob, wInc, dispatch,
                 resets, panicked, alive, aJob, aOut, member, memEvents>>

\* Mutant: FlushPendingJobs without the deferred worker.Reset().
FlushPendingJobsNoReset ==
  LET j == Head(pending)
      ws == WorkersOf(j)
  IN
  /\ CoordinatorFree /\ pending # <<>>
  /\ active' = active \ {j}
  /\ \E reached \in SUBSET {w \in ws : alive[w]} :
       /\ aJob' = [w \in Workers |-> IF w \in reached THEN NoJob ELSE aJob[w]]
       /\ aOut' = [w \in Workers |-> IF w \in reached THEN NoBatch ELSE aOut[w]]
       /\ LET lost == IF reached = {w \in ws : alive[w]} THEN 0 ELSE 1
          IN \/ /\ pending' = Tail(pending) /\ completed' = completed \cup {j}
                /\ faults + lost <= MaxFaults /\ faults' = faults + lost
             \/ /\ UNCHANGED <<pending, completed>>
                /\ faults + lost < MaxFaults /\ faults' = faults + lost + 1
  /\ UNCHANGED <<models, taskQueue, submitted, batch, sched, alive, aEval, member, memEvents>>

\* FlushPendingJobs: take the head of PendingJobs, delete it from ActiveJobs
\* and send FinishInference to its workers, one goroutine each, then write
\* the result to SDFS.  A failed Put returns with the job still pending.  A
\* FinishInference to a live agent may fail.  Each goroutine defers
\* worker.Reset() before wg.Done(), so the Reset runs after wg.Done, and
\* may run after the flush has returned (WorkerReset).
FlushPendingJobs ==
  LET j == Head(pending)
      ws == WorkersOf(j)
  IN
  /\ CoordinatorFree /\ pending # <<>>
  /\ active' = active \ {j}
  /\ resets' = resets \cup {[w |-> w, inc |-> wInc[w]] : w \in ws}
  /\ \E reached \in SUBSET {w \in ws : alive[w]} :
       /\ aJob' = [w \in Workers |-> IF w \in reached THEN NoJob ELSE aJob[w]]
       /\ aOut' = [w \in Workers |-> IF w \in reached THEN NoBatch ELSE aOut[w]]
       /\ LET lost == IF reached = {w \in ws : alive[w]} THEN 0 ELSE 1
          IN \/ /\ pending' = Tail(pending) /\ completed' = completed \cup {j}
                /\ faults + lost <= MaxFaults /\ faults' = faults + lost
             \/ /\ UNCHANGED <<pending, completed>>
                /\ faults + lost < MaxFaults /\ faults' = faults + lost + 1
  /\ UNCHANGED <<models, taskQueue, submitted, batch, rm, wJob, wBatch, wInc, dispatch, panicked,
                 alive, aEval, member, memEvents>>

\* Worker.Reset, deferred in a FinishInference goroutine and run without
\* ic.Lock: it clears JobId and CurrBatchInput of the *Worker it captured,
\* in vain if AddWorker has put a new struct under the address since.
WorkerReset(r) ==
  /\ ~panicked
  /\ resets' = resets \ {r}
  /\ IF r.w \in rm /\ wInc[r.w] = r.inc
     THEN wJob' = [wJob EXCEPT ![r.w] = NoJob] /\ wBatch' = [wBatch EXCEPT ![r.w] = NoBatch]
     ELSE UNCHANGED <<wJob, wBatch>>
  /\ UNCHANGED <<models, coord, rm, wInc, dispatch, panicked, agents, ring>>

\* Mutant: the holder check is dropped; every InProgress batch is demoted.
RefreshBatchStatusIgnoresHolders ==
  /\ CoordinatorFree
  /\ batch' = [j \in Jobs |-> [b \in Batches |->
                 IF j \in active /\ batch[j][b] = "InProgress" THEN "Available" ELSE batch[j][b]]]
  /\ UNCHANGED <<models, taskQueue, submitted, active, pending, completed, sched, agents, ring>>

\* Mutant: an orphaned InProgress batch is never demoted.
RefreshBatchStatusNoDemote ==
  /\ CoordinatorFree
  /\ UNCHANGED vars

\* Coordinator.RefreshBatchStatus: an InProgress batch of an active job that
\* no worker of that job holds becomes Available.
RefreshBatchStatus ==
  /\ CoordinatorFree
  /\ batch' = [j \in Jobs |-> [b \in Batches |->
                 IF j \in active /\ batch[j][b] = "InProgress"
                    /\ ~\E w \in WorkersOf(j) : wBatch[w] = b
                 THEN "Available" ELSE batch[j][b]]]
  /\ UNCHANGED <<models, taskQueue, submitted, active, pending, completed, sched, agents, ring>>

\* Coordinator.RefreshWorkerStatus: Reset every worker whose job is not active.
RefreshWorkerStatus ==
  /\ CoordinatorFree
  /\ wJob' = [w \in Workers |-> IF w \in rm /\ wJob[w] \notin active THEN NoJob ELSE wJob[w]]
  /\ wBatch' = [w \in Workers |-> IF w \in rm /\ wJob[w] \notin active THEN NoBatch ELSE wBatch[w]]
  /\ UNCHANGED <<models, coord, rm, wInc, dispatch, resets, panicked, agents, ring>>

-----------------------------------------------------------------------------
(* The dispatch goroutines of RescheduleJobs and the agents' Inference RPC. *)

\* The goroutine builds the request from ActiveJobs[jobId] without the lock:
\* if FlushPendingJobs deleted the job in between, the nil *Job is
\* dereferenced and the coordinator process dies.
DispatchStart(d) ==
  /\ ~panicked /\ d.st = "new"
  /\ IF d.j \in active
     THEN dispatch' = (dispatch \ {d}) \cup {[d EXCEPT !.st = "sent"]} /\ UNCHANGED panicked
     ELSE dispatch' = dispatch \ {d} /\ panicked' = TRUE
  /\ UNCHANGED <<models, coord, rm, wJob, wBatch, wInc, resets, agents, ring>>

\* IDunnoWorker.Inference: under iw.Lock, ServeModel, then JobId := jobId and
\* BatchOutput := nil.  The reply may be lost after the agent applied it.
AgentInference(d) ==
  /\ d.st = "sent" /\ alive[d.w] /\ aEval[d.w] = NoBatch
  /\ aJob' = [aJob EXCEPT ![d.w] = d.j] /\ aOut' = [aOut EXCEPT ![d.w] = NoBatch]
  /\ \/ dispatch' = (dispatch \ {d}) \cup {[d EXCEPT !.st = "acked"]} /\ UNCHANGED faults
     \/ CanFault /\ Fault /\ dispatch' = dispatch \ {d}
  /\ UNCHANGED <<models, coord, rm, wJob, wBatch, wInc, resets, panicked, alive, aEval, member, memEvents>>

\* The Inference RPC fails: the agent is down, or ServeModel returns an error.
DispatchFail(d) ==
  /\ d.st = "sent"
  /\ \/ ~alive[d.w] /\ UNCHANGED faults
     \/ alive[d.w] /\ CanFault /\ Fault
  /\ dispatch' = dispatch \ {d}
  /\ UNCHANGED <<models, coord, rm, wJob, wBatch, wInc, resets, panicked, agents, member, memEvents>>

\* On an OK reply the goroutine locks and sets JobId on the *Worker it
\* captured; a struct no longer in the ResourceManager is written in vain.
DispatchReply(d) ==
  /\ CoordinatorFree /\ d.st = "acked"
  /\ wJob' = IF d.w \in rm /\ wInc[d.w] = d.inc THEN [wJob EXCEPT ![d.w] = d.j] ELSE wJob
  /\ dispatch' = dispatch \ {d}
  /\ UNCHANGED <<models, coord, rm, wBatch, wInc, resets, panicked, agents, ring>>

\* The rest of the agent's QueryData: Evaluate the batch and keep its output
\* to piggyback on the next call; a failed evaluation keeps the old output.
Evaluate(w) ==
  /\ alive[w] /\ aEval[w] # NoBatch
  /\ aEval' = [aEval EXCEPT ![w] = NoBatch]
  /\ \/ aOut' = [aOut EXCEPT ![w] = aEval[w]] /\ UNCHANGED faults
     \/ CanFault /\ Fault /\ UNCHANGED aOut
  /\ UNCHANGED <<models, coord, sched, alive, aJob, member, memEvents>>

-----------------------------------------------------------------------------
(* Membership: crashes, expiry in RecyclePool, re-insertion by OnPing, and  *)
(* the OnMemberUpdate callbacks, which NotifyMemberUpdate runs with `go`.   *)

Crash(w) ==
  /\ alive[w] /\ CanFault /\ Fault
  /\ alive' = [alive EXCEPT ![w] = FALSE]
  /\ UNCHANGED <<models, coord, sched, aJob, aOut, aEval, member, memEvents>>

\* RecyclePool deletes an expired member: a crashed one, or a live one whose
\* pings were lost (a false suspicion, counted as a fault).
RingRemove(w) ==
  /\ w \in member
  /\ \/ ~alive[w] /\ UNCHANGED faults
     \/ alive[w] /\ CanFault /\ Fault
  /\ member' = member \ {w}
  /\ memEvents' = memEvents \cup {[kind |-> "delete", w |-> w]}
  /\ UNCHANGED <<models, coord, sched, agents>>

\* OnPing from a live process missing from the list inserts it again.
RingInsert(w) ==
  /\ alive[w] /\ w \notin member /\ wInc[w] < MaxInc
  /\ member' = member \cup {w}
  /\ memEvents' = memEvents \cup {[kind |-> "insert", w |-> w]}
  /\ UNCHANGED <<models, coord, sched, agents, faults>>

\* Scheduler.OnWorkerJoined: AddWorker puts a fresh idle *Worker under the
\* address, replacing any existing entry without looking at its batch.
OnWorkerJoined(w) ==
  /\ rm' = rm \cup {w} /\ wInc' = [wInc EXCEPT ![w] = @ + 1]
  /\ wJob' = [wJob EXCEPT ![w] = NoJob] /\ wBatch' = [wBatch EXCEPT ![w] = NoBatch]
  /\ UNCHANGED batch

\* Scheduler.OnWorkerFailed: RemoveWorker, then the batch the removed worker
\* held becomes Available if its job is still active.
OnWorkerFailed(w) ==
  /\ rm' = rm \ {w}
  /\ wJob' = [wJob EXCEPT ![w] = NoJob] /\ wBatch' = [wBatch EXCEPT ![w] = NoBatch]
  /\ batch' = IF w \in rm /\ wJob[w] \in active /\ wBatch[w] # NoBatch
              THEN [batch EXCEPT ![wJob[w]][wBatch[w]] = "Available"] ELSE batch
  /\ UNCHANGED wInc

\* Coordinator.OnMemberUpdate, run under ic.Lock() by a callback goroutine.
OnMemberUpdate(e) ==
  /\ CoordinatorFree
  /\ memEvents' = memEvents \ {e}
  /\ \/ e.kind = "insert" /\ OnWorkerJoined(e.w)
     \/ e.kind = "delete" /\ OnWorkerFailed(e.w)
  /\ UNCHANGED <<models, taskQueue, submitted, active, pending, completed, dispatch, resets,
                 panicked, agents, member, faults>>

-----------------------------------------------------------------------------
Next ==
  \/ TrainStart \/ TrainRegister \/ \E w \in Workers : TrainAck(w) \/ TrainFail(w)
  \/ \E j \in Jobs : Inference(j)
  \/ ProcessQueuedJob \/ RescheduleJobs \/ FlushPendingJobs
  \/ RefreshBatchStatus \/ RefreshWorkerStatus
  \/ \E d \in dispatch : DispatchStart(d) \/ AgentInference(d) \/ DispatchFail(d) \/ DispatchReply(d)
  \/ \E w \in Workers : QueryData(w) \/ Evaluate(w) \/ Crash(w) \/ RingRemove(w) \/ RingInsert(w)
  \/ \E r \in resets : WorkerReset(r)
  \/ \E e \in memEvents : OnMemberUpdate(e)

Spec == Init /\ [][Next]_vars

\* The periodic loops and RPC handlers run forever.  Actions needing ic.Lock()
\* get strong fairness: the lock is released between every two of them and
\* sync.Mutex hands it to a waiter that has been starved for 1ms.
Fairness ==
  /\ WF_vars(ProcessQueuedJob)
  /\ SF_vars(RescheduleJobs) /\ SF_vars(FlushPendingJobs)
  /\ SF_vars(RefreshBatchStatus) /\ SF_vars(RefreshWorkerStatus)
  /\ \A w \in Workers : SF_vars(QueryData(w)) /\ WF_vars(Evaluate(w)) /\ WF_vars(RingRemove(w))
  /\ WF_vars(\E d \in dispatch : DispatchStart(d) \/ AgentInference(d) \/ DispatchFail(d))
  /\ SF_vars(\E d \in dispatch : DispatchReply(d))
  /\ SF_vars(\E e \in memEvents : OnMemberUpdate(e))
  /\ WF_vars(\E r \in resets : WorkerReset(r))

FairSpec == Spec /\ Fairness

-----------------------------------------------------------------------------
(* Properties *)

\* A batch of an active job is held (as CurrBatchInput of a worker of that job
\* in the ResourceManager) by at most one worker, and a held batch is never
\* Available, so FetchBatchInput cannot hand it to a second worker.  It is
\* about preemption in RefreshSchedule, OnWorkerFailed, RefreshBatchStatus and
\* the output recorded by OnReceiveBatchOutput.
BatchHeldAtMostOnce ==
  \A j \in active, b \in Batches :
    LET holders == {w \in rm : wJob[w] = j /\ wBatch[w] = b}
    IN /\ Cardinality(holders) <= 1
       /\ holders # {} => batch[j][b] # "Available"

\* Once no dispatch and no Reset for it is in flight, a live worker the
\* ResourceManager assigns to a job has an agent running that same job: the
\* coordinator's Worker.JobId, set by the dispatch goroutine and cleared by
\* preemption, the deferred Reset of FlushPendingJobs and RefreshWorkerStatus,
\* agrees with IDunnoWorker.JobId, set by Inference and cleared by
\* FinishInference.
AssignedWorkerRunsJob ==
  \A w \in rm :
    (/\ alive[w] /\ wJob[w] \in Jobs
     /\ ~\E d \in dispatch : d.w = w
     /\ ~\E r \in resets : r.w = w) => aJob[w] = wJob[w]

\* Every job that becomes active is eventually written to SDFS and moved to
\* CompletedJobs (the spec's "job completion"), whatever crashes, lost replies
\* and failed RPCs the fault budget allows.
EveryJobCompletes == \A j \in Jobs : j \in active ~> j \in completed

\* The dispatch goroutines of RescheduleJobs never dereference a deleted job.
CoordinatorNeverPanics == ~panicked

-----------------------------------------------------------------------------
(* Refinement of JobLifecycle.  A job's stage is read off the structure    *)
(* that holds it: CompletedJobs, PendingJobs (pushed by                    *)
(* OnReceiveBatchOutput, still active until flushed, or left there by a    *)
(* failed Put), ActiveJobs, the TaskQueue; a submitted job in none of them *)
(* was dropped by ProcessQueuedJob.                                        *)
Stage(j) ==
  CASE j \in completed                        -> "flushed"
    [] InPending(j)                           -> "finished"
    [] j \in active                           -> "running"
    [] \E i \in 1..Len(taskQueue) : taskQueue[i] = j -> "queued"
    [] j \in submitted                        -> "dropped"
    [] OTHER                                  -> "new"

Life == INSTANCE JobLifecycle WITH
          stage <- [j \in Jobs |-> Stage(j)], status <- batch, queue <- pending

\* Every step of the coordinator, its dispatch goroutines, the agents and the
\* ring callbacks is a step of JobLifecycle (or leaves the job view alone):
\* a job reaches PendingJobs only when OnReceiveBatchOutput has seen all its
\* batches Completed, PendingJobs is flushed in order, batches change only
\* while their job is active, and a flushed job never changes again.
LifecycleRefined == Life!Spec

====
