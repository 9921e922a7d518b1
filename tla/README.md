# TLA+ models of IDunno

IDunno is a distributed inference service with three layers:

- a UDP gossip membership ring with failure detection and leader election (`src/ring`, `src/dns`);
- a replicated, versioned file store called SDFS, built on that ring (`src/sdfs`);
- the IDunno coordinator and worker agents, which split inference jobs into batches and schedule them fairly over the ring's machines (`src/idunno`, `src/ralloc`, `src/api/job.go`).

This directory holds TLA+ modules for these parts, the TLC configurations that check them, and `PROJECT.json`. `PROJECT.json` maps every definition to the lines of Go it models. It also lists the runs, the mutants, the findings and the hazards.

## The system

### Components and how they interact

| Component | Source | State | Operations |
|---|---|---|---|
| Membership ring | `ring/server.go`, `event.go`, `service.go` | membership list, expiration pool, leader | Ping/Ack gossip, OnPing merge, RecyclePool expiry, Join, Leave, UpdateLeader |
| Leader directory | `dns/` | current leader address | Update, Lookup |
| SDFS server | `sdfs/server.go`, `service.go`, `file_table.go`, `hash_ring.go` | file table of versions, hash ring, signal queue, sequence counter, delete pool | Read, Write, Delete, Lookup, FetchSequence, Converge, TransferFiles, Recycle |
| SDFS client | `sdfs/client*.go`, `task*.go` | none persistent | ExecuteTask: fetch a sequence from the leader, fan out to replicas, wait for a quorum |
| Coordinator | `idunno/coordinator.go`, `coordinator_service.go` | TaskQueue, ModelStore, lock | Train, Inference, QueryData and Backup RPCs; seven periodic loops |
| Scheduler and resource manager | `idunno/scheduler.go`, `resource_manager.go`, `api/job.go` | ActiveJobs, PendingJobs, CompletedJobs, per-worker JobId and CurrBatchInput | RefreshSchedule, OnReceiveBatchOutput, OnWorker{Joined,Failed,Leaved}, Refresh{Batch,Worker}Status |
| Worker agent | `idunno/worker.go`, `worker_service.go` | JobId, BatchOutput, lock | QueryData cycle, Inference, FinishInference, Train |
| Allocation | `ralloc/ralloc.go` | pure | GlobalFairTimeRalloc (DP), LocalFairTimeRalloc |
| LFU cache, queue | `utils/` | cache lists, slices | Get, Put, RecycleLRU; Push, Pop, Top |

The ring calls `OnMemberUpdate` of SDFS and of the coordinator on every insert and delete. `NotifyMemberUpdate` runs each callback in its own goroutine, so callbacks can arrive in any order.

The coordinator is the ring's leader. It receives inference requests and turns each into a job of `Available` batches once it has read the job's dataset from SDFS.

Every `RESCHEDULE_INTERVAL` the coordinator runs RescheduleJobs:

- it recomputes a fair allocation of workers to jobs;
- it preempts workers beyond a job's share;
- it sends each idle worker an `Inference` RPC, from a goroutine that runs without the lock.

Each agent loops on `QueryData`. The call piggybacks the output of its previous batch and receives the next batch. Once every batch of a job is `Completed`, FlushPendingJobs does three things:

- it tells the job's workers to stop;
- it writes the results to SDFS;
- it moves the job to CompletedJobs.

### What makes it hard

- **Lock-free goroutines.** The dispatch goroutines of RescheduleJobs read `ActiveJobs` without the lock. RescheduleJobs returns after sleeping 200ms, whether or not its RPCs have returned.
- **The agent is not told of preemption.** It keeps querying with its old job and re-sends its last `BatchOutput` on every cycle.
- **Lost replies.** A `QueryData` reply lost to its deadline leaves a batch `InProgress` with nobody evaluating it.
- **Unordered membership callbacks.** `AddWorker` replaces an existing entry wholesale.
- **Partial failures.** ProcessQueuedJob and FlushPendingJobs change state before they call SDFS.

## Modules

### `Coordinator` (with `MCCoordinator`)

This module models the coordinator, its scheduler and resource manager, the worker agents, and the coordinator's view of the ring.

| Variable | Code |
|---|---|
| `taskQueue` | `ic.TaskQueue` |
| `active`, `pending`, `completed` | `ActiveJobs`, `PendingJobs`, `CompletedJobs` |
| `batch[j][b]` | `BatchStates[b].Status` |
| `rm`, `wJob`, `wBatch` | the ResourceManager map and each entry's `JobId` / `CurrBatchInput` |
| `wInc` | which `*Worker` struct sits under an address; `AddWorker` allocates a new one |
| `dispatch` | the goroutines started by RescheduleJobs, each `new` → `sent` → `acked` |
| `resets` | FinishInference goroutines that have called `wg.Done()` but not yet run their deferred `worker.Reset()` |
| `panicked` | the coordinator died of a nil dereference |
| `aJob`, `aOut`, `aEval` | the agent's `JobId`, its `BatchOutput`, and the batch it is evaluating while holding `iw.Lock` |
| `member`, `memEvents` | the ring's membership list, and the callbacks spawned but not yet run |
| `faults` | the number of injected faults |
| `trained` | `ModelStore.Contains(model)`; the model has one model |
| `train` | a Train RPC in progress: whether it is running, and the workers whose `IDunnoWorker.Train` has not returned |
| `trains` | Train RPCs sent so far, bounded by `MaxTrains = 1` |

Each handler and loop iteration is one action, taken whole:

- `Inference`
- `ProcessQueuedJob`
- `RescheduleJobs` (RefreshSchedule)
- `QueryData`: the agent's RPC and the coordinator's handler, with `OnReceiveBatchOutput` and `FetchBatchInput`
- `FlushPendingJobs`
- `RefreshBatchStatus`
- `RefreshWorkerStatus`
- `OnMemberUpdate`: `OnWorkerJoined` or `OnWorkerFailed`
- `TrainStart`: the Train RPC's checks under the lock (no job active) and the broadcast it starts
- `TrainAck` / `TrainFail`: one worker's `IDunnoWorker.Train` returns, or fails (a crashed worker, a model runner error); any failure aborts the Train
- `TrainRegister`: every worker answered, so the coordinator takes the lock and calls `ModelStore.AddModel`

`Inference` first checks `ModelStore.Contains` (without the lock), so no job is submitted before the model is trained. One Train is enough to cover both outcomes of that check; two Trains would only repeat the broadcast.

The dispatch goroutine is split at the points where it interleaves with the rest:

- `DispatchStart` reads `ActiveJobs` without the lock;
- `AgentInference` is the agent's handler;
- `DispatchFail` covers a failed RPC;
- `DispatchReply` sets `JobId` under the lock, on the `*Worker` the goroutine captured.

FlushPendingJobs' FinishInference goroutines defer `worker.Reset()` before `wg.Done()`, so the Reset runs after `wg.Done()` and without the lock. The flush step records one entry of `resets` per worker, and `WorkerReset` applies it later, on the `*Worker` the goroutine captured.

`Evaluate` is the rest of the agent's `QueryData`. `Crash`, `RingRemove` (RecyclePool expiry, including false suspicion) and `RingInsert` (OnPing re-inserting a live process) are the environment.

Faults are bounded by `MaxFaults`. Each of these counts as one:

- a crash;
- a false suspicion;
- a lost Inference or QueryData reply;
- a ServeModel, Evaluate, FinishInference or SDFS failure.

Several things are abstracted:

- Job ids are `1..NumJobs`, so `sort.Strings(ids)` becomes numeric order.
- Every job has `NumBatches` batches.
- Outputs are reduced to the batch id.
- `LastQueryTime` is dropped. Preemption may take any subset of the right size, which over-approximates the "most recent first" sort.
- In `global` mode the DP may return any allocation vector that sums to the worker count (the DP itself is checked in `Ralloc`). In `local` mode the model uses LocalFairTimeRalloc's rounding with equal processing times.
- `Init` starts after every worker has joined, with nothing submitted yet.

Three constants make timing assumptions explicit:

- `PromptStart`: every dispatch goroutine reads `ActiveJobs` before the coordinator takes its lock again.
- `PromptReply`: every Inference RPC returns within one reschedule period.
- `PromptReset`: every deferred `worker.Reset()` runs before the coordinator takes its lock again. The flush holds the lock through the SDFS write, so this is what happens in practice; the safety run sets it FALSE.

With all three TRUE, the model describes the schedule the code's authors had in mind. Setting `PromptStart` or `PromptReply` FALSE exposes a bug. Setting `PromptReset` FALSE does not: the safety run reaches a Reset that lands after the worker was dispatched to the next job and wipes that assignment, and every safety property still holds. The worker is counted idle while its agent runs the job, as after a preemption, and the next reschedule sends it work again.

### Coordinator properties

- `BatchHeldAtMostOnce`: a batch of an active job is held by at most one worker of that job, and a held batch is never `Available`.
- `AssignedWorkerRunsJob`: once no dispatch and no Reset for it is in flight, a live worker that the ResourceManager assigns to a job has an agent running that job.
- `EveryJobCompletes`: every job that becomes active eventually reaches CompletedJobs.
- `CoordinatorNeverPanics`.
- `LifecycleRefined`: `Coordinator` implements `JobLifecycle` (below).

The spec's own batch invariant (an InProgress batch has exactly one holder, any other batch none, spec section 2) does not hold even without faults. A preempted agent keeps piggybacking its last output, and OnReceiveBatchOutput marks the batch Completed while the worker it was reassigned to still holds it (scheduler.go:114 and 167). When that worker is later preempted or fails, the Completed batch is reopened. `JobLifecycle` therefore allows a Completed batch to return to Available. `BatchHeldAtMostOnce` is the part of the invariant the code keeps.

### `JobLifecycle`: the abstract job lifecycle

`JobLifecycle` states what the coordinator promises about jobs, with no workers, RPCs or locks:
- `stage[j]` runs new, queued, then running or dropped, then finished, then flushed;
- `status[j][b]` is the batch state machine: handed out, returned, reported (from any state, since outputs may be stale), and reopened;
- `queue` holds the finished jobs in the order they finished.

`Progress` moves batches only of running or finished jobs, and finishes a running job only when all its batches are Completed. `Flush` takes the head of `queue`.

`Coordinator` instantiates it as `Life` with this refinement mapping:
- `stage` is read off the structure that holds the job: CompletedJobs (flushed), PendingJobs (finished, whether still active or left there by a failed Put), ActiveJobs (running), the TaskQueue (queued); a submitted job in none of them was dropped by ProcessQueuedJob;
- `status` is `batch`;
- `queue` is `pending`.

`LifecycleRefined == Life!Spec` is checked as a PROPERTY in coordinator_safety. The mutant `JobDoneOneShort` makes OnReceiveBatchOutput count a job done one batch early, and TLC finds the refinement broken in a few steps.

### `Ralloc` (with `MCRalloc`)

`Ralloc` models GlobalFairTimeRalloc (`ralloc/ralloc.go`), the allocation RefreshSchedule uses by default (`utils.LAST_SECONDS` is MaxFloat64).
- `GetExpectedQPS` is Job.GetExpectedQPS over the job's statistics (total and completed queries, elapsed seconds), in fixed point: the rational rate times `Scale`, rounded down. Go computes it in float64.
- `Table` is the DP, row by row, as a RECURSIVE operator. `Cell` is one cell: the first k with the least maxDiff, since the loop keeps only strictly smaller values.
- `Backtrack` follows `alloc` from the last job.
- The reference: `AllAllocations` enumerates every allocation summing to m, and `FairestSpread` is the least spread (max minus min qps) among them. The DP's own dp value is this spread.

Each step is one RefreshSchedule call past its early return, with any active jobs and worker count. `AllocationFairest` says the returned allocation sums to m and spreads the rates no wider than the fairest one, as the function's comment promises.

With two jobs the DP is exact: the check passes over 468 inputs. With three jobs and three workers it fails (run ralloc_fairest). The DP keeps only the prefix allocation with the smallest spread, but a wider prefix can extend better, and the result may give a job no worker.

### `Membership` (with `MCMembership`)

This module models the gossip ring of `src/ring` and the leader directory of `src/dns`, with up to three processes.

| Variable | Code |
|---|---|
| `up[n]` | a process is running at address `n` |
| `me[n]` | `server.Process`: its joinTime `jt` (0 before it joins), status and lastUpdateTime `t` |
| `inRing[n]` | `server.Process` is in its own `MembershipList` |
| `others[n]` | the rest of `MembershipList`, as records `[a, jt, st, t]` |
| `pool[n]` | `ExpirationPool`: address ↦ rounds left before the deadline |
| `upd[n]` | UpdateLeader goroutines in flight: `"check"` (before the lock) or `"write"` (the DNS call) |
| `dns` | the DNS server's `DNSFile` |
| `cronDone[n]`, `faults` | round bookkeeping and the fault count |

A process is identified by (address, joinTime), as `api.IsSameProcess` does. The ExpirationPool is keyed by address alone, as in the code.

**Timestamps.** `CurrentTimestamp` is compared only with other timestamps. The model therefore keeps only their order:
- every step that stamps "now" uses one more than the largest stamp in use;
- `Commit` then renumbers all stamps to their rank;
- joinTimes are ranked together, and lastUpdateTimes only among copies of the same process, since only those are ever compared.

**Rounds.** Real time is counted in rounds. In each round every running process runs `Cron` once, and `Tick` then ends the round and counts down the pool deadlines. `ExpireRounds = 2` stands for EXPIRATION_TIME / INTERVAL = 6s / 1.45s.

**Actions.** Each action is one whole handler:
- `Join`: LookupLeader; a bootstrap when the DNS is empty; else the leader's `OnJoin` and the reply, which can be lost after the leader appended the joiner.
- `Leave`.
- `Cron`: `RecyclePool`, then the refresh of its own `t`, then a ping to each of its `Successors`.
- `UpdateLeaderCheck` and `DnsWrite`: the two halves of `UpdateLeader`.
- `Crash`, `Restart` (a new process at the same address) and `Tick` are the environment.

A ping (`PingStep`) has one of three outcomes: delivered and acked, ping lost, or ack lost.
- On delivery, the receiver runs `OnPing` on the sender's list.
- The sender then runs `OnAck` or `OnFailure`.
- An unreachable receiver (down, or `Leaved`, whose `Listen` drops everything) gives `OnFailure`.

A ping goroutine ends within PING_TIMEOUT + READ_TIMEOUT = 1.4s, which is less than INTERVAL. So the pings of one Cron iteration are taken in the same step.

**Faults.** `FaultKinds` selects the faults that may happen, and `MaxFaults` bounds how many:
- crash;
- restart;
- leave;
- lost ping or ack;
- lost join reply.

**Init.** Every process has started. Either the DNS is empty (`InitJoined = 0`), or the first `InitJoined` processes have bootstrapped and joined. With `InitGossiped`, the leader's first Cron has also delivered its list.

**Properties.**
- `PoolTracksSuspects` (spec section 3): at every running process, an address is in the pool exactly when a listed process at it is not Alive. No run checks it. It can only fail with two incarnations at one address, and TLC finds it violated whenever restart, leave or a lost join reply can create them (below). Without those faults it holds by construction.
- `RingConverges` (spec section 8.1): eventually, for good, all running processes in the ring list the same processes.
- `StaleForgotten` (spec section 8.2): eventually, for good, no list holds a process that is no longer running and answering at its address. The liveness run checks crash detection. A predecessor's OnFailure must suspect the crashed process, the suspicion must be gossiped without an older Alive copy reviving it, and RecyclePool must remove it at every process. With restarts it fails the way `RingConverges` does.
- `DnsNamesLeader` (spec section 4.A): eventually, for good, the DNS names the process that sorts first in its own list.

**Fairness.** Each process's Cron runs on a ticker, so it gets weak fairness, and so do `Tick` and the UpdateLeader goroutines. `Join`, `Leave`, `Crash` and `Restart` are operator commands and get no fairness.

The fairness of Cron is stated on `CronRan(n)`. This action has the same enabling condition and the same steps as `Cron(n)`, and it spares TLC the enumeration of ping outcomes when it evaluates ENABLED.

### `SDFS` (with `MCSDFS`)

`SDFS` models the file store of every process together with one client, over a membership ring taken as the environment.

**State.**
- The ring: `alive` (running processes), `members` (the shared MembershipList once gossip has settled) and `susp[n]` (n's ExpirationPool). `Crash`, `Expire` (RecyclePool deleting a crashed process) and `Join` change them. Both `Expire` and `Join` start one `OnMemberUpdate` goroutine at every live process (ring/server.go:181); `cb[n]` counts the goroutines not yet run.
- Per process: `sig[n]` (the Signal queue is non-empty), `hr[n]` (the members its HashRing was last refreshed with), `ft[n]` (the FileTable, a set of versions per file), `cv[n]` (a Converge in progress and its TransferFiles goroutines).
- The leader's `seqCounter`, the client's `task` (ExecuteTask in progress) and `msgs` (RouteTask goroutines not yet answered).
- History: `floor[f]` is a record: `put` is the sequence of the last acknowledged Put of f (0 after an acknowledged Delete), and `del` is the sequence of the last acknowledged Delete. `got` records the last Get's result and the floor when the Get began.

**Abstractions.**
- The hash ring is the order of the constant positions `Pos`; a file's key is `Key[f]`. FindReplicas, FindSuccessors, FindPredecessor and GetRouteProcess follow hash_ring.go on that order.
- A version is its sequence; the write id is the sequence too, since every Put fetches one sequence. File contents, the disk, the DeletePool and the cache are left out: no property tells contents apart.
- The leader `Ldr` (which hands out sequences) and the `Client` process never crash. The client runs one task at a time, as the CLI does.
- A replica answers in time unless it crashed: `Timeout` is enabled only when the pending RPCs to live replicas cannot reach the consistency level.

**Actions.** `OnMemberUpdate` (push a Signal), `Recycle` and `Converge` (the Cron's two steps), `TransferLookup` and `TransferWrite` (one TransferFiles goroutine: BulkLookup, then the write loop, which never retries), `ConvergeDone` (Converge waits for its goroutines, clears the Signal and refreshes), `StartTask` (FetchSequence and the fan-out), `RouteTask` (one replica's Write, Read or Delete and its reply), `Complete` (HandleTaskResults) and `Timeout`.

**Constants.** `MCSDFS` uses three processes (n1 leader, n2 client, n3 a joiner) with REPLICA_COUNT scaled to 2, write level 2 and read level 1. These keep W + R > REPLICA_COUNT, as the code's REPLICA_COUNT 4, WRITE_CONSISTENCY 3 and READ_CONSISTENCY 2 do (client.go:17-29); Delete waits for all replicas in both. One file whose replicas are n1, n2 before n3 joins and n2, n3 after, so a join moves a replica.

**Properties.**
- `RingSettles` (spec section 4.F): once membership stops changing, every live process has refreshed its HashRing to the members, has no Signal or Converge pending, and keeps only files it is a replica of.
- `ReadFreshness` (spec section 8.5): a Get returns a version at least as new as the last Put acknowledged before it began.
- `DeleteIsFinal` (spec scenario S2): a Get that returns a file never returns a version older than a Delete acknowledged before the Get began.

**Fairness.** The Cron runs every 200ms and goroutines are never cancelled, so each process's Recycle, Converge, transfers, OnMemberUpdate and ConvergeDone get weak fairness, as do RecyclePool's `Expire`, the RouteTask goroutines and ExecuteTask's select (`Complete`, `Timeout`). Starting a task is the user's choice and gets none.

**Findings.** `ReadFreshness` fails after a single join (run sdfs_recycle). The client starts a Put while its HashRing still lists the old replicas. FetchSequence checks only the leader's state (service.go:150). The client's own Converge then refreshes the ring and copies version 1 to the joiner. Only after that does the Put write version 2 to the old replicas. The joiner keeps version 1 until the next membership change, and a Get at level one reads it (client_action.go:36). BulkLookup's missing-files-only check (server.go:296) would also stop a later Converge from repairing it, but it is not the cause here: the joiner had no copy when BulkLookup ran. It also fails after a restart (the FileTable is in memory) and, with four processes and REPLICA_COUNT 3, through a Recycle that runs before the membership callback pushed its Signal (server.go:169): 16 steps. `DeleteIsFinal` fails during a single join (run sdfs_delete, 17 steps). The client's Converge looks the file up at the joiner, finds it missing and prepares a transfer. The Delete reaches the joiner, which has nothing to delete. The transfer then writes the old version to the joiner, the Delete reaches the old replica, and both acknowledge. `TransferWrite` reads the sender's versions when it writes. The code reads them earlier (server.go:304), so it also allows the write after both acknowledgements. Delete leaves no tombstone (service.go:101), so nothing stops the write. Spec section 8.6's replica count also fails, without any crash or timeout: a Put or Delete routed by the client's stale HashRing leaves the placement short, and Converge runs only on a membership change, so nothing repairs it. TLC found this with a placement invariant in the settle configuration; the runs keep the two properties whose violations return wrong data. These are listed as hazards.

## Runs

| Run | Config | Expect | Shows |
|---|---|---|---|
| coordinator_safety | `MCCoordinator_safety.cfg` | pass | Batch ownership and assignments stay consistent, and the coordinator refines `JobLifecycle`, with 2 workers, 2 jobs, 2 batches, any global allocation, late Resets and 1 fault (3.19M states, about 2.5 min). |
| coordinator_liveness | `MCCoordinator_liveness.cfg` | pass | Every active job completes, with local allocation, 2 workers, 2 jobs, 1 batch and 1 fault (49k states, about 1.5 min). |
| coordinator_panic | `MCCoordinator_panic.cfg` | violation | Without `PromptStart`, a dispatch goroutine dereferences a flushed job (coordinator.go:322). |
| coordinator_redispatch | `MCCoordinator_redispatch.cfg` | violation | Without `PromptReply`, a worker is dispatched to two jobs, and the coordinator and the agent disagree (coordinator.go:342). |
| ralloc_fairest | `MCRalloc_fairest.cfg` | violation | Jobs of 2 or 4 queries with 1 or 2 seconds elapsed, up to 3 jobs and 3 workers: GlobalFairTimeRalloc returns (2, 1, 0) where (1, 1, 1) is fairer (ralloc.go:49). |
| membership_liveness | `MCMembership_liveness.cfg` | pass | In a gossiped 3-process ring with up to 2 crashes or lost pings or acks, the lists converge, and crashed processes are detected and forgotten (under 20 s). |
| membership_churn | `MCMembership_churn.cfg` | pass | Leave, restart, lost join replies, crashes and lost pings or acks (1 fault) keep the state well formed. This run is the one that exercises those paths. |
| membership_restart | `MCMembership_restart.cfg` | violation | After a crash and a restart at the same address, the old incarnation is never removed and the lists never converge (event.go:97). |
| membership_dnsstale | `MCMembership_dnsstale.cfg` | violation | With lost pings only, a false suspicion leaves the DNS naming a non-leader for good (service.go:345). |
| sdfs_settle | `MCSDFS_settle.cfg` | pass | Through one crash, one join, puts, gets and deletes, every live process's HashRing settles on the membership and it keeps only its own replicas (221k states, under 1 min). |
| sdfs_recycle | `MCSDFS_recycle.cfg` | violation | A join during a Put leaves the new replica with an old version, and a Get at read level 1 returns it (client_action.go:36). |
| sdfs_delete | `MCSDFS_delete.cfg` | violation | A Delete acknowledged during a join is undone by Converge's transfer, and a later Get returns the deleted version (service.go:101). |

**Bounds.** Two workers are the fewest that make preemption, two holders and reassignment possible. Two jobs are the fewest for reallocation between jobs. Two batches are needed for a worker to move on from a batch while another takes it. One fault lets each kind of failure happen once, in any position of the run.

The liveness run uses one batch to keep the SF checking within minutes. Its one fault still reaches the orphaned-batch, crash and false-suspicion cases. It also sets `PromptReset`: with late Resets it also passes, but the fairness check takes six minutes.

`WorkerSymmetry` is used only in the safety runs. Worker addresses are unordered map keys in the code.

**Membership bounds.** Three processes are the fewest for a third party to gossip about a suspect, and for a joiner, its introducer and a bystander. Two faults let a suspicion and a crash, or two suspicions, happen in one behaviour; three made the liveness run with its invariants take over three minutes and reached no new action.

`NodeSymmetry` is used in the churn run. Addresses enter the model only through join order, which Init enumerates. The liveness runs do not use symmetry.

Three more Membership violations come from the same configurations with other fault sets:
- `FaultKinds = {"joinloss", "pingloss"}`, `MaxFaults = 3`, `InitJoined = 2`, `InitGossiped = FALSE` violates `PoolTracksSuspects`. A joiner whose join reply is lost re-joins and gets a second entry; when OnPing marks the new entry Alive it drops the address from the pool, so the old entry stays Timeout with no deadline and is never removed (event.go:63, event.go:133).
- `FaultKinds = {"leave", "pingloss"}`, `MaxFaults = 3`, `InitJoined = 2` violates `PoolTracksSuspects` in 12 steps. Leave keeps the ExpirationPool (service.go:36).
- `FaultKinds = {"crash"}`, `MaxFaults = 1`, `InitJoined = 2`, `InitGossiped = FALSE` violates `RingConverges` in 7 steps. The leader crashes before its first ping to a joiner, so the joiner stays isolated.

**Fairness.** `Fairness` gives weak or strong fairness to each periodic loop, each agent's QueryData cycle, ring expiry, dispatch goroutines and membership callbacks. Every one of them runs in a `for { sleep; ... }` loop or is a goroutine that is never cancelled.

Actions that take `ic.Lock()` are disabled while a dispatch goroutine is about to read `ActiveJobs`, so they are only intermittently enabled. They get strong fairness, which Go's mutex starvation mode justifies: a waiter blocked for more than 1ms is handed the lock.

## Not modelled yet (plan)

These parts are not modelled, each for a reason:

- **Coordinator Backup and failover** (`coordinator_service.go` Backup, `coordinator.go` backup loop). The successor's state is replaced wholesale with a snapshot that has no TaskQueue and no ResourceManager. Checking it means a second coordinator with its own copy of every variable, and its expected result is a violation. That needs a run slot, and all 12 are in use. It is listed as a hazard.
- **`OnWorkerLeaved`** (`scheduler.go:220`). It runs only when the coordinator process itself calls Leave, which ends its role. The model keeps the coordinator in the ring.
- **The LFU cache** (`utils/cache.go`). Its failure, popping an empty frequency list, needs a value larger than the capacity or a re-Put that grows a value. SDFS, its only user, does neither.
- **An abstract membership view** refined by both `Membership` and `Coordinator`'s `member`.
- **SDFS extensions**: a failing leader and a second client.
- **LocalFairTimeRalloc with unequal processing times.**

The project holds the 12 runs it can afford; a new question replaces a run or joins one as a further property.

Out of scope: the logger, the CLIs, the HTTP backend and process wiring in `main.go`. These change no protocol state. The Python model runner is an external process, and only its success or failure is modelled.
