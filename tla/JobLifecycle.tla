---------------------------- MODULE JobLifecycle ----------------------------
(***************************************************************************)
(* What the coordinator promises about jobs and their batches (spec.md,    *)
(* sections 2 and 5), with no workers, RPCs or locks: a submitted job is  *)
(* queued, then admitted with all batches Available (or dropped when its   *)
(* dataset cannot be read); while it runs its batches move through the     *)
(* batch state machine; it is finished, and queued for flushing, only when *)
(* all its batches are Completed; finished jobs are flushed in the order   *)
(* they finished, and a flushed job never changes again.                   *)
(*                                                                         *)
(* The batch state machine is the scheduler's: a batch is handed out       *)
(* (Available -> InProgress), returned (InProgress -> Available), reported *)
(* (any -> Completed, a piggybacked output may be stale), and reopened     *)
(* (Completed -> Available) when a worker still holding it is preempted or *)
(* fails.  Coordinator implements this specification (LifecycleRefined).  *)
(***************************************************************************)
EXTENDS Sequences

CONSTANTS Jobs, Batches

VARIABLES
    stage,   \* stage[j]: "new", "queued", "dropped", "running", "finished", "flushed"
    status,  \* status[j][b]: "Available", "InProgress" or "Completed"
    queue    \* finished jobs not yet flushed, in the order they finished

vars == <<stage, status, queue>>

Live == {"running", "finished"}

\* The transitions of one batch a single step may make.
Moves == {<<"Available", "InProgress">>, <<"InProgress", "Available">>,
          <<"Available", "Completed">>, <<"InProgress", "Completed">>,
          <<"Completed", "Available">>}

AllAvailable == [b \in Batches |-> "Available"]

Init ==
    /\ stage = [j \in Jobs |-> "new"]
    /\ status = [j \in Jobs |-> AllAvailable]
    /\ queue = <<>>

Submit(j) ==
    /\ stage[j] = "new"
    /\ stage' = [stage EXCEPT ![j] = "queued"]
    /\ UNCHANGED <<status, queue>>

Admit(j) ==
    /\ stage[j] = "queued"
    /\ stage' = [stage EXCEPT ![j] = "running"]
    /\ status' = [status EXCEPT ![j] = AllAvailable]
    /\ UNCHANGED queue

Drop(j) ==
    /\ stage[j] = "queued"
    /\ stage' = [stage EXCEPT ![j] = "dropped"]
    /\ UNCHANGED <<status, queue>>

\* Batches of live jobs move, each by one allowed transition; at most one
\* running job whose batches are then all Completed finishes.
Progress ==
    /\ status' \in [Jobs -> [Batches -> {"Available", "InProgress", "Completed"}]]
    /\ \A j \in Jobs, b \in Batches :
         status'[j][b] # status[j][b] =>
            stage[j] \in Live /\ <<status[j][b], status'[j][b]>> \in Moves
    /\ \/ UNCHANGED <<stage, queue>>
       \/ \E j \in Jobs :
            /\ stage[j] = "running"
            /\ \A b \in Batches : status'[j][b] = "Completed"
            /\ stage' = [stage EXCEPT ![j] = "finished"]
            /\ queue' = Append(queue, j)

Flush ==
    /\ queue # <<>>
    /\ stage' = [stage EXCEPT ![Head(queue)] = "flushed"]
    /\ queue' = Tail(queue)
    /\ UNCHANGED status

Next ==
    \/ \E j \in Jobs : Submit(j) \/ Admit(j) \/ Drop(j)
    \/ Progress
    \/ Flush

Spec == Init /\ [][Next]_vars

=============================================================================
