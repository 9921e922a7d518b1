-------------------------------- MODULE SDFS --------------------------------
(***************************************************************************)
(* The replicated, versioned file store of src/sdfs: per-node FileTables,  *)
(* the consistent-hashing HashRing, the KVS handlers (Write, Read, Delete, *)
(* BulkLookup, FetchSequence), the KVS Cron (Recycle, then Converge with   *)
(* its TransferFiles goroutines) and the client's ExecuteTask, which       *)
(* fetches a sequence from the leader and fans an operation out to the     *)
(* replicas of the key until a consistency level of acks is reached.      *)
(*                                                                         *)
(* The membership ring is the environment here (it is modelled on its own  *)
(* in Membership): members is the MembershipList every process holds,      *)
(* susp[n] its ExpirationPool, and each change of the list starts one      *)
(* asynchronous OnMemberUpdate goroutine per process (NotifyMemberUpdate), *)
(* which pushes a Signal when it runs.  File contents are abstracted away: *)
(* a version is its (seq, writeId) pair, and a seq is the leader's count.  *)
(***************************************************************************)
EXTENDS Integers, FiniteSets, Sequences, SequencesExt, FiniteSetsExt, TLC

CONSTANTS
    Nodes,          \* addresses a KVS node can run at
    Files,          \* SDFS file names
    Pos,            \* Pos[n]: HashKey of node n on the ring (Hash(address))
    Key,            \* Key[f]: Hash(f) % HASH_SIZE
    Ldr,            \* MembershipList[0], the node that answers FetchSequence
    Client,         \* the node whose SDFSClient issues operations
    OpKinds,        \* the operations it issues, a subset of Ops
    InitMembers,    \* the ring in the initial state
    Joiners,        \* addresses a process may join at (again, after a crash)
    R,              \* REPLICA_COUNT
    ReadLevel,      \* READ_CONSISTENCY
    WriteLevel,     \* WRITE_CONSISTENCY
    MaxSeq,         \* bound on FetchSequence calls (SeqCounter)
    MaxCrashes,     \* bound on crashes
    MaxJoins        \* bound on joins

ASSUME /\ Pos \in [Nodes -> Nat] /\ Key \in [Files -> Nat]
       /\ \A a, b \in Nodes : a # b => Pos[a] # Pos[b]
       /\ {Ldr, Client} \subseteq InitMembers /\ InitMembers \cup Joiners \subseteq Nodes
       /\ {R, ReadLevel, WriteLevel, MaxSeq, MaxCrashes, MaxJoins} \subseteq Nat

Ops == {"put", "get", "del"}  \* Put, Get (LATEST_VERSION) and Delete

ASSUME OpKinds \subseteq Ops

\* GetConsistencyLevel before the clamp to the HashRing length.
Level == [put |-> WriteLevel, get |-> ReadLevel, del |-> R]

Version == [seq : 1..MaxSeq, id : 1..MaxSeq]

None == [op |-> "none"]

VARIABLES
    alive,      \* processes running
    members,    \* the MembershipList (shared view of the ring)
    susp,       \* susp[n]: addresses in n's ExpirationPool
    cb,         \* cb[n]: OnMemberUpdate goroutines not yet run
    sig,        \* sig[n]: the Signal queue is non-empty
    hr,         \* hr[n]: the members n's HashRing was last refreshed with
    ft,         \* ft[n][f]: the versions in n's FileTable
    cv,         \* cv[n]: n's running Converge and its transfers
    seqCounter, \* the leader's SeqCounter
    task,       \* the client's running ExecuteTask, or None
    msgs,       \* RouteTask goroutines: RPCs sent to replicas, not yet served
    floor,      \* history: floor[f].put, seq of the last acknowledged Put (0 after
                \* a Delete); floor[f].del, seq of the last acknowledged Delete
    got,        \* history: the last Get that returned OK
    crashes, joins

vars == <<alive, members, susp, cb, sig, hr, ft, cv, seqCounter, task, msgs,
          floor, got, crashes, joins>>

-----------------------------------------------------------------------------
(* HashRing.  Refresh sorts the members by HashKey; the collision probing  *)
(* is left out because Pos is injective.                                   *)

NodeOrder == SetToSortSeq(Nodes, LAMBDA a, b : Pos[a] < Pos[b])

Ring(S) == SelectSeq(NodeOrder, LAMBDA a : a \in S)

\* Index of the first node with HashKey >= Hash(key), else 1 (wrap around).
Start(r, f) == IF \E i \in 1..Len(r) : Pos[r[i]] >= Key[f]
               THEN Min({i \in 1..Len(r) : Pos[r[i]] >= Key[f]}) ELSE 1

FindReplicas(S, f, k) ==
    LET r == Ring(S)
    IN  {r[((Start(r, f) - 1 + i) % Len(r)) + 1] : i \in 0..(Min({Len(r), k}) - 1)}

GetRouteProcess(S, f) == LET r == Ring(S) IN r[Start(r, f)]

\* FindProcessIndex gives -1 when n is not on the ring: no successors.
FindSuccessors(S, n, k) ==
    LET r == Ring(S)
        i == CHOOSE j \in 1..Len(r) : r[j] = n
    IN  IF n \notin S THEN {}
        ELSE {r[((i - 1 + j) % Len(r)) + 1] : j \in 1..Min({k, Len(r) - 1})}

FindPredecessor(S, n) ==
    LET r == Ring(S)
        i == CHOOSE j \in 1..Len(r) : r[j] = n
    IN  IF n \notin S \/ Len(r) = 1 THEN {} ELSE {r[((i - 2 + Len(r)) % Len(r)) + 1]}

-----------------------------------------------------------------------------
(* FileTable.  A key is present exactly when it has a version: Insert only *)
(* creates a key to append to it, and Delete removes the key.              *)

Stored(t) == {f \in Files : t[f] # {}}

\* Insert: an error, and no change, on a duplicate write id or seq.
Insert(t, f, v) ==
    IF \E w \in t[f] : w.id = v.id \/ w.seq = v.seq THEN t
    ELSE [t EXCEPT ![f] = @ \cup {v}]

\* GetLatestVersion: the version with the largest seq, after sort.Sort.
Latest(t, f) == CHOOSE v \in t[f] : \A w \in t[f] : w.seq <= v.seq

Stable(n) == ~sig[n] /\ susp[n] = {}

\* Write of a set of versions, one Insert each (they are duplicate-free
\* among themselves, being the versions of one FileTable entry).
InsertAll(t, f, S) ==
    [t EXCEPT ![f] = @ \cup {v \in S : ~\E w \in @ : w.id = v.id \/ w.seq = v.seq}]

NoFiles == [f \in Files |-> {}]

Idle == [on |-> FALSE, ts |-> {}]

NoFloor == [put |-> 0, del |-> 0]

Init ==
    /\ alive = InitMembers
    /\ members = InitMembers
    /\ susp = [n \in Nodes |-> {}]
    /\ cb = [n \in Nodes |-> 0]
    /\ sig = [n \in Nodes |-> FALSE]
    /\ hr = [n \in Nodes |-> IF n \in InitMembers THEN InitMembers ELSE {}]
    /\ ft = [n \in Nodes |-> NoFiles]
    /\ cv = [n \in Nodes |-> Idle]
    /\ seqCounter = 0
    /\ task = None
    /\ msgs = {}
    /\ floor = [f \in Files |-> NoFloor]
    /\ got = [seq |-> 0, floor |-> NoFloor]
    /\ crashes = 0
    /\ joins = 0

-----------------------------------------------------------------------------
(* The ring, as the environment.  A process that crashes loses its memory; *)
(* every live process suspects it until it expires, when it leaves the     *)
(* MembershipList and NotifyMemberUpdate starts a goroutine at each live   *)
(* process; a Join adds the new process everywhere the same way.           *)

Crash(n) ==
    /\ n \in alive \ {Ldr, Client}
    /\ crashes < MaxCrashes
    /\ alive' = alive \ {n}
    /\ susp' = [m \in Nodes |-> IF m \in alive' THEN susp[m] \cup {n} ELSE {}]
    /\ cb' = [cb EXCEPT ![n] = 0]
    /\ sig' = [sig EXCEPT ![n] = FALSE]
    /\ hr' = [hr EXCEPT ![n] = {}]
    /\ ft' = [ft EXCEPT ![n] = NoFiles]
    /\ cv' = [cv EXCEPT ![n] = Idle]
    /\ crashes' = crashes + 1
    /\ UNCHANGED <<members, seqCounter, task, msgs, floor, got, joins>>

\* Mutant: the removal does not check that the process stopped answering.
ExpireAny(n) ==
    /\ n \in members
    /\ members' = members \ {n}
    /\ susp' = [m \in Nodes |-> susp[m] \ {n}]
    /\ cb' = [m \in Nodes |-> IF m \in alive THEN cb[m] + 1 ELSE cb[m]]
    /\ UNCHANGED <<alive, sig, hr, ft, cv, seqCounter, task, msgs, floor, got,
                   crashes, joins>>

Expire(n) ==
    /\ n \in members \ alive
    /\ members' = members \ {n}
    /\ susp' = [m \in Nodes |-> susp[m] \ {n}]
    /\ cb' = [m \in Nodes |-> IF m \in alive THEN cb[m] + 1 ELSE cb[m]]
    /\ UNCHANGED <<alive, sig, hr, ft, cv, seqCounter, task, msgs, floor, got,
                   crashes, joins>>

Join(n) ==
    /\ n \in Joiners /\ n \notin alive \cup members
    /\ joins < MaxJoins
    /\ alive' = alive \cup {n}
    /\ members' = members \cup {n}
    /\ cb' = [m \in Nodes |-> IF m \in alive' THEN cb[m] + 1 ELSE cb[m]]
    /\ joins' = joins + 1
    /\ UNCHANGED <<susp, sig, hr, ft, cv, seqCounter, task, msgs, floor, got,
                   crashes>>

-----------------------------------------------------------------------------
(* The KVS node.                                                           *)

\* OnMemberUpdate: the goroutine takes the lock and pushes a SignalEvent.
OnMemberUpdate(n) ==
    /\ n \in alive /\ cb[n] > 0
    /\ cb' = [cb EXCEPT ![n] = @ - 1]
    /\ sig' = [sig EXCEPT ![n] = TRUE]
    /\ UNCHANGED <<alive, members, susp, hr, ft, cv, seqCounter, task, msgs,
                   floor, got, crashes, joins>>

\* Mutant: Recycle keeps one replica too many (REPLICA_COUNT + 1).
RecycleKeepExtra(n) ==
    /\ n \in alive /\ ~cv[n].on
    /\ Stable(n)
    /\ hr' = [hr EXCEPT ![n] = members]
    /\ ft' = [ft EXCEPT ![n] = [f \in Files |->
                 IF n \in FindReplicas(members, f, R + 1) THEN @[f] ELSE {}]]
    /\ UNCHANGED <<alive, members, susp, cb, sig, cv, seqCounter, task, msgs,
                   floor, got, crashes, joins>>

\* Recycle: only when stable, refresh the HashRing and drop every stored
\* file of which n is not one of the REPLICA_COUNT replicas (its versions
\* go to the DeletePool, whose disk deletions are not modelled).
Recycle(n) ==
    /\ n \in alive /\ ~cv[n].on
    /\ Stable(n)
    /\ hr' = [hr EXCEPT ![n] = members]
    /\ ft' = [ft EXCEPT ![n] = [f \in Files |->
                 IF n \in FindReplicas(members, f, R) THEN @[f] ELSE {}]]
    /\ UNCHANGED <<alive, members, susp, cb, sig, cv, seqCounter, task, msgs,
                   floor, got, crashes, joins>>

\* Converge, up to wg.Wait: prevMainFiles under the old HashRing, Refresh,
\* currMainFiles, then one TransferFiles goroutine to the predecessor (the
\* prevMainFiles now routed to it) and one to each of 3 successors.
Converge(n) ==
    /\ n \in alive /\ ~cv[n].on
    /\ sig[n] /\ members # {}
    /\ susp[n] = {}
    /\ LET prev == {f \in Stored(ft[n]) :
                        hr[n] # {} /\ GetRouteProcess(hr[n], f) = n}
           curr == {f \in Stored(ft[n]) : GetRouteProcess(members, f) = n}
           ts == {[to |-> p, files |-> {f \in prev : GetRouteProcess(members, f) = p},
                   kind |-> "pred", phase |-> "lookup"] : p \in FindPredecessor(members, n)}
                 \cup {[to |-> s, files |-> curr, kind |-> "succ", phase |-> "lookup"] :
                          s \in FindSuccessors(members, n, 3)}
       \* a transfer of no files does nothing but end: it is left out
       IN  cv' = [cv EXCEPT ![n] = [on |-> TRUE, ts |-> {t \in ts : t.files # {}}]]
    /\ hr' = [hr EXCEPT ![n] = members]
    /\ UNCHANGED <<alive, members, susp, cb, sig, ft, seqCounter, task, msgs,
                   floor, got, crashes, joins>>

\* TransferFiles, first RPC: BulkLookup at the target gives the files it
\* lacks; a dial or RPC error, or nothing missing, ends the goroutine.
TransferLookup(n, t) ==
    /\ n \in alive /\ t \in cv[n].ts /\ t.phase = "lookup"
    /\ LET missing == {f \in t.files : ft[t.to][f] = {}}
       IN  cv' = [cv EXCEPT ![n].ts = (@ \ {t}) \cup
                    IF t.to \in alive /\ missing # {}
                    THEN {[t EXCEPT !.files = missing, !.phase = "write"]} ELSE {}]
    /\ UNCHANGED <<alive, members, susp, cb, sig, hr, ft, seqCounter, task, msgs,
                   floor, got, crashes, joins>>

\* TransferFiles, then: every version of each missing file, read from the
\* FileTable now, is sent by an idempotent Write; a failed Write is counted
\* as transferred and not retried.
TransferWrite(n, t) ==
    /\ n \in alive /\ t \in cv[n].ts /\ t.phase = "write"
    /\ cv' = [cv EXCEPT ![n].ts = @ \ {t}]
    /\ ft' = IF t.to \in alive
             THEN [ft EXCEPT ![t.to] = [f \in Files |->
                     IF f \in t.files THEN InsertAll(@, f, ft[n][f])[f] ELSE @[f]]]
             ELSE ft
    /\ UNCHANGED <<alive, members, susp, cb, sig, hr, seqCounter, task, msgs,
                   floor, got, crashes, joins>>

\* Converge after wg.Wait: Signal.Clear drops every signal, including one
\* pushed while the transfers ran.
ConvergeDone(n) ==
    /\ n \in alive /\ cv[n].on /\ cv[n].ts = {}
    /\ cv' = [cv EXCEPT ![n] = Idle]
    /\ sig' = [sig EXCEPT ![n] = FALSE]
    /\ UNCHANGED <<alive, members, susp, cb, hr, ft, seqCounter, task, msgs,
                   floor, got, crashes, joins>>

-----------------------------------------------------------------------------
(* The client.  ExecuteTask: FetchSequence at the leader (NOT_CONVERGED    *)
(* unless the leader is stable, and Put/Get/Delete then simply retry), the *)
(* replicas from the client's own HashRing, one RouteTask goroutine each,  *)
(* and the level clamped to the HashRing length.  A Put's WriteId is fresh *)
(* and it is sent with exactly one seq, so the seq stands for it.          *)

StartTask(op, f) ==
    /\ task = None
    /\ Stable(Ldr) /\ seqCounter < MaxSeq
    /\ seqCounter' = seqCounter + 1
    /\ task' = [op |-> op, f |-> f, seq |-> seqCounter', acks |-> {},
                lvl |-> Min({Level[op], Cardinality(hr[Client])}),
                floor |-> floor[f]]
    /\ msgs' = msgs \cup {[op |-> op, f |-> f, seq |-> seqCounter', to |-> r] :
                             r \in FindReplicas(hr[Client], f, R)}
    /\ UNCHANGED <<alive, members, susp, cb, sig, hr, ft, cv, floor, got,
                   crashes, joins>>

\* The KVS handler the RPC reaches: Write (Insert, idempotent), Read of the
\* latest version (ERROR on a miss), Delete of the whole key (OK always).
Serve(m, t) ==
    CASE m.op = "put" -> Insert(t, m.f, [seq |-> m.seq, id |-> m.seq])
      [] m.op = "del" -> [t EXCEPT ![m.f] = {}]
      [] OTHER        -> t

\* A RouteTask goroutine: a dead replica fails the dial; an OK reply is an
\* ack for the task it was sent by, if that task still waits.
RouteTask(m) ==
    /\ m \in msgs
    /\ msgs' = msgs \ {m}
    /\ IF m.to \in alive
       THEN LET ok  == m.op # "get" \/ ft[m.to][m.f] # {}
                ack == [from |-> m.to,
                        seq |-> IF m.op = "get" /\ ok THEN Latest(ft[m.to], m.f).seq ELSE 0]
            IN  /\ ft' = [ft EXCEPT ![m.to] = Serve(m, @)]
                /\ task' = IF ok /\ task # None /\ task.seq = m.seq
                           THEN [task EXCEPT !.acks = @ \cup {ack}] ELSE task
       ELSE UNCHANGED <<ft, task>>
    /\ UNCHANGED <<alive, members, susp, cb, sig, hr, cv, seqCounter, floor, got,
                   crashes, joins>>

\* Enough acks: HandleTaskResults (an error when the level was 0 and there
\* are none; Get picks the largest seq).
Complete ==
    /\ task # None /\ Cardinality(task.acks) >= task.lvl
    /\ task' = None
    /\ IF task.acks = {} THEN UNCHANGED <<floor, got>>
       ELSE IF task.op = "get"
       THEN /\ got' = [seq |-> Max({a.seq : a \in task.acks}), floor |-> task.floor]
            /\ UNCHANGED floor
       ELSE /\ floor' = [floor EXCEPT ![task.f] = IF task.op = "put" THEN [@ EXCEPT !.put = task.seq]
                                                   ELSE [put |-> 0, del |-> task.seq]]
            /\ UNCHANGED got
    /\ UNCHANGED <<alive, members, susp, cb, sig, hr, ft, cv, seqCounter, msgs,
                   crashes, joins>>

\* The ticker fires first: Get gives NOT_FOUND, Put and Delete an error.
\* The 12s (Delete: 2s) are taken to be long enough for a live replica to
\* answer, so the ticker wins only once the RPCs still to live replicas
\* cannot make up the level.
Timeout ==
    /\ task # None
    /\ Cardinality(task.acks)
         + Cardinality({m \in msgs : m.seq = task.seq /\ m.to \in alive}) < task.lvl
    /\ task' = None
    /\ UNCHANGED <<alive, members, susp, cb, sig, hr, ft, cv, seqCounter, msgs,
                   floor, got, crashes, joins>>

-----------------------------------------------------------------------------

Next ==
    \/ \E n \in Nodes : Crash(n) \/ Expire(n) \/ Join(n)
    \/ \E n \in Nodes : OnMemberUpdate(n) \/ Recycle(n) \/ Converge(n) \/ ConvergeDone(n)
    \/ \E n \in Nodes : \E t \in cv[n].ts : TransferLookup(n, t) \/ TransferWrite(n, t)
    \/ \E op \in OpKinds, f \in Files : StartTask(op, f)
    \/ \E m \in msgs : RouteTask(m)
    \/ Complete \/ Timeout

Spec == Init /\ [][Next]_vars

\* Every live process runs its KVS Cron every 200ms, a started goroutine
\* (OnMemberUpdate, RouteTask, TransferFiles) runs, the ring's RecyclePool
\* removes a crashed process, and ExecuteTask's select loop proceeds.
\* Starting an operation is the user's choice and is not fair.
Fairness ==
    /\ \A n \in Nodes : /\ WF_vars(Expire(n)) /\ WF_vars(OnMemberUpdate(n))
                      /\ WF_vars(Recycle(n)) /\ WF_vars(Converge(n))
                      /\ WF_vars(ConvergeDone(n))
                      /\ WF_vars(\E t \in cv[n].ts : TransferLookup(n, t) \/ TransferWrite(n, t))
    /\ WF_vars(\E m \in msgs : RouteTask(m))
    /\ WF_vars(Complete) /\ WF_vars(Timeout)

FairSpec == Spec /\ Fairness

-----------------------------------------------------------------------------

TypeOK ==
    /\ alive \subseteq members /\ members \subseteq Nodes
    /\ susp \in [Nodes -> SUBSET Nodes]
    /\ cb \in [Nodes -> Nat] /\ sig \in [Nodes -> BOOLEAN]
    /\ hr \in [Nodes -> SUBSET Nodes]
    /\ ft \in [Nodes -> [Files -> SUBSET Version]]
    /\ seqCounter \in 0..MaxSeq
    /\ floor \in [Files -> [put : 0..MaxSeq, del : 0..MaxSeq]]

\* Read freshness (spec 8.5): a Get that returns OK returns a version at
\* least as new as the last Put the client had acknowledged when the Get
\* began (unless a Delete was acknowledged after it): the levels W + R >
\* REPLICA_COUNT are meant to ensure it across the replica moves that
\* Converge and Recycle make when the ring changes.
ReadFreshness == got.seq >= got.floor.put

\* The ring settles (spec 4.F): once membership stops changing, every live
\* process's HashRing is refreshed to the MembershipList, no Converge or
\* Signal is pending, and no live process keeps a file of which it is not
\* one of the REPLICA_COUNT replicas (Recycle has dropped it).
RingSettles ==
    <>[](\A n \in alive :
            /\ hr[n] = members /\ Stable(n) /\ ~cv[n].on
            /\ \A f \in Stored(ft[n]) : n \in FindReplicas(members, f, R))

\* Deletion is final (spec scenario S2: Put, Get, Delete, Get gives
\* NotFound): a Get that returns OK never returns a version that an
\* acknowledged Delete, issued before the Get began, removed.  Delete
\* leaves no tombstone (service.go), and Converge's TransferFiles and a
\* client routing by a stale HashRing both write versions without knowing
\* of the Delete.
DeleteIsFinal == got.seq = 0 \/ got.seq > got.floor.del

====
