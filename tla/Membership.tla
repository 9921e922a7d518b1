----------------------------- MODULE Membership -----------------------------
(***************************************************************************)
(* The membership ring of src/ring: UDP ping/ack gossip of the whole       *)
(* membership list, merge by lastUpdateTime (OnPing), suspicion on a       *)
(* failed ping (OnFailure), removal from the list when an expiration-pool  *)
(* deadline passes (RecyclePool), Join through the leader found in the     *)
(* list or in the DNS, Leave, and the UpdateLeader goroutine that writes   *)
(* the DNS.                                                                 *)
(*                                                                         *)
(* A process is identified by (address, joinTime) (api.IsSameProcess).     *)
(* Timestamps come from loosely synchronised clocks and are only ever      *)
(* compared with each other, so the model keeps them as ranks 1..k: every  *)
(* step that stamps "now" uses one more than the largest stamp in use, and *)
(* all stamps are then renumbered to their rank.  Time that matters for    *)
(* deadlines is counted in rounds: in each round every running process     *)
(* runs its Cron once (INTERVAL = 1.45s), and an expiration-pool entry     *)
(* expires ExpireRounds rounds after it was added (EXPIRATION_TIME = 6s).  *)
(***************************************************************************)
EXTENDS Integers, FiniteSets, Sequences, SequencesExt, FiniteSetsExt, TLC

CONSTANTS
    Nodes,          \* the addresses (ip:port) a process can run at
    NoNode,         \* the empty DNS record ""
    FaultKinds,     \* which faults may happen, a subset of FaultKind
    MaxFaults,      \* bound on the number of faults in a behaviour
    ExpireRounds,   \* rounds from suspicion to removal
    InitJoined,     \* how many processes have joined in the initial state
    InitGossiped    \* TRUE: the leader's first Cron has delivered its list

FaultKind == {"crash", "restart", "leave", "pingloss", "joinloss"}

ASSUME /\ NoNode \notin Nodes
       /\ FaultKinds \subseteq FaultKind
       /\ MaxFaults \in Nat
       /\ ExpireRounds \in Nat \ {0}
       /\ InitJoined \in 0..Cardinality(Nodes)
       /\ InitGossiped \in BOOLEAN

Status == {"Alive", "Timeout", "Leaved"}

VARIABLES
    up,         \* up[n]: a process is running at address n
    me,         \* me[n]: server.Process, [jt, st, t]; jt = 0 before Join
    inRing,     \* inRing[n]: server.Process is in its own MembershipList
    others,     \* others[n]: the other entries of the MembershipList
    pool,       \* pool[n]: ExpirationPool, address -> rounds left
    cronDone,   \* cronDone[n]: the Cron of this round has run
    upd,        \* upd[n]: UpdateLeader goroutines, "check" or "write"
    dns,        \* the DNS server's DNSFile
    faults

vars == <<up, me, inRing, others, pool, cronDone, upd, dns, faults>>

Fresh == [jt |-> 0, st |-> "Alive", t |-> 0]   \* NewRingServer

Id(e) == [a |-> e.a, jt |-> e.jt]

SelfEntry(n) == [a |-> n, jt |-> me[n].jt, st |-> me[n].st, t |-> me[n].t]

\* MembershipList: the server.Process pointer, when appended, and the rest.
List(n) == others[n] \cup (IF inRing[n] THEN {SelfEntry(n)} ELSE {})

\* api.IsSameProcess(e, server.Process)
IsSelf(n, e) == e.a = n /\ e.jt = me[n].jt

\* The entry of list L that sort.Sort puts first among those satisfying P.
First(L) == CHOOSE e \in L : \A f \in L : e.jt <= f.jt

(***************************************************************************)
(* Stamps.                                                                 *)
(***************************************************************************)
\* joinTimes are compared across processes (sort.Sort), lastUpdateTimes
\* only between copies of the same process (OnPing); each is ranked apart.
JStampsOf(m, o) ==
    ({m[n].jt : n \in Nodes} \cup {e.jt : e \in UNION {o[n] : n \in Nodes}}) \ {0}

TStampsOf(m, o, id) ==
    ( {m[n].t : n \in {x \in Nodes : x = id.a /\ m[x].jt = id.jt}}
      \cup {e.t : e \in {f \in UNION {o[n] : n \in Nodes} : Id(f) = id}} ) \ {0}

\* api.CurrentTimestamp(), as a joinTime or as a lastUpdateTime of id.
JNowOf(m, o) == Max(JStampsOf(m, o) \cup {0}) + 1
TNowOf(m, o, id) == Max(TStampsOf(m, o, id) \cup {0}) + 1

Rank(S, x) == IF x = 0 THEN 0 ELSE Cardinality({s \in S : s <= x})

\* Assigns the new process records and lists, renumbered.
Commit(m, o) ==
    LET J == JStampsOf(m, o)
        RE(e) == [e EXCEPT !.jt = Rank(J, @), !.t = Rank(TStampsOf(m, o, Id(e)), @)]
        RM(n) == [m[n] EXCEPT !.jt = Rank(J, @),
                              !.t = Rank(TStampsOf(m, o, [a |-> n, jt |-> m[n].jt]), @)]
    IN  /\ me' = [n \in Nodes |-> RM(n)]
        /\ others' = [n \in Nodes |-> {RE(e) : e \in o[n]}]

(***************************************************************************)
(* Expiration pool.                                                        *)
(***************************************************************************)
\* Mutants of PoolAdd: OnFailure forgets the pool; the deadline is one
\* round late.
PoolAddNever(p, a) == p
PoolAddLate(p, a) == IF a \in DOMAIN p THEN p ELSE [x \in DOMAIN p \cup {a} |->
                                                     IF x = a THEN ExpireRounds + 1 ELSE p[x]]

PoolAdd(p, a) == IF a \in DOMAIN p THEN p ELSE [x \in DOMAIN p \cup {a} |->
                                                 IF x = a THEN ExpireRounds ELSE p[x]]
PoolDel(p, a) == [x \in DOMAIN p \ {a} |-> p[x]]

CanFault(k) == k \in FaultKinds /\ faults < MaxFaults

\* Listen drops every message once the process has left.
Reachable(n) == up[n] /\ me[n].st # "Leaved"

LookupLeader(n) == IF List(n) # {} THEN First(List(n)).a ELSE dns

(***************************************************************************)
(* Init: all processes have started (main.go) and the DNS file is empty;   *)
(* or, with InitJoined > 0, the first one bootstrapped a ring and wrote    *)
(* itself to the DNS, and the next InitJoined - 1 joined                   *)
(* through it, before any Cron ran (or, with InitGossiped, after the      *)
(* leader's first Cron pinged each of them).  J is the join order.         *)
(***************************************************************************)
Init ==
    \E J \in [Nodes -> 1..Cardinality(Nodes)] :
       LET K == {n \in Nodes : J[n] <= InitJoined}
           L == CHOOSE n \in Nodes : J[n] = 1
       IN  /\ \A x, y \in Nodes : x # y => J[x] # J[y]
           /\ up = [n \in Nodes |-> TRUE]
           /\ me = [n \in Nodes |-> IF n \in K THEN [jt |-> J[n], st |-> "Alive", t |-> 1]
                                                ELSE Fresh]
           /\ inRing = [n \in Nodes |-> n \in K]
           /\ others = [n \in Nodes |->
                          IF n = L \/ (InitGossiped /\ n \in K)
                          THEN {[a |-> m, jt |-> J[m], st |-> "Alive", t |-> 1] :
                                m \in K \ {n}}
                          ELSE {}]
           /\ pool = [n \in Nodes |-> [a \in {} |-> 0]]
           /\ cronDone = [n \in Nodes |-> FALSE]
           /\ upd = [n \in Nodes |-> {}]
           /\ dns = IF K = {} THEN NoNode ELSE L
    /\ faults = 0

(***************************************************************************)
(* Join (service.go): look up the leader; bootstrap a solo ring if there   *)
(* is none, else send Join to it and install the stamped process it sends  *)
(* back.  The leader's OnJoin (event.go) refuses a process it already      *)
(* lists, else stamps joinTime, replies, appends and notifies; its reply   *)
(* can be lost after it appended.  Join itself fires no UpdateLeader.      *)
(***************************************************************************)
\* OnJoin (event.go) at l goes on only if l does not list the process
\* (address, joinTime) that n sends; it then stamps it, replies, appends it
\* and fires INSERT.
OnJoinAccepts(l, n) == ~\E e \in List(l) : e.a = n /\ e.jt = me[n].jt

Join(n) ==
    /\ up[n]
    /\ ~inRing[n]
    /\ LET l == LookupLeader(n)
           P == [jt |-> JNowOf(me, others), st |-> "Alive", t |-> 1]
           E == [a |-> n, jt |-> P.jt, st |-> "Alive", t |-> P.t]
       IN  \/ /\ l = NoNode
              /\ Commit([me EXCEPT ![n] = P], others)
              /\ inRing' = [inRing EXCEPT ![n] = TRUE]
              /\ upd' = [upd EXCEPT ![n] = @ \cup {"check"}]
              /\ UNCHANGED faults
           \/ /\ l # NoNode
              /\ Reachable(l)
              /\ OnJoinAccepts(l, n)
              /\ upd' = [upd EXCEPT ![l] = @ \cup {"check"}]
              /\ \/ /\ Commit([me EXCEPT ![n] = P], [others EXCEPT ![l] = @ \cup {E}])
                    /\ inRing' = [inRing EXCEPT ![n] = TRUE]
                    /\ UNCHANGED faults
                 \/ /\ CanFault("joinloss")
                    /\ Commit(me, [others EXCEPT ![l] = @ \cup {E}])
                    /\ faults' = faults + 1
                    /\ UNCHANGED inRing
    /\ UNCHANGED <<up, pool, cronDone, dns>>

\* Leave (service.go): status Leaved and an empty list; the pool is kept
\* and nobody is told.
Leave(n) ==
    /\ up[n]
    /\ me[n].st # "Leaved"
    /\ CanFault("leave")
    /\ Commit([me EXCEPT ![n].st = "Leaved"], [others EXCEPT ![n] = {}])
    /\ inRing' = [inRing EXCEPT ![n] = FALSE]
    /\ faults' = faults + 1
    /\ UNCHANGED <<up, pool, cronDone, upd, dns>>

\* The process at n dies with all its goroutines and memory.
Crash(n) ==
    /\ up[n]
    /\ CanFault("crash")
    /\ up' = [up EXCEPT ![n] = FALSE]
    /\ Commit([me EXCEPT ![n] = Fresh], [others EXCEPT ![n] = {}])
    /\ inRing' = [inRing EXCEPT ![n] = FALSE]
    /\ pool' = [pool EXCEPT ![n] = [a \in {} |-> 0]]
    /\ cronDone' = [cronDone EXCEPT ![n] = FALSE]
    /\ upd' = [upd EXCEPT ![n] = {}]
    /\ faults' = faults + 1
    /\ UNCHANGED dns

\* A new process (NewRingServer) starts at the same address.
Restart(n) ==
    /\ ~up[n]
    /\ "restart" \in FaultKinds
    /\ up' = [up EXCEPT ![n] = TRUE]
    /\ UNCHANGED <<me, inRing, others, pool, cronDone, upd, dns, faults>>

(***************************************************************************)
(* OnPing (event.go) at r, for one process p of the sender's list: skip    *)
(* r itself; insert an unknown Alive process (INSERT); for a known one,    *)
(* take status and time only when strictly newer, and add the address to  *)
(* or drop it from the pool.  acc is [o: others, pl: pool, ins: inserted].  *)
(***************************************************************************)
\* Mutant of OnPingEntry: an unknown Alive process is not inserted.
OnPingEntryNoInsert(r, acc, p) ==
    LET cur == {e \in acc.o : Id(e) = Id(p)}
        c == CHOOSE e \in cur : TRUE
    IN  IF IsSelf(r, p) \/ cur = {} THEN acc
        ELSE IF p.t <= c.t THEN acc
        ELSE [acc EXCEPT !.o = (@ \ {c}) \cup {[c EXCEPT !.st = p.st, !.t = p.t]},
                         !.pl = IF p.st = "Alive" THEN PoolDel(@, p.a) ELSE PoolAdd(@, p.a)]

OnPingEntry(r, acc, p) ==
    LET cur == {e \in acc.o : Id(e) = Id(p)}
        c == CHOOSE e \in cur : TRUE
    IN  IF IsSelf(r, p) THEN acc
        ELSE IF cur = {}
        THEN IF p.st = "Alive" THEN [acc EXCEPT !.o = @ \cup {p}, !.ins = TRUE] ELSE acc
        ELSE IF p.t <= c.t THEN acc
        ELSE [acc EXCEPT !.o = (@ \ {c}) \cup {[c EXCEPT !.st = p.st, !.t = p.t]},
                         !.pl = IF p.st = "Alive" THEN PoolDel(@, p.a) ELSE PoolAdd(@, p.a)]

\* The whole OnPing, over the sender's list in sorted order.
OnPing(r, snap, o, pl) ==
    FoldLeft(LAMBDA acc, p : OnPingEntry(r, acc, p),
             [o |-> o, pl |-> pl, ins |-> FALSE],
             SetToSortSeq(snap, LAMBDA x, y : x.jt < y.jt))

PingOutcome == {"ok", "lostPing", "lostAck"}

(***************************************************************************)
(* One ping goroutine of n for the entry i (Ping in service.go), applied   *)
(* to s = [m: me, o: others, p: pool, u: upd, f: faults].  The list is     *)
(* marshalled under the lock and sent to the address i.a, where whatever   *)
(* process runs now answers unless it is down or has left (Listen); it     *)
(* runs OnPing and acks.  The sender runs OnAck (event.go): the entry, if  *)
(* still listed, gets time now; or, when the ping or the ack is lost or    *)
(* nobody answers, OnFailure (event.go): the entry, if still listed,       *)
(* becomes Timeout with time now and its address enters the pool.         *)
(***************************************************************************)
\* OnAck (event.go): the entry i, if n still lists it, gets time now; its
\* status is left as it is.
OnAck(n, x, i) ==
    [x EXCEPT !.o[n] = {IF Id(e) = i THEN [e EXCEPT !.t = TNowOf(x.m, x.o, i)] ELSE e : e \in @}]

\* OnFailure (event.go): the entry i, if n still lists it, becomes Timeout
\* with time now, and its address enters the pool unless already there.
OnFailure(n, x, i) ==
    IF \E e \in x.o[n] : Id(e) = i
    THEN [x EXCEPT !.o[n] = {IF Id(e) = i
                             THEN [e EXCEPT !.st = "Timeout", !.t = TNowOf(x.m, x.o, i)]
                             ELSE e : e \in @},
                   !.p[n] = PoolAdd(@, i.a)]
    ELSE x

PingStep(n, inr, s, i, oc) ==
    LET r == i.a
        snap == s.o[n] \cup (IF inr THEN {[a |-> n, jt |-> s.m[n].jt,
                                           st |-> s.m[n].st, t |-> s.m[n].t]} ELSE {})
        mg == OnPing(r, snap, s.o[r], s.p[r])
        delivered == [s EXCEPT !.o[r] = mg.o, !.p[r] = mg.pl,
                               !.u[r] = IF mg.ins THEN @ \cup {"check"} ELSE @]
    IN  CASE ~Reachable(r)     -> OnFailure(n, s, i)
          [] oc = "ok"         -> OnAck(n, delivered, i)
          [] oc = "lostPing"   -> [OnFailure(n, s, i) EXCEPT !.f = @ + 1]
          [] oc = "lostAck"    -> [OnFailure(n, delivered, i) EXCEPT !.f = @ + 1]

\* RecyclePool (server.go): the addresses whose deadline has passed and
\* that have a list entry, and the ids of the entries it deletes, the
\* first one at each such address.  An address with no entry stays.
Expired(n) == {a \in DOMAIN pool[n] : pool[n][a] = 0 /\ \E e \in List(n) : e.a = a}

RecyclePool(n) == {Id(First({e \in List(n) : e.a = a})) : a \in Expired(n)}

\* Successors (server.go), from the list o and whether n is in it: every
\* entry but n itself (MAX_SUCCESSORS = 6 exceeds the ring here), in join
\* order.  A second copy of n (left by a Join through itself) sorts next
\* to it and ends the loop before any successor.
Successors(n, o, inr) ==
    IF inr /\ \E f \in o : IsSelf(n, f) THEN <<>>
    ELSE SetToSortSeq({Id(e) : e \in {f \in o : ~IsSelf(n, f)}}, LAMBDA x, y : x.jt < y.jt)

(***************************************************************************)
(* Cron (service.go), one iteration: RecyclePool, which fires DELETE for   *)
(* what it removes; then the process stamps its own lastUpdateTime and     *)
(* pings its Successors, each from its own goroutine.  A ping goroutine    *)
(* ends within PING_TIMEOUT + READ_TIMEOUT = 1.4s < INTERVAL, and the      *)
(* model takes the pings of one iteration in the same step.                *)
(***************************************************************************)
Cron(n) ==
    /\ up[n]
    /\ ~cronDone[n]
    /\ LET p == pool[n]
           gone == RecyclePool(n)
           o1 == {e \in others[n] : Id(e) \notin gone}
           in1 == inRing[n] /\ [a |-> n, jt |-> me[n].jt] \notin gone
           s0 == [m |-> [me EXCEPT ![n].t = TNowOf(me, others, [a |-> n, jt |-> me[n].jt])],
                  o |-> [others EXCEPT ![n] = o1],
                  p |-> [pool EXCEPT ![n] = [a \in DOMAIN p \ Expired(n) |-> p[a]]],
                  u |-> IF gone # {} THEN [upd EXCEPT ![n] = @ \cup {"check"}] ELSE upd,
                  f |-> faults]
           succ == Successors(n, o1, in1)
       IN  \E oc \in [1..Len(succ) -> PingOutcome] :
              /\ \A k \in 1..Len(succ) :
                    oc[k] # "ok" => "pingloss" \in FaultKinds /\ Reachable(succ[k].a)
              /\ LET fin == FoldLeft(LAMBDA s, k : PingStep(n, in1, s, succ[k], oc[k]),
                                     s0, [k \in 1..Len(succ) |-> k])
                 IN  /\ fin.f <= MaxFaults
                     /\ Commit(fin.m, fin.o)
                     /\ pool' = fin.p
                     /\ upd' = fin.u
                     /\ faults' = fin.f
              /\ inRing' = [inRing EXCEPT ![n] = in1]
    /\ cronDone' = [cronDone EXCEPT ![n] = TRUE]
    /\ UNCHANGED <<up, dns>>

\* UpdateLeader (service.go), first half under the lock: only the process
\* that sorts first in its own list goes on to write the DNS.
IsLeaderView(n) == List(n) # {} /\ IsSelf(n, First(List(n)))

UpdateLeaderCheck(n) ==
    /\ "check" \in upd[n]
    /\ upd' = [upd EXCEPT ![n] = (@ \ {"check"}) \cup
                                 (IF IsLeaderView(n) THEN {"write"} ELSE {})]
    /\ UNCHANGED <<up, me, inRing, others, pool, cronDone, dns, faults>>

\* UpdateLeader, second half without the lock: the DNS Update RPC.
DnsWrite(n) ==
    /\ "write" \in upd[n]
    /\ dns' = n
    /\ upd' = [upd EXCEPT ![n] = @ \ {"write"}]
    /\ UNCHANGED <<up, me, inRing, others, pool, cronDone, faults>>

\* INTERVAL passes: every running process has run its Cron this round, and
\* every pool deadline comes one round closer.
Tick ==
    /\ \A n \in Nodes : up[n] => cronDone[n]
    /\ cronDone' = [n \in Nodes |-> FALSE]
    /\ pool' = [n \in Nodes |-> [a \in DOMAIN pool[n] |-> Max({pool[n][a] - 1, 0})]]
    /\ UNCHANGED <<up, me, inRing, others, upd, dns, faults>>

Next ==
    \/ \E n \in Nodes :
          \/ Join(n) \/ Leave(n) \/ Crash(n) \/ Restart(n) \/ Cron(n)
          \/ UpdateLeaderCheck(n) \/ DnsWrite(n)
    \/ Tick

Spec == Init /\ [][Next]_vars

(***************************************************************************)
(* Cron runs on a ticker; UpdateLeader goroutines run to the end.  Cron(n) *)
(* is enabled exactly when up[n] /\ ~cronDone[n] (the all-"ok" outcome     *)
(* always satisfies it), and it is the only step that sets cronDone[n], so *)
(* CronRan(n) has the same enabling condition and the same steps as        *)
(* Cron(n); it spares TLC the enumeration of ping outcomes when it         *)
(* evaluates ENABLED.                                                      *)
(***************************************************************************)
CronRan(n) == up[n] /\ ~cronDone[n] /\ cronDone' = [cronDone EXCEPT ![n] = TRUE]

Fairness ==
    /\ WF_vars(Tick)
    /\ \A n \in Nodes :
          /\ WF_cronDone(CronRan(n))
          /\ WF_vars(UpdateLeaderCheck(n))
          /\ WF_vars(DnsWrite(n))

FairSpec == Spec /\ Fairness

(***************************************************************************)
(* Properties.                                                             *)
(***************************************************************************)
Entry == [a : Nodes, jt : Nat \ {0}, st : Status, t : Nat \ {0}]

TypeOK ==
    /\ up \in [Nodes -> BOOLEAN]
    /\ me \in [Nodes -> [jt : Nat, st : Status, t : Nat]]
    /\ inRing \in [Nodes -> BOOLEAN]
    /\ \A n \in Nodes : \A e \in others[n] : e \in Entry
    /\ \A n \in Nodes : DOMAIN pool[n] \subseteq Nodes
                        /\ \A a \in DOMAIN pool[n] : pool[n][a] \in 0..ExpireRounds
    /\ cronDone \in [Nodes -> BOOLEAN]
    /\ upd \in [Nodes -> SUBSET {"check", "write"}]
    /\ dns \in Nodes \cup {NoNode}
    /\ faults \in 0..MaxFaults

\* The ExpirationPool invariant of the spec (section 3): at a running
\* process in the ring, an address is in the pool exactly when a listed
\* process at it is not Alive.  OnPing, OnFailure and RecyclePool each
\* update the list and the pool separately, keyed differently: the list by
\* (address, joinTime), the pool by address.
PoolTracksSuspects ==
    \A n \in Nodes : Reachable(n) =>
        /\ \A e \in others[n] : e.st # "Alive" => e.a \in DOMAIN pool[n]
        /\ \A a \in DOMAIN pool[n] : \E e \in others[n] : e.a = a /\ e.st # "Alive"

InRingUp == {n \in Nodes : up[n] /\ inRing[n]}

Ids(n) == {Id(e) : e \in List(n)}

\* Ring convergence (spec section 8.1): once faults stop, every running
\* process in the ring ends up listing the same processes, for good, so
\* that they agree on which one sorts first (the leader).
RingConverges == <>[](\A m, n \in InRingUp : Ids(m) = Ids(n))

\* An entry is stale when no process with its identity is running and
\* answering at its address any more.
Stale(e) == ~(Reachable(e.a) /\ e.jt = me[e.a].jt)

\* Failure detection (spec section 8.2): a process that crashed or left is
\* eventually removed from every list, for good.  For a crash this takes
\* a chain of steps at several processes: a ping timeout (OnFailure) at a
\* predecessor, the Timeout entry gossiped to the others, whose OnPing
\* must not revive it from an older Alive copy, and RecyclePool at each
\* once the deadline passes.  With a restart at the same address it fails
\* like RingConverges (event.go:97).
StaleForgotten == <>[](\A n \in Nodes : up[n] => \A e \in others[n] : ~Stale(e))

\* Leader directory (spec section 4.A/4.B): eventually, for good, the DNS
\* names the process that sorts first in its own list.  UpdateLeader runs
\* only after an INSERT or DELETE at the process that becomes first.
DnsNamesLeader == <>[](\A n \in InRingUp : IsLeaderView(n) => dns = n)

====
