------------------------------ MODULE Routing ------------------------------
(***************************************************************************)
(* Records find the leader of their partition: CreateTopic of the          *)
(* coordinator for a topic of several partitions (src/internal/            *)
(* coordinator/coordinator.go), the metadata that Raft replicates          *)
(* (src/internal/raft), the brokers' InitPartitions, Produce and restore   *)
(* (src/internal/broker/broker.go), and the Producer that caches what      *)
(* GetMetadata answers (src/internal/producer/producer.go), shared by the  *)
(* goroutines of a program (src/cmd/throughput/main.go).                   *)
(*                                                                         *)
(* Promotions are those of module Coordinator, one at a time and after the *)
(* topic was created; here they matter because they make cached metadata   *)
(* stale.                                                                  *)
(***************************************************************************)
EXTENDS Lists

CONSTANTS
  Broker,         \* brokers, by address
  Order,          \* coordinator.brokers: all of them, in the order of registration
  Caller,         \* calls of CreateTopic for the topic
  Main,           \* the call that the program makes before it routes
  Worker,         \* goroutines of the program, which share its Producer
  Hash,           \* Hash[w]: the hash of the key of w
  NumPartitions,  \* partitions asked for
  MaxPromotions,  \* bound: promotions
  MaxFaults       \* bound: crashes, commits and log files that fail, and brokers
                  \* taken for dead while a topic is created

ASSUME RoutingAssumption ==
  /\ Order \in Seq(Broker) /\ Broker = {Order[i] : i \in DOMAIN Order} /\ Broker # {}
  /\ Main \in Caller
  /\ Hash \in [Worker -> Nat]
  /\ NumPartitions \in Nat \ {0}
  /\ MaxPromotions \in Nat /\ MaxFaults \in Nat

Partitions == 0 .. NumPartitions - 1

\* A command of the Raft log: CmdAssign or CmdUpdateLeader.
Entry == [partition : Partitions, primary : Broker, epoch : Nat]

\* What metadata say of a partition.
PartitionInfo == [partition : Partitions, primary : Broker]

VARIABLES
  topics,     \* coordinator.topics has the topic
  rlog,       \* the commands that Raft has committed
  applied,    \* how many of them the coordinator asked for metadata has applied
  caller,     \* caller[c]: where a CreateTopic handler is
  calls,      \* AssignRole calls in flight
  up,         \* whether a broker's process runs
  open,       \* open[b][p]: the role of the partition on b, if b has it open
  epoch,      \* epoch[b][p]: its Partition.leaderEpoch, 0 until a role is assigned
  disk,       \* disk[b]: partitions with a directory on b
  metaCache,  \* Producer.metaCache of the topic, empty if there is none
  worker,     \* worker[w]: where a goroutine is in Route, and the metadata it uses
  promotions, faults

coordVars  == <<topics, rlog, applied, caller>>
brokerVars == <<calls, up, open, epoch, disk>>
clientVars == <<metaCache, worker>>
bounds     == <<promotions, faults>>
vars == <<coordVars, brokerVars, clientVars, bounds>>

\* A CreateTopic handler commits one partition after the other ("commit", next is
\* the one to commit), has them created on the primaries ("init") and the backups
\* ("backups"), broker by broker, and sends the roles of the leaders ("lead") and of
\* the followers ("follow").
CallerState == [pc : {"idle", "commit", "init", "backups", "lead", "follow",
                      "ok", "exists", "error"},
                next : 0 .. NumPartitions, todo : SUBSET Broker]

WorkerState == [pc : {"idle", "fetch", "store", "produce", "evict", "ok"},
                parts : Seq(PartitionInfo)]

AssignRole == [to : Broker, partition : Partitions, role : {"Leader", "Follower"}, epoch : Nat]

TypeOK ==
  /\ topics \in BOOLEAN
  /\ rlog \in Seq(Entry) /\ applied \in 0 .. Len(rlog)
  /\ caller \in [Caller -> CallerState]
  /\ calls \in SUBSET AssignRole
  /\ up \in [Broker -> BOOLEAN]
  /\ open \in [Broker -> [Partitions -> {"no", "Leader", "Follower"}]]
  /\ epoch \in [Broker -> [Partitions -> Nat]]
  /\ disk \in [Broker -> SUBSET Partitions]
  /\ \A b \in Broker : {p \in Partitions : open[b][p] # "no"} = IF up[b] THEN disk[b] ELSE {}
  /\ metaCache \in Seq(PartitionInfo)
  /\ worker \in [Worker -> WorkerState]
  /\ promotions \in 0 .. MaxPromotions
  /\ faults \in 0 .. MaxFaults

-----------------------------------------------------------------------------
(* The metadata.                                                           *)

\* FSM.state after the first n commands: for each partition the last one counts.
Known(n) == {rlog[i].partition : i \in 1 .. n}

State(n, p) ==
  rlog[CHOOSE i \in 1 .. n : /\ rlog[i].partition = p
                             /\ \A k \in i + 1 .. n : rlog[k].partition # p]

Primary(n, p) == State(n, p).primary

\* GetMetadata: the partitions of the FSM, sorted.
GetTopic(n) ==
  [i \in 1 .. Cardinality(Known(n)) |->
     [partition |-> Nth(Known(n), i), primary |-> Primary(n, Nth(Known(n), i))]]

\* The coordinator that the producer asks need not be the Raft leader.
ApplyEntry ==
  /\ applied < Len(rlog)
  /\ applied' = applied + 1
  /\ UNCHANGED <<topics, rlog, caller, brokerVars, clientVars, bounds>>

-----------------------------------------------------------------------------
(* CreateTopic.                                                            *)

Assignment(p) == Order[(p % Len(Order)) + 1]

CmdAssign(p) == [partition |-> p, primary |-> Assignment(p), epoch |-> 1]

\* The topic is entered in coordinator.topics before anything is committed, and
\* stays there.
CreateTopic(c) ==
  /\ caller[c].pc = "idle"
  /\ topics' = TRUE
  /\ caller' = [caller EXCEPT ![c].pc = IF topics THEN "exists" ELSE "commit"]
  /\ UNCHANGED <<rlog, applied, brokerVars, clientVars, bounds>>

CommitAssign(c) ==
  /\ caller[c].pc = "commit"
  /\ rlog' = Append(rlog, CmdAssign(caller[c].next))
  /\ caller' = [caller EXCEPT ![c] =
       IF @.next + 1 < NumPartitions THEN [pc |-> @.pc, next |-> @.next + 1, todo |-> @.todo]
       ELSE [pc |-> "init", next |-> NumPartitions, todo |-> Broker]]
  /\ UNCHANGED <<topics, applied, brokerVars, clientVars, bounds>>

\* Mutant: the handler goes on with the next partition.
CommitFailsGoesOn(c, late) ==
  /\ caller[c].pc = "commit" /\ faults < MaxFaults /\ faults' = faults + 1
  /\ rlog' = IF late THEN Append(rlog, CmdAssign(caller[c].next)) ELSE rlog
  /\ caller' = [caller EXCEPT ![c] =
       IF @.next + 1 < NumPartitions THEN [pc |-> @.pc, next |-> @.next + 1, todo |-> @.todo]
       ELSE [pc |-> "init", next |-> NumPartitions, todo |-> Broker]]
  /\ UNCHANGED <<topics, applied, brokerVars, clientVars, promotions>>

\* Raft's Apply returns an error, and so does CreateTopic; after a timeout the
\* command may be committed all the same.
CommitFails(c, late) ==
  /\ caller[c].pc = "commit" /\ faults < MaxFaults /\ faults' = faults + 1
  /\ rlog' = IF late THEN Append(rlog, CmdAssign(caller[c].next)) ELSE rlog
  /\ caller' = [caller EXCEPT ![c].pc = "error"]
  /\ UNCHANGED <<topics, applied, brokerVars, clientVars, promotions>>

\* The partitions that a broker is told of, by initPartitions and by
\* initBackupPartitions.
InitFor(b, backups) == {p \in Partitions : (Assignment(p) = b) # backups}

\* InitPartitions on b creates those it does not have; a broker that is down is
\* passed over.  If a log cannot be created those from stop on are not.
InitPartitions(c, b, stop) ==
  LET made == IF up[b] THEN {p \in InitFor(b, caller[c].pc = "backups") : p < stop} \ disk[b]
                       ELSE {}
  IN
  /\ caller[c].pc \in {"init", "backups"} /\ b \in caller[c].todo
  /\ IF stop = NumPartitions THEN UNCHANGED faults
     ELSE /\ up[b] /\ stop \in InitFor(b, caller[c].pc = "backups") \ disk[b]
          /\ faults < MaxFaults /\ faults' = faults + 1
  /\ open' = [open EXCEPT ![b] = [p \in Partitions |-> IF p \in made THEN "Leader" ELSE @[p]]]
  /\ disk' = [disk EXCEPT ![b] = @ \cup made]
  /\ caller' = [caller EXCEPT ![c] =
       IF @.todo # {b} THEN [pc |-> @.pc, next |-> @.next, todo |-> @.todo \ {b}]
       ELSE IF @.pc = "init" THEN [pc |-> "backups", next |-> @.next, todo |-> Broker]
       ELSE [pc |-> "lead", next |-> @.next, todo |-> {}]]
  /\ UNCHANGED <<topics, rlog, applied, calls, up, epoch, clientVars, promotions>>

\* Calls to brokers that are down fail.
Send(ms) == calls' = calls \cup {m \in ms : up[m.to]}

LeaderCalls(p, primary, e) ==
  {[to |-> primary, partition |-> p, role |-> "Leader", epoch |-> e]}

\* Backups that are not among those the coordinator takes for alive are passed over.
FollowerCalls(p, primary, e, alive) ==
  {[to |-> b, partition |-> p, role |-> "Follower", epoch |-> e] : b \in alive \ {primary}}

assignLeaderRoles(c) ==
  /\ caller[c].pc = "lead"
  /\ Send(UNION {LeaderCalls(p, Assignment(p), 1) : p \in Partitions})
  /\ caller' = [caller EXCEPT ![c].pc = "follow"]
  /\ UNCHANGED <<topics, rlog, applied, up, open, epoch, disk, clientVars, bounds>>

assignFollowerRoles(c, alive) ==
  /\ caller[c].pc = "follow" /\ calls = {}
  /\ IF {b \in Broker : up[b]} \subseteq alive THEN UNCHANGED faults
     ELSE faults < MaxFaults /\ faults' = faults + 1
  /\ Send(UNION {FollowerCalls(p, Assignment(p), 1, alive) : p \in Partitions})
  /\ caller' = [caller EXCEPT ![c].pc = "ok"]
  /\ UNCHANGED <<topics, rlog, applied, up, open, epoch, disk, clientVars, promotions>>

-----------------------------------------------------------------------------
(* Brokers.                                                                *)

\* Whether b has the partition; every handler starts with it.
getPartition(b, p) == open[b][p] # "no"

\* AssignRole; NotFound if the broker does not have the partition, and no effect if
\* the partition has a later epoch.
Deliver(m) ==
  LET taken == getPartition(m.to, m.partition) /\ m.epoch >= epoch[m.to][m.partition] IN
  /\ m \in calls
  /\ calls' = calls \ {m}
  /\ open' = IF taken THEN [open EXCEPT ![m.to][m.partition] = m.role] ELSE open
  /\ epoch' = IF taken THEN [epoch EXCEPT ![m.to][m.partition] = m.epoch] ELSE epoch
  /\ UNCHANGED <<coordVars, up, disk, clientVars, bounds>>

\* No CreateTopic is under way, and the roles of the last promotion were taken.
Quiet == calls = {} /\ \A c \in Caller : caller[c].pc \in {"idle", "ok", "exists", "error"}

\* UpdatePartitionLeader: b replaces the primary, which the coordinator takes for
\* dead and passes over; or does not, if a follower has reported it unreachable and
\* its last heartbeat is late but not too late (ReportLeaderUnreachable).
Promote(p, b, alive) ==
  LET e == State(Len(rlog), p).epoch + 1 IN
  /\ Quiet /\ promotions < MaxPromotions /\ p \in Known(Len(rlog))
  /\ b # Primary(Len(rlog), p) /\ b \in alive
  /\ rlog' = Append(rlog, [partition |-> p, primary |-> b, epoch |-> e])
  /\ Send(LeaderCalls(p, b, e) \cup FollowerCalls(p, b, e, alive))
  /\ promotions' = promotions + 1
  /\ UNCHANGED <<topics, applied, caller, up, open, epoch, disk, clientVars, faults>>

Crash(b) ==
  /\ up[b] /\ faults < MaxFaults
  /\ up' = [up EXCEPT ![b] = FALSE]
  /\ open' = [open EXCEPT ![b] = [p \in Partitions |-> "no"]]
  /\ epoch' = [epoch EXCEPT ![b] = [p \in Partitions |-> 0]]
  /\ calls' = {m \in calls : m.to # b}
  /\ faults' = faults + 1
  /\ UNCHANGED <<coordVars, disk, clientVars, promotions>>

\* Mutant: the partitions are opened by the first call that needs them.
restoreNothing(b) ==
  /\ ~up[b]
  /\ up' = [up EXCEPT ![b] = TRUE]
  /\ UNCHANGED <<coordVars, calls, open, epoch, disk, clientVars, bounds>>

\* The broker opens the partitions it has a directory of, each as a leader with
\* epoch 0.
restore(b) ==
  /\ ~up[b]
  /\ up' = [up EXCEPT ![b] = TRUE]
  /\ open' = [open EXCEPT ![b] = [p \in Partitions |-> IF p \in disk[b] THEN "Leader" ELSE "no"]]
  /\ UNCHANGED <<coordVars, calls, epoch, disk, clientVars, bounds>>

\* A heartbeat of b, which was taken for dead: the backups of what b is a backup of
\* are sent the role of a follower with epoch 0, which only a partition that was
\* assigned no role since its broker started takes.
rejoinReturningBroker(b, alive) ==
  /\ up[b] /\ b \in alive /\ Quiet
  /\ Send(UNION {FollowerCalls(p, Primary(Len(rlog), p), 0, alive) :
                   p \in {q \in Known(Len(rlog)) : Primary(Len(rlog), q) # b}})
  /\ UNCHANGED <<coordVars, up, open, epoch, disk, clientVars, bounds>>

-----------------------------------------------------------------------------
(* Producer.Route.                                                         *)

partitionForKey(w, n) == IF n <= 1 THEN 0 ELSE Hash[w] % n

Idle == [pc |-> "idle", parts |-> <<>>]

\* The program routes once ensureTopic has returned, which takes AlreadyExists for
\* success.
ensureTopic == caller[Main].pc \in {"ok", "exists"}

\* metadata: the cached ones, or a call.
Route(w) ==
  /\ ensureTopic
  /\ worker[w].pc \in {"idle", "ok"}
  /\ worker' = [worker EXCEPT ![w] =
       IF metaCache # <<>> THEN [pc |-> "produce", parts |-> metaCache]
                           ELSE [pc |-> "fetch", parts |-> <<>>]]
  /\ UNCHANGED <<coordVars, brokerVars, metaCache, bounds>>

\* An error, NotFound if nothing is known of the topic yet, is returned to the
\* goroutine, which tries again.
GetMetadata(w) ==
  /\ worker[w].pc = "fetch"
  /\ worker' = [worker EXCEPT ![w] =
       IF applied = 0 THEN Idle ELSE [pc |-> "store", parts |-> GetTopic(applied)]]
  /\ UNCHANGED <<coordVars, brokerVars, metaCache, bounds>>

\* The answer is cached, over whatever another goroutine has cached meanwhile.
StoreMetadata(w) ==
  /\ worker[w].pc = "store"
  /\ metaCache' = worker[w].parts
  /\ worker' = [worker EXCEPT ![w].pc = "produce"]
  /\ UNCHANGED <<coordVars, brokerVars, bounds>>

\* The partition of the key, and the element of parts at that index.
Chosen(w) == partitionForKey(w, Len(worker[w].parts))

\* Mutant: the first broker of the metadata is called for every partition.
OwnerFirst(w) == worker[w].parts[1].primary

\* brokerClient dials the broker or has a client of it; either way the connection
\* is established when the call is made.
Owner(w) == worker[w].parts[Chosen(w) + 1].primary

\* What Produce answers on the broker; on a leader the record is appended.
Answer(b, p) ==
  IF ~up[b] THEN "Unavailable"
  ELSE IF ~getPartition(b, p) THEN "NotFound"
  ELSE IF open[b][p] = "Leader" THEN "OK" ELSE "FailedPrecondition"

\* The call of Produce, and what Route makes of the answer; NotFound leaves the
\* cache alone.
Produce(w) ==
  LET answer == Answer(Owner(w), Chosen(w)) IN
  /\ worker[w].pc = "produce"
  /\ \/ /\ answer \in {"Unavailable", "FailedPrecondition"}
        /\ worker' = [worker EXCEPT ![w].pc = "evict"]
     \/ /\ answer = "NotFound"
        /\ worker' = [worker EXCEPT ![w] = Idle]
     \/ /\ answer = "OK"
        /\ worker' = [worker EXCEPT ![w] = [pc |-> "ok", parts |-> <<>>]]
  /\ UNCHANGED <<coordVars, brokerVars, metaCache, bounds>>

\* Mutant: the metadata are kept, and the goroutine tries the same broker again.
EvictNothing(w) ==
  /\ worker[w].pc = "evict"
  /\ worker' = [worker EXCEPT ![w].pc = "produce"]
  /\ UNCHANGED <<coordVars, brokerVars, metaCache, bounds>>

\* The metadata are evicted.
Evict(w) ==
  /\ worker[w].pc = "evict"
  /\ metaCache' = <<>>
  /\ worker' = [worker EXCEPT ![w] = Idle]
  /\ UNCHANGED <<coordVars, brokerVars, bounds>>

-----------------------------------------------------------------------------
Init ==
  /\ topics = FALSE
  /\ rlog = <<>> /\ applied = 0
  /\ caller = [c \in Caller |-> [pc |-> "idle", next |-> 0, todo |-> {}]]
  /\ calls = {}
  /\ up = [b \in Broker |-> TRUE]
  /\ open = [b \in Broker |-> [p \in Partitions |-> "no"]]
  /\ epoch = [b \in Broker |-> [p \in Partitions |-> 0]]
  /\ disk = [b \in Broker |-> {}]
  /\ metaCache = <<>>
  /\ worker = [w \in Worker |-> Idle]
  /\ promotions = 0 /\ faults = 0

CreateStep(c) ==
  \/ CommitAssign(c)
  \/ \E b \in Broker : InitPartitions(c, b, NumPartitions)
  \/ assignLeaderRoles(c)
  \/ \E alive \in SUBSET Broker : assignFollowerRoles(c, alive)

WorkerStep(w) ==
  \/ Route(w)
  \/ GetMetadata(w)
  \/ StoreMetadata(w)
  \/ Produce(w)
  \/ Evict(w)

Next ==
  \/ ApplyEntry
  \/ \E c \in Caller : CreateTopic(c)
  \/ \E c \in Caller : CreateStep(c)
  \/ \E c \in Caller, late \in BOOLEAN : CommitFails(c, late)
  \/ \E c \in Caller, b \in Broker, stop \in Partitions : InitPartitions(c, b, stop)
  \/ \E m \in calls : Deliver(m)
  \/ \E p \in Partitions, b \in Broker, alive \in SUBSET Broker : Promote(p, b, alive)
  \/ \E b \in Broker : Crash(b)
  \/ \E b \in Broker : restore(b)
  \/ \E b \in Broker, alive \in SUBSET Broker : rejoinReturningBroker(b, alive)
  \/ \E w \in Worker : WorkerStep(w)

Spec == Init /\ [][Next]_vars

\* Goroutines run, the coordinators apply what is committed, calls are executed.
Fairness ==
  /\ \A w \in Worker : WF_vars(WorkerStep(w))
  /\ WF_vars(ApplyEntry)
  /\ WF_vars(\E m \in calls : Deliver(m))

FairSpec == Spec /\ Fairness

-----------------------------------------------------------------------------
(* Properties.                                                             *)

\* Route indexes the metadata with the number of the partition (producer.go:110-111):
\* whatever commits fail, and however far the coordinator has applied them, the
\* element at that index is that partition (coordinator.go:269-280, 302-311).
MetadataIndexed ==
  /\ \A i \in DOMAIN metaCache : metaCache[i].partition = i - 1
  /\ \A w \in Worker : \A i \in DOMAIN worker[w].parts : worker[w].parts[i].partition = i - 1

\* A record is acknowledged only by a broker that the committed metadata have named
\* as the primary of its partition, although every broker opens a partition as a
\* leader, and the metadata in use may be stale (producer.go:104-135,
\* broker.go:216-268, coordinator.go:268-289).
AckedByNamedPrimary ==
  [][\A w \in Worker : worker[w].pc = "produce" /\ worker'[w].pc = "ok" =>
       \E i \in DOMAIN rlog : rlog[i].partition = Chosen(w) /\ rlog[i].primary = Owner(w)]_vars

\* The primaries of what the topic has are up and lead, everywhere known.
Settled ==
  /\ applied = Len(rlog) /\ applied > 0 /\ calls = {}
  /\ ensureTopic
  /\ \A p \in Known(applied) :
       up[Primary(applied, p)] /\ open[Primary(applied, p)][p] = "Leader"

\* The partition of the key of w, and its broker, by the cached metadata.
CachedPartition(w) == partitionForKey(w, Len(metaCache))

CachedOwner(w) == metaCache[CachedPartition(w) + 1].primary

\* The cached metadata send w to a broker that is up and has no such partition.
NotFoundAt(w) == metaCache # <<>> /\ Answer(CachedOwner(w), CachedPartition(w)) = "NotFound"

\* They send w to a broker that is no longer the primary and still leads: the
\* promotion passed it over and its epoch is above that of a rejoin, or it was
\* restarted and nobody noticed.
StillLeadsAt(w) ==
  /\ metaCache # <<>> /\ Answer(CachedOwner(w), CachedPartition(w)) = "OK"
  /\ CachedOwner(w) # Primary(Len(rlog), CachedPartition(w))

\* The record of w is acknowledged by the primary of its partition.
Reaches(w) ==
  /\ worker[w].pc = "produce" /\ worker'[w].pc = "ok"
  /\ Owner(w) = Primary(Len(rlog), Chosen(w))

\* A goroutine that routes again and again has its records acknowledged by the
\* primary of the partition once leadership has settled: stale metadata are
\* evicted, even if another goroutine puts them back.  There are two exceptions:
\* a broker on which the partition could not be created, since NotFound evicts
\* nothing, and a broker that was replaced and still leads, since it acknowledges
\* (producer.go:121-133, 145-162; coordinator.go:533, 725; partition.go:137).
RetryReachesLeader ==
  \A w \in Worker :
    <>[]Settled => []<><<Reaches(w)>>_vars \/ []<>NotFoundAt(w) \/ []<>StillLeadsAt(w)

\* The second exception is real: without it the property is violated.  What a
\* replaced broker acknowledges is not replicated.
RetryReachesPrimary ==
  \A w \in Worker : <>[]Settled => []<><<Reaches(w)>>_vars \/ []<>NotFoundAt(w)

\* "Messages are hash-routed by key to the partition owner" (README.md:104): all
\* records of a key go to one partition.
KeyKeepsPartition ==
  \A v, w \in Worker :
    worker[v].pc = "produce" /\ worker[w].pc = "produce" /\ Hash[v] = Hash[w] =>
      Chosen(v) = Chosen(w)

=============================================================================
