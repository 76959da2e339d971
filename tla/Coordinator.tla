---------------------------- MODULE Coordinator ----------------------------
(***************************************************************************)
(* Leadership of one partition: the coordinator that is the Raft leader    *)
(* (src/internal/coordinator/coordinator.go), the metadata it commits      *)
(* through Raft (src/internal/raft/fsm.go), and the brokers that send it   *)
(* heartbeats and execute its AssignRole calls.                            *)
(*                                                                         *)
(* Three kinds of goroutine promote a leader, here the jobs: CreateTopic,  *)
(* the failover loop, and one goroutine for each ReportLeaderUnreachable.  *)
(* They share the FSM and hold no lock from reading it to committing.      *)
(* They wait for the AssignRole calls they make, but only one or two       *)
(* seconds: a call may be lost or executed late, and is never repeated.    *)
(***************************************************************************)
EXTENDS Lists

CONSTANTS
  Broker,      \* brokers; an identifier stands for the ID and the address
  NoBroker,    \* no address
  Reporter,    \* goroutines that ReportLeaderUnreachable ever starts
  MaxLEO,      \* bound: log end offset of a replica
  MaxEpoch,    \* bound: leader epoch
  MaxOutages,  \* bound: crashes, and silences of a running broker
  MaxLost      \* bound: AssignRole calls that fail or time out, failed commits

ASSUME CoordinatorAssumption ==
  /\ NoBroker \notin Broker
  /\ {"loop", "create", "none"} \cap Reporter = {}
  /\ MaxLEO \in Nat /\ MaxEpoch \in Nat /\ MaxOutages \in Nat /\ MaxLost \in Nat

Job == {"loop", "create"} \cup Reporter

VARIABLES
  brokers,    \* coordinator.brokers, in the order of registration
  topics,     \* coordinator.topics: the partition's BrokerAddr, if it exists
  fsm,        \* FSM.state of the partition; its epoch is 0 while it is absent
  seen,       \* lastSeen: none, within deadAfter ("heard"), or older ("dead")
  brokerLEO,  \* coordinator.brokerLEO
  job,        \* job[j]: where a goroutine is, and its locals
  calls,      \* AssignRole calls in flight
  up,         \* whether the broker's process runs
  part,       \* part[b]: the partition on broker b
  outages, lost,
  elected,    \* history: the <<epoch, primary>> pairs committed
  overlapped  \* history: two promotions overlapped between read and commit

coordVars  == <<brokers, topics, fsm, seen, brokerLEO, job>>
brokerVars == <<up, part>>
history    == <<elected, overlapped>>
vars == <<coordVars, brokerVars, history, calls, outages, lost>>

PartitionState == [primary : Broker \cup {NoBroker}, backups : Seq(Broker), epoch : Nat]

\* A job is at rest, chooses the next broker of todo ("scan"), picks a backup,
\* reads the FSM, commits, creates the partition on the primary ("init") and on
\* the backups ("initBackups"), sends the roles to the leader ("lead") and then to
\* the followers ("follow"), and waits for these ("wait").  The loop starts in its
\* grace period.
JobState == [pc : {"idle", "grace", "scan", "pick", "read", "commit", "init",
                   "initBackups", "lead", "follow", "wait", "done"},
             todo : SUBSET Broker, target : Broker \cup {NoBroker},
             backups : Seq(Broker), epoch : Nat]

Partition == [exists : BOOLEAN, role : {"Leader", "Follower"}, epoch : Nat,
              leader : Broker \cup {NoBroker}]

\* by is the job that waits for the call, "none" if none does.
AssignRole == [to : Broker, role : {"Leader", "Follower"}, epoch : Nat, leader : Broker,
               by : Job \cup {"none"}]

TypeOK ==
  /\ brokers \in Seq(Broker)
  /\ topics \in Broker \cup {NoBroker}
  /\ fsm \in PartitionState
  /\ seen \in [Broker -> {"never", "heard", "dead"}]
  /\ brokerLEO \in [Broker -> 0 .. MaxLEO]
  /\ job \in [Job -> JobState]
  /\ calls \in SUBSET AssignRole
  /\ up \in [Broker -> BOOLEAN]
  /\ part \in [Broker -> Partition]
  /\ outages \in 0 .. MaxOutages /\ lost \in 0 .. MaxLost
  /\ elected \in SUBSET (Nat \X Broker)
  /\ overlapped \in BOOLEAN

Rest(pc) == [pc |-> pc, todo |-> {}, target |-> NoBroker, backups |-> <<>>, epoch |-> 0]

\* A failover goes on to the next broker; after the last one the loop sleeps until
\* its next tick, another goroutine ends.
Resume(j, todo) ==
  IF todo # {} THEN [Rest("scan") EXCEPT !.todo = todo]
  ELSE Rest(IF j = "loop" THEN "idle" ELSE "done")

Registered == {brokers[i] : i \in DOMAIN brokers}

\* The FSM knows the partition: Get, GetTopic and AllTopics find it.
Committed == fsm.epoch > 0

-----------------------------------------------------------------------------
(* Brokers and heartbeats.                                                 *)

RegisterBroker(b) ==
  /\ up[b] /\ b \notin Registered
  /\ brokers' = Append(brokers, b)
  /\ UNCHANGED <<topics, fsm, seen, brokerLEO, job, brokerVars, history, calls, outages, lost>>

\* deadAfter passes since the last heartbeat of b.
Age(b) ==
  /\ seen[b] = "heard"
  /\ seen' = [seen EXCEPT ![b] = "dead"]
  /\ IF up[b] THEN outages < MaxOutages /\ outages' = outages + 1 ELSE UNCHANGED outages
  /\ UNCHANGED <<brokers, topics, fsm, brokerLEO, job, brokerVars, history, calls, lost>>

\* Before the first heartbeat of all, every broker counts as alive.
brokerAlive(s, b) == s[b] = "heard" \/ \A c \in Broker : s[c] = "never"

\* The process ends: its roles, and the calls it has not executed, are gone.
Crash(b) ==
  /\ up[b] /\ outages < MaxOutages
  /\ up' = [up EXCEPT ![b] = FALSE]
  /\ part' = [part EXCEPT ![b].role = "Leader", ![b].epoch = 0, ![b].leader = NoBroker]
  /\ calls' = {m \in calls : m.to # b}
  /\ outages' = outages + 1
  /\ UNCHANGED <<coordVars, history, lost>>

\* restore opens the partition's log again, in the role newPartition gives it.
Restart(b) ==
  /\ ~up[b]
  /\ up' = [up EXCEPT ![b] = TRUE]
  /\ UNCHANGED <<coordVars, part, history, calls, outages, lost>>

\* BecomeLeader or BecomeFollower; a partition that was never created is NotFound.
Deliver(m) ==
  /\ m \in calls
  /\ calls' = calls \ {m}
  /\ part' = IF part[m.to].exists /\ m.epoch >= part[m.to].epoch
             THEN [part EXCEPT ![m.to] = [exists |-> TRUE, role |-> m.role, epoch |-> m.epoch,
                     leader |-> IF m.role = "Follower" THEN m.leader ELSE @.leader]]
             ELSE part
  /\ UNCHANGED <<coordVars, up, history, outages, lost>>

Lose(m) ==
  /\ m \in calls /\ lost < MaxLost
  /\ calls' = calls \ {m}
  /\ lost' = lost + 1
  /\ UNCHANGED <<coordVars, brokerVars, history, outages>>

\* The caller's context expires; the broker executes the call all the same.
TimeOut(m) ==
  /\ m \in calls /\ m.by # "none" /\ lost < MaxLost
  /\ calls' = (calls \ {m}) \cup {[m EXCEPT !.by = "none"]}
  /\ lost' = lost + 1
  /\ UNCHANGED <<coordVars, brokerVars, history, outages>>

-----------------------------------------------------------------------------
(* Sending the roles.                                                      *)

\* A call to a broker that is down fails at once.
Send(ms) == calls' = calls \cup {m \in ms : up[m.to]}

Waiting(j) == \E m \in calls : m.by = j

LeaderCall(p, e, j) == {[to |-> p, role |-> "Leader", epoch |-> e, leader |-> p, by |-> j]}

\* assignFollowerRoles: backups that are known to be dead are skipped.
FollowerCalls(p, backups, e, s, j) ==
  {[to |-> backups[i], role |-> "Follower", epoch |-> e, leader |-> p, by |-> j] :
     i \in {k \in DOMAIN backups : brokerAlive(s, backups[k])}}

\* The calls rejoinReturningBroker makes: the backups of the partition are sent
\* their role again, with epoch 0, if the returning broker is one of them.
RejoinCalls(b, s) ==
  IF Committed /\ \E i \in DOMAIN fsm.backups : fsm.backups[i] = b
  THEN FollowerCalls(fsm.primary, fsm.backups, 0, s, "none")
  ELSE {}

\* The broker runs its heartbeat loop, which it starts after it has registered.
HeartbeatLoop(b) == up[b] /\ b \in Registered

\* What the broker reports: its log end, if it has the partition.
buildPartitionLEOs(b, leo) == IF part[b].exists THEN leo ELSE brokerLEO[b]

Heartbeat(b, leo) ==
  /\ HeartbeatLoop(b)
  /\ seen' = [seen EXCEPT ![b] = "heard"]
  /\ brokerLEO' = [brokerLEO EXCEPT ![b] = buildPartitionLEOs(b, leo)]
  /\ Send(IF seen[b] = "dead" THEN RejoinCalls(b, seen') ELSE {})
  /\ UNCHANGED <<brokers, topics, fsm, job, brokerVars, history, outages, lost>>

-----------------------------------------------------------------------------
(* CreateTopic.                                                            *)

selectBackups(primary) == Kept(brokers, Broker \ {primary})

\* All that happens under coordinator.mu: the first broker leads partition 0.
CreateTopic ==
  /\ job["create"].pc = "idle"
  /\ topics = NoBroker /\ brokers # <<>>
  /\ topics' = Head(brokers)
  /\ job' = [job EXCEPT !["create"] = [Rest("commit") EXCEPT
       !.target = Head(brokers), !.backups = selectBackups(Head(brokers)), !.epoch = 1]]
  /\ UNCHANGED <<brokers, fsm, seen, brokerLEO, brokerVars, history, calls, outages, lost>>

\* CmdAssign.
CreateCommit ==
  /\ job["create"].pc = "commit"
  /\ fsm' = [primary |-> job["create"].target, backups |-> job["create"].backups,
             epoch |-> job["create"].epoch]
  /\ elected' = elected \cup {<<job["create"].epoch, job["create"].target>>}
  /\ job' = [job EXCEPT !["create"].pc = "init"]
  /\ UNCHANGED <<brokers, topics, seen, brokerLEO, brokerVars, overlapped, calls, outages, lost>>

\* The calls that reach a broker create the partition there; errors are ignored.
InitPartitions(created) ==
  /\ \A b \in created : up[b]
  /\ part' = [b \in Broker |-> IF b \in created THEN [part[b] EXCEPT !.exists = TRUE]
                                                ELSE part[b]]
  /\ UNCHANGED <<brokers, topics, fsm, seen, brokerLEO, up, history, calls, outages, lost>>

initPartitions(created) ==
  /\ job["create"].pc = "init"
  /\ created \subseteq {job["create"].target}
  /\ InitPartitions(created)
  /\ job' = [job EXCEPT !["create"].pc = "initBackups"]

initBackupPartitions(created) ==
  /\ job["create"].pc = "initBackups"
  /\ created \subseteq {job["create"].backups[i] : i \in DOMAIN job["create"].backups}
  /\ InitPartitions(created)
  /\ job' = [job EXCEPT !["create"].pc = "lead"]

-----------------------------------------------------------------------------
(* Failover.                                                               *)

\* The loop's first tick as the leader, and those of the grace period.
GraceOver ==
  /\ job["loop"].pc = "grace"
  /\ job' = [job EXCEPT !["loop"] = Rest("idle")]
  /\ UNCHANGED <<brokers, topics, fsm, seen, brokerLEO, brokerVars, history, calls, outages, lost>>

\* A tick: brokers silent for deadAfter, and those that never sent a heartbeat.
FailoverTick ==
  /\ job["loop"].pc = "idle"
  /\ LET dead == {b \in Broker : seen[b] = "dead"} \cup
                 {b \in Registered : seen[b] = "never"}
     IN  /\ dead # {}
         /\ job' = [job EXCEPT !["loop"] = [Rest("scan") EXCEPT !.todo = dead]]
  /\ UNCHANGED <<brokers, topics, fsm, seen, brokerLEO, brokerVars, history, calls, outages, lost>>

\* The replication stream of follower b breaks.
reportLeaderUnreachable(b) == up[b] /\ part[b].role = "Follower"

\* The leader b was told of counts as stale after 2 ticks without a heartbeat,
\* which may also happen to a broker that is within deadAfter ("heard").
ReportLeaderUnreachable(r, b) ==
  /\ job[r].pc = "idle"
  /\ reportLeaderUnreachable(b) /\ part[b].leader \in Registered
  /\ job' = [job EXCEPT ![r] = [Rest("scan") EXCEPT !.todo = {part[b].leader}]]
  /\ UNCHANGED <<brokers, topics, fsm, seen, brokerLEO, brokerVars, history, calls, outages, lost>>

\* failOverBrokerPartitions of broker d reads the FSM.
failOverBrokerPartitions(j, d) ==
  /\ job[j].pc = "scan" /\ d \in job[j].todo
  /\ job' = [job EXCEPT ![j] =
       IF Committed /\ fsm.primary = d
       THEN [pc |-> "pick", todo |-> @.todo \ {d}, target |-> @.target,
             backups |-> fsm.backups, epoch |-> @.epoch]
       ELSE Resume(j, @.todo \ {d})]
  /\ UNCHANGED <<brokers, topics, fsm, seen, brokerLEO, brokerVars, history, calls, outages, lost>>

\* The first of the backups heard from with the highest LEO reported.
Best(backups, i) ==
  /\ seen[backups[i]] = "heard"
  /\ \A k \in DOMAIN backups : seen[backups[k]] = "heard" =>
       \/ brokerLEO[backups[i]] > brokerLEO[backups[k]]
       \/ brokerLEO[backups[i]] = brokerLEO[backups[k]] /\ i <= k

\* Mutant: the empty address is promoted when no backup is alive.
pickNewLeaderUnchecked(j) ==
  /\ job[j].pc = "pick"
  /\ \/ \E i \in DOMAIN job[j].backups :
          /\ Best(job[j].backups, i)
          /\ job' = [job EXCEPT ![j] =
               [pc |-> "read", todo |-> @.todo, target |-> @.backups[i],
                backups |-> <<>>, epoch |-> @.epoch]]
     \/ /\ \A i \in DOMAIN job[j].backups : seen[job[j].backups[i]] # "heard"
        /\ job' = [job EXCEPT ![j].pc = "read", ![j].backups = <<>>]
  /\ UNCHANGED <<brokers, topics, fsm, seen, brokerLEO, brokerVars, history, calls, outages, lost>>

pickNewLeader(j) ==
  /\ job[j].pc = "pick"
  /\ \/ \E i \in DOMAIN job[j].backups :
          /\ Best(job[j].backups, i)
          /\ job' = [job EXCEPT ![j] =
               [pc |-> "read", todo |-> @.todo, target |-> @.backups[i],
                backups |-> <<>>, epoch |-> @.epoch]]
     \/ /\ \A i \in DOMAIN job[j].backups : seen[job[j].backups[i]] # "heard"
        /\ job' = [job EXCEPT ![j] = Resume(j, @.todo)]
  /\ UNCHANGED <<brokers, topics, fsm, seen, brokerLEO, brokerVars, history, calls, outages, lost>>

\* Mutant: the old primary is forgotten.
BackupsForget(p) == Kept(fsm.backups, Broker \ {p})

\* The backups when p is promoted: the others, and the old primary last.
BackupsWithout(p) == Kept(Append(fsm.backups, fsm.primary), Broker \ {p})

\* Mutant: the epoch is not incremented.
UpdateReadSameEpoch(j) ==
  /\ job[j].pc = "read" /\ fsm.epoch < MaxEpoch
  /\ job' = [job EXCEPT ![j].pc = "commit", ![j].epoch = fsm.epoch,
                        ![j].backups = BackupsWithout(job[j].target)]
  /\ overlapped' = (overlapped \/ \E k \in Job : k # j /\ job[k].pc = "commit")
  /\ UNCHANGED <<brokers, topics, fsm, seen, brokerLEO, brokerVars, elected, calls, outages, lost>>

\* UpdatePartitionLeader reads the FSM ...
UpdateRead(j) ==
  /\ job[j].pc = "read" /\ fsm.epoch < MaxEpoch
  /\ job' = [job EXCEPT ![j] =
       [pc |-> "commit", todo |-> @.todo, target |-> @.target,
        backups |-> BackupsWithout(@.target), epoch |-> fsm.epoch + 1]]
  /\ overlapped' = (overlapped \/ \E k \in Job : k # j /\ job[k].pc = "commit")
  /\ UNCHANGED <<brokers, topics, fsm, seen, brokerLEO, brokerVars, elected, calls, outages, lost>>

\* ... and commits CmdUpdateLeader, which FSM.Apply applies whatever its epoch.
UpdateCommit(j) ==
  /\ j # "create" /\ job[j].pc = "commit"
  /\ fsm' = [primary |-> job[j].target, backups |-> job[j].backups, epoch |-> job[j].epoch]
  /\ elected' = elected \cup {<<job[j].epoch, job[j].target>>}
  /\ job' = [job EXCEPT ![j].pc = "lead"]
  /\ UNCHANGED <<brokers, topics, seen, brokerLEO, brokerVars, overlapped, calls, outages, lost>>

\* Mutant: the error is not looked at.
ApplyErrorIgnored(j) ==
  /\ job[j].pc = "commit" /\ lost < MaxLost
  /\ lost' = lost + 1
  /\ job' = [job EXCEPT ![j].pc = IF j = "create" THEN "init" ELSE "lead"]
  /\ UNCHANGED <<brokers, topics, fsm, seen, brokerLEO, brokerVars, history, calls, outages>>

\* Mutant: the error ends the goroutine, the loop too.
ApplyErrorEndsLoop(j) ==
  /\ job[j].pc = "commit" /\ lost < MaxLost
  /\ lost' = lost + 1
  /\ job' = [job EXCEPT ![j] = Rest("done")]
  /\ UNCHANGED <<brokers, topics, fsm, seen, brokerLEO, brokerVars, history, calls, outages>>

\* Raft's Apply returns an error: CreateTopic returns, a failover goes on to the
\* next broker.
ApplyFails(j) ==
  /\ job[j].pc = "commit" /\ lost < MaxLost
  /\ lost' = lost + 1
  /\ job' = [job EXCEPT ![j] = Resume(j, @.todo)]
  /\ UNCHANGED <<brokers, topics, fsm, seen, brokerLEO, brokerVars, history, calls, outages>>

\* coordinator.topics is updated by UpdatePartitionLeader alone.
assignLeaderRoles(j) ==
  /\ job[j].pc = "lead"
  /\ topics' = IF j = "create" THEN topics ELSE job[j].target
  /\ Send(LeaderCall(job[j].target, job[j].epoch, j))
  /\ job' = [job EXCEPT ![j].pc = "follow"]
  /\ UNCHANGED <<brokers, fsm, seen, brokerLEO, brokerVars, history, outages, lost>>

assignFollowerRoles(j) ==
  /\ job[j].pc = "follow" /\ ~Waiting(j)
  /\ Send(FollowerCalls(job[j].target, job[j].backups, job[j].epoch, seen, j))
  /\ job' = [job EXCEPT ![j] = [Rest("wait") EXCEPT !.todo = job[j].todo]]
  /\ UNCHANGED <<brokers, topics, fsm, seen, brokerLEO, brokerVars, history, outages, lost>>

\* The context of a report is done when its handler has returned: from then on the
\* goroutine's calls fail at once, while what it has committed stays.
ContextDone(r) ==
  /\ job[r].pc \in {"lead", "follow", "wait"}
  /\ topics' = IF job[r].pc = "lead" THEN job[r].target ELSE topics
  /\ job' = [job EXCEPT ![r] = Resume(r, @.todo)]
  /\ UNCHANGED <<brokers, fsm, seen, brokerLEO, brokerVars, history, calls, outages, lost>>

RolesAssigned(j) ==
  /\ job[j].pc = "wait" /\ ~Waiting(j)
  /\ job' = [job EXCEPT ![j] = Resume(j, @.todo)]
  /\ UNCHANGED <<brokers, topics, fsm, seen, brokerLEO, brokerVars, history, calls, outages, lost>>

-----------------------------------------------------------------------------
Init ==
  /\ brokers = <<>>
  /\ topics = NoBroker
  /\ fsm = [primary |-> NoBroker, backups |-> <<>>, epoch |-> 0]
  /\ seen = [b \in Broker |-> "never"]
  /\ brokerLEO = [b \in Broker |-> 0]
  /\ job = [j \in Job |-> Rest(IF j = "loop" THEN "grace" ELSE "idle")]
  /\ calls = {}
  /\ up = [b \in Broker |-> TRUE]
  /\ part = [b \in Broker |-> [exists |-> FALSE, role |-> "Leader", epoch |-> 0,
                               leader |-> NoBroker]]
  /\ outages = 0 /\ lost = 0
  /\ elected = {}
  /\ overlapped = FALSE

JobStep(j) ==
  \/ \E d \in Broker : failOverBrokerPartitions(j, d)
  \/ pickNewLeader(j)
  \/ UpdateRead(j)
  \/ UpdateCommit(j)
  \/ assignLeaderRoles(j)
  \/ assignFollowerRoles(j)
  \/ RolesAssigned(j)

CreateStep ==
  \/ CreateCommit
  \/ \E created \in SUBSET Broker : initPartitions(created)
  \/ \E created \in SUBSET Broker : initBackupPartitions(created)

LoopStep == GraceOver \/ FailoverTick

Next ==
  \/ \E b \in Broker : RegisterBroker(b)
  \/ \E b \in Broker, leo \in 0 .. MaxLEO : Heartbeat(b, leo)
  \/ \E b \in Broker : Age(b)
  \/ \E b \in Broker : Crash(b)
  \/ \E b \in Broker : Restart(b)
  \/ \E m \in calls : Deliver(m)
  \/ \E m \in calls : Lose(m)
  \/ \E m \in calls : TimeOut(m)
  \/ CreateTopic
  \/ CreateStep
  \/ LoopStep
  \/ \E r \in Reporter, b \in Broker : ReportLeaderUnreachable(r, b)
  \/ \E r \in Reporter : ContextDone(r)
  \/ \E j \in Job : JobStep(j)
  \/ \E j \in Job : ApplyFails(j)

Spec == Init /\ [][Next]_vars

\* A running broker sends heartbeats, a silent one is found out, goroutines run
\* and a call that is not lost is executed.
Fairness ==
  /\ \A b \in Broker : WF_vars(Heartbeat(b, brokerLEO[b])) /\ WF_vars(~up[b] /\ Age(b))
  /\ \A j \in Job : WF_vars(JobStep(j))
  /\ WF_vars(CreateStep) /\ WF_vars(LoopStep)
  /\ WF_vars(\E m \in calls : Deliver(m))

FairSpec == Spec /\ Fairness

-----------------------------------------------------------------------------
(* Properties.                                                             *)

\* Promotions keep the replicas of the partition together: the primary and the
\* backups are the brokers CreateTopic chose, each named once, although every
\* promotion writes a backup list computed from an earlier read of the FSM
\* (coordinator.go:372-397).
ReplicasKept ==
  fsm.epoch > 0 =>
    /\ \A i, k \in DOMAIN fsm.backups : fsm.backups[i] = fsm.backups[k] => i = k
    /\ \A i \in DOMAIN fsm.backups : fsm.backups[i] # fsm.primary
    /\ {fsm.primary} \cup {fsm.backups[i] : i \in DOMAIN fsm.backups} =
         {brokers[i] : i \in 1 .. Len(fsm.backups) + 1}

\* A broker leads in an epoch only if the metadata committed for that epoch name
\* it: roles are sent after the commit, and a stale call cannot undo a newer one
\* (coordinator.go:388-420, partition.go:113-121).
LeadersWereElected ==
  \A b \in Broker :
    part[b].exists /\ part[b].role = "Leader" /\ part[b].epoch > 0 =>
      <<part[b].epoch, b>> \in elected

\* While no two promotions overlap, two brokers never lead in the same epoch,
\* whatever calls are late or lost (coordinator.go:834-867, partition.go:109-151).
OneLeaderPerEpoch ==
  ~overlapped =>
    \A a, b \in Broker :
      /\ part[a].exists /\ part[a].role = "Leader" /\ part[a].epoch > 0
      /\ part[b].exists /\ part[b].role = "Leader"
      /\ part[a].epoch = part[b].epoch
      => a = b

\* Every change of the primary raises the epoch (coordinator.go:830-833).
PromotionBumpsEpoch ==
  [][fsm'.primary # fsm.primary => fsm'.epoch > fsm.epoch]_vars

\* A primary that stays down is replaced, as long as backups are heard from: the
\* loop tries again after a failed commit (coordinator.go:763-867).
DownPrimaryReplaced ==
  ~<>[](/\ fsm.epoch > 0 /\ ~up[fsm.primary]
        /\ \E i \in DOMAIN fsm.backups : seen[fsm.backups[i]] = "heard")

\* A broker that was declared dead while it ran ends up a follower of the
\* partition it is a backup of: its next heartbeat has it sent that role again
\* (coordinator.go:663-667).
ReturningBrokerFollows ==
  \A b \in Broker :
    LET Backup == \E i \in DOMAIN fsm.backups : fsm.backups[i] = b
    IN  up[b] /\ part[b].exists /\ seen[b] = "dead" /\ Backup
          ~> part[b].role = "Follower" \/ ~up[b] \/ ~Backup

=============================================================================
