# A TLA+ model of kafka-lite

kafka-lite is a small replicated message log: brokers keep partitions as
append-only logs, followers copy the log of a partition leader, coordinators
agree through Raft on who leads, and producers and consumers talk to the brokers.
The modules here model the storage, replication, role, failover, read, routing
and consumer-group code; TLC checks them on small instances and TLAPS proves
the safety properties for all instances. `PROJECT.json` maps every definition to the
lines it models and lists the runs, the hazards and the findings.

To repeat a run: `tlc -config MCReplication.cfg MCReplication`. To repeat a proof:
`tlapm ReplicationProofs.tla`.

## Inventory of the system

| Part | State | Operations | What is hard about it |
|---|---|---|---|
| `internal/log/log.go` | message slice | Append, AppendReplica, Read, TruncateTo | offsets at the ends |
| `internal/log/file_log.go` | segment file, index | the same, NewFileLog, rebuildIndex | crashes and failed writes between two writes |
| `internal/broker/partition.go`, replication | log, hw, replicas | Append, updateReplicaState, monitorISR, scheduleReplicaEviction, replicationLoop | handlers that outlive their stream, timers, four places that move hw |
| `internal/broker/partition.go`, roles | role, epoch, context, wait group | BecomeLeader, BecomeFollower, Close, stopBackground | the mutex is given up in the middle of a transition, which waits for goroutines that wait themselves |
| `internal/broker/partition.go`, reads | hw, condition variable | Read, WaitForHW, WaitForData | lost wake-ups, a watermark ahead of the log |
| `internal/broker/broker.go` | partitions, peers, coordinator client | Produce, Fetch, FetchReplica, AssignRole, InitPartitions, heartbeats, restore | restart, late calls, reconnecting to another coordinator |
| `internal/coordinator` | brokers, topics, lastSeen, brokerLEO, groups, offsets | RegisterBroker, CreateTopic, Heartbeat, ReportLeaderUnreachable, failover loop, UpdatePartitionLeader, AlterIsr, JoinGroup, CommitOffsets, GetMetadata | promotions that overlap, lost calls, stale liveness |
| `internal/raft` | FSM state | Apply, Snapshot, Restore | commits that fail or succeed late, snapshots |
| `internal/producer`, `internal/consumer` | metadata cache, assignments, offsets | Send, Route; Poll, tryRebalance, CommitOffsets | stale metadata, rebalancing while polling |
| `cmd`, telemetry, test helpers | none | wiring, logging; the loops that drive the clients | nothing to check by itself |

## Modules

| Module | Models | Remarks |
|---|---|---|
| `Log` | the operations of `log.go` as operators | used by the log modules |
| `Lists` | slices that are sorted or filtered, as operators | used by `Coordinator`, `Groups` and `Routing` |
| `MemLog` | the in-memory log | abstract specification of a log |
| `FileLog` | `file_log.go` | implements `MemLog` |
| `Replication` | one partition, its leader and followers, in one epoch | streams, handlers, in-sync set, watermark |
| `Roles` | role transitions of one partition | both mutexes, contexts and wait group explicit |
| `Coordinator` | one coordinator, its FSM, the brokers | leadership of one partition |
| `Epochs` | one partition through several epochs: replicas, coordinator and FSM composed, with coarse steps | logs, watermarks, reports of earlier epochs |
| `Fetch` | consumers reading one partition | condition variable, cancelled streams, reconnects |
| `Groups` | a consumer group on one topic | range assignment, rebalancing, offset commits |
| `Routing` | topic creation, metadata, the producer's cache | several partitions, callers, goroutines |
| `FileLogProofs`, `ReplicationProofs`, `FetchProofs`, `EpochsProofs`, `GroupsProofs`, `RolesProofs`, `CoordinatorProofs`, `RoutingProofs` | | theorems and proofs |
| `MC*` | | instances for TLC |

**FileLog.** The segment file is a sequence of chunks, one for each record whose
write was begun: whole, torn, or bytes that a scan mistook for a record. Append
is three steps: length (`FileAppend`, `FileAppendReplica`), body (`WriteBody`),
index (`ExtendIndex`); a write can fail (`WriteFails`) and the process can end
(`CrashOrClose`) between any two. `rebuildIndex` scans from the start. Behind the
remains of a failed write its outcome depends on bytes the model does not have,
and is a choice (`ScanOutcomes`): the scan ends there, or takes the remains and at
least one chunk behind them for a record and goes on at a later chunk (`Misparsed`),
or nowhere. The history `misread` says that the log was opened in such a state.

**Replication.** `handler[f][k]` is the FetchReplica handler of the k-th stream
of follower f, with its program counter and its batch; `chan[f]` holds the
records in flight on the stream f reads. Either end may notice a broken stream
first, so handlers of several streams of a follower coexist. Time is one bit per
replica: its last fetch is within the timeouts or not. `pending` counts Append
calls between the append and the watermark update.

**Roles.** A call passes through the program counters of `CallState`, a
background goroutine through those of `TaskPc`: monitorISR waits for its ticker and
for Partition.mu, replicationLoop for Partition.mu, for Broker.mu, for a record and
for the coordinator's answer to a report, which has no deadline. Calls of AssignRole
overlap: between the release of the mutex in stopBackground and the install of the
new role other calls may run. `late` marks a call that another one overtook there,
and `overtaken` says that there was one. Broker.Close holds Broker.mu while it closes
the partition. A wait group that is reused while a waiter returns panics, as Go's
does.

**Coordinator.** CreateTopic, the failover loop and each goroutine started by
ReportLeaderUnreachable are jobs with a program counter and locals. They read
the FSM, commit, and send AssignRole calls as separate steps. Calls are lost or
outlive the timeout of their caller. A broker's liveness is never heard, heard
within `deadAfter`, or dead. The coordinator stays the Raft leader, and a
commit that fails has no effect: `Node.Apply` then fails before the entry is
started. Brokers have a data directory, so a restarted broker has its partition,
with the role and epoch `newPartition` gives it.

**Epochs.** What a replica carries from one epoch to the next: `log[b]`,
`part[b].hw`, an Append that has checked the role and not yet appended
(`ProduceCheck`, `ProduceAppend`, `ProduceVisible`), AssignRole calls and AlterIsr
reports that arrive late (`calls`, `reports`). A transition, a promotion and a
received message are one step each; their inner steps are those of `Roles`,
`Coordinator` and `Replication`. A promotion is of a broker that is not taken for dead,
whether the primary is or was only reported unreachable. AlterIsr checks the epoch in one step and the
FSM applies the command in another. Three histories say what may be lost:
`strays` are messages appended by a replica that had ceased to lead, `left` those
that a promotion left behind, `named` the brokers that producers may know of.

**Fetch.** A handler takes a snapshot of hw, reads the log, sends, and, with
nothing to send, takes the mutex, decides and sleeps; each is a step. Broadcasts
are made under the mutex, after it was released (`ProduceWake`), or without it
(`AfterFunc`), as in the code. The consumer reconnects while the handler of its
former stream may still run. The partition is a leader with or without followers,
or a follower whose watermark may be ahead of its log. Its role does not change, so
replicationLoop truncates nothing here: within a role the records of a stream continue
the log (`FollowerLogIsPrefix`), and what a truncation after a change of roles cuts is
in `Epochs` (`OnlyStraysDiscarded`).

**Groups.** JoinGroup computes the ranges of all members; the others learn of
theirs when they join again between two polls. `of` and `view` record for which
group an answer was computed and the readers were built. Programs stop, fail and
start again with the same member ID; members never leave a group. A member that is
given no partition reads partition 0 as if it had no group, as Poll does (`Reads`).
The topic may
be known to JoinGroup before its partitions are committed, as in the code.

**Routing.** CreateTopic commits the partitions one by one, then creates them on
the brokers and sends the roles; two callers may do so at once, and a commit may
fail, or succeed after its caller gave up. The coordinator that answers
GetMetadata may be behind. Roles carry epochs, and a broker ignores older ones; the
brokers that the coordinator takes for dead are passed over, the replaced primary too
(`FollowerCalls`), and what a broker that returns is sent has epoch 0
(`rejoinReturningBroker`). Goroutines share a Producer: reading, fetching, storing and
evicting cached metadata are separate steps. A restarted broker has all its partitions
as a leader with epoch 0 until it is told otherwise.


## Runs

Passing runs:

| Run | Instance | Shows |
|---|---|---|
| `filelog` | 2 payloads, 4 chunks | acknowledged messages survive any crash or failed write, and the index names only records that were written, until the log is opened with records behind the remains of a failed write; the file log implements `MemLog` until such a record is appended |
| `replication` | 1 follower that may die, 2 payloads, 2 messages, batches of 2, 1 broken stream, fair | follower logs are prefixes, watermarks are bounded and monotone, no advance passes the recorded end of an in-sync follower; a follower that runs converges, and unless it dies the watermark reaches the log end |
| `roles` | 2 callers at once, 3 requests, epochs 0 and 1, Broker.Close, fair | until a transition is overtaken there is one goroutine, that of the role; only an overtaken transition lowers the epoch; transitions finish, with three exceptions: one was overtaken, the coordinator never answers, Broker.Close waits for a goroutine that waits for Broker.mu |
| `coordinator` | 2 brokers, 1 report, 3 epochs, 1 outage, 1 failure | replicas are kept together, only committed primaries lead, one leader per epoch unless promotions overlap |
| `coordinator_live` | 2 brokers, 4 epochs, 1 outage, 1 failure, fair | a primary that stays down is replaced |
| `epochs` | 2 brokers, 2 messages, 3 epochs, 2 outages, 1 eviction, broken stream or reported leader | a replica discards strays only, what is readable on a broker stays readable there, logs diverge only where a message was left behind or appended by a replica that was not the primary, the in-sync set is changed only by reports of the current leader (a promotion keeps the set of the leader before, `fsm.go:73-78`) |
| `fetch` | 2 streams, 2 producers, 2 records, 1 failure, start at 0 or 1, fair | only visible records are sent, each is delivered once and in order, no wake-up is lost, what is visible is delivered |
| `groups` | 3 members, 2 partitions, 1 record each, 1 failure, fair | ranges hold every partition once; members of one view have readers of different partitions, and beside a reader only partition 0 is read, by members in excess of the partitions; what is committed was delivered; records are delivered unless their owner is stuck |
| `routing` | 2 brokers, 2 partitions, 2 goroutines, 2 callers of CreateTopic, 1 promotion, 1 fault, fair | metadata are indexed by partition, only brokers that were named primary acknowledge, a goroutine that goes on routing is acknowledged by the primary once leadership has settled, unless the cache names a broker on which the partition could not be created or one that was replaced and still leads |

Runs that end in a counterexample, each where the repository says otherwise (see
`findings` in `PROJECT.json`):

| Run | What happens |
|---|---|
| `filelog_write_error` | a write fails, the next append goes behind its remains, and after a restart the acknowledged message is gone (`file_log.go:31-32`) |
| `replication_dead_follower` | the only follower dies and is evicted; it stays in `replicas`, so Append no longer moves the watermark (`tests.md:154`) |
| `coordinator_overlap` | the loop and a report promote two brokers with one epoch (`coordinator.go:832`) |

Further configurations end in a counterexample too. They are kept as explanations
of why the properties of the passing runs have the exceptions they have:

| Configuration | Module | Property | What happens |
|---|---|---|---|
| `MCReplicationCommitted.cfg` | `MCReplication` | `AdvanceIsReplicated` | the watermark covers messages that were sent to, and not yet appended at, an in-sync follower (`tests.md:104`) |
| `MCRolesOverlap.cfg` | `MCRoles` | `EpochNeverDecreases` | the older of two overlapping transitions is installed last (`partition.go:113`) |
| `MCRolesClose.cfg` | `MCRoles` | `CloseReturns` | Broker.Close waits for a replication loop that waits for the mutex Broker.Close holds, to look its leader up or to report it (`broker.go:637`) |
| `MCCoordinatorRejoin.cfg` | `MCCoordinator` | `ReturningBrokerFollows` | a leader that was silent and replaced is sent its new role with epoch 0, ignores it and goes on leading (`coordinator.go:665-667`) |
| `MCEpochsDivergence.cfg` | `MCEpochs` | `DivergenceDetected` | a leader crashes with a message nobody else has, the follower is promoted, the old leader returns and appends behind its divergent log: only the offset is compared (`partition.go:294`) |
| `MCFetchCancel.cfg` | `MCFetch` | `CancelledHandlerReturns` | the broadcast of AfterFunc comes between the test and the sleep of a handler, which sleeps until the next record (`partition.go:470-472`) |
| `MCGroupsStarved.cfg` | `MCGroups` | `PollReturnsAvailable` | Poll waits on the reader whose turn it is while another partition has a record (`consumer.go:207`) |
| `MCGroupsIdle.cfg` | `MCGroups` | `DisjointSlices` | a member in excess of the partitions reads partition 0 beside its owner (`tests.md:90`) |
| `MCRoutingKey.cfg` | `MCRouting` | `KeyKeepsPartition` | goroutines route while the topic is being created: the number of known partitions grows, and two records of one key go to different partitions (`README.md:104`) |
| `MCRoutingStale.cfg` | `MCRouting` | `RetryReachesPrimary` | a promotion passes the replaced primary over; it goes on leading and acknowledging records that nobody replicates, so the producer never evicts its address (`producer.go:121-133`) |

**Bounds.** Four chunks hold a whole record, a torn one, and records behind it.
In `replication` two messages with batches of two give a full batch, a partial one
and a batch that a break cuts in two; one break is enough for two handlers of one
follower. With one follower the minimum over the in-sync set is over two ends; the
proofs cover any number of followers. Three requests by two callers let a role change
twice and one call overtake another; a broker may close at any time.
With two brokers every promotion has one candidate; three brokers are needed, and
used, for overlapping promotions of different brokers. The offsets that rank
candidates are all 0 in the coordinator runs, as no property is about the choice.
Three epochs and two outages let leadership go to the other broker and come back,
so that a broker meets its own earlier log; two messages are enough for one that
was left behind and one that takes its offset (`DivergenceDetected` needs a third).
They are too few for a leader that was promoted with a watermark ahead of its log by
more than one message; `ReadableStaysAlways` is proved for any number.
Two streams let the handler of a broken stream run beside its successor, two
producers let one wake-up be overtaken by another. Three members of two partitions
give members with one partition and one with none, and a change of the ranges at
each join. In `routing` two partitions can be known one without the other, two
goroutines can put back what the other has evicted, one promotion makes cached
metadata stale; a running broker that CreateTopic takes for dead counts as a fault.
Brokers are symmetric in `coordinator`, which has no liveness
property. Deadlock is not checked for `Replication`, `Epochs`, `Fetch`, `Groups`
and `Routing`, which end when their bounds are used up, nor for `Roles`, which may
stop in Broker.Close or by a panic.

**Fairness.** Weak fairness for goroutines that can run, timers and calls that
are not lost. `Roles` assumes strong fairness for the mutex, which Go hands over
to a waiter after a millisecond, and for leaving a select whose context is done,
as select chooses among ready cases at random; a stream whose context is done ends;
nothing makes the coordinator answer, and nothing makes a request arrive. In `Replication` nothing is assumed
of when a handler whose stream is open returns. In `Fetch` the handlers, the
AfterFuncs, the steps of an Append that has begun, the replication loop of a
follower and the polls of a running consumer are fair. In `Groups` the steps of a
running program are; nothing makes it join, or join again, as that depends on the
interval. In `Routing` the goroutines, the application of committed entries and the
delivery of calls are. Producers, crashes, breaks and lost calls have no fairness.

## Theorems

Every invariant and every action property of a passing run, and the refinement of
`MemLog`, is also proved, for all values of the constants. The inductive invariants
below were checked with TLC on the instances above before they were proved.

`FileLogProofs`, for all payloads and file lengths: `TypeCorrect` and
`IndexNamesWholeRecordsAlways`. The index alone is not inductive: between two
writes of an append one must know that the last chunk is the one being written
and that the index does not name it (`WritePosition`). That the chunks are records
needs that the file has nothing else until a misread scan (`NoGarbage`).
`AckedSurviveAlways` is about what a restart will find, so its invariant is about the
file and not only the index (`Recoverable`): until something is appended behind the
remains of a failed write, chunk i holds offset i - 1, only the last chunk can be
torn, the file is longer than the index by exactly the record being written or the
remains, and every acknowledged message lies whole in its place. The scan of such a
file has one outcome, which drops the torn tail and nothing else (`ScanOfTornTail`).
From then to the next opening the index alone keeps the messages (`NextAckedSurvive`).
`FileLogImplementsMemLog` maps the file to the log a reader sees, through the index
while it is open and by the scan while it is not (`View`). That view is the first
chunks of the file (`ViewIs`); each write and each failure leaves it alone, the last
step of an append adds one message, a truncation truncates, and a crash between the
body and the index shows the message that the restart will index, which is a step of
`MemLog` too.

`ReplicationProofs`, for any followers, payloads, batch size and bounds:
`TypeCorrect`, `FollowerLogIsPrefixAlways`, `WatermarksBoundedAlways`,
`WatermarksNeverDecreaseAlways`, `AdvanceCoversInSyncAlways` and
`FollowersKeepMessagesAlways`. The inductive invariant `IInv` says of each
follower that its log, followed by the records in flight to it, is the leader's
log up to the offset of the handler that feeds it (`StreamInOrder`); that no
handler is ahead of the log (`HandlerBounds`); and that no watermark in flight is
ahead of the leader's (`FollowerWatermarks`). The prefix property needs the
records in flight, the bounds need those of the handlers.

`EpochsProofs`, for any brokers and bounds: `TypeCorrect`,
`OnlyStraysDiscardedAlways`, `ReadableStaysAlways`, `IsrFromCurrentLeaderAlways` and
`LogsAgreeUnlessLeftAlways`. The invariant adds to the types that no replica, call or report has an epoch the
FSM has not reached (`EpochInv`; a report of an older leader is then refused), and
that only a running follower has a stream and what its log holds beyond the offset
it asks for are strays (`StreamInv`; truncation cuts nothing else). Each action is
shown to keep the invariant, the logs up to strays (`LogKept`) and the watermarks
(`WatermarkKept`). For the agreement of logs, two more: the number of a message fixes
its offset, in every log and on every stream (`MessageInv`), and the primary named in
the FSM has every message but strays and those left behind (`PrimaryInv`). Two
replicas without such messages then agree with the primary, hence with each other
(`LogsAgree`).

`FetchProofs`, for any number of streams and producers: `TypeCorrect`,
`OnlyVisibleSentAlways`, `NoLostWakeupAlways` and `DeliveredInOrderAlways`. The
invariant adds what the role implies of the watermark (`RoleInv`), that the locals
of a handler are below the watermark and the log end it has read (`HandlerInv`),
and that the records on a stream continue at the consumer's next offset and end at
the handler's (`StreamInOrder`).

`GroupsProofs`, for any finite set of members and any number of partitions:
`TypeCorrect`, `RangesPartitionTopicAlways`, `SettledMembersDisjointAlways` and
`CommittedWasDeliveredAlways`. Ranges of consecutive members are adjacent, the first
starts at 0 and the last ends with the topic (`RangesAdjacent`); so they do not
overlap, and a partition is in the range before the first that starts behind it
(`RangesCover`). The indexes of the members of a finite group differ and are all
the numbers below its size (`IndexInjective`, `IndexOnto`). For the members the
invariant (`MemberInv`) ties their readers to the group they were computed for: each
reader is of the member's range in that group, an answer not taken yet is its range in
the group at the time of the join, and all the records before a reader's offset were
delivered (`ReaderInv`). The first two make the readers of one view disjoint although
they were built at different times; a member without readers was given no partition,
which happens only in a group with more members than partitions. The last makes what
members commit delivered.

`RolesProofs`, for any callers, epochs and requests, overlapping calls included:
`TypeCorrect`, `OneTaskOfTheRoleAlways` and `EpochLoweredOnlyByOvertakenAlways`. A
transition gives the mutex up in its middle, so the invariant must say what still
holds when it is taken again: the call that holds the mutex is alone (`Alone`), and
the epoch that was compared is not older than the partition's unless the call is late
(`EpochChecked`). Until a call is overtaken, no goroutine lives once the wait group was
waited for (`Stopped`), and one that lives is the one bgCancel stops (`LiveIsCurrent`).
`MCRolesOverlap.cfg` shows what happens otherwise.

`CoordinatorProofs`, for any brokers, reports and bounds: `TypeCorrect`,
`ReplicasKeptAlways`, `LeadersWereElectedAlways` and `OneLeaderPerEpochAlways`. The
roles of the brokers are not inductive: a goroutine sends the role of the leader only
after its commit (`Jobs`), so a call that makes a broker the leader names an elected
one, however late it arrives (`Calls`). While promotions do not overlap, one goroutine
at a time is about to commit, with the epoch that follows the committed one
(`OneCommits`); a failover begins only after CreateTopic has committed, which `Jobs`
says too. `ReplicasKeptAlways` needs no such exception. The invariant (`NInv`) says of
every goroutine, however old its reads are, that the broker it picks is a replica and
that the primary and backups it is about to commit name all replicas once
(`JobNames`); the list without the new primary does, whatever order the promotions
have left it in (`KeptOthers`, `NamesKept`).

`RoutingProofs`, for any brokers, partitions, callers and goroutines: `TypeCorrect`,
`MetadataIndexedAlways` and `AckedByNamedPrimaryAlways`. Metadata are indexed by
partition because the committed log has each partition only after all smaller ones
(`Dense`). That holds, with two creations at once, because a caller that is to commit
a partition has seen the smaller ones committed (`CallerInv`), and because a promotion
is of a known partition. Every prefix of the log then knows the partitions 0 to k - 1
(`KnownIs`), and the i-th of them sorted is i - 1 (`NthInterval`), so what GetMetadata
answers, a coordinator that is behind included, is right (`GetTopicSound`). What the
cache and the goroutines hold are such answers, and their entries were committed
(`Sound`, `WorkerInv`), however stale.

The assumptions are those named in the modules: bounds are naturals, batch sizes
and numbers of partitions are positive, mortal followers are followers, the first
primary is a broker, members are finitely many, no report has the name of another
goroutine.

Only model-checked: the liveness properties `FollowersConverge`,
`WatermarkCatchesUpUnlessDeath`, `TransitionsFinish`, `DownPrimaryReplaced`,
`VisibleDelivered`, `DeliveredUnlessStuck` and `RetryReachesLeader`, as the proof system
does not handle fairness. The loops of the code that filter or sort a slice are
written in `Lists` by what they return and not by recursion: the provers can do no
induction over data, and with these definitions they need none.

## Not modelled

- Machine crashes that lose unsynced writes: `file_log.go` never syncs.
- Raft leader changes with several coordinators, brokers that reconnect to another
  coordinator, FSM snapshots: `Coordinator`, `Routing` and `Epochs` have one
  coordinator that leads (one that lags, for metadata). Raft's own protocol and
  gRPC are libraries.
- Several topics or groups: the code keeps their state apart.
- `Producer.Send` with a fixed broker: one call, no state.
- Flags, wiring, telemetry, reports of the commands, generated code, test helpers.

## Plan

1. Several coordinators: Raft leader change with the in-memory `topics`, `groups`
   and `offsets` of the new leader empty, brokers that reconnect and register again,
   snapshots.
2. `Epochs` with three brokers and overlapping promotions, in a smaller composition
   than the product of `Roles` and `Coordinator`.
3. Proofs: that `Replication` and `Epochs` agree on one epoch, and that `Coordinator`
   implements the coarse promotions of `Epochs` and `Routing`.
