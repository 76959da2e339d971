------------------------------- MODULE Epochs -------------------------------
(***************************************************************************)
(* One partition through several leader epochs: the replicas on the        *)
(* brokers (src/internal/broker/partition.go, broker.go), the coordinator  *)
(* that promotes them and records the in-sync set they report              *)
(* (src/internal/coordinator/coordinator.go), and the FSM behind it        *)
(* (src/internal/raft/fsm.go).                                             *)
(*                                                                         *)
(* Modules Replication, Roles and Coordinator look into one epoch, one     *)
(* transition and the promotions; here these are coarse steps, so that     *)
(* what a replica carries from one epoch to the next can be followed: its  *)
(* log, its watermark, an Append that has checked the role, calls and      *)
(* reports of earlier epochs that arrive late.                             *)
(***************************************************************************)
EXTENDS Integers, Sequences, FiniteSets, Log

CONSTANTS
  Broker,        \* brokers; an identifier stands for the ID and the address
  First,         \* the primary that CreateTopic chose
  NoBroker,      \* no broker
  MaxMsgs,       \* bound: messages appended by producers
  MaxEpoch,      \* bound: leader epoch
  MaxOutages,    \* bound: crashes, and silences of a running broker
  MaxFaults      \* bound: evictions from an in-sync set, streams that break, and
                 \* leaders reported as unreachable

ASSUME EpochsAssumption ==
  /\ First \in Broker /\ NoBroker \notin Broker
  /\ MaxMsgs \in Nat /\ MaxEpoch \in Nat \ {0}
  /\ MaxOutages \in Nat /\ MaxFaults \in Nat

VARIABLES
  fsm,      \* FSM.state of the partition, and isrEpoch, the epoch of the report
            \* that set isr
  dead,     \* brokers not heard from within deadAfter
  calls,    \* AssignRole calls in flight; one that stays there is lost
  reports,  \* AlterIsr calls in flight, likewise
  up,       \* whether the broker's process runs
  part,     \* part[b]: the Partition on b
  log,      \* log[b]: its log, with the number of the message as the payload
  produce,  \* produce[b]: where a Produce handler is in Partition.Append
  stream,   \* stream[b]: the stream of the replicationLoop of b
  strays,   \* history: messages appended by a replica that was no leader any more
  left,     \* history: messages that a promotion left behind, or that were appended
            \* on a broker that was not the primary
  named,    \* history: brokers that the metadata named as primary
  reported, \* AlterIsr calls made
  msgs, outages, faults

coordVars == <<fsm, dead, calls, reports, reported>>
bounds    == <<msgs, outages, faults>>
history   == <<strays, left, named>>
vars == <<coordVars, up, part, log, produce, stream, history, bounds>>

Message == [offset : Nat, val : 1 .. MaxMsgs]

\* An entry of Partition.replicas: absent, or in sync or not at logEndOffset leo.
ReplicaState == [in : {"absent", "inSync", "out"}, leo : Nat]

Partition == [role : {"Leader", "Follower"}, epoch : 0 .. MaxEpoch,
              leader : Broker \cup {NoBroker}, hw : Nat,
              replicas : [Broker -> ReplicaState]]

\* offset is that of the FetchReplica handler on broker from.
Stream == [from : Broker \cup {NoBroker}, offset : Nat,
           chan : Seq([msg : Message, hw : Nat])]

AssignRole == [to : Broker, role : {"Leader", "Follower"}, epoch : 0 .. MaxEpoch,
               leader : Broker]

\* checked: AlterIsr has compared the epochs and submits the command.
Report == [nr : Nat, epoch : 0 .. MaxEpoch, isr : SUBSET Broker, checked : BOOLEAN]

TypeOK ==
  /\ fsm \in [primary : Broker, epoch : 1 .. MaxEpoch, isr : SUBSET Broker,
              isrEpoch : 0 .. MaxEpoch]
  /\ dead \in SUBSET Broker
  /\ calls \in SUBSET AssignRole
  /\ reports \in SUBSET Report /\ reported \in Nat
  /\ up \in [Broker -> BOOLEAN]
  /\ part \in [Broker -> Partition]
  /\ log \in [Broker -> Seq(Message)]
  /\ \A b \in Broker : \A i \in DOMAIN log[b] : log[b][i].offset = i - 1
  /\ produce \in [Broker -> {"idle", "append", "visible"}]
  /\ stream \in [Broker -> Stream]
  /\ strays \in SUBSET (1 .. MaxMsgs) /\ left \in SUBSET (1 .. MaxMsgs)
  /\ named \in SUBSET Broker
  /\ msgs \in 0 .. MaxMsgs /\ outages \in 0 .. MaxOutages /\ faults \in 0 .. MaxFaults

\* b has the message v in its log.
Holds(b, v) == \E i \in DOMAIN log[b] : log[b][i].val = v

NoStream == [from |-> NoBroker, offset |-> 0, chan |-> <<>>]
NoReplicas == [c \in Broker |-> [in |-> "absent", leo |-> 0]]

-----------------------------------------------------------------------------
(* The in-sync set and the watermark of a leader.                          *)

currentISRIDs(r) == {c \in Broker : r[c].in = "inSync"}

\* The watermark of b when its replicas are r.
AdvancedHW(b, r) ==
  LET ends == {LogEndOffset(log[b])} \cup {r[c].leo : c \in currentISRIDs(r)}
      low  == CHOOSE e \in ends : \A d \in ends : e <= d
  IN  IF low > part[b].hw THEN low ELSE part[b].hw

\* The goroutine that calls AlterIsr.  Two calls with the same in-sync set are two
\* calls: they are numbered.
reportISRChange(b, r) ==
  /\ reports' = reports \cup {[nr |-> reported + 1, epoch |-> part[b].epoch,
                               isr |-> currentISRIDs(r), checked |-> FALSE]}
  /\ reported' = reported + 1

\* An unknown follower enters in sync, one that fell out comes back when it is at
\* the log end; only the latter is reported.
updateReplicaState(b, f, fetchOffset) ==
  LET old  == part[b].replicas[f]
      back == old.in = "out" /\ fetchOffset >= LogEndOffset(log[b])
      r    == [part[b].replicas EXCEPT ![f] =
                 [in |-> IF back \/ old.in = "absent" THEN "inSync" ELSE old.in,
                  leo |-> fetchOffset]]
  IN  IF part[b].role # "Leader" THEN UNCHANGED <<part, reports, reported>>
      ELSE /\ part' = [part EXCEPT ![b].replicas = r, ![b].hw = AdvancedHW(b, r)]
           /\ IF back THEN reportISRChange(b, r) ELSE UNCHANGED <<reports, reported>>

\* monitorISR, or the timer of a handler that returned, finds that f has not fetched
\* for too long.
Evict(b, f) ==
  LET r == [part[b].replicas EXCEPT ![f].in = "out"] IN
  /\ up[b] /\ part[b].role = "Leader" /\ part[b].replicas[f].in = "inSync"
  /\ faults < MaxFaults /\ faults' = faults + 1
  /\ part' = [part EXCEPT ![b].replicas = r, ![b].hw = AdvancedHW(b, r)]
  /\ reportISRChange(b, r)
  /\ UNCHANGED <<fsm, dead, calls, up, log, produce, stream, history, msgs, outages>>

-----------------------------------------------------------------------------
(* Partition.Append, which Produce calls.                                  *)

\* A producer sends to a primary, perhaps a former one.  The role is checked ...
ProduceCheck(b) ==
  /\ b \in named /\ up[b] /\ produce[b] = "idle" /\ part[b].role = "Leader" /\ msgs < MaxMsgs
  /\ produce' = [produce EXCEPT ![b] = "append"]
  /\ UNCHANGED <<coordVars, up, part, log, stream, history, bounds>>

\* ... and the message is appended, whatever the role is by then ...
ProduceAppend(b) ==
  /\ produce[b] = "append" /\ msgs < MaxMsgs
  /\ msgs' = msgs + 1
  /\ log' = [log EXCEPT ![b] = AppendTo(@, msgs')]
  /\ strays' = IF part[b].role = "Leader" THEN strays ELSE strays \cup {msgs'}
  /\ left' = IF b = fsm.primary THEN left ELSE left \cup {msgs'}
  /\ produce' = [produce EXCEPT ![b] = "visible"]
  /\ UNCHANGED <<coordVars, up, part, stream, named, outages, faults>>

\* ... and is visible at once if no follower has fetched.
ProduceVisible(b) ==
  /\ produce[b] = "visible"
  /\ part' = [part EXCEPT ![b].hw = IF part[b].replicas = NoReplicas THEN LogEndOffset(log[b]) ELSE @]
  /\ produce' = [produce EXCEPT ![b] = "idle"]
  /\ UNCHANGED <<coordVars, up, log, stream, history, bounds>>

-----------------------------------------------------------------------------
(* replicationLoop and FetchReplica.                                       *)

\* Mutant: the stream is opened at the watermark instead of at the log end.
ConnectAtHW(f) ==
  LET b == part[f].leader
      o == part[f].hw
  IN
  /\ up[f] /\ part[f].role = "Follower" /\ stream[f] = NoStream /\ up[b]
  /\ updateReplicaState(b, f, o)
  /\ stream' = IF ReadInRange(log[b], o)
               THEN [stream EXCEPT ![f] = [from |-> b, offset |-> o, chan |-> <<>>]]
               ELSE stream
  /\ UNCHANGED <<fsm, dead, calls, up, log, produce, history, bounds>>

\* FetchReplica serves whoever asks, whatever the role and the epochs.  An offset
\* past the end is an error, but the follower has been recorded.
Connect(f) ==
  LET b == part[f].leader
      o == LogEndOffset(log[f])
  IN
  /\ up[f] /\ part[f].role = "Follower" /\ stream[f] = NoStream /\ up[b]
  /\ updateReplicaState(b, f, o)
  /\ stream' = IF ReadInRange(log[b], o)
               THEN [stream EXCEPT ![f] = [from |-> b, offset |-> o, chan |-> <<>>]]
               ELSE stream
  /\ UNCHANGED <<fsm, dead, calls, up, log, produce, history, bounds>>

\* Mutant: the record carries the payload of the end of the batch.
SendAliased(f) ==
  LET s == stream[f]
      b == s.from
  IN
  /\ b # NoBroker /\ s.chan = <<>> /\ s.offset < LogEndOffset(log[b])
  /\ stream' = [stream EXCEPT ![f].offset = s.offset + 1,
                  ![f].chan = <<[msg |-> [log[b][s.offset + 1] EXCEPT !.val = log[b][Len(log[b])].val],
                                 hw |-> part[b].hw]>>]
  /\ updateReplicaState(b, f, s.offset + 1)
  /\ UNCHANGED <<fsm, dead, calls, up, log, produce, history, bounds>>

\* The handler sends the next message with the watermark it has, and then moves on
\* what it knows of f.
Send(f) ==
  LET s == stream[f]
      b == s.from
  IN
  /\ b # NoBroker /\ s.chan = <<>> /\ s.offset < LogEndOffset(log[b])
  /\ stream' = [stream EXCEPT ![f].offset = s.offset + 1,
                  ![f].chan = <<[msg |-> log[b][s.offset + 1], hw |-> part[b].hw]>>]
  /\ updateReplicaState(b, f, s.offset + 1)
  /\ UNCHANGED <<fsm, dead, calls, up, log, produce, history, bounds>>

\* Mutant: offsets are not compared.
RecvUnchecked(f) ==
  LET rec == Head(stream[f].chan) IN
  /\ stream[f].chan # <<>>
  /\ log' = [log EXCEPT ![f] = Append(@, rec.msg)]
  /\ part' = [part EXCEPT ![f].hw = IF rec.hw > @ THEN rec.hw ELSE @]
  /\ stream' = [stream EXCEPT ![f].chan = <<>>]
  /\ UNCHANGED <<coordVars, up, produce, history, bounds>>

\* Recv: what is behind the message is truncated, and the message appended if it
\* fits; otherwise the stream is given up.
Recv(f) ==
  LET rec  == Head(stream[f].chan)
      base == IF rec.msg.offset < LogEndOffset(log[f])
              THEN TruncatedTo(log[f], rec.msg.offset) ELSE log[f]
  IN
  /\ stream[f].chan # <<>>
  /\ IF ReplicaFits(base, rec.msg)
     THEN /\ log' = [log EXCEPT ![f] = Append(base, rec.msg)]
          /\ part' = [part EXCEPT ![f].hw = IF rec.hw > @ THEN rec.hw ELSE @]
          /\ stream' = [stream EXCEPT ![f].chan = <<>>]
     ELSE /\ stream' = [stream EXCEPT ![f] = NoStream]
          /\ UNCHANGED <<log, part>>
  /\ UNCHANGED <<coordVars, up, produce, history, bounds>>

\* The stream breaks, or its handler cannot read the log, which may be truncated at
\* that moment; what is in flight is lost.
Break(f) ==
  /\ stream[f].from # NoBroker /\ faults < MaxFaults /\ faults' = faults + 1
  /\ stream' = [stream EXCEPT ![f] = NoStream]
  /\ UNCHANGED <<coordVars, up, part, log, produce, history, msgs, outages>>

-----------------------------------------------------------------------------
(* Roles.                                                                  *)

\* Mutant: a new leader starts with a new watermark too.
BecomeLeaderAnew(b, epoch) ==
  IF epoch < part[b].epoch THEN part[b]
  ELSE [part[b] EXCEPT !.role = "Leader", !.epoch = epoch, !.replicas = NoReplicas, !.hw = 0]

\* A new leader has its old watermark, and no replicas.
BecomeLeader(b, epoch) ==
  IF epoch < part[b].epoch THEN part[b]
  ELSE [part[b] EXCEPT !.role = "Leader", !.epoch = epoch, !.replicas = NoReplicas]

BecomeFollower(b, leader, epoch) ==
  IF epoch < part[b].epoch THEN part[b]
  ELSE [part[b] EXCEPT !.role = "Follower", !.epoch = epoch, !.leader = leader]

\* AssignRole; a transition ends the replication loop and its stream.
Deliver(m) ==
  /\ m \in calls
  /\ calls' = calls \ {m}
  /\ part' = [part EXCEPT ![m.to] = IF m.role = "Leader" THEN BecomeLeader(m.to, m.epoch)
                                    ELSE BecomeFollower(m.to, m.leader, m.epoch)]
  /\ stream' = IF m.epoch < part[m.to].epoch THEN stream
               ELSE [stream EXCEPT ![m.to] = NoStream]
  /\ UNCHANGED <<fsm, dead, reports, reported, up, log, produce, history, bounds>>

\* The process ends; streams from and to it end, and calls to it fail.
Crash(b) ==
  /\ up[b] /\ outages < MaxOutages /\ outages' = outages + 1
  /\ up' = [up EXCEPT ![b] = FALSE]
  /\ produce' = [produce EXCEPT ![b] = "idle"]
  /\ stream' = [f \in Broker |-> IF f = b \/ stream[f].from = b THEN NoStream ELSE stream[f]]
  /\ calls' = {m \in calls : m.to # b}
  /\ UNCHANGED <<fsm, dead, reports, reported, part, log, history, msgs, faults>>

\* newPartition: a leader of no epoch, with all of its log visible.
Restart(b) ==
  /\ ~up[b]
  /\ up' = [up EXCEPT ![b] = TRUE]
  /\ part' = [part EXCEPT ![b] = [role |-> "Leader", epoch |-> 0, leader |-> NoBroker,
                                  hw |-> LogEndOffset(log[b]), replicas |-> NoReplicas]]
  /\ UNCHANGED <<coordVars, log, produce, stream, history, bounds>>

-----------------------------------------------------------------------------
(* The coordinator.                                                        *)

FollowerCalls(primary, epoch, D) ==
  {[to |-> b, role |-> "Follower", epoch |-> epoch, leader |-> primary] :
     b \in {c \in Broker \ ({primary} \cup D) : up[c]}}

\* deadAfter passes without a heartbeat of b.
Age(b) ==
  /\ b \notin dead
  /\ IF up[b] THEN outages < MaxOutages /\ outages' = outages + 1 ELSE UNCHANGED outages
  /\ dead' = dead \cup {b}
  /\ UNCHANGED <<fsm, calls, reports, reported, up, part, log, produce, stream, history,
                 msgs, faults>>

\* A heartbeat of a broker that was dead: the backups are told to follow, with epoch 0.
Heartbeat(b) ==
  /\ up[b] /\ b \in dead
  /\ dead' = dead \ {b}
  /\ calls' = IF b = fsm.primary THEN calls
              ELSE calls \cup FollowerCalls(fsm.primary, 0, dead')
  /\ UNCHANGED <<fsm, reports, reported, up, part, log, produce, stream, history, bounds>>

\* UpdatePartitionLeader, for a primary that is dead, or that a follower reported as
\* unreachable while its last heartbeat is late but not older than deadAfter
\* (ReportLeaderUnreachable).  The recorded in-sync set stays.
Promote(b) ==
  /\ b # fsm.primary /\ b \notin dead /\ fsm.epoch < MaxEpoch
  /\ IF fsm.primary \in dead THEN UNCHANGED faults
     ELSE faults < MaxFaults /\ faults' = faults + 1
  /\ fsm' = [fsm EXCEPT !.primary = b, !.epoch = @ + 1]
  /\ calls' = calls \cup FollowerCalls(b, fsm'.epoch, dead) \cup
       (IF up[b] THEN {[to |-> b, role |-> "Leader", epoch |-> fsm'.epoch, leader |-> b]} ELSE {})
  /\ left' = left \cup {v \in 1 .. msgs : ~Holds(b, v)}
  /\ named' = named \cup {b}
  /\ UNCHANGED <<dead, reports, reported, up, part, log, produce, stream, strays, msgs, outages>>

\* AlterIsr drops a report of an earlier epoch ...
AlterIsr(r) ==
  /\ r \in reports /\ ~r.checked
  /\ reports' = (reports \ {r}) \cup
       (IF r.epoch < fsm.epoch THEN {} ELSE {[r EXCEPT !.checked = TRUE]})
  /\ UNCHANGED <<fsm, dead, calls, reported, up, part, log, produce, stream, history, bounds>>

\* Mutant: the FSM applies what the coordinator has checked.
ApplyUpdateISRUnchecked(r) ==
  /\ r \in reports /\ r.checked
  /\ reports' = reports \ {r}
  /\ fsm' = [fsm EXCEPT !.isr = r.isr, !.isrEpoch = r.epoch]
  /\ UNCHANGED <<dead, calls, reported, up, part, log, produce, stream, history, bounds>>

\* ... and so does the FSM when it applies the command.
ApplyUpdateISR(r) ==
  /\ r \in reports /\ r.checked
  /\ reports' = reports \ {r}
  /\ fsm' = IF r.epoch >= fsm.epoch THEN [fsm EXCEPT !.isr = r.isr, !.isrEpoch = r.epoch] ELSE fsm
  /\ UNCHANGED <<dead, calls, reported, up, part, log, produce, stream, history, bounds>>

-----------------------------------------------------------------------------
\* CreateTopic has returned, and its calls were executed.
Init ==
  /\ fsm = [primary |-> First, epoch |-> 1, isr |-> {}, isrEpoch |-> 0]
  /\ dead = {} /\ calls = {} /\ reports = {} /\ reported = 0
  /\ up = [b \in Broker |-> TRUE]
  /\ part = [b \in Broker |-> [role |-> IF b = First THEN "Leader" ELSE "Follower",
                               epoch |-> 1, leader |-> IF b = First THEN NoBroker ELSE First,
                               hw |-> 0, replicas |-> NoReplicas]]
  /\ log = [b \in Broker |-> <<>>]
  /\ produce = [b \in Broker |-> "idle"]
  /\ stream = [b \in Broker |-> NoStream]
  /\ strays = {} /\ left = {} /\ named = {First}
  /\ msgs = 0 /\ outages = 0 /\ faults = 0

Next ==
  \/ \E b, f \in Broker : Evict(b, f)
  \/ \E b \in Broker : ProduceCheck(b) \/ ProduceAppend(b) \/ ProduceVisible(b)
  \/ \E f \in Broker : Connect(f) \/ Send(f) \/ Recv(f) \/ Break(f)
  \/ \E m \in calls : Deliver(m)
  \/ \E b \in Broker : Crash(b) \/ Restart(b) \/ Age(b) \/ Heartbeat(b) \/ Promote(b)
  \/ \E r \in reports : AlterIsr(r) \/ ApplyUpdateISR(r)

Spec == Init /\ [][Next]_vars

-----------------------------------------------------------------------------
(* Properties.                                                             *)

\* A replica discards a message only if it was appended by a Produce whose role check
\* was overtaken by a transition: logs are never cut back for any other reason,
\* however many leaders come and go (partition.go:294-299, 329-336).
OnlyStraysDiscarded ==
  [][\A b \in Broker, v \in 1 .. MaxMsgs : Holds(b, v) => Holds(b, v)' \/ v \in strays]_vars

\* b would give the message v to a consumer.
Readable(b, v) == \E i \in DOMAIN log[b] : log[b][i].val = v /\ i <= part[b].hw

\* What a consumer can read on a broker stays readable there, restarts and changes of
\* the role included; strays excepted (partition.go:79, 109-151, 341-345).
ReadableStays ==
  [][\A b \in Broker, v \in 1 .. MaxMsgs : Readable(b, v) => Readable(b, v)' \/ v \in strays]_vars

\* The in-sync set the FSM holds is changed only by a leader of its epoch, although
\* a promotion may be committed between the check and the commit of a report
\* (coordinator.go:434-447, fsm.go:79-84).
IsrFromCurrentLeader == [][fsm'.isr # fsm.isr => fsm'.isrEpoch = fsm'.epoch]_vars

\* One log is a prefix of the other.
Agree(k, l) == \A i \in DOMAIN k \cap DOMAIN l : k[i] = l[i]

\* The logs of a follower and the leader it reads from agree, unless one of them has
\* a stray, or a message that a promotion left behind, or that was appended on a
\* broker that was not the primary: nothing else makes replicas diverge
\* (partition.go:253-313, coordinator.go:363-398).
LogsAgreeUnlessLeft ==
  \A f, b \in Broker : stream[f].from = b =>
    \/ Agree(log[f], log[b])
    \/ \E v \in strays \cup left : Holds(f, v) \/ Holds(b, v)

\* "Check for log divergence before appending" (partition.go:294): when a follower
\* has appended a message of its leader, it has the leader's log up to there.
DivergenceDetected ==
  [][\A f \in Broker : stream[f].chan # <<>> /\ log[f] # log'[f] /\ msgs' = msgs =>
       Agree(log'[f], log[stream[f].from])]_vars

=============================================================================
