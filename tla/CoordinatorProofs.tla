-------------------------- MODULE CoordinatorProofs --------------------------
(***************************************************************************)
(* For any number of brokers and reports, and whatever calls and commits   *)
(* are late or fail: a broker leads only in an epoch the metadata gave it; *)
(* while promotions do not overlap no two brokers lead in one epoch; and,  *)
(* overlapping or not, promotions keep the replicas CreateTopic chose.     *)
(*                                                                         *)
(* The roles on the brokers are no help in an induction: what is needed is *)
(* that a goroutine sends the role of the leader only after its commit     *)
(* (Jobs, Calls), and, while promotions do not overlap, that at most one   *)
(* goroutine is about to commit, the epoch that follows the committed one  *)
(* (OneCommits).                                                           *)
(*                                                                         *)
(* For the replicas (NInv) the metadata a goroutine is about to commit     *)
(* must already name the first brokers, as many as are committed, and the  *)
(* backup it picked must be one of them, however stale its read was.       *)
(***************************************************************************)
EXTENDS Coordinator, FiniteSetTheorems, TLAPS

\* Records with the fields the code's types have.
JobShape(r) == r = [pc |-> r.pc, todo |-> r.todo, target |-> r.target,
                    backups |-> r.backups, epoch |-> r.epoch]
PartShape(r) == r = [exists |-> r.exists, role |-> r.role, epoch |-> r.epoch, leader |-> r.leader]
CallShape(m) == m = [to |-> m.to, role |-> m.role, epoch |-> m.epoch, leader |-> m.leader, by |-> m.by]

\* What is known of a goroutine when the committed epoch is e and el were elected: it
\* sends roles after its commit; CreateTopic comes first, and a failover only after.
JobInv(j, r, e, el) ==
  /\ JobShape(r) /\ r.epoch \in Nat
  /\ r.pc \in {"init", "initBackups", "lead"} => <<r.epoch, r.target>> \in el
  /\ r.pc = "commit" => r.epoch > 0
  /\ j = "create" => /\ r.todo = {} /\ r.pc \notin {"grace", "scan", "pick", "read"}
                     /\ r.pc \in {"idle", "commit"} => e = 0
  /\ j # "create" => (r.pc \in {"pick", "read", "commit"} => e > 0)

Jobs == /\ DOMAIN job = Job
        /\ \A j \in Job : JobInv(j, job[j], fsm.epoch, elected)

\* A call that makes a broker the leader names an elected one.
CallInv(m, el) ==
  CallShape(m) /\ (m.role = "Leader" /\ m.epoch > 0 => <<m.epoch, m.to>> \in el)

Calls == \A m \in calls : CallInv(m, elected)

\* A broker that leads was elected, whether or not its partition has been created.
PartInv(b, r, el) ==
  PartShape(r) /\ (r.role = "Leader" /\ r.epoch > 0 => <<r.epoch, b>> \in el)

Parts == /\ DOMAIN part = Broker
         /\ \A b \in Broker : PartInv(b, part[b], elected)

\* While promotions do not overlap, one goroutine commits at a time, and every commit
\* has an epoch of its own.
OneCommits ==
  ~overlapped =>
    /\ \A x \in elected : x[1] \in Nat /\ x[1] <= fsm.epoch
    /\ \A x, y \in elected : x[1] = y[1] => x[2] = y[2]
    /\ \A j \in Job : job[j].pc = "commit" => job[j].epoch = fsm.epoch + 1
    /\ \A j, k \in Job : job[j].pc = "commit" /\ job[k].pc = "commit" => j = k

IInv == fsm.epoch \in Nat /\ Jobs /\ Calls /\ Parts /\ OneCommits

-----------------------------------------------------------------------------
(* Goroutines.                                                             *)

\* A goroutine at rest.
LEMMA RestIs ==
  ASSUME NEW pc
  PROVE  /\ JobShape(Rest(pc)) /\ Rest(pc).pc = pc /\ Rest(pc).todo = {} /\ Rest(pc).epoch = 0
         /\ Rest(pc).target = NoBroker /\ Rest(pc).backups = <<>>
  BY DEF Rest, JobShape

\* What Resume leaves of a goroutine.
LEMMA ResumeIs ==
  ASSUME NEW j, NEW todo
  PROVE  /\ JobShape(Resume(j, todo)) /\ Resume(j, todo).epoch = 0
         /\ Resume(j, todo).todo = todo
         /\ Resume(j, todo).target = NoBroker /\ Resume(j, todo).backups = <<>>
         /\ Resume(j, todo).pc \in {"scan", "idle", "done"}
         /\ todo = {} /\ j # "loop" => Resume(j, todo).pc = "done"
<1>1. CASE todo # {}
  BY <1>1 DEF Resume, Rest, JobShape
<1>2. CASE todo = {}
  BY <1>2, RestIs DEF Resume
<1> QED
  BY <1>1, <1>2

\* A goroutine that resumes is as it should be.
LEMMA ResumeInv ==
  ASSUME NEW j \in Job, Jobs
  PROVE  JobInv(j, Resume(j, job[j].todo), fsm.epoch, elected)
<1> DEFINE r == Resume(j, job[j].todo)
<1>1. JobShape(r) /\ r.epoch = 0 /\ r.todo = job[j].todo /\ r.pc \in {"scan", "idle", "done"}
  BY ResumeIs
<1>2. j = "create" => r.todo = {} /\ r.pc = "done"
  BY <1>1, ResumeIs, Zenon DEF Jobs, JobInv
<1> HIDE DEF r
<1>3. JobInv(j, r, fsm.epoch, elected)
  BY <1>1, <1>2 DEF JobInv
<1> QED
  BY <1>3 DEF r

\* A step of a goroutine that neither commits nor is about to.
LEMMA JobMoves ==
  ASSUME IInv, NEW j \in Job, NEW x, job' = [job EXCEPT ![j] = x],
         JobInv(j, x, fsm.epoch, elected), x.pc # "commit",
         UNCHANGED <<fsm, elected, overlapped>>
  PROVE  fsm'.epoch \in Nat /\ Jobs' /\ OneCommits'
<1>1. DOMAIN job' = Job /\ \A k \in Job : job'[k] = IF k = j THEN x ELSE job[k]
  BY DEF IInv, Jobs
<1>2. Jobs'
  BY <1>1 DEF IInv, Jobs
<1>3. OneCommits'
  BY <1>1 DEF IInv, OneCommits
<1> QED
  BY <1>2, <1>3 DEF IInv

\* The goroutines do nothing.
LEMMA JobsStay ==
  ASSUME IInv, UNCHANGED <<fsm, job, elected, overlapped>>
  PROVE  fsm'.epoch \in Nat /\ Jobs' /\ OneCommits'
  BY DEF IInv, Jobs, OneCommits

\* The brokers do nothing, and no new call is made.
LEMMA BrokersStay ==
  ASSUME IInv, elected \subseteq elected', UNCHANGED <<calls, part>>
  PROVE  Calls' /\ Parts'
  BY DEF IInv, Calls, CallInv, Parts, PartInv

\* A change of the program counter.
LEMMA PcIs ==
  ASSUME IInv, NEW j \in Job, NEW pc
  PROVE  LET x == [job[j] EXCEPT !.pc = pc]
         IN  /\ [job EXCEPT ![j].pc = pc] = [job EXCEPT ![j] = x]
             /\ JobShape(x) /\ x.pc = pc /\ x.todo = job[j].todo /\ x.target = job[j].target
             /\ x.epoch = job[j].epoch /\ x.backups = job[j].backups
<1> DEFINE r == job[j]
<1>1. JobShape(r)
  BY Zenon DEF IInv, Jobs, JobInv
<1>2. [job EXCEPT ![j].pc = pc] = [job EXCEPT ![j] = [r EXCEPT !.pc = pc]]
  OBVIOUS
<1> HIDE DEF r
<1>3. [r EXCEPT !.pc = pc] = [pc |-> pc, todo |-> r.todo, target |-> r.target,
                              backups |-> r.backups, epoch |-> r.epoch]
  BY <1>1 DEF JobShape
<1> QED
  BY <1>2, <1>3 DEF r, JobShape

\* The next thing after a commit.
LEMMA PcMoves ==
  ASSUME IInv, NEW j \in Job, NEW pc \in {"initBackups", "lead", "follow"},
         job' = [job EXCEPT ![j].pc = pc],
         pc # "follow" => job[j].pc \in {"init", "initBackups"},
         UNCHANGED <<fsm, elected, overlapped>>
  PROVE  fsm'.epoch \in Nat /\ Jobs' /\ OneCommits'
<1> DEFINE x == [job[j] EXCEPT !.pc = pc]
<1>1. /\ job' = [job EXCEPT ![j] = x]
      /\ JobShape(x) /\ x.pc = pc /\ x.todo = job[j].todo /\ x.target = job[j].target
      /\ x.epoch = job[j].epoch
  BY PcIs
<1>2. JobInv(j, job[j], fsm.epoch, elected)
  BY DEF IInv, Jobs
<1> HIDE DEF x
<1>3. JobInv(j, x, fsm.epoch, elected)
  BY <1>1, <1>2 DEF JobInv
<1> QED
  BY <1>1, <1>3, JobMoves, Zenon

-----------------------------------------------------------------------------
(* Calls and brokers.                                                      *)

\* New calls, which are as they should be.
LEMMA CallsSent ==
  ASSUME IInv, NEW ms, Send(ms), \A m \in ms : CallInv(m, elected), UNCHANGED <<elected, part>>
  PROVE  Calls' /\ Parts'
  BY DEF Send, IInv, Calls, Parts

\* Calls to followers make nobody the leader.
LEMMA FollowerCallsInv ==
  ASSUME NEW p, NEW backups, NEW e, NEW s, NEW j
  PROVE  \A m \in FollowerCalls(p, backups, e, s, j) : CallInv(m, elected)
  BY DEF FollowerCalls, CallInv, CallShape

\* What a crash leaves of the partition on b.
LEMMA CrashIs ==
  ASSUME IInv, NEW b \in Broker, Crash(b)
  PROVE  part' = [part EXCEPT ![b] = [exists |-> part[b].exists, role |-> "Leader", epoch |-> 0,
                                      leader |-> NoBroker]]
<1> DEFINE r == part[b]
           x == [[[r EXCEPT !.role = "Leader"] EXCEPT !.epoch = 0] EXCEPT !.leader = NoBroker]
<1>1. part' = [part EXCEPT ![b] = x]
  BY Zenon DEF Crash, IInv, Parts
<1>2. PartShape(r)
  BY Zenon DEF IInv, Parts, PartInv
<1> HIDE DEF r
<1>3. x = [exists |-> r.exists, role |-> "Leader", epoch |-> 0, leader |-> NoBroker]
  <2> DEFINE y == [r EXCEPT !.role = "Leader"]
             z == [y EXCEPT !.epoch = 0]
  <2>1. y = [exists |-> r.exists, role |-> "Leader", epoch |-> r.epoch, leader |-> r.leader]
    BY <1>2 DEF PartShape
  <2> HIDE DEF y
  <2>2. z = [exists |-> r.exists, role |-> "Leader", epoch |-> 0, leader |-> r.leader]
    BY <2>1
  <2> HIDE DEF z
  <2>3. [z EXCEPT !.leader = NoBroker]
          = [exists |-> r.exists, role |-> "Leader", epoch |-> 0, leader |-> NoBroker]
    BY <2>2
  <2> QED
    BY <2>3 DEF z, y
<1> HIDE DEF x
<1> QED
  BY <1>1, <1>3 DEF r

\* The steps of brokers, heartbeats and calls under way.
LEMMA BrokerStep ==
  ASSUME IInv, NEW b \in Broker, NEW leo \in 0 .. MaxLEO,
         RegisterBroker(b) \/ Heartbeat(b, leo) \/ Age(b) \/ Crash(b) \/ Restart(b)
  PROVE  IInv'
<1>1. UNCHANGED <<fsm, job, elected, overlapped>>
  BY DEF RegisterBroker, Heartbeat, Age, Crash, Restart, coordVars, history
<1>2. CASE RegisterBroker(b) \/ Age(b) \/ Restart(b)
  <2>1. UNCHANGED <<calls, part>>
    BY <1>2 DEF RegisterBroker, Age, Restart, brokerVars
  <2> QED
    BY <1>1, <2>1, JobsStay, BrokersStay DEF IInv
<1>3. CASE Heartbeat(b, leo)
  <2> DEFINE ms == IF seen[b] = "dead" THEN RejoinCalls(b, seen') ELSE {}
  <2>1. Send(ms) /\ UNCHANGED part
    BY <1>3 DEF Heartbeat, brokerVars
  <2>2. \A m \in ms : CallInv(m, elected)
    BY FollowerCallsInv DEF RejoinCalls
  <2> HIDE DEF ms
  <2> QED
    BY <1>1, <2>1, <2>2, JobsStay, CallsSent DEF IInv
<1>4. CASE Crash(b)
  <2> DEFINE x == [exists |-> part[b].exists, role |-> "Leader", epoch |-> 0, leader |-> NoBroker]
  <2>1. calls' \subseteq calls /\ part' = [part EXCEPT ![b] = x]
    BY <1>4, CrashIs, Zenon DEF Crash
  <2>2. PartInv(b, x, elected)
    BY DEF PartInv, PartShape
  <2> HIDE DEF x
  <2>3. Parts' /\ Calls'
    BY <1>1, <2>1, <2>2 DEF IInv, Parts, Calls
  <2> QED
    BY <1>1, <2>3, JobsStay DEF IInv
<1> QED
  BY <1>2, <1>3, <1>4

\* A call is executed, lost, or given up by its caller.
LEMMA CallStep ==
  ASSUME IInv, NEW m \in calls, Deliver(m) \/ Lose(m) \/ TimeOut(m)
  PROVE  IInv'
<1>1. UNCHANGED <<fsm, job, elected, overlapped>>
  BY DEF Deliver, Lose, TimeOut, coordVars, history
<1>2. CallInv(m, elected)
  BY DEF IInv, Calls
<1>3. CASE Deliver(m)
  <2>1. calls' \subseteq calls
    BY <1>3 DEF Deliver
  <2>2. CASE part' = part
    BY <1>1, <2>1, <2>2, JobsStay DEF IInv, Calls, Parts
  <2>3. CASE part' # part
    <3> DEFINE x == [exists |-> TRUE, role |-> m.role, epoch |-> m.epoch,
                     leader |-> IF m.role = "Follower" THEN m.leader ELSE part[m.to].leader]
    <3>1. part' = [part EXCEPT ![m.to] = x]
      BY <1>3, <2>3 DEF Deliver
    <3>2. PartInv(m.to, x, elected)
      BY <1>2 DEF PartInv, PartShape, CallInv
    <3> HIDE DEF x
    <3>3. Parts' /\ Calls'
      BY <1>1, <2>1, <3>1, <3>2 DEF IInv, Parts, Calls
    <3> QED
      BY <1>1, <3>3, JobsStay DEF IInv
  <2> QED
    BY <2>2, <2>3
<1>4. CASE Lose(m)
  <2>1. calls' \subseteq calls /\ part' = part
    BY <1>4 DEF Lose, brokerVars
  <2> QED
    BY <1>1, <2>1, JobsStay DEF IInv, Calls, Parts
<1>5. CASE TimeOut(m)
  <2> DEFINE n == [m EXCEPT !.by = "none"]
  <2>1. calls' = (calls \ {m}) \cup {n} /\ part' = part
    BY <1>5 DEF TimeOut, brokerVars
  <2>2. n = [to |-> m.to, role |-> m.role, epoch |-> m.epoch, leader |-> m.leader, by |-> "none"]
    BY <1>2 DEF CallInv, CallShape
  <2> HIDE DEF n
  <2>3. CallInv(n, elected)
    BY <1>2, <2>2 DEF CallInv, CallShape
  <2>4. Parts' /\ Calls'
    BY <1>1, <2>1, <2>3 DEF IInv, Parts, Calls
  <2> QED
    BY <1>1, <2>4, JobsStay DEF IInv
<1> QED
  BY <1>3, <1>4, <1>5

-----------------------------------------------------------------------------
(* The steps of the goroutines.                                            *)

\* What CreateTopic is about to commit.
LEMMA CreateTopicIs ==
  ASSUME CreateTopic
  PROVE  job' = [job EXCEPT !["create"] =
                   [pc |-> "commit", todo |-> {}, target |-> Head(brokers),
                    backups |-> selectBackups(Head(brokers)), epoch |-> 1]]
<1> DEFINE bs == selectBackups(Head(brokers))
           x == [pc |-> "commit", todo |-> {}, target |-> Head(brokers), backups |-> bs, epoch |-> 1]
<1> HIDE DEF bs
<1>1. [Rest("commit") EXCEPT !.target = Head(brokers), !.backups = bs, !.epoch = 1] = x
  <2> DEFINE h == Head(brokers)
             r == Rest("commit")
             y == [r EXCEPT !.target = h]
             z == [y EXCEPT !.backups = bs]
  <2> HIDE DEF h, r
  <2>1. y = [pc |-> "commit", todo |-> {}, target |-> h, backups |-> r.backups, epoch |-> 0]
    <3>1. JobShape(r) /\ r.pc = "commit" /\ r.todo = {} /\ r.epoch = 0
      BY RestIs DEF r
    <3> QED
      BY <3>1 DEF JobShape
  <2> HIDE DEF y
  <2>2. z = [pc |-> "commit", todo |-> {}, target |-> h, backups |-> bs, epoch |-> 0]
    BY <2>1
  <2> HIDE DEF z
  <2>3. [z EXCEPT !.epoch = 1]
          = [pc |-> "commit", todo |-> {}, target |-> h, backups |-> bs, epoch |-> 1]
    BY <2>2
  <2> QED
    BY <2>3 DEF z, y, r, h
<1> QED
  BY <1>1, Zenon DEF CreateTopic, bs

\* CreateTopic is about to commit the first epoch.
LEMMA CreateTopicStep ==
  ASSUME IInv, CreateTopic
  PROVE  IInv'
<1> DEFINE bs == selectBackups(Head(brokers))
           x == [pc |-> "commit", todo |-> {}, target |-> Head(brokers), backups |-> bs, epoch |-> 1]
<1>1. "create" \in Job
  BY DEF Job
<1>2. /\ job["create"].pc = "idle"
      /\ job' = [job EXCEPT !["create"] = x]
      /\ UNCHANGED <<fsm, elected, overlapped, calls, part>>
  BY CreateTopicIs, Zenon DEF CreateTopic, history, brokerVars
<1>3. fsm.epoch = 0
  BY <1>1, <1>2, Zenon DEF IInv, Jobs, JobInv
<1>4. JobInv("create", x, 0, elected) /\ x.pc = "commit" /\ x.epoch = 1
  BY DEF JobInv, JobShape
<1> HIDE DEF x
<1>5. DOMAIN job' = Job /\ \A k \in Job : job'[k] = IF k = "create" THEN x ELSE job[k]
  BY <1>2 DEF IInv, Jobs
<1>6. Jobs'
  BY <1>2, <1>3, <1>4, <1>5 DEF IInv, Jobs
<1>7. \A k \in Job : k # "create" => job[k].pc # "commit"
  <2> SUFFICES ASSUME NEW k \in Job, k # "create", job[k].pc = "commit" PROVE FALSE
    OBVIOUS
  <2>1. JobInv(k, job[k], 0, elected)
    BY <1>3 DEF IInv, Jobs
  <2> QED
    BY <2>1 DEF JobInv
<1>8. OneCommits'
  BY <1>2, <1>3, <1>4, <1>5, <1>7 DEF IInv, OneCommits
<1> QED
  BY <1>2, <1>6, <1>8, BrokersStay DEF IInv

\* A commit: the epoch is that of the goroutine, which no other has.
LEMMA CommitStep ==
  ASSUME IInv, NEW j \in Job, NEW pc \in {"init", "lead"}, job[j].pc = "commit",
         fsm' = [primary |-> job[j].target, backups |-> job[j].backups, epoch |-> job[j].epoch],
         elected' = elected \cup {<<job[j].epoch, job[j].target>>},
         job' = [job EXCEPT ![j].pc = pc], UNCHANGED <<overlapped, calls, part>>
  PROVE  IInv'
<1> DEFINE x == [job[j] EXCEPT !.pc = pc]
           e == job[j].epoch
           t == job[j].target
<1>1. /\ job' = [job EXCEPT ![j] = x]
      /\ JobShape(x) /\ x.pc = pc /\ x.todo = job[j].todo /\ x.target = t /\ x.epoch = e
  BY PcIs
<1>2. /\ fsm'.epoch = e /\ e \in Nat /\ e > 0
      /\ j = "create" => job[j].todo = {}
      /\ j # "create" => fsm.epoch > 0
      /\ fsm.epoch \in Nat
  BY Zenon DEF IInv, Jobs, JobInv
<1>3. \A k \in Job : JobInv(k, job[k], fsm.epoch, elected)
  BY DEF IInv, Jobs
<1> HIDE DEF x
<1>4. DOMAIN job' = Job /\ \A k \in Job : job'[k] = IF k = j THEN x ELSE job[k]
  BY <1>1 DEF IInv, Jobs
<1> HIDE DEF e, t
<1>5. elected' = elected \cup {<<e, t>>}
  BY DEF e, t
<1>6. JobInv(j, x, e, elected')
  BY <1>1, <1>2, <1>5 DEF JobInv
<1>7. ASSUME NEW k \in Job, k # j PROVE JobInv(k, job[k], e, elected')
  <2>1. k = "create" => job[k].pc \notin {"idle", "commit"}
    <3>1. JobInv(k, job[k], fsm.epoch, elected)
      BY <1>3
    <3> QED
      BY <1>2, <1>7, <3>1 DEF JobInv
  <2>2. job[k].pc \in {"init", "initBackups", "lead"} => <<job[k].epoch, job[k].target>> \in elected'
    BY <1>3, <1>5 DEF JobInv
  <2> QED
    BY <1>2, <1>3, <2>1, <2>2 DEF JobInv
<1>8. Jobs'
  BY <1>2, <1>4, <1>6, <1>7 DEF Jobs
<1>9. OneCommits'
  <2> SUFFICES ASSUME ~overlapped
               PROVE  /\ \A y \in elected' : y[1] \in Nat /\ y[1] <= e
                      /\ \A y, z \in elected' : y[1] = z[1] => y[2] = z[2]
                      /\ \A k \in Job : job'[k].pc # "commit"
    BY <1>2 DEF OneCommits
  <2>1. /\ \A y \in elected : y[1] \in Nat /\ y[1] <= fsm.epoch
        /\ \A y, z \in elected : y[1] = z[1] => y[2] = z[2]
        /\ e = fsm.epoch + 1
        /\ \A k \in Job : job[k].pc = "commit" => k = j
    BY DEF IInv, OneCommits, e
  <2>2. \A y \in elected : y[1] \in Nat /\ y[1] < e
    BY <1>2, <2>1
  <2>3. \A y \in elected' : y[1] \in Nat /\ y[1] <= e
    BY <1>2, <1>5, <2>2
  <2>4. \A y, z \in elected' : y[1] = z[1] => y[2] = z[2]
    BY <1>2, <1>5, <2>1, <2>2
  <2>5. \A k \in Job : job'[k].pc # "commit"
    BY <1>1, <1>4, <2>1
  <2> QED
    BY <2>3, <2>4, <2>5
<1> QED
  BY <1>2, <1>5, <1>8, <1>9, BrokersStay DEF IInv

\* A partition that is created keeps its role.
LEMMA ExistsIs ==
  ASSUME NEW r, PartShape(r)
  PROVE  [r EXCEPT !.exists = TRUE]
           = [exists |-> TRUE, role |-> r.role, epoch |-> r.epoch, leader |-> r.leader]
<1>1. ASSUME NEW v
      PROVE  [r EXCEPT !.exists = v]
               = [exists |-> v, role |-> r.role, epoch |-> r.epoch, leader |-> r.leader]
  BY DEF PartShape
<1> QED
  BY <1>1, Zenon

\* InitPartitions changes neither roles nor epochs.
LEMMA InitPartitionsStep ==
  ASSUME IInv, NEW created \in SUBSET Broker,
         initPartitions(created) \/ initBackupPartitions(created)
  PROVE  IInv'
<1>1. "create" \in Job
  BY DEF Job
<1>2. /\ InitPartitions(created)
      /\ \E pc \in {"initBackups", "lead"} : job' = [job EXCEPT !["create"].pc = pc]
      /\ job["create"].pc \in {"init", "initBackups"}
  BY DEF initPartitions, initBackupPartitions
<1>3. UNCHANGED <<fsm, elected, overlapped, calls>>
  BY <1>2 DEF InitPartitions, history
<1>4. fsm'.epoch \in Nat /\ Jobs' /\ OneCommits'
  BY <1>1, <1>2, <1>3, PcMoves, Zenon
<1>5. Parts'
  <2>1. DOMAIN part' = Broker
    BY <1>2 DEF InitPartitions
  <2>2. ASSUME NEW b \in Broker PROVE PartInv(b, part'[b], elected)
    <3> DEFINE r == part[b]
               x == [r EXCEPT !.exists = TRUE]
    <3>1. PartInv(b, r, elected)
      BY DEF IInv, Parts
    <3>2. part'[b] = r \/ part'[b] = x
      BY <1>2 DEF InitPartitions
    <3> HIDE DEF r
    <3>3. x = [exists |-> TRUE, role |-> r.role, epoch |-> r.epoch, leader |-> r.leader]
      BY <3>1, ExistsIs DEF PartInv
    <3> HIDE DEF x
    <3>4. PartInv(b, x, elected)
      BY <3>1, <3>3 DEF PartInv, PartShape
    <3> QED
      BY <3>1, <3>2, <3>4
  <2> QED
    BY <1>3, <2>1, <2>2 DEF Parts
<1>6. Calls'
  BY <1>3 DEF IInv, Calls
<1> QED
  BY <1>4, <1>5, <1>6 DEF IInv

\* A failover begins: a tick of the loop, or a report.
LEMMA BeginStep ==
  ASSUME IInv, NEW j \in Job \ {"create"}, NEW pc \in {"idle", "scan"}, NEW todo,
         job' = [job EXCEPT ![j] = [Rest(pc) EXCEPT !.todo = todo]],
         UNCHANGED <<fsm, elected, overlapped, calls, part>>
  PROVE  IInv'
<1> DEFINE r == Rest(pc)
           x == [r EXCEPT !.todo = todo]
<1>1. JobShape(r) /\ r.pc = pc /\ r.epoch = 0
  BY RestIs
<1> HIDE DEF r
<1>2. JobShape(x) /\ x.pc = pc /\ x.epoch = 0
  BY <1>1 DEF JobShape
<1>3. job' = [job EXCEPT ![j] = x]
  BY DEF r
<1> HIDE DEF x
<1>4. JobInv(j, x, fsm.epoch, elected) /\ x.pc # "commit"
  BY <1>2 DEF JobInv
<1>5. fsm'.epoch \in Nat /\ Jobs' /\ OneCommits'
  BY <1>3, <1>4, JobMoves, Zenon
<1> QED
  BY <1>5, BrokersStay DEF IInv

\* The four ways to begin one.
LEMMA TriggerStep ==
  ASSUME IInv, \/ GraceOver \/ FailoverTick
               \/ \E r \in Reporter, b \in Broker : ReportLeaderUnreachable(r, b)
  PROVE  IInv'
<1>1. UNCHANGED <<fsm, elected, overlapped, calls, part>>
  BY DEF GraceOver, FailoverTick, ReportLeaderUnreachable, history, brokerVars
<1>2. "loop" \in Job \ {"create"} /\ Reporter \subseteq Job \ {"create"}
  BY CoordinatorAssumption DEF Job
<1>3. CASE GraceOver
  <2>1. Rest("idle") = [Rest("idle") EXCEPT !.todo = {}]
    <3> DEFINE r == Rest("idle")
    <3>1. JobShape(r) /\ r.todo = {}
      BY RestIs
    <3> HIDE DEF r
    <3>2. r = [r EXCEPT !.todo = {}]
      BY <3>1 DEF JobShape
    <3> QED
      BY <3>2 DEF r
  <2>2. job' = [job EXCEPT !["loop"] = [Rest("idle") EXCEPT !.todo = {}]]
    BY <1>3, <2>1, Zenon DEF GraceOver
  <2> QED
    BY <1>1, <1>2, <2>2, BeginStep, Zenon
<1>4. CASE FailoverTick
  <2>1. \E todo : job' = [job EXCEPT !["loop"] = [Rest("scan") EXCEPT !.todo = todo]]
    BY <1>4, Zenon DEF FailoverTick
  <2> QED
    BY <1>1, <1>2, <2>1, BeginStep, Zenon
<1>5. ASSUME NEW r \in Reporter, NEW b \in Broker, ReportLeaderUnreachable(r, b) PROVE IInv'
  <2>1. job' = [job EXCEPT ![r] = [Rest("scan") EXCEPT !.todo = {part[b].leader}]]
    BY <1>5 DEF ReportLeaderUnreachable
  <2> QED
    BY <1>1, <1>2, <2>1, BeginStep, Zenon
<1> QED
  BY <1>3, <1>4, <1>5

\* A goroutine goes on to the next broker, or ends.
LEMMA ResumeStep ==
  ASSUME IInv, NEW j \in Job, job' = [job EXCEPT ![j] = Resume(j, job[j].todo)],
         UNCHANGED <<fsm, elected, overlapped, calls, part>>
  PROVE  IInv'
<1>1. JobInv(j, Resume(j, job[j].todo), fsm.epoch, elected)
  BY ResumeInv DEF IInv
<1>2. Resume(j, job[j].todo).pc # "commit"
  BY ResumeIs
<1>3. fsm'.epoch \in Nat /\ Jobs' /\ OneCommits'
  BY <1>1, <1>2, JobMoves, Zenon
<1> QED
  BY <1>3, BrokersStay DEF IInv

\* failOverBrokerPartitions finds the partition committed before it picks a leader.
LEMMA FailOverStep ==
  ASSUME IInv, NEW j \in Job, NEW d \in Broker, failOverBrokerPartitions(j, d)
  PROVE  IInv'
<1> DEFINE r == job[j]
           todo == r.todo \ {d}
           x == IF Committed /\ fsm.primary = d
                THEN [pc |-> "pick", todo |-> todo, target |-> r.target,
                      backups |-> fsm.backups, epoch |-> r.epoch]
                ELSE Resume(j, todo)
<1>1. JobInv(j, r, fsm.epoch, elected) /\ r.pc = "scan"
  BY DEF IInv, Jobs, failOverBrokerPartitions
<1>2. j # "create"
  BY <1>1 DEF JobInv
<1>3. /\ job' = [job EXCEPT ![j] = x]
      /\ UNCHANGED <<fsm, elected, overlapped, calls, part>>
  BY DEF failOverBrokerPartitions, history, brokerVars
<1>4. JobInv(j, x, fsm.epoch, elected) /\ x.pc # "commit"
  <2>1. CASE Committed /\ fsm.primary = d
    <3>1. x = [pc |-> "pick", todo |-> todo, target |-> r.target, backups |-> fsm.backups,
               epoch |-> r.epoch]
      BY <2>1, Zenon
    <3> QED BY <1>1, <1>2, <2>1, <3>1, Zenon DEF JobInv, JobShape, Committed
  <2>2. CASE ~(Committed /\ fsm.primary = d)
    <3>1. x = Resume(j, todo)
      BY <2>2
    <3> HIDE DEF x, todo
    <3>2. JobShape(x) /\ x.epoch = 0 /\ x.pc \in {"scan", "idle", "done"}
      BY <3>1, ResumeIs
    <3> QED
      BY <1>2, <3>2 DEF JobInv
  <2> QED
    BY <2>1, <2>2
<1> HIDE DEF x
<1>5. fsm'.epoch \in Nat /\ Jobs' /\ OneCommits'
  BY <1>3, <1>4, JobMoves, Zenon
<1> QED
  BY <1>3, <1>5, BrokersStay DEF IInv

\* pickNewLeader takes a backup, or gives up.
LEMMA PickStep ==
  ASSUME IInv, NEW j \in Job, pickNewLeader(j)
  PROVE  IInv'
<1> DEFINE r == job[j]
<1>1. JobInv(j, r, fsm.epoch, elected) /\ r.pc = "pick"
  BY DEF IInv, Jobs, pickNewLeader
<1>2. j # "create" /\ fsm.epoch > 0
  BY <1>1 DEF JobInv
<1>3. UNCHANGED <<fsm, elected, overlapped, calls, part>>
  BY DEF pickNewLeader, history, brokerVars
<1>4. CASE job' = [job EXCEPT ![j] = Resume(j, r.todo)]
  BY <1>3, <1>4, ResumeStep, Zenon
<1>5. ASSUME NEW t,
             job' = [job EXCEPT ![j] = [pc |-> "read", todo |-> r.todo, target |-> t,
                                        backups |-> <<>>, epoch |-> r.epoch]]
      PROVE  IInv'
  <2> DEFINE x == [pc |-> "read", todo |-> r.todo, target |-> t, backups |-> <<>>, epoch |-> r.epoch]
  <2>1. job' = [job EXCEPT ![j] = x]
    BY <1>5
  <2>2. JobInv(j, x, fsm.epoch, elected) /\ x.pc # "commit"
    BY <1>1, <1>2 DEF JobInv, JobShape
  <2> HIDE DEF x
  <2>3. fsm'.epoch \in Nat /\ Jobs' /\ OneCommits'
    BY <1>3, <2>1, <2>2, JobMoves, Zenon
  <2> QED
    BY <1>3, <2>3, BrokersStay DEF IInv
<1>6. \/ job' = [job EXCEPT ![j] = Resume(j, r.todo)]
      \/ \E t : job' = [job EXCEPT ![j] = [pc |-> "read", todo |-> r.todo, target |-> t,
                                           backups |-> <<>>, epoch |-> r.epoch]]
  BY DEF pickNewLeader
<1> QED
  BY <1>4, <1>5, <1>6

\* UpdatePartitionLeader reads the FSM: if another is about to commit, they overlap.
LEMMA UpdateReadStep ==
  ASSUME IInv, NEW j \in Job, UpdateRead(j)
  PROVE  IInv'
<1> DEFINE r == job[j]
           bs == BackupsWithout(r.target)
           e == fsm.epoch + 1
           x == [pc |-> "commit", todo |-> r.todo, target |-> r.target, backups |-> bs, epoch |-> e]
<1>1. JobInv(j, r, fsm.epoch, elected) /\ r.pc = "read" /\ fsm.epoch \in Nat
  BY DEF IInv, Jobs, UpdateRead
<1>2. j # "create" /\ fsm.epoch > 0
  BY <1>1 DEF JobInv
<1>3. /\ overlapped' = (overlapped \/ \E k \in Job : k # j /\ job[k].pc = "commit")
      /\ UNCHANGED <<fsm, elected, calls, part>>
  BY DEF UpdateRead, brokerVars
<1>4. job' = [job EXCEPT ![j] = x]
  BY DEF UpdateRead
<1> HIDE DEF bs
<1>5. JobInv(j, x, fsm.epoch, elected) /\ x.pc = "commit" /\ x.epoch = fsm.epoch + 1
  BY <1>1, <1>2 DEF JobInv, JobShape
<1> HIDE DEF x
<1>6. DOMAIN job' = Job /\ \A k \in Job : job'[k] = IF k = j THEN x ELSE job[k]
  BY <1>4 DEF IInv, Jobs
<1>7. Jobs'
  BY <1>3, <1>5, <1>6 DEF IInv, Jobs
<1>8. OneCommits'
  BY <1>3, <1>5, <1>6, Zenon DEF IInv, OneCommits
<1> QED
  BY <1>1, <1>3, <1>7, <1>8, BrokersStay DEF IInv

\* The new leader is told, after the commit.
LEMMA LeadStep ==
  ASSUME IInv, NEW j \in Job, assignLeaderRoles(j)
  PROVE  IInv'
<1>1. JobInv(j, job[j], fsm.epoch, elected) /\ job[j].pc = "lead"
  BY DEF IInv, Jobs, assignLeaderRoles
<1>2. <<job[j].epoch, job[j].target>> \in elected
  BY <1>1 DEF JobInv
<1>3. UNCHANGED <<fsm, elected, overlapped, part>>
  BY DEF assignLeaderRoles, history, brokerVars
<1>4. \A m \in LeaderCall(job[j].target, job[j].epoch, j) : CallInv(m, elected)
  BY <1>2 DEF LeaderCall, CallInv, CallShape
<1>5. Calls' /\ Parts'
  BY <1>3, <1>4, CallsSent DEF assignLeaderRoles
<1>6. job' = [job EXCEPT ![j].pc = "follow"]
  BY DEF assignLeaderRoles
<1>7. fsm'.epoch \in Nat /\ Jobs' /\ OneCommits'
  BY <1>3, <1>6, PcMoves, Zenon
<1> QED
  BY <1>5, <1>7 DEF IInv

\* The followers are told.
LEMMA FollowStep ==
  ASSUME IInv, NEW j \in Job, assignFollowerRoles(j)
  PROVE  IInv'
<1> DEFINE r == Rest("wait")
           todo == job[j].todo
           x == [r EXCEPT !.todo = todo]
<1>1. JobShape(r) /\ r.pc = "wait" /\ r.epoch = 0
  BY RestIs
<1>2. /\ job' = [job EXCEPT ![j] = x]
      /\ UNCHANGED <<fsm, elected, overlapped, part>>
  BY DEF assignFollowerRoles, history, brokerVars
<1>3. j = "create" => todo = {}
  BY Zenon DEF IInv, Jobs, JobInv
<1>4. Calls' /\ Parts'
  BY <1>2, CallsSent, FollowerCallsInv DEF assignFollowerRoles
<1> HIDE DEF r, todo
<1>5. x = [pc |-> "wait", todo |-> todo, target |-> r.target, backups |-> r.backups, epoch |-> 0]
  BY <1>1 DEF JobShape
<1> HIDE DEF x
<1>6. JobInv(j, x, fsm.epoch, elected) /\ x.pc # "commit"
  BY <1>3, <1>5 DEF JobInv, JobShape
<1>7. fsm'.epoch \in Nat /\ Jobs' /\ OneCommits'
  BY <1>2, <1>6, JobMoves, Zenon
<1> QED
  BY <1>4, <1>7 DEF IInv

-----------------------------------------------------------------------------
(* The invariant.                                                          *)

LEMMA InitInv == Init => IInv
<1> SUFFICES ASSUME Init PROVE IInv
  OBVIOUS
<1>1. fsm.epoch = 0 /\ calls = {} /\ elected = {} /\ DOMAIN job = Job /\ DOMAIN part = Broker
  BY DEF Init
<1>2. ASSUME NEW j \in Job PROVE JobInv(j, job[j], fsm.epoch, elected) /\ job[j].pc \in {"grace", "idle"}
  <2> DEFINE pc == IF j = "loop" THEN "grace" ELSE "idle"
  <2>1. job[j] = Rest(pc) /\ pc \in {"grace", "idle"} /\ (j = "create" => pc = "idle")
    BY DEF Init
  <2> HIDE DEF pc
  <2>2. /\ JobShape(job[j]) /\ job[j].pc = pc /\ job[j].todo = {} /\ job[j].epoch = 0
    BY <2>1, RestIs
  <2> QED
    BY <1>1, <2>1, <2>2 DEF JobInv
<1>3. Jobs
  BY <1>1, <1>2 DEF Jobs
<1>4. OneCommits
  BY <1>1, <1>2 DEF OneCommits
<1>5. Parts
  <2>1. ASSUME NEW b \in Broker PROVE PartShape(part[b]) /\ part[b].epoch = 0
    BY DEF Init, PartShape
  <2> QED
    BY <1>1, <2>1 DEF Parts, PartInv
<1> QED
  BY <1>1, <1>3, <1>4, <1>5 DEF IInv, Calls

LEMMA StepPreserves ==
  ASSUME IInv, [Next]_vars
  PROVE  IInv'
<1>1. CASE UNCHANGED vars
  BY <1>1, JobsStay, BrokersStay DEF vars, brokerVars, coordVars, history, IInv
<1>2. ASSUME NEW b \in Broker, NEW leo \in 0 .. MaxLEO, Heartbeat(b, leo) PROVE IInv'
  BY <1>2, BrokerStep
<1>3. ASSUME NEW b \in Broker, RegisterBroker(b) \/ Age(b) \/ Crash(b) \/ Restart(b) PROVE IInv'
  <2>1. 0 \in 0 .. MaxLEO
    BY CoordinatorAssumption
  <2> QED
    BY <1>3, <2>1, BrokerStep
<1>4. ASSUME NEW m \in calls, Deliver(m) \/ Lose(m) \/ TimeOut(m) PROVE IInv'
  BY <1>4, CallStep
<1>5. CASE CreateTopic
  BY <1>5, CreateTopicStep
<1>6. CASE GraceOver \/ FailoverTick \/ \E r \in Reporter, b \in Broker : ReportLeaderUnreachable(r, b)
  BY <1>6, TriggerStep
<1>7. CASE CreateCommit
  <2>1. "create" \in Job
    BY DEF Job
  <2> QED
    BY <1>7, <2>1, CommitStep, Zenon DEF CreateCommit, brokerVars
<1>8. ASSUME NEW created \in SUBSET Broker, initPartitions(created) \/ initBackupPartitions(created)
      PROVE  IInv'
  BY <1>8, InitPartitionsStep
<1>9. ASSUME NEW r \in Reporter, ContextDone(r) PROVE IInv'
  <2>1. r \in Job
    BY DEF Job
  <2> QED
    BY <1>9, <2>1, ResumeStep, Zenon DEF ContextDone, brokerVars, history
<1>10. ASSUME NEW j \in Job, ApplyFails(j) \/ RolesAssigned(j) PROVE IInv'
  BY <1>10, ResumeStep DEF ApplyFails, RolesAssigned, brokerVars, history
<1>11. ASSUME NEW j \in Job, UpdateCommit(j) PROVE IInv'
  BY <1>11, CommitStep, Zenon DEF UpdateCommit, brokerVars
<1>12. ASSUME NEW j \in Job, JobStep(j) PROVE IInv'
  BY <1>10, <1>11, <1>12, FailOverStep, PickStep, UpdateReadStep, LeadStep, FollowStep DEF JobStep
<1>13. CASE CreateStep
  BY <1>7, <1>8, <1>13 DEF CreateStep
<1>14. CASE LoopStep
  BY <1>6, <1>14 DEF LoopStep
<1> QED
  BY <1>1, <1>2, <1>3, <1>4, <1>5, <1>6, <1>9, <1>10, <1>12, <1>13, <1>14 DEF Next

LEMMA Invariance == Spec => []IInv
<1>1. IInv /\ [Next]_vars => IInv'
  BY StepPreserves
<1> QED
  BY <1>1, InitInv, PTL DEF Spec

-----------------------------------------------------------------------------
(* The replicas.                                                           *)

\* Every element of the list is named once.
Once(s) == \A i, l \in DOMAIN s : s[i] = s[l] => i = l

\* t is s without its k-th element.
Without(t, s, k) ==
  /\ Len(t) = Len(s) - 1
  /\ \A i \in 1 .. Len(s) - 1 : t[i] = IF i < k THEN s[i] ELSE s[i + 1]

\* An element that is named once is left out.
LEMMA KeptOthers ==
  ASSUME NEW S, NEW s \in Seq(S), Once(s),
         NEW k \in 1 .. Len(s)
  PROVE  Kept(s, S \ {s[k]}) \in Seq(S) /\ Without(Kept(s, S \ {s[k]}), s, k)
<1> DEFINE n == Len(s)
           I == {l \in DOMAIN s : s[l] \in S \ {s[k]}}
           C(j) == {l \in I : l <= j}
           w(i) == IF i < k THEN i ELSE i + 1
           t == Kept(s, S \ {s[k]})
<1>1. n \in Nat /\ DOMAIN s = 1 .. n /\ k \in 1 .. n /\ \A i \in 1 .. n : s[i] \in S
  OBVIOUS
<1>2. I = (1 .. n) \ {k}
  BY <1>1 DEF Once
<1>3. \A j \in Nat : IsFiniteSet(1 .. j) /\ Cardinality(1 .. j) = j
  <2> TAKE j \in Nat
  <2>1. Cardinality(1 .. j) = IF 1 > j THEN 0 ELSE j - 1 + 1
    BY FS_Interval
  <2> QED
    BY <2>1, FS_Interval
<1>4. ASSUME NEW j \in Nat, k \in 1 .. j PROVE Cardinality((1 .. j) \ {k}) = j - 1
  BY <1>3, <1>4, FS_RemoveElement, Zenon
<1>5. Cardinality(I) = n - 1
  BY <1>1, <1>2, <1>4
<1>6. t = [i \in 1 .. (n - 1) |-> s[Nth(I, i)]]
  BY <1>5 DEF Kept
<1> HIDE DEF I, n, t
<1>7. ASSUME NEW j \in I PROVE Cardinality(C(j)) = IF j < k THEN j ELSE j - 1
  <2>1. j \in 1 .. n /\ j # k /\ j \in Nat
    BY <1>1, <1>2
  <2>2. CASE j < k
    <3>1. \A l : l \in C(j) <=> l \in 1 .. j
      BY <1>1, <1>2, <2>1, <2>2
    <3>2. C(j) = 1 .. j
      BY <3>1, Zenon
    <3> QED
      BY <1>3, <2>1, <2>2, <3>2, Zenon
  <2>3. CASE j > k
    <3>1. \A l : l \in C(j) <=> l \in (1 .. j) \ {k}
      BY <1>1, <1>2, <2>1, <2>3
    <3>2. C(j) = (1 .. j) \ {k}
      BY <3>1, Zenon
    <3>3. k \in 1 .. j
      BY <1>1, <2>1, <2>3
    <3>4. Cardinality(C(j)) = j - 1
      BY <1>4, <2>1, <3>2, <3>3
    <3> QED
      BY <1>1, <2>1, <2>3, <3>4
  <2> QED
    BY <1>1, <2>1, <2>2, <2>3
<1>8. ASSUME NEW i \in 1 .. n - 1 PROVE Nth(I, i) = w(i)
  <2>1. w(i) \in I
    BY <1>1, <1>2
  <2>2. Nth(I, i) = CHOOSE j \in I : Cardinality(C(j)) = i
    BY DEF Nth
  <2> HIDE DEF C
  <2>3. Cardinality(C(w(i))) = i
    <3>1. Cardinality(C(w(i))) = IF w(i) < k THEN w(i) ELSE w(i) - 1
      BY <1>7, <2>1
    <3> QED
      BY <1>1, <3>1
  <2>4. ASSUME NEW j \in I, Cardinality(C(j)) = i PROVE j = w(i)
    <3>1. i = IF j < k THEN j ELSE j - 1
      BY <1>7, <2>4
    <3>2. j \in Nat /\ j # k
      BY <1>1, <1>2
    <3> QED
      BY <1>1, <3>1, <3>2
  <2> HIDE DEF w
  <2>5. Nth(I, i) \in I /\ Cardinality(C(Nth(I, i))) = i
    BY <2>1, <2>2, <2>3, Zenon
  <2> QED
    BY <2>4, <2>5
<1>9. ASSUME NEW i \in 1 .. n - 1 PROVE w(i) \in 1 .. n /\ t[i] = s[w(i)] /\ s[w(i)] \in S
  <2>1. w(i) \in 1 .. n
    BY <1>1
  <2> HIDE DEF w
  <2> QED
    BY <1>1, <1>6, <1>8, <2>1
<1>10. n - 1 \in Nat
  BY <1>1
<1>11. t \in Seq(S) /\ Len(t) = n - 1
  BY <1>6, <1>8, <1>9, <1>10
<1>12. \A i \in 1 .. n - 1 : t[i] = IF i < k THEN s[i] ELSE s[i + 1]
  BY <1>9
<1> QED
  BY <1>11, <1>12, Zenon DEF t, n, Without

\* b is among the first n of the brokers bl.
Among(bl, b, n) == \E i \in 1 .. n : bl[i] = b

\* p and bs name the first of the brokers bl, each of them once.
Names(bl, p, bs) ==
  /\ p \in Broker /\ bs \in Seq(Broker) /\ Len(bs) < Len(bl)
  /\ Once(bs)
  /\ \A i \in DOMAIN bs : bs[i] # p
  /\ \A b \in Broker : (b = p \/ \E i \in DOMAIN bs : bs[i] = b) <=> Among(bl, b, Len(bs) + 1)

\* Any of them may be made the primary.
LEMMA NamesKept ==
  ASSUME NEW bl \in Seq(Broker), NEW s \in Seq(Broker), Once(s),
         Len(s) <= Len(bl),
         \A b \in Broker : (\E i \in DOMAIN s : s[i] = b) <=> Among(bl, b, Len(s)),
         NEW k \in 1 .. Len(s)
  PROVE  LET t == Kept(s, Broker \ {s[k]})
         IN  Names(bl, s[k], t) /\ Len(t) = Len(s) - 1
<1> DEFINE t == Kept(s, Broker \ {s[k]})
           n == Len(s)
           p == s[k]
<1>1. /\ t \in Seq(Broker) /\ Len(t) = n - 1
      /\ \A i \in 1 .. n - 1 : t[i] = IF i < k THEN s[i] ELSE s[i + 1]
  <2>1. t \in Seq(Broker) /\ Without(t, s, k)
    BY KeptOthers
  <2> HIDE DEF t
  <2> QED
    BY <2>1, Zenon DEF Without
<1>2. n \in Nat /\ k \in 1 .. n /\ DOMAIN s = 1 .. n /\ p \in Broker
  OBVIOUS
<1>3. \A i, l \in 1 .. n : s[i] = s[l] => i = l
  BY <1>2 DEF Once
<1> HIDE DEF n, t
<1>4. DOMAIN t = 1 .. n - 1
  BY <1>1, <1>2
<1>5. \A i \in 1 .. n - 1 : t[i] # p
  BY <1>1, <1>2, <1>3
<1>6. ASSUME NEW i \in 1 .. n - 1, NEW l \in 1 .. n - 1, t[i] = t[l] PROVE i = l
  <2> DEFINE w(j) == IF j < k THEN j ELSE j + 1
  <2>1. w(i) \in 1 .. n /\ w(l) \in 1 .. n /\ (w(i) = w(l) => i = l)
    BY <1>2
  <2>2. t[i] = s[w(i)] /\ t[l] = s[w(l)]
    BY <1>1
  <2> HIDE DEF w
  <2> QED
    BY <1>3, <1>6, <2>1, <2>2, Zenon
<1>7. ASSUME NEW b \in Broker
      PROVE  (b = p \/ \E i \in DOMAIN t : t[i] = b) <=> (\E i \in DOMAIN s : s[i] = b)
  <2>1. ASSUME NEW i \in 1 .. n - 1 PROVE \E l \in 1 .. n : t[i] = s[l]
    <3>1. i \in 1 .. n /\ i + 1 \in 1 .. n
      BY <1>2
    <3> QED
      BY <1>1, <3>1
  <2>2. ASSUME NEW l \in 1 .. n, l # k PROVE \E i \in 1 .. n - 1 : t[i] = s[l]
    <3>1. CASE l < k
      <4>1. l \in 1 .. n - 1 /\ t[l] = s[l]
        BY <1>1, <1>2, <3>1
      <4> QED
        BY <4>1
    <3>2. CASE l > k
      <4>1. l - 1 \in 1 .. n - 1 /\ ~(l - 1 < k) /\ l - 1 + 1 = l
        BY <1>2, <3>2
      <4>2. t[l - 1] = s[l]
        BY <1>1, <4>1
      <4> QED
        BY <4>1, <4>2
    <3> QED
      BY <1>2, <2>2, <3>1, <3>2
  <2> QED
    BY <1>2, <1>4, <2>1, <2>2, Zenon
<1>8. Len(t) + 1 = n /\ Len(t) < Len(bl)
  BY <1>1, <1>2 DEF n
<1>9. Names(bl, p, t)
  <2>1. Once(t)
    BY <1>4, <1>6 DEF Once
  <2>2. \A b \in Broker : (b = p \/ \E i \in DOMAIN t : t[i] = b) <=> Among(bl, b, n)
    BY <1>7 DEF n
  <2>3. \A b \in Broker : (b = p \/ \E i \in DOMAIN t : t[i] = b) <=> Among(bl, b, Len(t) + 1)
    BY <1>8, <2>2
  <2>4. p \in Broker /\ t \in Seq(Broker)
    BY <1>1, <1>2
  <2>5. \A i \in DOMAIN t : t[i] # p
    BY <1>4, <1>5
  <2> QED
    BY <1>8, <2>1, <2>3, <2>4, <2>5, Zenon DEF Names
<1> QED
  BY <1>1, <1>9 DEF t, n


\* What a goroutine j with locals r knows of the replicas when the partition has n
\* backups: it picks one of them, and what it commits names them all.
JobNames(bl, n, j, r) ==
  /\ r.pc \in {"read", "commit", "init", "initBackups", "lead", "follow"} => r.target \in Broker
  /\ r.pc = "pick" => \A i \in DOMAIN r.backups : Among(bl, r.backups[i], n + 1)
  /\ r.pc = "read" => Among(bl, r.target, n + 1)
  /\ r.pc = "commit" => Names(bl, r.target, r.backups) /\ (j # "create" => Len(r.backups) = n)

NInv ==
  /\ Once(brokers)
  /\ fsm.epoch > 0 => Names(brokers, fsm.primary, fsm.backups)
  /\ \A j \in Job : JobNames(brokers, Len(fsm.backups), j, job[j])

RInv == TypeOK /\ NInv

\* A goroutine whose locals have their types.
LEMMA JobTyped ==
  ASSUME NEW x, JobShape(x),
         x.pc \in {"idle", "grace", "scan", "pick", "read", "commit", "init",
                   "initBackups", "lead", "follow", "wait", "done"},
         x.todo \in SUBSET Broker, x.target \in Broker \cup {NoBroker},
         x.backups \in Seq(Broker), x.epoch \in Nat
  PROVE  x \in JobState
<1>1. [pc |-> x.pc, todo |-> x.todo, target |-> x.target, backups |-> x.backups, epoch |-> x.epoch]
        \in JobState
  BY DEF JobState
<1> QED
  BY <1>1 DEF JobShape

\* The locals of a goroutine.
LEMMA JobFields ==
  ASSUME TypeOK, NEW j \in Job
  PROVE  /\ job[j].todo \in SUBSET Broker /\ job[j].target \in Broker \cup {NoBroker}
         /\ job[j].backups \in Seq(Broker) /\ job[j].epoch \in Nat
         /\ job[j].pc \in {"idle", "grace", "scan", "pick", "read", "commit", "init",
                           "initBackups", "lead", "follow", "wait", "done"}
<1>1. job[j] \in JobState
  BY DEF TypeOK
<1> QED
  BY <1>1 DEF JobState

\* One goroutine moves and nothing is committed.
LEMMA JobMovesR ==
  ASSUME RInv, NEW j \in Job, NEW x \in JobState, job' = [job EXCEPT ![j] = x],
         JobNames(brokers, Len(fsm.backups), j, x), UNCHANGED <<brokers, fsm>>
  PROVE  job' \in [Job -> JobState] /\ NInv'
<1>1. job \in [Job -> JobState]
  BY DEF RInv, TypeOK
<1>2. job' \in [Job -> JobState] /\ \A k \in Job : job'[k] = IF k = j THEN x ELSE job[k]
  BY <1>1
<1>3. \A k \in Job : JobNames(brokers, Len(fsm.backups), k, job[k])
  BY DEF RInv, NInv
<1>4. \A k \in Job : JobNames(brokers, Len(fsm.backups), k, job'[k])
  BY <1>2, <1>3
<1>5. NInv'
  BY <1>4 DEF RInv, NInv
<1> QED
  BY <1>2, <1>5

\* A goroutine at rest, or with brokers to look at.
LEMMA AtRest ==
  ASSUME NEW x, JobShape(x), x.pc \in {"idle", "scan", "wait", "done"}, x.todo \in SUBSET Broker,
         x.target = NoBroker, x.backups = <<>>, x.epoch = 0, NEW bl, NEW n, NEW j
  PROVE  x \in JobState /\ JobNames(bl, n, j, x)
<1>1. x \in JobState
  <2>1. /\ x.pc \in {"idle", "grace", "scan", "pick", "read", "commit", "init",
                      "initBackups", "lead", "follow", "wait", "done"}
        /\ x.target \in Broker \cup {NoBroker} /\ x.backups \in Seq(Broker) /\ x.epoch \in Nat
    OBVIOUS
  <2> QED
    BY <2>1, JobTyped, Zenon
<1>2. JobNames(bl, n, j, x)
  BY DEF JobNames
<1> QED
  BY <1>1, <1>2

\* One that resumes.
LEMMA ResumeMovesR ==
  ASSUME RInv, NEW j \in Job, NEW todo \in SUBSET Broker, job' = [job EXCEPT ![j] = Resume(j, todo)],
         UNCHANGED <<brokers, fsm>>
  PROVE  job' \in [Job -> JobState] /\ NInv'
<1> DEFINE x == Resume(j, todo)
<1>1. /\ JobShape(x) /\ x.pc \in {"idle", "scan", "wait", "done"} /\ x.todo = todo
      /\ x.target = NoBroker /\ x.backups = <<>> /\ x.epoch = 0
  BY ResumeIs
<1>2. job' = [job EXCEPT ![j] = x]
  OBVIOUS
<1> HIDE DEF x
<1>3. x \in JobState /\ JobNames(brokers, Len(fsm.backups), j, x)
  BY <1>1, AtRest
<1> QED
  BY <1>2, <1>3, JobMovesR, Zenon

\* One that has brokers to look at, or has sent the roles.
LEMMA RestMovesR ==
  ASSUME RInv, NEW j \in Job, NEW pc \in {"idle", "scan", "wait"}, NEW todo \in SUBSET Broker,
         job' = [job EXCEPT ![j] = [Rest(pc) EXCEPT !.todo = todo]], UNCHANGED <<brokers, fsm>>
  PROVE  job' \in [Job -> JobState] /\ NInv'
<1> DEFINE r == Rest(pc)
           x == [r EXCEPT !.todo = todo]
<1>1. JobShape(r) /\ r.pc = pc /\ r.epoch = 0 /\ r.target = NoBroker /\ r.backups = <<>>
  BY RestIs
<1>2. job' = [job EXCEPT ![j] = x]
  OBVIOUS
<1> HIDE DEF r
<1>3. x = [pc |-> r.pc, todo |-> todo, target |-> r.target, backups |-> r.backups, epoch |-> r.epoch]
  BY <1>1 DEF JobShape
<1> HIDE DEF x
<1>4. /\ JobShape(x) /\ x.pc = pc /\ x.todo = todo
      /\ x.target = NoBroker /\ x.backups = <<>> /\ x.epoch = 0
  BY <1>1, <1>3 DEF JobShape
<1>5. x \in JobState /\ JobNames(brokers, Len(fsm.backups), j, x)
  BY <1>4, AtRest
<1> QED
  BY <1>2, <1>5, JobMovesR, Zenon

\* One that goes on after a commit.
LEMMA PcMovesR ==
  ASSUME RInv, IInv, NEW j \in Job, NEW pc \in {"initBackups", "lead", "follow"},
         job' = [job EXCEPT ![j].pc = pc], job[j].pc \in {"init", "initBackups", "lead"},
         UNCHANGED <<brokers, fsm>>
  PROVE  job' \in [Job -> JobState] /\ NInv'
<1> DEFINE x == [job[j] EXCEPT !.pc = pc]
<1>1. /\ job' = [job EXCEPT ![j] = x]
      /\ JobShape(x) /\ x.pc = pc /\ x.todo = job[j].todo /\ x.target = job[j].target
      /\ x.epoch = job[j].epoch /\ x.backups = job[j].backups
  BY PcIs
<1> HIDE DEF x
<1>2. x \in JobState
  BY <1>1, JobFields, JobTyped DEF RInv
<1>3. job[j].target \in Broker
  BY DEF RInv, NInv, JobNames
<1>4. JobNames(brokers, Len(fsm.backups), j, x)
  BY <1>1, <1>3 DEF JobNames
<1> QED
  BY <1>1, <1>2, <1>4, JobMovesR, Zenon

\* The first brokers stay the first when another registers.
LEMMA NamesGrow ==
  ASSUME NEW bl \in Seq(Broker), NEW b \in Broker, NEW p, NEW bs, Names(bl, p, bs)
  PROVE  Names(Append(bl, b), p, bs)
<1> DEFINE a == Append(bl, b)
<1>1. a \in Seq(Broker) /\ Len(a) = Len(bl) + 1 /\ \A i \in 1 .. Len(bl) : a[i] = bl[i]
  OBVIOUS
<1>2. bs \in Seq(Broker) /\ Len(bs) \in Nat /\ Len(bl) \in Nat /\ Len(bs) < Len(bl)
  BY DEF Names
<1> HIDE DEF a
<1>3. \A i \in 1 .. Len(bs) + 1 : a[i] = bl[i]
  BY <1>1, <1>2
<1>4. \A c : Among(a, c, Len(bs) + 1) <=> Among(bl, c, Len(bs) + 1)
  BY <1>3 DEF Among
<1>5. Len(bs) < Len(a)
  BY <1>1, <1>2
<1>6. Names(a, p, bs)
  BY <1>4, <1>5 DEF Names
<1> QED
  BY <1>6 DEF a

\* A broker registers.
LEMMA RegisterStepR ==
  ASSUME RInv, IInv, NEW b \in Broker, RegisterBroker(b)
  PROVE  RInv'
<1> DEFINE n == Len(fsm.backups)
           a == Append(brokers, b)
<1>1. /\ brokers \in Seq(Broker) /\ brokers' = a /\ b \notin Registered
      /\ UNCHANGED <<topics, fsm, seen, brokerLEO, job, up, part, elected, overlapped, calls, outages, lost>>
  BY DEF RInv, TypeOK, RegisterBroker, brokerVars, history
<1>2. a \in Seq(Broker) /\ Len(a) = Len(brokers) + 1 /\ \A i \in 1 .. Len(brokers) : a[i] = brokers[i]
  BY <1>1
<1>3. TypeOK'
  BY <1>1, <1>2 DEF RInv, TypeOK
<1>4. Once(a)
  <2>1. DOMAIN a = 1 .. Len(brokers) + 1 /\ Len(brokers) \in Nat /\ a[Len(brokers) + 1] = b
    BY <1>1
  <2>2. \A i \in 1 .. Len(brokers) : brokers[i] # b
    BY <1>1 DEF Registered
  <2>3. \A i, k \in 1 .. Len(brokers) : brokers[i] = brokers[k] => i = k
    BY <1>1 DEF RInv, NInv, Once
  <2> HIDE DEF a
  <2>4. ASSUME NEW i \in 1 .. Len(brokers) + 1, NEW k \in 1 .. Len(brokers) + 1, a[i] = a[k]
        PROVE  i = k
    <3>1. i \in 1 .. Len(brokers) \/ i = Len(brokers) + 1
      BY <2>1
    <3>2. k \in 1 .. Len(brokers) \/ k = Len(brokers) + 1
      BY <2>1
    <3> QED
      BY <1>2, <2>1, <2>2, <2>3, <2>4, <3>1, <3>2
  <2> QED
    BY <2>1, <2>4 DEF Once
<1>5. fsm.epoch > 0 => Names(a, fsm.primary, fsm.backups)
  BY <1>1, NamesGrow DEF RInv, NInv
<1>6. ASSUME NEW j \in Job PROVE JobNames(a, n, j, job[j])
  <2>1. JobNames(brokers, n, j, job[j]) /\ JobInv(j, job[j], fsm.epoch, elected)
    BY DEF RInv, NInv, IInv, Jobs
  <2>2. job[j].pc \in {"pick", "read"} => fsm.epoch > 0
    BY <2>1, Zenon DEF JobInv
  <2>3. ASSUME NEW c, Among(brokers, c, n + 1), fsm.epoch > 0 PROVE Among(a, c, n + 1)
    <3>1. n \in Nat /\ n < Len(brokers) /\ Len(brokers) \in Nat
      BY <1>1, <2>3 DEF RInv, NInv, Names
    <3> HIDE DEF n, a
    <3>2. \A i \in 1 .. n + 1 : a[i] = brokers[i]
      BY <1>2, <3>1
    <3> QED
      BY <2>3, <3>2 DEF Among
  <2>4. job[j].pc = "commit" => Names(a, job[j].target, job[j].backups)
    BY <1>1, <2>1, NamesGrow, Zenon DEF JobNames
  <2> HIDE DEF a, n
  <2> QED
    BY <2>1, <2>2, <2>3, <2>4, Zenon DEF JobNames
<1>7. NInv'
  BY <1>1, <1>4, <1>5, <1>6 DEF NInv
<1> QED
  BY <1>3, <1>7 DEF RInv

\* Calls have their types.
LEMMA CallsTyped ==
  ASSUME RInv, NEW ms \in SUBSET AssignRole, Send(ms)
  PROVE  calls' \in SUBSET AssignRole
  BY DEF RInv, TypeOK, Send

LEMMA FollowerCallsTyped ==
  ASSUME NEW p \in Broker, NEW backups \in Seq(Broker), NEW e \in Nat, NEW s,
         NEW j \in Job \cup {"none"}
  PROVE  FollowerCalls(p, backups, e, s, j) \in SUBSET AssignRole
<1> SUFFICES ASSUME NEW i \in DOMAIN backups
             PROVE  [to |-> backups[i], role |-> "Follower", epoch |-> e, leader |-> p, by |-> j]
                      \in AssignRole
  BY Zenon DEF FollowerCalls
<1>1. backups[i] \in Broker
  OBVIOUS
<1> QED
  BY <1>1 DEF AssignRole

\* The metadata do not change when no goroutine moves.
LEMMA NStay ==
  ASSUME RInv, UNCHANGED <<brokers, fsm, job>>
  PROVE  NInv'
  BY DEF RInv, NInv

\* The fields of the committed metadata.
LEMMA FsmFields ==
  ASSUME RInv
  PROVE  /\ fsm.backups \in Seq(Broker) /\ fsm.epoch \in Nat
         /\ fsm.epoch > 0 => fsm.primary \in Broker
<1>1. fsm \in PartitionState
  BY DEF RInv, TypeOK
<1>2. fsm.backups \in Seq(Broker) /\ fsm.epoch \in Nat
  BY <1>1 DEF PartitionState
<1>3. fsm.epoch > 0 => fsm.primary \in Broker
  BY DEF RInv, NInv, Names
<1> QED
  BY <1>2, <1>3

\* Heartbeats, and brokers that crash and come back.
LEMMA BrokerStepR ==
  ASSUME RInv, IInv, NEW b \in Broker, NEW leo \in 0 .. MaxLEO,
         Heartbeat(b, leo) \/ Age(b) \/ Crash(b) \/ Restart(b)
  PROVE  RInv'
<1>1. UNCHANGED <<brokers, topics, fsm, job, elected, overlapped, lost>>
  BY DEF Heartbeat, Age, Crash, Restart, coordVars, history
<1>2. NInv'
  BY <1>1, NStay
<1>3. CASE Heartbeat(b, leo)
  <2> DEFINE ms == IF seen[b] = "dead" THEN RejoinCalls(b, seen') ELSE {}
  <2>1. Send(ms) /\ UNCHANGED <<up, part, outages>>
    BY <1>3 DEF Heartbeat, brokerVars
  <2>2. ms \in SUBSET AssignRole
    <3>1. Committed => FollowerCalls(fsm.primary, fsm.backups, 0, seen', "none") \in SUBSET AssignRole
      BY FsmFields, FollowerCallsTyped DEF Committed
    <3> QED
      BY <3>1, Zenon DEF RejoinCalls
  <2> HIDE DEF ms
  <2>3. calls' \in SUBSET AssignRole
    BY <2>1, <2>2, CallsTyped
  <2>4. seen' \in [Broker -> {"never", "heard", "dead"}]
    BY <1>3 DEF Heartbeat, RInv, TypeOK
  <2>5. brokerLEO' \in [Broker -> 0 .. MaxLEO]
    BY <1>3, Zenon DEF Heartbeat, RInv, TypeOK, buildPartitionLEOs
  <2>6. TypeOK'
    BY <1>1, <2>1, <2>3, <2>4, <2>5 DEF RInv, TypeOK
  <2> QED
    BY <1>2, <2>6 DEF RInv
<1>4. CASE Age(b)
  <2>1. seen' \in [Broker -> {"never", "heard", "dead"}] /\ UNCHANGED <<brokerLEO, up, part, calls>>
    BY <1>4 DEF Age, RInv, TypeOK, brokerVars
  <2>2. outages' \in 0 .. MaxOutages
    BY <1>4, CoordinatorAssumption DEF Age, RInv, TypeOK
  <2>3. TypeOK'
    BY <1>1, <2>1, <2>2 DEF RInv, TypeOK
  <2> QED
    BY <1>2, <2>3 DEF RInv
<1>5. CASE Restart(b)
  <2>1. up' \in [Broker -> BOOLEAN] /\ UNCHANGED <<seen, brokerLEO, part, calls, outages>>
    BY <1>5 DEF Restart, RInv, TypeOK, coordVars
  <2>2. TypeOK'
    BY <1>1, <2>1, Zenon DEF RInv, TypeOK
  <2> QED
    BY <1>2, <2>2 DEF RInv
<1>6. CASE Crash(b)
  <2> DEFINE r == part[b]
             x == [exists |-> r.exists, role |-> "Leader", epoch |-> 0, leader |-> NoBroker]
  <2>1. /\ up' \in [Broker -> BOOLEAN] /\ UNCHANGED <<seen, brokerLEO>>
        /\ calls' \in SUBSET AssignRole
    BY <1>6 DEF Crash, RInv, TypeOK, coordVars
  <2>2. outages' \in 0 .. MaxOutages
    BY <1>6, CoordinatorAssumption DEF Crash, RInv, TypeOK
  <2>3. part \in [Broker -> Partition] /\ r.exists \in BOOLEAN
    BY DEF RInv, TypeOK, Partition
  <2>4. part' = [part EXCEPT ![b] = x]
    BY <1>6, CrashIs
  <2>5. x \in Partition
    BY <2>3 DEF Partition
  <2> HIDE DEF x
  <2>6. part' \in [Broker -> Partition]
    BY <2>3, <2>4, <2>5
  <2>7. TypeOK'
    BY <1>1, <2>1, <2>2, <2>6 DEF RInv, TypeOK
  <2> QED
    BY <1>2, <2>7 DEF RInv
<1> QED
  BY <1>3, <1>4, <1>5, <1>6

\* A call is executed, lost, or given up by its caller.
LEMMA CallStepR ==
  ASSUME RInv, IInv, NEW m \in calls, Deliver(m) \/ Lose(m) \/ TimeOut(m)
  PROVE  RInv'
<1>1. UNCHANGED <<brokers, topics, fsm, seen, brokerLEO, job, up, elected, overlapped, outages>>
  BY DEF Deliver, Lose, TimeOut, coordVars, brokerVars, history
<1>2. NInv'
  BY <1>1, NStay
<1>3. m \in AssignRole /\ part \in [Broker -> Partition] /\ calls \in SUBSET AssignRole
  BY DEF RInv, TypeOK
<1>4. /\ m.to \in Broker /\ m.role \in {"Leader", "Follower"} /\ m.epoch \in Nat /\ m.leader \in Broker
      /\ m = [to |-> m.to, role |-> m.role, epoch |-> m.epoch, leader |-> m.leader, by |-> m.by]
  BY <1>3 DEF AssignRole
<1>5. CASE Deliver(m)
  <2>1. calls' \in SUBSET AssignRole /\ UNCHANGED lost
    BY <1>3, <1>5, Zenon DEF Deliver
  <2>2. part' \in [Broker -> Partition]
    <3>1. CASE part' = part
      BY <1>3, <3>1
    <3>2. CASE part' # part
      <4> DEFINE x == [exists |-> TRUE, role |-> m.role, epoch |-> m.epoch,
                       leader |-> IF m.role = "Follower" THEN m.leader ELSE part[m.to].leader]
      <4>1. part' = [part EXCEPT ![m.to] = x]
        BY <1>5, <3>2 DEF Deliver
      <4>2. part[m.to].leader \in Broker \cup {NoBroker}
        BY <1>3, <1>4 DEF Partition
      <4>3. x \in Partition
        BY <1>4, <4>2 DEF Partition
      <4> HIDE DEF x
      <4> QED
        BY <1>3, <4>1, <4>3, Zenon
    <3> QED
      BY <3>1, <3>2
  <2>3. TypeOK'
    BY <1>1, <2>1, <2>2 DEF RInv, TypeOK
  <2> QED
    BY <1>2, <2>3 DEF RInv
<1>6. CASE Lose(m) \/ TimeOut(m)
  <2> DEFINE x == [m EXCEPT !.by = "none"]
  <2>1. UNCHANGED part /\ lost' \in 0 .. MaxLost
    BY <1>6, CoordinatorAssumption DEF Lose, TimeOut, RInv, TypeOK, brokerVars
  <2>2. calls' \in SUBSET (calls \cup {x})
    BY <1>6 DEF Lose, TimeOut
  <2>3. x = [to |-> m.to, role |-> m.role, epoch |-> m.epoch, leader |-> m.leader, by |-> "none"]
    BY <1>4
  <2> HIDE DEF x
  <2>4. x \in AssignRole
    BY <1>4, <2>3 DEF AssignRole
  <2>5. calls' \in SUBSET AssignRole
    BY <1>3, <2>2, <2>4
  <2>6. TypeOK'
    BY <1>1, <2>1, <2>5 DEF RInv, TypeOK
  <2> QED
    BY <1>2, <2>6 DEF RInv
<1> QED
  BY <1>5, <1>6

\* The first brokers are those CreateTopic is about to commit.
LEMMA CreateTopicStepR ==
  ASSUME RInv, IInv, CreateTopic
  PROVE  RInv'
<1> DEFINE h == Head(brokers)
           bs == selectBackups(h)
           x == [pc |-> "commit", todo |-> {}, target |-> h, backups |-> bs, epoch |-> 1]
<1>1. "create" \in Job
  BY DEF Job
<1>2. /\ job' = [job EXCEPT !["create"] = x] /\ brokers # <<>> /\ topics' = h
      /\ UNCHANGED <<brokers, fsm, seen, brokerLEO, up, part, elected, overlapped, calls, outages, lost>>
  BY CreateTopicIs, Zenon DEF CreateTopic, history, brokerVars
<1>3. brokers \in Seq(Broker) /\ Once(brokers)
  BY DEF RInv, TypeOK, NInv
<1>4. /\ Len(brokers) \in Nat /\ DOMAIN brokers = 1 .. Len(brokers) /\ 1 \in 1 .. Len(brokers)
      /\ h = brokers[1] /\ h \in Broker
  BY <1>2, <1>3
<1>5. \A b \in Broker : (\E i \in DOMAIN brokers : brokers[i] = b) <=> Among(brokers, b, Len(brokers))
  BY <1>4 DEF Among
<1> HIDE DEF h
<1>6. Names(brokers, h, bs)
  <2>1. bs = Kept(brokers, Broker \ {brokers[1]})
    BY <1>4 DEF selectBackups
  <2>2. Len(brokers) <= Len(brokers)
    BY <1>4
  <2> QED
    BY <1>3, <1>4, <1>5, <2>1, <2>2, NamesKept
<1> HIDE DEF bs
<1>7. x \in JobState
  BY <1>4, <1>6, Zenon DEF JobState, Names
<1>8. JobNames(brokers, Len(fsm.backups), "create", x)
  BY <1>4, <1>6, Zenon DEF JobNames
<1> HIDE DEF x
<1>9. job' \in [Job -> JobState] /\ NInv'
  BY <1>1, <1>2, <1>7, <1>8, JobMovesR, Zenon
<1>10. TypeOK'
  BY <1>2, <1>4, <1>9, Zenon DEF RInv, TypeOK
<1> QED
  BY <1>9, <1>10 DEF RInv

\* A commit names the first brokers again, and as many as before.
LEMMA CommitStepR ==
  ASSUME RInv, IInv, NEW j \in Job, NEW pc \in {"init", "lead"}, job[j].pc = "commit",
         fsm' = [primary |-> job[j].target, backups |-> job[j].backups, epoch |-> job[j].epoch],
         elected' = elected \cup {<<job[j].epoch, job[j].target>>},
         job' = [job EXCEPT ![j].pc = pc],
         UNCHANGED <<brokers, topics, seen, brokerLEO, up, part, overlapped, calls, outages, lost>>
  PROVE  RInv'
<1> DEFINE x == [job[j] EXCEPT !.pc = pc]
           n == Len(fsm.backups)
<1>1. /\ job' = [job EXCEPT ![j] = x]
      /\ JobShape(x) /\ x.pc = pc /\ x.todo = job[j].todo /\ x.target = job[j].target
      /\ x.epoch = job[j].epoch /\ x.backups = job[j].backups
  BY PcIs
<1> HIDE DEF x
<1>2. x \in JobState
  BY <1>1, JobFields, JobTyped DEF RInv
<1>3. /\ job[j].target \in Broker /\ Names(brokers, job[j].target, job[j].backups)
      /\ j # "create" => Len(job[j].backups) = n
  BY DEF RInv, NInv, JobNames
<1>4. job[j].epoch \in Nat /\ job[j].backups \in Seq(Broker)
  BY JobFields DEF RInv
<1>5. fsm' \in PartitionState /\ elected' \in SUBSET (Nat \X Broker)
  BY <1>3, <1>4 DEF RInv, TypeOK, PartitionState
<1>6. job' \in [Job -> JobState] /\ \A k \in Job : job'[k] = IF k = j THEN x ELSE job[k]
  BY <1>1, <1>2, Zenon DEF RInv, TypeOK
<1>7. ASSUME NEW k \in Job PROVE JobNames(brokers, Len(fsm'.backups), k, job'[k])
  <2>1. CASE k = j
    BY <1>1, <1>3, <1>6, <2>1 DEF JobNames
  <2>2. CASE k # j
    <3>1. JobInv(k, job[k], fsm.epoch, elected) /\ JobInv(j, job[j], fsm.epoch, elected)
      BY DEF IInv, Jobs
    <3>2. JobNames(brokers, n, k, job[k]) /\ job'[k] = job[k]
      BY <1>6, <2>2 DEF RInv, NInv
    <3>3. CASE j # "create"
      BY <1>3, <3>2, <3>3
    <3>4. CASE j = "create"
      <4>1. job[k].pc \notin {"pick", "read", "commit"}
        BY <2>2, <3>1, <3>4 DEF JobInv
      <4> QED
        BY <3>2, <4>1 DEF JobNames
    <3> QED
      BY <3>3, <3>4
  <2> QED
    BY <2>1, <2>2
<1>8. NInv'
  BY <1>3, <1>7 DEF RInv, NInv
<1>9. TypeOK'
  BY <1>5, <1>6 DEF RInv, TypeOK
<1> QED
  BY <1>8, <1>9 DEF RInv

\* InitPartitions creates partitions and changes nothing else.
LEMMA InitPartitionsStepR ==
  ASSUME RInv, IInv, NEW created \in SUBSET Broker,
         initPartitions(created) \/ initBackupPartitions(created)
  PROVE  RInv'
<1>1. "create" \in Job
  BY DEF Job
<1>2. /\ InitPartitions(created)
      /\ \E pc \in {"initBackups", "lead"} : job' = [job EXCEPT !["create"].pc = pc]
      /\ job["create"].pc \in {"init", "initBackups"}
  BY DEF initPartitions, initBackupPartitions
<1>3. UNCHANGED <<brokers, topics, fsm, seen, brokerLEO, up, elected, overlapped, calls, outages, lost>>
  BY <1>2 DEF InitPartitions, history
<1>4. job' \in [Job -> JobState] /\ NInv'
  BY <1>1, <1>2, <1>3, PcMovesR, Zenon
<1>5. part' \in [Broker -> Partition]
  <2>1. part \in [Broker -> Partition]
    BY DEF RInv, TypeOK
  <2>2. part' = [b \in Broker |-> IF b \in created THEN [part[b] EXCEPT !.exists = TRUE] ELSE part[b]]
    BY <1>2 DEF InitPartitions
  <2>3. ASSUME NEW b \in Broker PROVE [part[b] EXCEPT !.exists = TRUE] \in Partition
    <3> DEFINE r == part[b]
               x == [r EXCEPT !.exists = TRUE]
    <3>1. PartShape(r) /\ r \in Partition
      BY <2>1, Zenon DEF IInv, Parts, PartInv
    <3> HIDE DEF r
    <3>2. x = [exists |-> TRUE, role |-> r.role, epoch |-> r.epoch, leader |-> r.leader]
      BY <3>1, ExistsIs
    <3> HIDE DEF x
    <3>3. x \in Partition
      BY <3>1, <3>2 DEF Partition
    <3> QED
      BY <3>3 DEF x, r
  <2> QED
    BY <2>1, <2>2, <2>3
<1>6. TypeOK'
  BY <1>3, <1>4, <1>5 DEF RInv, TypeOK
<1> QED
  BY <1>4, <1>6 DEF RInv

\* A goroutine moves; nothing else changes but what it tells coordinator.topics,
\* the calls, the failures and whether promotions overlapped.
LEMMA OnlyJob ==
  ASSUME RInv, job' \in [Job -> JobState], NInv', topics' \in Broker \cup {NoBroker},
         calls' \in SUBSET AssignRole, lost' \in 0 .. MaxLost, overlapped' \in BOOLEAN,
         UNCHANGED <<brokers, fsm, seen, brokerLEO, up, part, elected, outages>>
  PROVE  RInv'
  BY DEF RInv, TypeOK

\* The types of what does not change.
LEMMA Types ==
  ASSUME RInv
  PROVE  /\ topics \in Broker \cup {NoBroker} /\ calls \in SUBSET AssignRole
         /\ lost \in 0 .. MaxLost /\ overlapped \in BOOLEAN
         /\ brokers \in Seq(Broker) /\ Registered \in SUBSET Broker
<1>1. brokers \in Seq(Broker)
  BY DEF RInv, TypeOK
<1>2. Registered \in SUBSET Broker
  BY <1>1 DEF Registered
<1> QED
  BY <1>1, <1>2 DEF RInv, TypeOK

\* The ways to begin a failover.
LEMMA TriggerStepR ==
  ASSUME RInv, \/ GraceOver \/ FailoverTick
               \/ \E r \in Reporter, b \in Broker : ReportLeaderUnreachable(r, b)
  PROVE  RInv'
<1>1. UNCHANGED <<brokers, topics, fsm, seen, brokerLEO, up, part, elected, overlapped, calls, outages, lost>>
  BY DEF GraceOver, FailoverTick, ReportLeaderUnreachable, history, brokerVars
<1>2. "loop" \in Job /\ Reporter \subseteq Job
  BY DEF Job
<1>3. \E j \in Job, pc \in {"idle", "scan", "wait"}, todo \in SUBSET Broker :
        job' = [job EXCEPT ![j] = [Rest(pc) EXCEPT !.todo = todo]]
  <2>1. CASE GraceOver
    <3>1. Rest("idle") = [Rest("idle") EXCEPT !.todo = {}]
      <4> DEFINE r == Rest("idle")
      <4>1. JobShape(r) /\ r.todo = {}
        BY RestIs
      <4> HIDE DEF r
      <4>2. r = [r EXCEPT !.todo = {}]
        BY <4>1 DEF JobShape
      <4> QED
        BY <4>2 DEF r
    <3>2. job' = [job EXCEPT !["loop"] = [Rest("idle") EXCEPT !.todo = {}]]
      BY <2>1, <3>1, Zenon DEF GraceOver
    <3>3. {} \in SUBSET Broker
      OBVIOUS
    <3> QED
      BY <1>2, <3>2, <3>3, Zenon
  <2>2. CASE FailoverTick
    <3> DEFINE dead == {b \in Broker : seen[b] = "dead"} \cup {b \in Registered : seen[b] = "never"}
    <3>1. job' = [job EXCEPT !["loop"] = [Rest("scan") EXCEPT !.todo = dead]]
      BY <2>2, Zenon DEF FailoverTick
    <3>2. dead \in SUBSET Broker
      BY Types
    <3> HIDE DEF dead
    <3> QED
      BY <1>2, <3>1, <3>2, Zenon
  <2>3. ASSUME NEW r \in Reporter, NEW b \in Broker, ReportLeaderUnreachable(r, b)
        PROVE  \E todo \in SUBSET Broker : job' = [job EXCEPT ![r] = [Rest("scan") EXCEPT !.todo = todo]]
    <3>1. job' = [job EXCEPT ![r] = [Rest("scan") EXCEPT !.todo = {part[b].leader}]]
      BY <2>3 DEF ReportLeaderUnreachable
    <3>2. {part[b].leader} \in SUBSET Broker
      BY <2>3, Types DEF ReportLeaderUnreachable
    <3> QED
      BY <3>1, <3>2, Zenon
  <2> QED
    BY <1>2, <2>1, <2>2, <2>3, Zenon
<1>4. job' \in [Job -> JobState] /\ NInv'
  BY <1>1, <1>3, RestMovesR, Zenon
<1> QED
  BY <1>1, <1>4, Types, OnlyJob

\* A goroutine goes on to the next broker, or ends.
LEMMA ResumeStepR ==
  ASSUME RInv, NEW j \in Job, ApplyFails(j) \/ RolesAssigned(j) \/ ContextDone(j)
  PROVE  RInv'
<1>1. /\ job' = [job EXCEPT ![j] = Resume(j, job[j].todo)]
      /\ UNCHANGED <<brokers, fsm, seen, brokerLEO, up, part, elected, overlapped, calls, outages>>
  BY DEF ApplyFails, RolesAssigned, ContextDone, history, brokerVars
<1>2. job' \in [Job -> JobState] /\ NInv'
  <2>1. job[j].todo \in SUBSET Broker
    BY JobFields DEF RInv
  <2> QED
    BY <1>1, <2>1, ResumeMovesR, Zenon
<1>3. lost' \in 0 .. MaxLost
  BY Types, CoordinatorAssumption DEF ApplyFails, RolesAssigned, ContextDone
<1>4. topics' \in Broker \cup {NoBroker}
  <2>1. job[j].target \in Broker \cup {NoBroker}
    BY JobFields DEF RInv
  <2> QED
    BY <2>1, Types DEF ApplyFails, RolesAssigned, ContextDone
<1> QED
  BY <1>1, <1>2, <1>3, <1>4, Types, OnlyJob

\* failOverBrokerPartitions takes the backups of the committed metadata.
LEMMA FailOverStepR ==
  ASSUME RInv, NEW j \in Job, NEW d \in Broker, failOverBrokerPartitions(j, d)
  PROVE  RInv'
<1> DEFINE r == job[j]
           todo == r.todo \ {d}
           n == Len(fsm.backups)
           x == [pc |-> "pick", todo |-> todo, target |-> r.target,
                 backups |-> fsm.backups, epoch |-> r.epoch]
<1>1. UNCHANGED <<brokers, topics, fsm, seen, brokerLEO, up, part, elected, overlapped, calls, outages, lost>>
  BY DEF failOverBrokerPartitions, history, brokerVars
<1>2. \/ Committed /\ job' = [job EXCEPT ![j] = x]
      \/ job' = [job EXCEPT ![j] = Resume(j, todo)]
  BY Zenon DEF failOverBrokerPartitions
<1>3. /\ todo \in SUBSET Broker /\ r.target \in Broker \cup {NoBroker} /\ r.epoch \in Nat
  BY JobFields DEF RInv
<1> HIDE DEF r, todo
<1>4. ASSUME Committed, job' = [job EXCEPT ![j] = x]
      PROVE  job' \in [Job -> JobState] /\ NInv'
  <2>1. Names(brokers, fsm.primary, fsm.backups) /\ fsm.backups \in Seq(Broker)
    BY <1>4, FsmFields DEF RInv, NInv, Committed
  <2>2. \A i \in DOMAIN fsm.backups : Among(brokers, fsm.backups[i], n + 1)
    BY <2>1 DEF Names
  <2>3. x \in JobState
    BY <1>3, <2>1, Zenon DEF JobState
  <2>4. JobNames(brokers, n, j, x)
    BY <2>2, Zenon DEF JobNames
  <2> HIDE DEF x
  <2> QED
    BY <1>1, <1>4, <2>3, <2>4, JobMovesR, Zenon
<1>5. ASSUME job' = [job EXCEPT ![j] = Resume(j, todo)] PROVE job' \in [Job -> JobState] /\ NInv'
  BY <1>1, <1>3, <1>5, ResumeMovesR, Zenon
<1> HIDE DEF x
<1>6. job' \in [Job -> JobState] /\ NInv'
  BY <1>2, <1>4, <1>5
<1> QED
  BY <1>1, <1>6, Types, OnlyJob

\* pickNewLeader takes one of them.
LEMMA PickStepR ==
  ASSUME RInv, NEW j \in Job, pickNewLeader(j)
  PROVE  RInv'
<1> DEFINE r == job[j]
           n == Len(fsm.backups)
           x(t) == [pc |-> "read", todo |-> r.todo, target |-> t, backups |-> <<>>, epoch |-> r.epoch]
<1>1. UNCHANGED <<brokers, topics, fsm, seen, brokerLEO, up, part, elected, overlapped, calls, outages, lost>>
  BY DEF pickNewLeader, history, brokerVars
<1>2. \/ job' = [job EXCEPT ![j] = Resume(j, r.todo)]
      \/ \E i \in DOMAIN r.backups : job' = [job EXCEPT ![j] = x(r.backups[i])]
  BY DEF pickNewLeader
<1>3. r.todo \in SUBSET Broker /\ r.backups \in Seq(Broker) /\ r.epoch \in Nat
  BY JobFields DEF RInv
<1>4. \A i \in DOMAIN r.backups : Among(brokers, r.backups[i], n + 1)
  BY DEF pickNewLeader, RInv, NInv, JobNames
<1> HIDE DEF r
<1>5. ASSUME NEW i \in DOMAIN r.backups, job' = [job EXCEPT ![j] = x(r.backups[i])]
      PROVE  job' \in [Job -> JobState] /\ NInv'
  <2> DEFINE t == r.backups[i]
             y == x(t)
  <2>1. t \in Broker /\ Among(brokers, t, n + 1) /\ job' = [job EXCEPT ![j] = y]
    BY <1>3, <1>4, <1>5
  <2> HIDE DEF t
  <2>2. y \in JobState
    BY <1>3, <2>1 DEF JobState
  <2>3. JobNames(brokers, n, j, y)
    BY <2>1 DEF JobNames
  <2> HIDE DEF y
  <2> QED
    BY <1>1, <2>1, <2>2, <2>3, JobMovesR, Zenon
<1>6. ASSUME job' = [job EXCEPT ![j] = Resume(j, r.todo)] PROVE job' \in [Job -> JobState] /\ NInv'
  BY <1>1, <1>3, <1>6, ResumeMovesR, Zenon
<1> HIDE DEF x
<1>7. job' \in [Job -> JobState] /\ NInv'
  BY <1>2, <1>5, <1>6
<1> QED
  BY <1>1, <1>7, Types, OnlyJob

\* The backups computed from the committed metadata name the same brokers.
LEMMA UpdateReadStepR ==
  ASSUME RInv, IInv, NEW j \in Job, UpdateRead(j)
  PROVE  RInv'
<1> DEFINE r == job[j]
           n == Len(fsm.backups)
           s == Append(fsm.backups, fsm.primary)
           bs == Kept(s, Broker \ {r.target})
           x == [pc |-> "commit", todo |-> r.todo, target |-> r.target, backups |-> bs,
                 epoch |-> fsm.epoch + 1]
<1>1. /\ r.pc = "read" /\ job' = [job EXCEPT ![j] = x]
      /\ UNCHANGED <<brokers, topics, fsm, seen, brokerLEO, up, part, elected, calls, outages, lost>>
  BY DEF UpdateRead, BackupsWithout, brokerVars
<1>2. overlapped' \in BOOLEAN
  BY Zenon DEF UpdateRead
<1>3. fsm.epoch > 0
  BY <1>1, Zenon DEF IInv, Jobs, JobInv
<1>4. /\ fsm.backups \in Seq(Broker) /\ fsm.primary \in Broker /\ fsm.epoch \in Nat
      /\ Names(brokers, fsm.primary, fsm.backups)
  BY <1>3, FsmFields DEF RInv, NInv
<1>5. r.target \in Broker /\ Among(brokers, r.target, n + 1)
  BY <1>1 DEF RInv, NInv, JobNames
<1>6. r.todo \in SUBSET Broker
  BY JobFields DEF RInv
<1>7. /\ n \in Nat /\ s \in Seq(Broker) /\ Len(s) = n + 1 /\ DOMAIN s = 1 .. n + 1
      /\ DOMAIN fsm.backups = 1 .. n
      /\ \A i \in 1 .. n : s[i] = fsm.backups[i]
      /\ s[n + 1] = fsm.primary
  BY <1>4
<1> HIDE DEF s, n, r
<1>8. /\ \A i, k \in 1 .. n : fsm.backups[i] = fsm.backups[k] => i = k
      /\ \A i \in 1 .. n : fsm.backups[i] # fsm.primary
      /\ n < Len(brokers)
      /\ \A b \in Broker : (b = fsm.primary \/ \E i \in 1 .. n : fsm.backups[i] = b) <=> Among(brokers, b, n + 1)
  BY <1>4, <1>7, Zenon DEF Names, Once, n
<1>9. Once(s)
  <2>1. ASSUME NEW i \in 1 .. n + 1, NEW k \in 1 .. n + 1, s[i] = s[k] PROVE i = k
    <3>1. i \in 1 .. n \/ i = n + 1
      BY <1>7
    <3>2. k \in 1 .. n \/ k = n + 1
      BY <1>7
    <3> QED
      BY <1>7, <1>8, <2>1, <3>1, <3>2
  <2> QED
    BY <1>7, <2>1 DEF Once
<1>10. ASSUME NEW b \in Broker PROVE (\E i \in DOMAIN s : s[i] = b) <=> Among(brokers, b, Len(s))
  <2>1. (\E i \in DOMAIN s : s[i] = b) <=> (b = fsm.primary \/ \E i \in 1 .. n : fsm.backups[i] = b)
    <3>1. ASSUME NEW i \in DOMAIN s, s[i] = b PROVE b = fsm.primary \/ \E k \in 1 .. n : fsm.backups[k] = b
      <4>1. i \in 1 .. n \/ i = n + 1
        BY <1>7
      <4> QED
        BY <1>7, <3>1, <4>1
    <3>2. n + 1 \in DOMAIN s /\ \A i \in 1 .. n : i \in DOMAIN s
      BY <1>7
    <3> QED
      BY <1>7, <3>1, <3>2
  <2> QED
    BY <1>7, <1>8, <2>1
<1>11. PICK k \in 1 .. Len(s) : s[k] = r.target
  BY <1>5, <1>7, <1>10
<1>12. Names(brokers, r.target, bs) /\ Len(bs) = n
  <2>1. brokers \in Seq(Broker) /\ Len(s) <= Len(brokers)
    BY <1>7, <1>8, Types
  <2>2. Names(brokers, s[k], Kept(s, Broker \ {s[k]})) /\ Len(Kept(s, Broker \ {s[k]})) = Len(s) - 1
    BY <1>7, <1>9, <1>10, <2>1, NamesKept, Zenon
  <2> QED
    BY <1>7, <1>11, <2>2
<1> HIDE DEF bs
<1>13. x \in JobState
  BY <1>4, <1>5, <1>6, <1>12 DEF JobState, Names
<1>14. JobNames(brokers, n, j, x)
  BY <1>5, <1>12, Zenon DEF JobNames
<1> HIDE DEF x
<1>15. job' \in [Job -> JobState] /\ NInv'
  BY <1>1, <1>13, <1>14, JobMovesR, Zenon DEF n
<1> QED
  BY <1>1, <1>2, <1>15, Types, OnlyJob

\* The roles are sent to brokers.
LEMMA AssignStepR ==
  ASSUME RInv, IInv, NEW j \in Job, assignLeaderRoles(j) \/ assignFollowerRoles(j)
  PROVE  RInv'
<1>1. UNCHANGED <<brokers, fsm, seen, brokerLEO, up, part, elected, overlapped, outages, lost>>
  BY DEF assignLeaderRoles, assignFollowerRoles, history, brokerVars
<1>2. /\ job[j].todo \in SUBSET Broker /\ job[j].backups \in Seq(Broker) /\ job[j].epoch \in Nat
      /\ j \in Job \cup {"none"}
  BY JobFields DEF RInv
<1>3. job[j].target \in Broker
  BY DEF RInv, NInv, JobNames, assignLeaderRoles, assignFollowerRoles
<1>4. CASE assignLeaderRoles(j)
  <2>1. job' = [job EXCEPT ![j].pc = "follow"] /\ job[j].pc = "lead"
    BY <1>4 DEF assignLeaderRoles
  <2>2. job' \in [Job -> JobState] /\ NInv'
    BY <1>1, <2>1, PcMovesR, Zenon
  <2>3. LeaderCall(job[j].target, job[j].epoch, j) \in SUBSET AssignRole
    BY <1>2, <1>3 DEF LeaderCall, AssignRole
  <2>4. calls' \in SUBSET AssignRole
    BY <1>4, <2>3, CallsTyped DEF assignLeaderRoles
  <2>5. topics' \in Broker \cup {NoBroker}
    BY <1>3, <1>4, Types DEF assignLeaderRoles
  <2> QED
    BY <1>1, <2>2, <2>4, <2>5, Types, OnlyJob
<1>5. CASE assignFollowerRoles(j)
  <2>1. job' = [job EXCEPT ![j] = [Rest("wait") EXCEPT !.todo = job[j].todo]] /\ UNCHANGED topics
    BY <1>5 DEF assignFollowerRoles
  <2>2. job' \in [Job -> JobState] /\ NInv'
    BY <1>1, <1>2, <2>1, RestMovesR, Zenon
  <2>3. FollowerCalls(job[j].target, job[j].backups, job[j].epoch, seen, j) \in SUBSET AssignRole
    BY <1>2, <1>3, FollowerCallsTyped, Zenon
  <2>4. calls' \in SUBSET AssignRole
    BY <1>5, <2>3, CallsTyped DEF assignFollowerRoles
  <2> QED
    BY <1>1, <2>1, <2>2, <2>4, Types, OnlyJob
<1> QED
  BY <1>4, <1>5

LEMMA InitR == Init => RInv
<1> SUFFICES ASSUME Init PROVE RInv
  OBVIOUS
<1>1. fsm.epoch = 0 /\ brokers = <<>> /\ fsm \in PartitionState
  BY DEF Init, PartitionState
<1>2. ASSUME NEW j \in Job
      PROVE  job[j] \in JobState /\ JobNames(brokers, Len(fsm.backups), j, job[j])
  <2> DEFINE pc == IF j = "loop" THEN "grace" ELSE "idle"
  <2>1. job[j] = Rest(pc) /\ pc \in {"grace", "idle"}
    BY Zenon DEF Init
  <2> HIDE DEF pc
  <2>2. /\ JobShape(job[j]) /\ job[j].pc = pc /\ job[j].todo = {} /\ job[j].epoch = 0
        /\ job[j].target = NoBroker /\ job[j].backups = <<>>
    BY <2>1, RestIs, Zenon
  <2>3. /\ job[j].pc \in {"idle", "grace", "scan", "pick", "read", "commit", "init",
                           "initBackups", "lead", "follow", "wait", "done"}
        /\ job[j].todo \in SUBSET Broker /\ job[j].target \in Broker \cup {NoBroker}
        /\ job[j].backups \in Seq(Broker) /\ job[j].epoch \in Nat
    BY <2>1, <2>2
  <2>4. job[j] \in JobState
    BY <2>2, <2>3, JobTyped, Zenon
  <2>5. JobNames(brokers, Len(fsm.backups), j, job[j])
    BY <2>1, <2>2, Zenon DEF JobNames
  <2> QED
    BY <2>4, <2>5
<1>3. job \in [Job -> JobState]
  BY <1>2, Zenon DEF Init
<1>4. part \in [Broker -> Partition]
  <2>1. [exists |-> FALSE, role |-> "Leader", epoch |-> 0, leader |-> NoBroker] \in Partition
    BY DEF Partition
  <2> QED
    BY <2>1, Zenon DEF Init
<1>5. /\ brokers \in Seq(Broker) /\ topics \in Broker \cup {NoBroker}
      /\ seen \in [Broker -> {"never", "heard", "dead"}]
      /\ calls \in SUBSET AssignRole /\ up \in [Broker -> BOOLEAN]
      /\ elected \in SUBSET (Nat \X Broker) /\ overlapped \in BOOLEAN
  <2>1. brokers \in Seq(Broker) /\ topics \in Broker \cup {NoBroker}
    BY DEF Init
  <2>2. seen \in [Broker -> {"never", "heard", "dead"}] /\ up \in [Broker -> BOOLEAN]
    BY Zenon DEF Init
  <2>3. calls = {} /\ elected = {} /\ overlapped = FALSE
    BY Zenon DEF Init
  <2> QED
    BY <2>1, <2>2, <2>3, Zenon
<1>6. /\ brokerLEO \in [Broker -> 0 .. MaxLEO]
      /\ outages \in 0 .. MaxOutages /\ lost \in 0 .. MaxLost
  BY CoordinatorAssumption DEF Init
<1>7. TypeOK
  BY <1>1, <1>3, <1>4, <1>5, <1>6 DEF TypeOK
<1>8. NInv
  BY <1>1, <1>2 DEF NInv, Once
<1> QED
  BY <1>7, <1>8 DEF RInv

LEMMA StepPreservesR ==
  ASSUME IInv, RInv, [Next]_vars
  PROVE  RInv'
<1>1. CASE UNCHANGED vars
  <2>1. UNCHANGED <<brokers, topics, fsm, seen, brokerLEO, job, up, part, elected, overlapped,
                    calls, outages, lost>>
    BY <1>1 DEF vars, brokerVars, coordVars, history
  <2>2. NInv'
    BY <2>1, NStay
  <2>3. TypeOK'
    BY <2>1, Zenon DEF RInv, TypeOK
  <2> QED
    BY <2>2, <2>3 DEF RInv
<1>2. ASSUME NEW b \in Broker, NEW leo \in 0 .. MaxLEO, Heartbeat(b, leo) PROVE RInv'
  BY <1>2, BrokerStepR
<1>3. ASSUME NEW b \in Broker, Age(b) \/ Crash(b) \/ Restart(b) PROVE RInv'
  <2>1. 0 \in 0 .. MaxLEO
    BY CoordinatorAssumption
  <2> QED
    BY <1>3, <2>1, BrokerStepR
<1>4. ASSUME NEW b \in Broker, RegisterBroker(b) PROVE RInv'
  BY <1>4, RegisterStepR
<1>5. ASSUME NEW m \in calls, Deliver(m) \/ Lose(m) \/ TimeOut(m) PROVE RInv'
  BY <1>5, CallStepR
<1>6. CASE CreateTopic
  BY <1>6, CreateTopicStepR
<1>7. CASE GraceOver \/ FailoverTick \/ \E r \in Reporter, b \in Broker : ReportLeaderUnreachable(r, b)
  BY <1>7, TriggerStepR
<1>8. CASE CreateCommit
  <2>1. "create" \in Job
    BY DEF Job
  <2> QED
    BY <1>8, <2>1, CommitStepR, Zenon DEF CreateCommit, brokerVars
<1>9. ASSUME NEW created \in SUBSET Broker, initPartitions(created) \/ initBackupPartitions(created)
      PROVE  RInv'
  BY <1>9, InitPartitionsStepR
<1>10. ASSUME NEW r \in Reporter, ContextDone(r) PROVE RInv'
  <2>1. r \in Job
    BY DEF Job
  <2> QED
    BY <1>10, <2>1, ResumeStepR
<1>11. ASSUME NEW j \in Job, ApplyFails(j) \/ RolesAssigned(j) PROVE RInv'
  BY <1>11, ResumeStepR
<1>12. ASSUME NEW j \in Job, UpdateCommit(j) PROVE RInv'
  BY <1>12, CommitStepR, Zenon DEF UpdateCommit, brokerVars
<1>13. ASSUME NEW j \in Job, JobStep(j) PROVE RInv'
  BY <1>11, <1>12, <1>13, FailOverStepR, PickStepR, UpdateReadStepR, AssignStepR DEF JobStep
<1>14. CASE CreateStep
  BY <1>8, <1>9, <1>14 DEF CreateStep
<1>15. CASE LoopStep
  BY <1>7, <1>15 DEF LoopStep
<1> QED
  BY <1>1, <1>2, <1>3, <1>4, <1>5, <1>6, <1>7, <1>10, <1>11, <1>13, <1>14, <1>15, Zenon DEF Next

LEMMA InvarianceR == Spec => []RInv
<1>1. IInv /\ RInv /\ [Next]_vars => RInv'
  BY StepPreservesR
<1> QED
  BY <1>1, InitR, Invariance, PTL DEF Spec

-----------------------------------------------------------------------------
(* Theorems.                                                               *)

\* Every variable keeps its type.
THEOREM TypeCorrect == Spec => []TypeOK
<1>1. RInv => TypeOK
  BY DEF RInv
<1> QED
  BY <1>1, InvarianceR, PTL

\* However promotions overlap, the primary and the backups are the brokers
\* CreateTopic chose, each named once (coordinator.go:372-397).
THEOREM ReplicasKeptAlways == Spec => []ReplicasKept
<1>1. RInv => ReplicasKept
  <2> SUFFICES ASSUME RInv, fsm.epoch > 0
               PROVE  /\ \A i, k \in DOMAIN fsm.backups : fsm.backups[i] = fsm.backups[k] => i = k
                      /\ \A i \in DOMAIN fsm.backups : fsm.backups[i] # fsm.primary
                      /\ {fsm.primary} \cup {fsm.backups[i] : i \in DOMAIN fsm.backups} =
                           {brokers[i] : i \in 1 .. Len(fsm.backups) + 1}
    BY Zenon DEF ReplicasKept
  <2> DEFINE n == Len(fsm.backups)
             A == {fsm.primary} \cup {fsm.backups[i] : i \in DOMAIN fsm.backups}
             B == {brokers[i] : i \in 1 .. n + 1}
  <2>1. Names(brokers, fsm.primary, fsm.backups)
    BY DEF RInv, NInv
  <2>2. A \subseteq Broker
    BY <2>1 DEF Names
  <2>3. B \subseteq Broker
    BY <2>1, Types DEF Names
  <2>4. \A b \in Broker : b \in A <=> b \in B
    BY <2>1 DEF Names, Among
  <2> HIDE DEF A, B
  <2>5. A = B
    BY <2>2, <2>3, <2>4
  <2> QED
    BY <2>1, <2>5 DEF Names, Once, A, B
<1> QED
  BY <1>1, InvarianceR, PTL

\* A broker that leads in an epoch was named by the metadata committed for it
\* (coordinator.go:388-420, partition.go:113-121).
THEOREM LeadersWereElectedAlways == Spec => []LeadersWereElected
<1>1. IInv => LeadersWereElected
  BY DEF IInv, Parts, PartInv, LeadersWereElected
<1> QED
  BY <1>1, Invariance, PTL

\* While promotions do not overlap, no two brokers lead in one epoch
\* (coordinator.go:372-397).
THEOREM OneLeaderPerEpochAlways == Spec => []OneLeaderPerEpoch
<1>1. IInv => OneLeaderPerEpoch
  BY Zenon DEF IInv, Parts, PartInv, OneCommits, OneLeaderPerEpoch
<1> QED
  BY <1>1, Invariance, PTL
=============================================================================
