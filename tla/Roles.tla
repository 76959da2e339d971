------------------------------- MODULE Roles -------------------------------
(***************************************************************************)
(* Role transitions of one partition (src/internal/broker/partition.go):   *)
(* BecomeLeader, BecomeFollower and Close stop the background goroutine of *)
(* the old role, monitorISR or replicationLoop, and start that of the new. *)
(*                                                                         *)
(* stopBackground gives Partition.mu up while it waits for the goroutine,  *)
(* so calls of AssignRole for one partition interleave there; Broker.Close *)
(* holds Broker.mu all the while (broker.go), which the replicationLoop it *)
(* waits for may need.  Both mutexes, the contexts and the wait group are  *)
(* explicit here.  A section under a mutex that waits for nothing is one   *)
(* step, taken when the mutex is free.                                     *)
(***************************************************************************)
EXTENDS Integers

CONSTANTS
  Caller,      \* AssignRole and Close handlers that may run at once
  MaxEpoch,    \* bound: leader epochs the coordinator hands out
  MaxRequests  \* bound: AssignRole requests that ever arrive

ASSUME RolesAssumption == MaxEpoch \in Nat /\ MaxRequests \in Nat

\* A background goroutine goes by the number of the request that starts it.
Task  == 1 .. MaxRequests
Epoch == 0 .. MaxEpoch
Role  == {"Leader", "Follower"}

VARIABLES
  mu,          \* whether a call holds Partition.mu
  brokerMu,    \* whether Broker.Close holds Broker.mu
  role,        \* Partition.role
  leaderEpoch, \* Partition.leaderEpoch
  bgCancel,    \* the task whose context Partition.bgCancel cancels, 0 for nil
  task,        \* task[t]: the background goroutine of the t-th request
  requests,    \* how many AssignRole requests there have been
  call,        \* call[c]: the transition that c is executing
  overtaken,   \* history: a transition has overtaken one that waited
  panicked     \* the wait group was reused while a waiter was returning

vars == <<mu, brokerMu, role, leaderEpoch, bgCancel, task, requests, call, overtaken, panicked>>

\* A task is at its select or asleep before it ("top"), waits for Partition.mu
\* ("blocked"), or has returned ("exited").  monitorISR may wait for the mutex again
\* ("again"); replicationLoop waits for Broker.mu to look its peer up ("peer"), for
\* a record ("recv"), for Partition.mu with one ("apply"), for Broker.mu to report a
\* broken stream ("report"), for the coordinator's answer ("rpc").
TaskPc == {"top", "blocked", "again", "peer", "recv", "apply", "report", "rpc"}

\* cancelled says whether the context of the task is done.
TaskState == [kind : Role, pc : TaskPc \cup {"none", "exited"}, cancelled : BOOLEAN]

\* A call is waiting for mu ("enter"), compares epochs under it ("check"), is
\* about to call bgWg.Wait ("stop"), waits in it ("wait"), has been released by it
\* ("woken"), waits for mu again ("relock"), or installs the new role ("install").
\* late: another transition took effect since this one compared epochs.
CallState == [pc : {"idle", "enter", "check", "stop", "wait", "woken", "relock", "install"},
              op : Role \cup {"Close"}, epoch : Epoch, task : {0} \cup Task, late : BOOLEAN]

TypeOK ==
  /\ mu \in BOOLEAN
  /\ brokerMu \in BOOLEAN
  /\ role \in Role
  /\ leaderEpoch \in Epoch
  /\ bgCancel \in {0} \cup Task
  /\ task \in [Task -> TaskState]
  /\ requests \in 0 .. MaxRequests
  /\ call \in [Caller -> CallState]
  /\ overtaken \in BOOLEAN
  /\ panicked \in BOOLEAN

\* A panic ends the process: every step but the panic itself needs it alive.
Running == ~panicked /\ UNCHANGED panicked

\* What the wait group counts.
Live == {t \in Task : task[t].pc \in TaskPc}

-----------------------------------------------------------------------------
(* The transitions.                                                        *)

\* The coordinator's request arrives: the handler looks the partition up and, for
\* a follower, connects to the leader, both with Broker.mu.
AssignRole(c, r, e) ==
  /\ Running
  /\ call[c].pc = "idle" /\ ~brokerMu /\ requests < MaxRequests
  /\ requests' = requests + 1
  /\ call' = [call EXCEPT ![c] =
       [pc |-> "enter", op |-> r, epoch |-> e, task |-> requests + 1, late |-> FALSE]]
  /\ UNCHANGED <<mu, brokerMu, role, leaderEpoch, bgCancel, task, overtaken>>

\* The broker closes: it takes Broker.mu and calls Close of the partition.
BrokerClose(c) ==
  /\ Running
  /\ call[c].pc = "idle" /\ ~brokerMu
  /\ brokerMu' = TRUE
  /\ call' = [call EXCEPT ![c] =
       [pc |-> "enter", op |-> "Close", epoch |-> 0, task |-> 0, late |-> FALSE]]
  /\ UNCHANGED <<mu, role, leaderEpoch, bgCancel, task, requests, overtaken>>

CallLock(c) ==
  /\ Running
  /\ call[c].pc = "enter" /\ ~mu
  /\ mu' = TRUE
  /\ call' = [call EXCEPT ![c].pc = "check"]
  /\ UNCHANGED <<brokerMu, role, leaderEpoch, bgCancel, task, requests, overtaken>>

\* Mutant: an older epoch is accepted.
StaleNever(c) == FALSE

\* The early return on an older epoch; Close has none.
Stale(c) == call[c].op # "Close" /\ call[c].epoch < leaderEpoch

CallIgnored(c) ==
  /\ Running
  /\ call[c].pc = "check" /\ Stale(c)
  /\ mu' = FALSE
  /\ call' = [call EXCEPT ![c].pc = "idle"]
  /\ UNCHANGED <<brokerMu, role, leaderEpoch, bgCancel, task, requests, overtaken>>

\* Mutant: stopBackground keeps mu while it waits.
stopBackgroundLocked(c) ==
  /\ Running
  /\ call[c].pc = "check" /\ ~Stale(c) /\ bgCancel # 0
  /\ task' = [task EXCEPT ![bgCancel].cancelled = TRUE]
  /\ call' = [call EXCEPT ![c].pc = "stop"]
  /\ UNCHANGED <<mu, brokerMu, role, leaderEpoch, bgCancel, requests, overtaken>>

\* stopBackground cancels the context and releases mu to wait.
stopBackground(c) ==
  /\ Running
  /\ call[c].pc = "check" /\ ~Stale(c) /\ bgCancel # 0
  /\ task' = [task EXCEPT ![bgCancel].cancelled = TRUE]
  /\ mu' = FALSE
  /\ call' = [call EXCEPT ![c].pc = "stop"]
  /\ UNCHANGED <<brokerMu, role, leaderEpoch, bgCancel, requests, overtaken>>

\* There is nothing to stop.
NothingToStop(c) ==
  /\ Running
  /\ call[c].pc = "check" /\ ~Stale(c) /\ bgCancel = 0
  /\ call' = [call EXCEPT ![c].pc = "install"]
  /\ UNCHANGED <<mu, brokerMu, role, leaderEpoch, bgCancel, task, requests, overtaken>>

\* bgWg.Wait is called with mu free: others may have run since stopBackground
\* released it.
bgWait(c) ==
  /\ Running
  /\ call[c].pc = "stop"
  /\ call' = [call EXCEPT ![c].pc = IF Live = {} THEN "relock" ELSE "wait"]
  /\ UNCHANGED <<mu, brokerMu, role, leaderEpoch, bgCancel, task, requests, overtaken>>

\* bgWg.Wait returns, or panics when a goroutine was added since it was released.
bgWaitReturns(c) ==
  /\ ~panicked
  /\ call[c].pc = "woken"
  /\ panicked' = (Live # {})
  /\ call' = IF Live = {} THEN [call EXCEPT ![c].pc = "relock"] ELSE call
  /\ UNCHANGED <<mu, brokerMu, role, leaderEpoch, bgCancel, task, requests, overtaken>>

Relock(c) ==
  /\ Running
  /\ call[c].pc = "relock" /\ ~mu
  /\ mu' = TRUE
  /\ bgCancel' = 0
  /\ call' = [call EXCEPT ![c].pc = "install"]
  /\ UNCHANGED <<brokerMu, role, leaderEpoch, task, requests, overtaken>>

\* The calls that gave mu up in stopBackground and have not taken it again.
Waiting == {c \in Caller : call[c].pc \in {"stop", "wait", "woken", "relock"}}

\* c returns; the calls that wait meanwhile are late now.
Overtakes(c) ==
  /\ call' = [d \in Caller |->
       IF d = c THEN [call[d] EXCEPT !.pc = "idle"]
       ELSE IF d \in Waiting THEN [call[d] EXCEPT !.late = TRUE] ELSE call[d]]
  /\ overtaken' = (overtaken \/ Waiting # {})

\* Mutant: bgCancel is not set.
InstallWithoutCancel(c) ==
  /\ Running
  /\ call[c].pc = "install" /\ call[c].op # "Close"
  /\ role' = call[c].op
  /\ leaderEpoch' = call[c].epoch
  /\ task' = [task EXCEPT ![call[c].task] =
       [kind |-> call[c].op, pc |-> "top", cancelled |-> FALSE]]
  /\ mu' = FALSE
  /\ Overtakes(c)
  /\ UNCHANGED <<brokerMu, bgCancel, requests>>

\* Mutant: the partition counts the epoch up itself.
InstallNextEpoch(c) ==
  /\ Running
  /\ call[c].pc = "install" /\ call[c].op # "Close"
  /\ role' = call[c].op
  /\ leaderEpoch' = call[c].epoch + 1
  /\ bgCancel' = call[c].task
  /\ task' = [task EXCEPT ![call[c].task] =
       [kind |-> call[c].op, pc |-> "top", cancelled |-> FALSE]]
  /\ mu' = FALSE
  /\ Overtakes(c)
  /\ UNCHANGED <<brokerMu, requests>>

\* The new role, epoch and goroutine.
Install(c) ==
  /\ Running
  /\ call[c].pc = "install" /\ call[c].op # "Close"
  /\ role' = call[c].op
  /\ leaderEpoch' = call[c].epoch
  /\ bgCancel' = call[c].task
  /\ task' = [task EXCEPT ![call[c].task] =
       [kind |-> call[c].op, pc |-> "top", cancelled |-> FALSE]]
  /\ mu' = FALSE
  /\ Overtakes(c)
  /\ UNCHANGED <<brokerMu, requests>>

\* Close of the partition returns, and with it Broker.Close.
Closed(c) ==
  /\ Running
  /\ call[c].pc = "install" /\ call[c].op = "Close"
  /\ mu' = FALSE
  /\ brokerMu' = FALSE
  /\ call' = [call EXCEPT ![c].pc = "idle"]
  /\ UNCHANGED <<role, leaderEpoch, bgCancel, task, requests, overtaken>>

-----------------------------------------------------------------------------
(* The background goroutines.                                              *)

Goto(t, pc) ==
  /\ Running
  /\ task' = [task EXCEPT ![t].pc = pc]
  /\ UNCHANGED <<mu, brokerMu, role, leaderEpoch, bgCancel, requests, call, overtaken>>

\* The ticker of monitorISR fires, which select may prefer to a context that is
\* done; replicationLoop goes round again only with a context that is not.
TaskTick(t) ==
  /\ task[t].pc = "top"
  /\ task[t].kind = "Follower" => ~task[t].cancelled
  /\ Goto(t, "blocked")

\* The work under mu: that of monitorISR takes mu a second time after a replica
\* has fallen out, that of replicationLoop reads what to ask for.
TaskLocked(t) ==
  /\ task[t].pc \in {"blocked", "again"} /\ ~mu
  /\ \/ task[t].kind = "Leader" /\ Goto(t, "top")
     \/ task[t].kind = "Leader" /\ task[t].pc = "blocked" /\ Goto(t, "again")
     \/ task[t].kind = "Follower" /\ Goto(t, "peer")

\* replicationLoop looks its peer up with Broker.mu; it sleeps when there is none
\* or the fetch fails.
TaskPeer(t) ==
  /\ task[t].pc = "peer" /\ ~brokerMu
  /\ Goto(t, "recv") \/ Goto(t, "top")

\* A record arrives ...
TaskRecv(t) == task[t].pc = "recv" /\ Goto(t, "apply")

\* ... is appended, and moves the watermark.
TaskApply(t) == task[t].pc = "apply" /\ ~mu /\ Goto(t, "recv")

\* The stream ends or a record is refused.  The task reports its leader to the
\* coordinator unless its own context is done or there is no coordinator.
TaskBroken(t) ==
  /\ task[t].pc = "recv" \/ (task[t].pc = "apply" /\ ~mu)
  /\ (~task[t].cancelled /\ Goto(t, "report")) \/ Goto(t, "top")

\* reportLeaderUnreachable looks the address up with Broker.mu.
TaskReport(t) ==
  /\ task[t].pc = "report" /\ ~brokerMu
  /\ Goto(t, "rpc") \/ Goto(t, "top")

\* The coordinator answers a call that has no deadline.
TaskAnswered(t) == task[t].pc = "rpc" /\ Goto(t, "top")

\* bgWg.Done; the last goroutine to leave releases all waiters.
TaskExit(t) ==
  /\ Running
  /\ task[t].pc = "top" /\ task[t].cancelled
  /\ task' = [task EXCEPT ![t].pc = "exited"]
  /\ call' = [c \in Caller |->
       IF call[c].pc = "wait" /\ Live = {t} THEN [call[c] EXCEPT !.pc = "woken"]
                                            ELSE call[c]]
  /\ UNCHANGED <<mu, brokerMu, role, leaderEpoch, bgCancel, requests, overtaken>>

-----------------------------------------------------------------------------
Init ==
  /\ mu = FALSE
  /\ brokerMu = FALSE
  /\ role = "Leader"
  /\ leaderEpoch = 0
  /\ bgCancel = 0
  /\ task = [t \in Task |-> [kind |-> "Leader", pc |-> "none", cancelled |-> FALSE]]
  /\ requests = 0
  /\ call = [c \in Caller |->
       [pc |-> "idle", op |-> "Close", epoch |-> 0, task |-> 0, late |-> FALSE]]
  /\ overtaken = FALSE
  /\ panicked = FALSE

CallStep(c) ==
  \/ CallLock(c)
  \/ CallIgnored(c)
  \/ stopBackground(c)
  \/ NothingToStop(c)
  \/ bgWait(c)
  \/ bgWaitReturns(c)
  \/ Relock(c)
  \/ Install(c)
  \/ Closed(c)

TaskMove(t) ==
  \/ TaskTick(t)
  \/ TaskLocked(t)
  \/ TaskPeer(t)
  \/ TaskRecv(t)
  \/ TaskApply(t)
  \/ TaskBroken(t)
  \/ TaskReport(t)
  \/ TaskAnswered(t)

Next ==
  \/ \E c \in Caller, r \in Role, e \in Epoch : AssignRole(c, r, e)
  \/ \E c \in Caller : BrokerClose(c) \/ CallStep(c)
  \/ \E t \in Task : TaskMove(t) \/ TaskExit(t)

Spec == Init /\ [][Next]_vars

\* What the goroutine does when it has the mutex it waits for.
TaskRuns(t) == TaskLocked(t) \/ TaskApply(t) \/ TaskPeer(t) \/ TaskReport(t)

\* Go's mutexes hand themselves over to a waiter that has starved for a millisecond,
\* a stream whose context is done ends, and a select does not pass over a context
\* that is done for ever.  Nothing makes the coordinator answer.
Fairness ==
  /\ \A c \in Caller : SF_vars(CallStep(c))
  /\ \A t \in Task : /\ WF_vars(TaskRuns(t))
                     /\ WF_vars(task[t].cancelled /\ TaskBroken(t))
                     /\ SF_vars(TaskExit(t))

FairSpec == Spec /\ Fairness

-----------------------------------------------------------------------------
(* Properties.                                                             *)

\* Until a transition overtakes one that waits, at most one background goroutine
\* lives, it is that of the current role, and bgCancel can still stop it: no
\* replicationLoop writes to the log of a leader, none is leaked, and the wait group
\* is not misused, although calls begin, are refused and wait together
\* (partition.go:92-151).
OneTaskOfTheRole ==
  \/ overtaken
  \/ /\ ~panicked
     /\ \A t \in Live : task[t].kind = role /\ bgCancel = t

\* The epoch of a partition goes down only where the code compares it before it gives
\* the mutex up and assigns it after: by a transition that another one, of a newer
\* epoch, overtook while it waited in stopBackground (partition.go:113-121, 136-144).
EpochLoweredOnlyByOvertaken ==
  [][leaderEpoch' < leaderEpoch =>
       \E c \in Caller : call[c].pc = "install" /\ call[c].late]_vars

\* Broker.Close waits for a goroutine that waits for the mutex Broker.Close holds.
CloseBlocked == brokerMu /\ \E t \in Live : task[t].pc \in {"peer", "report"}

\* A goroutine waits for an answer of the coordinator.
AwaitsCoordinator == \E t \in Live : task[t].pc = "rpc"

\* A transition completes although it waits for a goroutine that may itself wait for
\* a mutex, a record or an answer (partition.go:92-101, 250-325).  Three things keep
\* one for ever and nothing else does: it was overtaken, the coordinator never
\* answers, or Broker.Close holds Broker.mu against its own goroutine.
TransitionsFinish ==
  \A c \in Caller :
    \/ []<>(call[c].pc = "idle")
    \/ <>overtaken
    \/ <>[]AwaitsCoordinator
    \/ <>[]CloseBlocked

\* "Ignore older epochs to prevent stale transitions" (partition.go:113).  An overtaken
\* transition is not ignored (MCRolesOverlap).
EpochNeverDecreases == [][leaderEpoch' >= leaderEpoch]_vars

\* "Close strictly tears down all peer connections and local partitions"
\* (broker.go:637): Broker.Close returns when the coordinator answers.  It does not when
\* a goroutine waits for Broker.mu (MCRolesClose).
CloseReturns ==
  \/ []<>~brokerMu
  \/ <>overtaken
  \/ <>[]AwaitsCoordinator

=============================================================================
