----------------------------- MODULE RolesProofs -----------------------------
(***************************************************************************)
(* Role transitions leave at most one background goroutine, that of the    *)
(* role, until one overtakes another, and only one that was overtaken      *)
(* lowers the epoch, for any number of callers and of requests.            *)
(*                                                                         *)
(* Inductive are these only with what a call under way knows: that it      *)
(* holds the mutex alone, which epoch it has compared, and that the        *)
(* goroutine it waited for has gone.                                       *)
(***************************************************************************)
EXTENDS Roles, TLAPS

\* The calls that have compared their epoch.
Compared == {"stop", "wait", "woken", "relock", "install"}

\* A call that holds the mutex is alone.
Alone ==
  \A c \in Caller : call[c].pc \in {"check", "install"} =>
    /\ mu
    /\ \A d \in Caller : call[d].pc \in {"check", "install"} => d = c

\* A request has a number of its own.
Numbered == \A c \in Caller : call[c].op # "Close" => call[c].task \in Task

\* The epoch a call has compared is not older until the call is overtaken.
EpochChecked ==
  \A c \in Caller :
    call[c].pc \in Compared /\ call[c].op # "Close" /\ ~call[c].late =>
      call[c].epoch >= leaderEpoch

\* The wait group is empty once a call has waited for it.
Stopped == \A c \in Caller : call[c].pc \in {"woken", "relock", "install"} => Live = {}

\* A goroutine that lives is the one bgCancel stops, and that of the role.
LiveIsCurrent == \A t \in Live : t = bgCancel /\ task[t].kind = role

\* What holds until a transition overtakes another.
Orderly == Stopped /\ LiveIsCurrent /\ ~panicked

IInv == TypeOK /\ Alone /\ Numbered /\ EpochChecked /\ (overtaken \/ Orderly)

\* newPartition has a partition without a goroutine.
LEMMA InitEstablishes == Init => IInv
<1> SUFFICES ASSUME Init PROVE IInv
  OBVIOUS
<1>1. TypeOK
  <2>1. task \in [Task -> TaskState]
    BY DEF Init, TaskState, Role
  <2>2. call \in [Caller -> CallState]
    BY RolesAssumption DEF Init, CallState, Epoch
  <2>3. mu \in BOOLEAN /\ brokerMu \in BOOLEAN /\ overtaken \in BOOLEAN /\ panicked \in BOOLEAN
    BY Zenon DEF Init
  <2>4. role \in Role /\ leaderEpoch \in Epoch /\ bgCancel \in {0} \cup Task
    BY RolesAssumption DEF Init, Role, Epoch
  <2>5. requests \in 0 .. MaxRequests
    BY RolesAssumption DEF Init
  <2> QED
    BY <2>1, <2>2, <2>3, <2>4, <2>5 DEF TypeOK
<1>2. Live = {}
  BY DEF Init, Live, TaskPc
<1>3. \A c \in Caller : call[c].pc = "idle" /\ call[c].op = "Close"
  BY Zenon DEF Init
<1>4. Alone /\ Numbered /\ EpochChecked /\ Stopped
  BY <1>3 DEF Alone, Numbered, EpochChecked, Stopped, Compared
<1>5. LiveIsCurrent /\ ~panicked
  BY <1>2 DEF LiveIsCurrent, Init
<1> QED
  BY <1>1, <1>4, <1>5, Zenon DEF IInv, Orderly

\* A goroutine that goes on with its loop lives on.
LEMMA TaskGoesOn ==
  ASSUME IInv, NEW t \in Task, TaskMove(t)
  PROVE  IInv'
<1>1. /\ t \in Live
      /\ \E pc \in TaskPc : Goto(t, pc)
  BY DEF TaskMove, TaskTick, TaskLocked, TaskPeer, TaskRecv, TaskApply, TaskBroken,
         TaskReport, TaskAnswered, Live, TaskPc
<1>2. PICK pc \in TaskPc : Goto(t, pc)
  BY <1>1, Zenon
<1>3. /\ UNCHANGED <<mu, brokerMu, role, leaderEpoch, bgCancel, requests, call, overtaken, panicked>>
      /\ task' = [task EXCEPT ![t].pc = pc]
  BY <1>2, Zenon DEF Goto, Running
<1>4. task' \in [Task -> TaskState] /\ Live' = Live /\ \A u \in Task : task'[u].kind = task[u].kind
  BY <1>1, <1>3 DEF IInv, TypeOK, Live, TaskState
<1>5. TypeOK'
  BY <1>3, <1>4, Zenon DEF IInv, TypeOK
<1>6. (Alone /\ Numbered /\ EpochChecked)'
  BY <1>3 DEF IInv, Alone, Numbered, EpochChecked
<1>7. (overtaken \/ Orderly)'
  <2>1. Orderly => Orderly'
    BY <1>3, <1>4 DEF Orderly, Stopped, LiveIsCurrent, Live
  <2> QED
    BY <1>3, <2>1, Zenon DEF IInv
<1> QED
  BY <1>5, <1>6, <1>7, Zenon DEF IInv

\* A goroutine that leaves releases the calls that wait when it is the last.
LEMMA TaskLeaves ==
  ASSUME IInv, NEW t \in Task, TaskExit(t)
  PROVE  IInv'
<1>1. /\ UNCHANGED <<mu, brokerMu, role, leaderEpoch, bgCancel, requests, overtaken, panicked>>
      /\ task' = [task EXCEPT ![t].pc = "exited"]
      /\ t \in Live
  BY DEF TaskExit, Live, Running, TaskPc
<1>2. /\ task' \in [Task -> TaskState] /\ Live' = Live \ {t}
      /\ \A u \in Task : task'[u].kind = task[u].kind
  BY <1>1 DEF IInv, TypeOK, Live, TaskState, TaskPc
<1>3. /\ call' \in [Caller -> CallState]
      /\ \A c \in Caller :
           /\ call'[c].op = call[c].op /\ call'[c].epoch = call[c].epoch
           /\ call'[c].task = call[c].task /\ call'[c].late = call[c].late
           /\ \/ call'[c].pc = call[c].pc
              \/ call[c].pc = "wait" /\ call'[c].pc = "woken" /\ Live = {t}
  BY DEF TaskExit, IInv, TypeOK, CallState
<1>4. TypeOK'
  BY <1>1, <1>2, <1>3, Zenon DEF IInv, TypeOK
<1>5. Alone' /\ Numbered'
  BY <1>1, <1>3 DEF IInv, Alone, Numbered
<1>6. EpochChecked'
  BY <1>1, <1>3 DEF IInv, EpochChecked, Compared
<1>7. (overtaken \/ Orderly)'
  <2>1. Orderly => Orderly'
    BY <1>1, <1>2, <1>3 DEF Orderly, Stopped, LiveIsCurrent
  <2> QED
    BY <1>1, <2>1, Zenon DEF IInv
<1> QED
  BY <1>4, <1>5, <1>6, <1>7, Zenon DEF IInv

-----------------------------------------------------------------------------
\* A request arrives, or the broker closes, while other calls are under way.
LEMMA CallBegins ==
  ASSUME IInv, NEW c \in Caller,
         (\E r \in Role, e \in Epoch : AssignRole(c, r, e)) \/ BrokerClose(c)
  PROVE  IInv'
<1>1. PICK op \in Role \cup {"Close"}, e \in Epoch, t \in {0} \cup Task :
        /\ call' = [call EXCEPT ![c] =
                      [pc |-> "enter", op |-> op, epoch |-> e, task |-> t, late |-> FALSE]]
        /\ op # "Close" => t \in Task
  <2>1. ASSUME NEW r \in Role, NEW e \in Epoch, AssignRole(c, r, e)
        PROVE  requests + 1 \in Task /\ call' = [call EXCEPT ![c] =
                 [pc |-> "enter", op |-> r, epoch |-> e, task |-> requests + 1, late |-> FALSE]]
    BY <2>1, RolesAssumption DEF AssignRole, IInv, TypeOK, Task
  <2>2. ASSUME BrokerClose(c)
        PROVE  0 \in Epoch /\ call' = [call EXCEPT ![c] =
                 [pc |-> "enter", op |-> "Close", epoch |-> 0, task |-> 0, late |-> FALSE]]
    BY <2>2, RolesAssumption DEF BrokerClose, Epoch
  <2> QED
    BY <2>1, <2>2, Zenon
<1>2. /\ UNCHANGED <<mu, role, leaderEpoch, bgCancel, task, overtaken, panicked>>
      /\ brokerMu' \in BOOLEAN
  BY Zenon DEF AssignRole, BrokerClose, Running, IInv, TypeOK
<1>3. requests' \in 0 .. MaxRequests
  BY RolesAssumption DEF AssignRole, BrokerClose, IInv, TypeOK
<1>4. /\ call' \in [Caller -> CallState]
      /\ call'[c].pc = "enter" /\ call'[c].op = op /\ call'[c].task = t
      /\ \A d \in Caller : d # c => call'[d] = call[d]
  BY <1>1 DEF IInv, TypeOK, CallState
<1>5. TypeOK'
  BY <1>2, <1>3, <1>4, Zenon DEF IInv, TypeOK
<1>6. Alone'
  BY <1>2, <1>4 DEF IInv, Alone
<1>7. Numbered' /\ EpochChecked'
  BY <1>1, <1>2, <1>4 DEF IInv, Numbered, EpochChecked, Compared
<1>8. (overtaken \/ Orderly)'
  <2>1. Live' = Live
    BY <1>2 DEF Live
  <2>2. Orderly => Orderly'
    BY <1>2, <1>4, <2>1 DEF Orderly, Stopped, LiveIsCurrent
  <2> QED
    BY <1>2, <2>2, Zenon DEF IInv
<1> QED
  BY <1>5, <1>6, <1>7, <1>8, Zenon DEF IInv

\* The steps of a call that start no goroutine.
CallWalks(c) ==
  \/ CallLock(c) \/ CallIgnored(c) \/ stopBackground(c) \/ NothingToStop(c)
  \/ bgWait(c) \/ bgWaitReturns(c) \/ Relock(c) \/ Closed(c)

\* Where a step takes a call: it has the mutex alone, it waits for nothing that lives,
\* and it compares its epoch, before it has.
WalksTo(c, pc) ==
  /\ call' = [call EXCEPT ![c].pc = pc]
  /\ pc = "install" /\ call[c].pc = "check" => bgCancel = 0
  /\ pc = "relock" => Live = {}
  /\ pc = "install" => call[c].pc \in {"check", "relock"}
  /\ pc = "woken" => call[c].pc = "woken"
  /\ pc \in Compared => call[c].pc \in Compared \/ (call[c].pc = "check" /\ ~Stale(c))
  /\ pc \in {"check", "install"} => mu' /\ (call[c].pc = "check" \/ ~mu)
  /\ pc \notin {"check", "install"} /\ call[c].pc \notin {"check", "install"} => mu' = mu

\* Each step takes a call to one such place.
LEMMA CallWalksTo ==
  ASSUME IInv, NEW c \in Caller, CallWalks(c)
  PROVE  \E pc \in {"idle", "check", "stop", "wait", "woken", "relock", "install"} : WalksTo(c, pc)
<1>1. CallLock(c) => WalksTo(c, "check")
  BY DEF CallLock, WalksTo, Compared
<1>2. CallIgnored(c) \/ Closed(c) => WalksTo(c, "idle")
  BY DEF CallIgnored, Closed, WalksTo, Compared
<1>3. stopBackground(c) => WalksTo(c, "stop")
  BY DEF stopBackground, WalksTo, Compared
<1>4. NothingToStop(c) => WalksTo(c, "install")
  <2>1. call[c].pc = "check" => mu
    BY DEF IInv, Alone
  <2> QED
    BY <2>1 DEF NothingToStop, WalksTo, Compared
<1>5. bgWait(c) => WalksTo(c, "wait") \/ WalksTo(c, "relock")
  BY Zenon DEF bgWait, WalksTo, Compared
<1>6. bgWaitReturns(c) /\ Live = {} => WalksTo(c, "relock")
  BY DEF bgWaitReturns, WalksTo, Compared
<1>7. bgWaitReturns(c) /\ Live # {} => WalksTo(c, "woken")
  <2> SUFFICES ASSUME bgWaitReturns(c), Live # {} PROVE WalksTo(c, "woken")
    OBVIOUS
  <2>1. call' = call /\ call[c].pc = "woken" /\ mu' = mu
    BY Zenon DEF bgWaitReturns
  <2>2. call' = [call EXCEPT ![c].pc = "woken"]
    BY <2>1 DEF IInv, TypeOK, CallState
  <2> QED
    BY <2>1, <2>2, Zenon DEF WalksTo, Compared
<1>8. Relock(c) => WalksTo(c, "install")
  BY DEF Relock, WalksTo, Compared
<1> QED
  BY <1>1, <1>2, <1>3, <1>4, <1>5, <1>6, <1>7, <1>8, Zenon DEF CallWalks

\* What such a step leaves alone: it cancels a context at most.
LEMMA CallWalksKeeps ==
  ASSUME IInv, NEW c \in Caller, CallWalks(c)
  PROVE  /\ UNCHANGED <<role, leaderEpoch, requests, overtaken>>
         /\ mu' \in BOOLEAN /\ brokerMu' \in BOOLEAN /\ panicked' \in BOOLEAN
         /\ bgCancel' = bgCancel \/ (bgCancel' = 0 /\ call[c].pc = "relock")
         /\ Orderly => ~panicked'
         /\ task' \in [Task -> TaskState]
         /\ \A t \in Task : task'[t].pc = task[t].pc /\ task'[t].kind = task[t].kind
<1>1. /\ UNCHANGED <<role, leaderEpoch, requests, overtaken>>
      /\ mu' \in BOOLEAN /\ brokerMu' \in BOOLEAN
      /\ bgCancel' = bgCancel \/ (bgCancel' = 0 /\ call[c].pc = "relock")
  BY Zenon DEF IInv, TypeOK, CallWalks, CallLock, CallIgnored, stopBackground, NothingToStop, bgWait,
         bgWaitReturns, Relock, Closed
<1>2. panicked' \in BOOLEAN /\ (Orderly => ~panicked')
  BY DEF IInv, TypeOK, Orderly, Stopped, Running, CallWalks, CallLock, CallIgnored, stopBackground,
         NothingToStop, bgWait, bgWaitReturns, Relock, Closed
<1>3. \/ task' = task
      \/ bgCancel \in Task /\ task' = [task EXCEPT ![bgCancel].cancelled = TRUE]
  BY DEF IInv, TypeOK, CallWalks, CallLock, CallIgnored, stopBackground, NothingToStop, bgWait,
         bgWaitReturns, Relock, Closed
<1>4. task \in [Task -> TaskState]
  BY DEF IInv, TypeOK
<1>5. /\ task' \in [Task -> TaskState]
      /\ \A t \in Task : task'[t].pc = task[t].pc /\ task'[t].kind = task[t].kind
  <2>1. CASE bgCancel \in Task /\ task' = [task EXCEPT ![bgCancel].cancelled = TRUE]
    <3> DEFINE s == task[bgCancel]
               r == [s EXCEPT !.cancelled = TRUE]
    <3>1. s \in TaskState
      BY <1>4, <2>1
    <3>2. r \in TaskState /\ r.pc = s.pc /\ r.kind = s.kind
      <4> HIDE DEF s
      <4> QED
        BY <3>1, Zenon DEF TaskState
    <3>3. task' = [task EXCEPT ![bgCancel] = r]
      BY <2>1
    <3> HIDE DEF r
    <3> QED
      BY <1>4, <2>1, <3>2, <3>3, Zenon
  <2> QED
    BY <1>3, <1>4, <2>1
<1> QED
  BY <1>1, <1>2, <1>5, Zenon

\* A step of a call that starts no goroutine keeps the invariant.
LEMMA CallMoves ==
  ASSUME IInv, NEW c \in Caller, CallWalks(c)
  PROVE  IInv'
<1>1. PICK pc \in {"idle", "check", "stop", "wait", "woken", "relock", "install"} : WalksTo(c, pc)
  BY CallWalksTo, Zenon
<1>2. /\ UNCHANGED <<role, leaderEpoch, requests, overtaken>>
      /\ mu' \in BOOLEAN /\ brokerMu' \in BOOLEAN /\ panicked' \in BOOLEAN
      /\ bgCancel' = bgCancel \/ (bgCancel' = 0 /\ call[c].pc = "relock")
      /\ Orderly => ~panicked'
      /\ task' \in [Task -> TaskState]
      /\ \A t \in Task : task'[t].pc = task[t].pc /\ task'[t].kind = task[t].kind
  BY CallWalksKeeps, Zenon
<1>3. Live' = Live
  BY <1>2 DEF Live
<1>4. /\ call' \in [Caller -> CallState]
      /\ call'[c].pc = pc
      /\ \A d \in Caller : d # c => call'[d].pc = call[d].pc
      /\ \A d \in Caller : /\ call'[d].op = call[d].op /\ call'[d].epoch = call[d].epoch
                           /\ call'[d].task = call[d].task /\ call'[d].late = call[d].late
  BY <1>1 DEF WalksTo, IInv, TypeOK, CallState
<1>5. TypeOK'
  <2>1. bgCancel' \in {0} \cup Task
    BY <1>2 DEF IInv, TypeOK
  <2> QED
    BY <1>2, <1>4, <2>1, Zenon DEF IInv, TypeOK
<1>6. Alone'
  <2> SUFFICES ASSUME NEW d \in Caller, call'[d].pc \in {"check", "install"}
               PROVE  mu' /\ \A x \in Caller : call'[x].pc \in {"check", "install"} => x = d
    BY DEF Alone
  <2>1. CASE pc \in {"check", "install"}
    <3>1. \A x \in Caller : call[x].pc \in {"check", "install"} => x = c
      BY <1>1, <2>1 DEF WalksTo, IInv, Alone
    <3> QED
      BY <1>1, <1>4, <2>1, <3>1 DEF WalksTo
  <2>2. CASE pc \notin {"check", "install"}
    <3>1. d # c /\ call[d].pc \in {"check", "install"}
      BY <1>4, <2>2
    <3>2. call[c].pc \notin {"check", "install"} /\ mu
      BY <3>1 DEF IInv, Alone
    <3>3. mu' = mu
      BY <1>1, <2>2, <3>2, Zenon DEF WalksTo
    <3>4. \A x \in Caller : call[x].pc \in {"check", "install"} => x = d
      BY <3>1, Zenon DEF IInv, Alone
    <3> QED
      BY <1>4, <2>2, <3>2, <3>3, <3>4
  <2> QED
    BY <2>1, <2>2
<1>7. Numbered'
  BY <1>4 DEF IInv, Numbered
<1>8. EpochChecked'
  <2> SUFFICES ASSUME NEW d \in Caller, call'[d].pc \in Compared, call'[d].op # "Close",
                      ~call'[d].late
               PROVE  call'[d].epoch >= leaderEpoch
    BY <1>2 DEF EpochChecked
  <2>1. CASE d = c /\ call[c].pc = "check"
    BY <1>1, <1>4, <2>1 DEF WalksTo, Stale, IInv, TypeOK, CallState, Epoch, Compared
  <2>2. CASE ~(d = c /\ call[c].pc = "check")
    BY <1>1, <1>4, <2>2 DEF WalksTo, IInv, EpochChecked
  <2> QED
    BY <2>1, <2>2
<1>9. (overtaken \/ Orderly)'
  <2> SUFFICES ASSUME Orderly PROVE Orderly'
    BY <1>2, Zenon DEF IInv
  <2>1. bgCancel = 0 => Live = {}
    BY DEF Orderly, LiveIsCurrent, Live, Task
  <2>2. call[c].pc \in {"woken", "relock"} => Live = {}
    BY DEF Orderly, Stopped
  <2>3. Stopped'
    BY <1>1, <1>3, <1>4, <2>1, <2>2 DEF WalksTo, Orderly, Stopped
  <2>4. LiveIsCurrent'
    BY <1>2, <1>3, <2>2 DEF Orderly, LiveIsCurrent, Live
  <2> QED
    BY <1>2, <2>3, <2>4, Zenon DEF Orderly
<1> QED
  BY <1>5, <1>6, <1>7, <1>8, <1>9, Zenon DEF IInv

\* The new role has the only goroutine, unless a call waits: that one is late now.
LEMMA RoleInstalled ==
  ASSUME IInv, NEW c \in Caller, Install(c)
  PROVE  IInv'
<1> DEFINE t == call[c].task
<1>1. /\ call[c].pc = "install" /\ call[c].op # "Close" /\ UNCHANGED <<panicked, brokerMu, requests>>
      /\ role' = call[c].op /\ leaderEpoch' = call[c].epoch
      /\ bgCancel' = t /\ mu' = FALSE
      /\ task' = [task EXCEPT ![t] = [kind |-> call[c].op, pc |-> "top", cancelled |-> FALSE]]
      /\ overtaken' = (overtaken \/ Waiting # {})
  BY DEF Install, Running, Overtakes
<1>2. t \in Task /\ call[c].op \in Role /\ call[c].epoch \in Epoch
  BY <1>1 DEF IInv, Numbered, TypeOK, CallState
<1>3. /\ call' \in [Caller -> CallState]
      /\ call'[c].pc = "idle"
      /\ \A d \in Caller : d # c => call'[d].pc = call[d].pc
      /\ \A d \in Caller : d # c /\ d \in Waiting => call'[d].late
      /\ \A d \in Caller : call'[d].op = call[d].op /\ call'[d].task = call[d].task
  BY Zenon DEF Install, Overtakes, IInv, TypeOK, CallState
<1>4. \A d \in Caller : d # c => call[d].pc \notin {"check", "install"}
  BY <1>1 DEF IInv, Alone
<1>5. /\ task' \in [Task -> TaskState]
      /\ task'[t].kind = call[c].op
      /\ \A u \in Task : u # t => task'[u] = task[u]
  BY <1>1, <1>2, Zenon DEF IInv, TypeOK, TaskState, TaskPc
<1>6. TypeOK'
  <2>1. overtaken' \in BOOLEAN /\ mu' \in BOOLEAN
    BY <1>1, Zenon
  <2> QED
    BY <1>1, <1>2, <1>3, <1>5, <2>1, Zenon DEF IInv, TypeOK
<1>7. Alone' /\ Numbered'
  BY <1>3, <1>4 DEF IInv, Alone, Numbered
<1>8. EpochChecked'
  BY <1>3, <1>4 DEF EpochChecked, Compared, Waiting
<1>9. (overtaken \/ Orderly)'
  <2> SUFFICES ASSUME Orderly, Waiting = {} PROVE Orderly'
    BY <1>1, Zenon DEF IInv
  <2>1. Live = {}
    BY <1>1 DEF Orderly, Stopped
  <2>2. Live' \subseteq {t}
    BY <1>5, <2>1 DEF Live
  <2>3. LiveIsCurrent'
    BY <1>1, <1>5, <2>2 DEF LiveIsCurrent
  <2>4. Stopped'
    BY <1>3, <1>4 DEF Stopped, Waiting
  <2> QED
    BY <1>1, <2>3, <2>4, Zenon DEF Orderly
<1> QED
  BY <1>6, <1>7, <1>8, <1>9, Zenon DEF IInv

-----------------------------------------------------------------------------
\* Every step keeps the invariant.
LEMMA StepPreserves == IInv /\ [Next]_vars => IInv'
<1> SUFFICES ASSUME IInv, [Next]_vars PROVE IInv'
  OBVIOUS
<1>1. CASE UNCHANGED vars
  BY <1>1, Zenon DEF vars, IInv, TypeOK, Alone, Numbered, EpochChecked, Orderly, Stopped,
     LiveIsCurrent, Live
<1>2. ASSUME NEW c \in Caller,
             (\E r \in Role, e \in Epoch : AssignRole(c, r, e)) \/ BrokerClose(c)
      PROVE  IInv'
  BY <1>2, CallBegins
<1>3. ASSUME NEW c \in Caller, CallStep(c) PROVE IInv'
  BY <1>3, CallMoves, RoleInstalled, Zenon DEF CallStep, CallWalks
<1>4. ASSUME NEW t \in Task, TaskMove(t) \/ TaskExit(t) PROVE IInv'
  BY <1>4, TaskGoesOn, TaskLeaves, Zenon
<1> QED
  BY <1>1, <1>2, <1>3, <1>4, Zenon DEF Next

\* The invariant holds in every state.
LEMMA Invariance == Spec => []IInv
  BY InitEstablishes, StepPreserves, PTL DEF Spec

\* Transitions of a partition are type correct for any number of callers, epochs and
\* requests (partition.go:92-151).
THEOREM TypeCorrect == Spec => []TypeOK
<1>1. IInv => TypeOK
  BY DEF IInv
<1> QED
  BY <1>1, Invariance, PTL

\* Until a transition overtakes one that waits, at most one goroutine lives, it is that
\* of the role, bgCancel can stop it and the wait group is not misused, however many
\* calls are under way at once (partition.go:92-151).
THEOREM OneTaskOfTheRoleAlways == Spec => []OneTaskOfTheRole
<1>1. IInv => OneTaskOfTheRole
  BY DEF IInv, Orderly, LiveIsCurrent, OneTaskOfTheRole
<1> QED
  BY <1>1, Invariance, PTL

\* Whatever calls overlap, only one that was overtaken while it waited with the mutex
\* given up lowers the epoch (partition.go:113-121, 136-144).
THEOREM EpochLoweredOnlyByOvertakenAlways == Spec => EpochLoweredOnlyByOvertaken
<1> DEFINE P == leaderEpoch' < leaderEpoch => \E c \in Caller : call[c].pc = "install" /\ call[c].late
<1>1. ASSUME IInv, [Next]_vars PROVE P
  <2>1. leaderEpoch \in Int
    BY <1>1 DEF IInv, TypeOK, Epoch
  <2>2. ASSUME leaderEpoch' = leaderEpoch PROVE P
    BY <2>1, <2>2
  <2>3. ASSUME NEW c \in Caller, Install(c) PROVE P
    <3>1. call[c].pc = "install" /\ call[c].op # "Close" /\ leaderEpoch' = call[c].epoch
      BY <2>3 DEF Install
    <3>2. call[c].late \/ call[c].epoch >= leaderEpoch
      BY <1>1, <3>1 DEF IInv, EpochChecked, Compared
    <3>3. call[c].epoch \in Int
      BY <1>1 DEF IInv, TypeOK, CallState, Epoch
    <3> QED
      BY <2>1, <3>1, <3>2, <3>3
  <2>4. ASSUME NEW t \in Task, TaskMove(t) PROVE leaderEpoch' = leaderEpoch
    BY <2>4, Zenon DEF TaskMove, TaskTick, TaskLocked, TaskPeer, TaskRecv, TaskApply, TaskBroken,
       TaskReport, TaskAnswered, Goto
  <2>5. ASSUME NEW c \in Caller, CallStep(c), ~Install(c) PROVE leaderEpoch' = leaderEpoch
    BY <2>5, Zenon DEF CallStep, CallLock, CallIgnored, stopBackground, NothingToStop, bgWait,
       bgWaitReturns, Relock, Closed
  <2> HIDE DEF P
  <2> QED
    BY <1>1, <2>2, <2>3, <2>4, <2>5, Zenon DEF Next, vars, AssignRole, BrokerClose, TaskExit
<1>2. IInv /\ [Next]_vars => [P]_vars
  BY <1>1
<1> QED
  BY <1>2, Invariance, PTL DEF Spec, EpochLoweredOnlyByOvertaken
=============================================================================
