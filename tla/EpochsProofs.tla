---------------------------- MODULE EpochsProofs ----------------------------
(***************************************************************************)
(* Proofs about Epochs for any brokers and any bounds.                     *)
(***************************************************************************)
EXTENDS Epochs, WellFoundedInduction, TLAPS

-----------------------------------------------------------------------------
(* Facts about naturals and logs.                                          *)

\* A non-empty set of naturals has a least element.
LEMMA LeastNat ==
  ASSUME NEW T \in SUBSET Nat, T # {}
  PROVE  \E x \in T : \A y \in T : x <= y
<1> DEFINE R == OpToRel(<, Nat)
<1>1. IsWellFoundedOn(R, Nat)
  BY NatLessThanWellFounded, Zenon
<1>2. PICK x \in T : \A y \in T : ~ (<<y, x>> \in R)
  <2> HIDE DEF R
  <2> QED BY <1>1, WFMin, Zenon
<1>3. \A y \in T : ~(y < x)
  BY <1>2, Zenon DEF OpToRel
<1> QED BY <1>3

\* The first record in flight and those behind it.
LEMMA NonEmptySeq ==
  ASSUME NEW S, NEW s \in Seq(S), s # << >>
  PROVE  /\ Len(s) \in Nat /\ Len(s) >= 1
         /\ Head(s) = s[1] /\ Head(s) \in S
         /\ Tail(s) \in Seq(S)
         /\ Len(Tail(s)) = Len(s) - 1
         /\ \A i \in 1 .. Len(s) - 1 : Tail(s)[i] = s[i + 1]
<1>1. Len(s) \in Nat /\ Len(s) >= 1 /\ Head(s) = s[1]
  OBVIOUS
<1>2. /\ Head(s) \in S /\ Tail(s) \in Seq(S) /\ Len(Tail(s)) = Len(s) - 1
      /\ \A i \in 1 .. Len(Tail(s)) : Tail(s)[i] = s[i + 1]
  OBVIOUS
<1> QED BY <1>1, <1>2

-----------------------------------------------------------------------------
(* The inductive invariant.                                                *)

\* No replica, call or report is of an epoch that the FSM has not reached.
EpochInv ==
  /\ \A b \in Broker : part[b].epoch <= fsm.epoch
  /\ \A m \in calls : m.epoch <= fsm.epoch
  /\ \A r \in reports : r.epoch <= fsm.epoch

\* The offset of the message that f will receive next.
Expected(s) == IF s.chan = << >> THEN s.offset ELSE s.chan[1].msg.offset

\* Only a running follower has a stream, and what it has beyond the offset of the
\* next message are strays.
StreamInv ==
  \A f \in Broker :
    /\ part[f].role = "Follower" => part[f].leader \in Broker
    /\ stream[f].from = NoBroker => stream[f].chan = << >>
    /\ stream[f].chan # << >> => stream[f].offset = stream[f].chan[1].msg.offset + 1
    /\ stream[f].from # NoBroker =>
         /\ up[f] /\ part[f].role = "Follower"
         /\ \A i \in 1 .. Len(log[f]) : i > Expected(stream[f]) => log[f][i].val \in strays

IInv ==
  /\ TypeOK
  /\ EpochInv
  /\ StreamInv

\* What a step does to the logs: a message goes only if it is a stray.
LogKept ==
  \A b \in Broker : \A i \in 1 .. Len(log[b]) :
    (i <= Len(log'[b]) /\ log'[b][i] = log[b][i]) \/ log[b][i].val \in strays

\* ... and to the watermarks: one goes back only to the end of the log.
WatermarkKept ==
  \A b \in Broker : part'[b].hw >= part[b].hw \/ part'[b].hw >= Len(log'[b])

Step == IInv' /\ LogKept /\ WatermarkKept

-----------------------------------------------------------------------------
(* Facts shared by the actions.                                            *)

\* The fields of a partition.
LEMMA PartFields ==
  ASSUME TypeOK, NEW b \in Broker
  PROVE  /\ part[b] \in Partition
         /\ part[b].role \in {"Leader", "Follower"} /\ part[b].epoch \in 0 .. MaxEpoch
         /\ part[b].leader \in Broker \cup {NoBroker} /\ part[b].hw \in Nat
         /\ part[b].replicas \in [Broker -> ReplicaState]
         /\ log[b] \in Seq(Message) /\ Len(log[b]) \in Nat
         /\ fsm.epoch \in 1 .. MaxEpoch /\ fsm.primary \in Broker
         /\ MaxEpoch \in Nat /\ MaxMsgs \in Nat
BY EpochsAssumption DEF TypeOK, Partition

\* The epoch of the FSM.
LEMMA FsmFields ==
  ASSUME TypeOK
  PROVE  /\ fsm.epoch \in 1 .. MaxEpoch /\ fsm.epoch \in Nat /\ fsm.epoch >= 1
         /\ fsm.primary \in Broker
BY EpochsAssumption DEF TypeOK

\* The messages of a log.
LEMMA LogFields ==
  ASSUME TypeOK, NEW b \in Broker, NEW i \in 1 .. Len(log[b])
  PROVE  log[b][i] \in Message /\ log[b][i].offset = i - 1 /\ log[b][i].offset \in Nat
<1>1. log[b] \in Seq(Message)
  BY DEF TypeOK
<1>2. log[b][i] \in Message
  BY <1>1
<1>3. i \in DOMAIN log[b]
  BY <1>1
<1>4. log[b][i].offset = i - 1
  BY <1>3 DEF TypeOK
<1> QED BY <1>2, <1>4 DEF Message

\* The fields of a stream.
LEMMA StreamFields ==
  ASSUME TypeOK, NEW f \in Broker
  PROVE  /\ stream[f] \in Stream
         /\ stream[f].from \in Broker \cup {NoBroker} /\ stream[f].offset \in Nat
         /\ stream[f].chan \in Seq([msg : Message, hw : Nat])
         /\ NoBroker \notin Broker
BY EpochsAssumption, Zenon DEF TypeOK, Stream

\* A broker's log is indexed from one to its length.
LEMMA LogDomain ==
  ASSUME TypeOK, NEW c \in Broker
  PROVE  DOMAIN log[c] = 1 .. Len(log[c])
<1>1. log[c] \in Seq(Message)
  BY Zenon DEF TypeOK
<1> QED BY <1>1

\* The messages are counted by a natural.
LEMMA MsgsFields ==
  ASSUME TypeOK
  PROVE  msgs \in Nat /\ msgs <= MaxMsgs
<1>1. msgs \in 0 .. MaxMsgs
  BY Zenon DEF TypeOK
<1> QED BY <1>1, EpochsAssumption

\* The minimum exists, so the watermark is a natural, and never less than it was.
LEMMA AdvancedHWIs ==
  ASSUME TypeOK, NEW b \in Broker, NEW r \in [Broker -> ReplicaState]
  PROVE  AdvancedHW(b, r) \in Nat /\ AdvancedHW(b, r) >= part[b].hw
<1> DEFINE ends == {LogEndOffset(log[b])} \cup {r[c].leo : c \in currentISRIDs(r)}
           low  == CHOOSE e \in ends : \A d \in ends : e <= d
<1>1. ends \in SUBSET Nat /\ ends # {}
  BY PartFields DEF LogEndOffset, currentISRIDs, ReplicaState
<1>2. low \in ends
  <2> HIDE DEF ends
  <2>1. \E e \in ends : \A d \in ends : e <= d
    BY <1>1, LeastNat
  <2> QED BY <2>1
<1>3. low \in Nat
  <2> HIDE DEF low, ends
  <2> QED BY <1>1, <1>2
<1>4. AdvancedHW(b, r) = IF low > part[b].hw THEN low ELSE part[b].hw
  BY DEF AdvancedHW
<1> HIDE DEF low, ends
<1> QED BY <1>3, <1>4, PartFields

\* A change of the replicas of b, and with them of its watermark.
LEMMA ReplicasStep ==
  ASSUME TypeOK, NEW b \in Broker, NEW r \in [Broker -> ReplicaState],
         part' = [part EXCEPT ![b].replicas = r, ![b].hw = AdvancedHW(b, r)]
  PROVE  /\ part' \in [Broker -> Partition]
         /\ \A c \in Broker : /\ part'[c].role = part[c].role
                              /\ part'[c].epoch = part[c].epoch
                              /\ part'[c].leader = part[c].leader
                              /\ part'[c].hw >= part[c].hw
<1> DEFINE h == AdvancedHW(b, r)
<1>1. h \in Nat /\ h >= part[b].hw
  BY AdvancedHWIs
<1>2. part' = [part EXCEPT ![b].replicas = r, ![b].hw = h]
  OBVIOUS
<1> HIDE DEF h
<1>3. part \in [Broker -> Partition]
  BY DEF TypeOK
<1>4. part'[b] = [part[b] EXCEPT !.replicas = r, !.hw = h]
  BY <1>2, <1>3, Zenon
<1>5. \A c \in Broker : c # b => part'[c] = part[c]
  BY <1>2, <1>3
<1>6. part[b] \in Partition
  BY <1>3
<1>7. /\ part'[b] \in Partition
      /\ part'[b].role = part[b].role /\ part'[b].epoch = part[b].epoch
      /\ part'[b].leader = part[b].leader /\ part'[b].hw = h
  <2> DEFINE p == part[b]
             q == part'[b]
  <2>1. p \in Partition /\ q = [p EXCEPT !.replicas = r, !.hw = h]
    BY <1>4, <1>6
  <2> HIDE DEF p, q
  <2>2. q \in Partition /\ q.role = p.role /\ q.epoch = p.epoch /\ q.leader = p.leader /\ q.hw = h
    BY ONLY <1>1, <2>1, r \in [Broker -> ReplicaState], Zenon DEF Partition
  <2> QED BY <2>2 DEF p, q
<1>8. part' \in [Broker -> Partition]
  BY <1>2, <1>3, <1>5, <1>7
<1>9. \A c \in Broker : part[c].hw \in Nat
  BY PartFields
<1> QED BY <1>1, <1>5, <1>7, <1>8, <1>9

\* A new watermark for b.
LEMMA WatermarkStep ==
  ASSUME TypeOK, NEW b \in Broker, NEW h \in Nat, part' = [part EXCEPT ![b].hw = h]
  PROVE  /\ part' \in [Broker -> Partition]
         /\ \A c \in Broker : /\ part'[c].role = part[c].role
                              /\ part'[c].epoch = part[c].epoch
                              /\ part'[c].leader = part[c].leader
                              /\ part'[c].hw = IF c = b THEN h ELSE part[c].hw
<1>1. part \in [Broker -> Partition]
  BY DEF TypeOK
<1>2. \A c \in Broker : c # b => part'[c] = part[c]
  BY <1>1
<1>3. /\ part'[b] \in Partition
      /\ part'[b].role = part[b].role /\ part'[b].epoch = part[b].epoch
      /\ part'[b].leader = part[b].leader /\ part'[b].hw = h
  <2> DEFINE p == part[b]
             q == part'[b]
  <2>1. p \in Partition /\ q = [p EXCEPT !.hw = h]
    BY <1>1
  <2> HIDE DEF p, q
  <2>2. q \in Partition /\ q.role = p.role /\ q.epoch = p.epoch /\ q.leader = p.leader /\ q.hw = h
    BY ONLY <2>1, h \in Nat DEF Partition
  <2> QED BY <2>2 DEF p, q
<1>4. part' \in [Broker -> Partition]
  BY <1>1, <1>2, <1>3
<1> QED BY <1>2, <1>3, <1>4

\* A report has the epoch of its leader.
LEMMA ReportStep ==
  ASSUME TypeOK, EpochInv, NEW b \in Broker, NEW r \in [Broker -> ReplicaState],
         reportISRChange(b, r)
  PROVE  /\ reports' \in SUBSET Report /\ reported' \in Nat
         /\ \A x \in reports' : x.epoch <= fsm.epoch
<1> DEFINE x == [nr |-> reported + 1, epoch |-> part[b].epoch,
                 isr |-> currentISRIDs(r), checked |-> FALSE]
<1>1. currentISRIDs(r) \in SUBSET Broker /\ reported \in Nat
  BY DEF currentISRIDs, TypeOK
<1>2. x \in Report /\ x.epoch <= fsm.epoch
  BY <1>1, PartFields DEF Report, EpochInv
<1>3. reports' = reports \cup {x} /\ reported' = reported + 1
  BY DEF reportISRChange
<1> HIDE DEF x
<1> QED BY <1>1, <1>2, <1>3 DEF TypeOK, EpochInv

\* What updateReplicaState leaves alone.
LEMMA UpdateStep ==
  ASSUME TypeOK, EpochInv, NEW b \in Broker, NEW f \in Broker, NEW o \in Nat,
         updateReplicaState(b, f, o)
  PROVE  /\ part' \in [Broker -> Partition]
         /\ \A c \in Broker : /\ part'[c].role = part[c].role
                              /\ part'[c].epoch = part[c].epoch
                              /\ part'[c].leader = part[c].leader
                              /\ part'[c].hw >= part[c].hw
         /\ reports' \in SUBSET Report /\ reported' \in Nat
         /\ \A x \in reports' : x.epoch <= fsm.epoch
<1> DEFINE old  == part[b].replicas[f]
           back == old.in = "out" /\ o >= LogEndOffset(log[b])
           r    == [part[b].replicas EXCEPT ![f] =
                     [in |-> IF back \/ old.in = "absent" THEN "inSync" ELSE old.in,
                      leo |-> o]]
<1>1. CASE part[b].role # "Leader"
  <2>1. UNCHANGED <<part, reports, reported>>
    BY <1>1 DEF updateReplicaState
  <2>2. \A c \in Broker : part[c].hw \in Nat
    BY PartFields
  <2> QED BY <2>1, <2>2 DEF TypeOK, EpochInv
<1>2. CASE part[b].role = "Leader"
  <2>1. /\ part' = [part EXCEPT ![b].replicas = r, ![b].hw = AdvancedHW(b, r)]
        /\ IF back THEN reportISRChange(b, r) ELSE UNCHANGED <<reports, reported>>
    BY <1>2 DEF updateReplicaState
  <2>2. r \in [Broker -> ReplicaState]
    <3>1. part[b].replicas \in [Broker -> ReplicaState] /\ old.in \in {"absent", "inSync", "out"}
      BY PartFields DEF ReplicaState
    <3> HIDE DEF old, back
    <3>2. [in |-> IF back \/ old.in = "absent" THEN "inSync" ELSE old.in, leo |-> o] \in ReplicaState
      BY <3>1 DEF ReplicaState
    <3> QED BY <3>1, <3>2
  <2> HIDE DEF r, back
  <2>3. CASE back
    <3>1. reportISRChange(b, r)
      BY <2>1, <2>3
    <3> QED BY <2>1, <2>2, <3>1, ReplicasStep, ReportStep, Zenon
  <2>4. CASE ~back
    <3>1. UNCHANGED <<reports, reported>>
      BY <2>1, <2>4
    <3>2. /\ reports \in SUBSET Report /\ reported \in Nat
          /\ \A x \in reports : x.epoch <= fsm.epoch
      BY DEF TypeOK, EpochInv
    <3> QED BY <2>1, <2>2, <3>1, <3>2, ReplicasStep, Zenon
  <2> QED BY <2>3, <2>4
<1> QED BY <1>1, <1>2

\* Two states with the same logs.
LEMMA SameLog ==
  ASSUME TypeOK, log' = log
  PROVE  LogKept /\ (\A b \in Broker : \A i \in 1 .. Len(log'[b]) : log'[b][i].offset = i - 1)
<1>1. \A b \in Broker : Len(log[b]) \in Nat
  BY PartFields
<1>2. \A b \in Broker : \A i \in 1 .. Len(log[b]) : log[b][i].offset = i - 1
  BY DEF TypeOK
<1> QED BY <1>1, <1>2 DEF LogKept

\* Watermarks that do not go back.
LEMMA SameOrHigher ==
  ASSUME \A c \in Broker : part'[c].hw >= part[c].hw
  PROVE  WatermarkKept
BY DEF WatermarkKept

\* The same partitions.
LEMMA SamePart ==
  ASSUME TypeOK, part' = part
  PROVE  WatermarkKept
<1>1. \A b \in Broker : part[b].hw \in Nat
  BY PartFields
<1> QED BY <1>1 DEF WatermarkKept

\* A step that leaves the streams, the logs and the roles as they are.
LEMMA StreamsStay ==
  ASSUME IInv, UNCHANGED <<stream, log, strays, up>>,
         \A c \in Broker : part'[c].role = part[c].role /\ part'[c].leader = part[c].leader
  PROVE  StreamInv'
BY DEF IInv, StreamInv, Expected

-----------------------------------------------------------------------------
(* One lemma for each action.                                              *)

LEMMA EvictStep ==
  ASSUME IInv, NEW b \in Broker, NEW f \in Broker, Evict(b, f)
  PROVE  Step
<1> DEFINE r == [part[b].replicas EXCEPT ![f].in = "out"]
<1>1. TypeOK /\ EpochInv
  BY DEF IInv
<1>2. r \in [Broker -> ReplicaState]
  BY <1>1, PartFields, Zenon DEF ReplicaState
<1>3. /\ part' = [part EXCEPT ![b].replicas = r, ![b].hw = AdvancedHW(b, r)]
      /\ reportISRChange(b, r)
  BY DEF Evict
<1>4. UNCHANGED <<fsm, dead, calls, up, log, produce, stream, history, msgs, outages>>
      /\ faults < MaxFaults /\ faults' = faults + 1
  BY DEF Evict
<1> HIDE DEF r
<1>5. /\ part' \in [Broker -> Partition]
      /\ \A c \in Broker : /\ part'[c].role = part[c].role
                           /\ part'[c].epoch = part[c].epoch
                           /\ part'[c].leader = part[c].leader
                           /\ part'[c].hw >= part[c].hw
  BY <1>1, <1>2, <1>3, ReplicasStep, Zenon
<1>6. /\ reports' \in SUBSET Report /\ reported' \in Nat
      /\ \A x \in reports' : x.epoch <= fsm.epoch
  BY <1>1, <1>2, <1>3, ReportStep
<1>7. TypeOK'
  BY <1>1, <1>4, <1>5, <1>6, EpochsAssumption DEF TypeOK, history
<1>8. EpochInv'
  BY <1>1, <1>4, <1>5, <1>6 DEF EpochInv
<1>9. StreamInv'
  BY <1>4, <1>5, StreamsStay DEF history
<1>10. LogKept /\ WatermarkKept
  BY <1>1, <1>4, <1>5, SameLog, SameOrHigher
<1> QED BY <1>7, <1>8, <1>9, <1>10 DEF Step, IInv

LEMMA ProduceCheckStep ==
  ASSUME IInv, NEW b \in Broker, ProduceCheck(b)
  PROVE  Step
<1>1. TypeOK /\ EpochInv
  BY DEF IInv
<1>2. /\ produce' = [produce EXCEPT ![b] = "append"]
      /\ UNCHANGED <<coordVars, up, part, log, stream, history, bounds>>
  BY DEF ProduceCheck
<1>3. TypeOK'
  BY <1>1, <1>2 DEF TypeOK, coordVars, history, bounds
<1>4. EpochInv'
  BY <1>1, <1>2 DEF EpochInv, coordVars
<1>5. StreamInv'
  BY <1>2, StreamsStay DEF history
<1>6. LogKept /\ WatermarkKept
  BY <1>1, <1>2, SameLog, SamePart
<1> QED BY <1>3, <1>4, <1>5, <1>6 DEF Step, IInv

\* A follower that appends the message of a producer appends a stray.
LEMMA ProduceAppendStep ==
  ASSUME IInv, NEW b \in Broker, ProduceAppend(b)
  PROVE  Step
<1> DEFINE m == [offset |-> Len(log[b]), val |-> msgs']
<1>1. TypeOK /\ EpochInv /\ StreamInv
  BY DEF IInv
<1>2. /\ msgs < MaxMsgs /\ msgs' = msgs + 1
      /\ log' = [log EXCEPT ![b] = Append(@, m)]
      /\ strays' = IF part[b].role = "Leader" THEN strays ELSE strays \cup {msgs'}
      /\ left' = IF b = fsm.primary THEN left ELSE left \cup {msgs'}
      /\ produce' = [produce EXCEPT ![b] = "visible"]
      /\ UNCHANGED <<coordVars, up, part, stream, named, outages, faults>>
  BY DEF ProduceAppend, AppendTo
<1>3. msgs' \in 1 .. MaxMsgs /\ msgs' \in 0 .. MaxMsgs /\ log \in [Broker -> Seq(Message)]
  BY <1>1, <1>2, EpochsAssumption DEF TypeOK
<1>4. m \in Message /\ m.val = msgs' /\ m.offset = Len(log[b])
  BY <1>1, <1>3, PartFields DEF Message
<1> HIDE DEF m
<1>5. /\ log'[b] \in Seq(Message) /\ Len(log'[b]) = Len(log[b]) + 1
      /\ log'[b][Len(log[b]) + 1] = m
      /\ \A i \in 1 .. Len(log[b]) : log'[b][i] = log[b][i]
  BY <1>1, <1>2, <1>3, <1>4, PartFields
<1>6. \A c \in Broker : c # b => log'[c] = log[c]
  BY <1>2, <1>3
<1>7. log' \in [Broker -> Seq(Message)]
  BY <1>2, <1>3, <1>5, <1>6
<1>8. \A c \in Broker : \A i \in DOMAIN log'[c] : log'[c][i].offset = i - 1
  <2>1. \A i \in 1 .. Len(log[b]) : log[b][i].offset = i - 1
    BY <1>1 DEF TypeOK
  <2>2. \A i \in 1 .. Len(log'[b]) : log'[b][i].offset = i - 1
    <3> SUFFICES ASSUME NEW i \in 1 .. Len(log'[b]) PROVE log'[b][i].offset = i - 1
      OBVIOUS
    <3>1. Len(log[b]) \in Nat
      BY <1>1, PartFields
    <3>2. i = Len(log[b]) + 1 \/ i \in 1 .. Len(log[b])
      BY <1>5, <3>1
    <3>3. i = Len(log[b]) + 1 => log'[b][i].offset = i - 1
      BY <1>4, <1>5, <3>1
    <3> QED BY <1>5, <2>1, <3>2, <3>3
  <2>3. DOMAIN log'[b] = 1 .. Len(log'[b])
    BY <1>5
  <2> QED BY <1>1, <1>6, <2>2, <2>3, Zenon DEF TypeOK
<1>9. TypeOK'
  BY <1>1, <1>2, <1>3, <1>7, <1>8 DEF TypeOK, coordVars
<1>10. EpochInv'
  BY <1>1, <1>2 DEF EpochInv, coordVars
<1>11. StreamInv'
  <2>1. \A f \in Broker : stream[f].from # NoBroker =>
          \A i \in 1 .. Len(log'[f]) : i > Expected(stream[f]) => log'[f][i].val \in strays'
    <3> SUFFICES ASSUME NEW f \in Broker, stream[f].from # NoBroker,
                        NEW i \in 1 .. Len(log'[f]), i > Expected(stream[f])
                 PROVE  log'[f][i].val \in strays'
      OBVIOUS
    <3>1. CASE f = b /\ i = Len(log[b]) + 1
      <4>1. part[b].role = "Follower"
        BY <1>1, <3>1 DEF StreamInv
      <4> QED BY <1>2, <1>4, <1>5, <3>1, <4>1
    <3>2. CASE f # b \/ i # Len(log[b]) + 1
      <4>1. i \in 1 .. Len(log[f]) /\ log'[f][i] = log[f][i]
        BY <1>1, <1>5, <1>6, <3>2, PartFields
      <4>2. log[f][i].val \in strays
        BY <1>1, <4>1 DEF StreamInv
      <4> QED BY <1>2, <4>1, <4>2
    <3> QED BY <3>1, <3>2
  <2>2. UNCHANGED <<stream, part, up>>
    BY <1>2
  <2> QED BY <1>1, <2>1, <2>2 DEF StreamInv, Expected
<1>12. LogKept
  BY <1>1, <1>5, <1>6, PartFields DEF LogKept
<1>13. WatermarkKept
  BY <1>1, <1>2, SamePart
<1> QED BY <1>9, <1>10, <1>11, <1>12, <1>13 DEF Step, IInv

LEMMA ProduceVisibleStep ==
  ASSUME IInv, NEW b \in Broker, ProduceVisible(b)
  PROVE  Step
<1> DEFINE h == IF part[b].replicas = NoReplicas THEN Len(log[b]) ELSE part[b].hw
<1>1. TypeOK /\ EpochInv
  BY DEF IInv
<1>2. /\ part' = [part EXCEPT ![b].hw = h]
      /\ produce' = [produce EXCEPT ![b] = "idle"]
      /\ UNCHANGED <<coordVars, up, log, stream, history, bounds>>
  BY <1>1 DEF ProduceVisible, LogEndOffset, TypeOK
<1>3. h \in Nat /\ (h = part[b].hw \/ h = Len(log[b]))
  BY <1>1, PartFields
<1> HIDE DEF h
<1>4. /\ part' \in [Broker -> Partition]
      /\ \A c \in Broker : /\ part'[c].role = part[c].role
                           /\ part'[c].epoch = part[c].epoch
                           /\ part'[c].leader = part[c].leader
                           /\ part'[c].hw = IF c = b THEN h ELSE part[c].hw
  BY <1>1, <1>2, <1>3, WatermarkStep, Zenon
<1>5. TypeOK'
  BY <1>1, <1>2, <1>4 DEF TypeOK, coordVars, history, bounds
<1>6. EpochInv'
  BY <1>1, <1>2, <1>4 DEF EpochInv, coordVars
<1>7. StreamInv'
  BY <1>2, <1>4, StreamsStay DEF history
<1>8. LogKept
  BY <1>1, <1>2, SameLog
<1>9. WatermarkKept
  <2>1. \A c \in Broker : part[c].hw \in Nat /\ Len(log[c]) \in Nat
    BY <1>1, PartFields
  <2> QED BY <1>2, <1>3, <1>4, <2>1 DEF WatermarkKept
<1> QED BY <1>5, <1>6, <1>7, <1>8, <1>9 DEF Step, IInv

\* A step that changes the stream of f only.
LEMMA OneStream ==
  ASSUME IInv, NEW f \in Broker, UNCHANGED <<log, strays, up>>,
         \A c \in Broker : part'[c].role = part[c].role /\ part'[c].leader = part[c].leader,
         \A c \in Broker : c # f => stream'[c] = stream[c],
         stream'[f].from = NoBroker => stream'[f].chan = << >>,
         stream'[f].chan # << >> => stream'[f].offset = stream'[f].chan[1].msg.offset + 1,
         stream'[f].from # NoBroker =>
           /\ up[f] /\ part[f].role = "Follower"
           /\ \A i \in 1 .. Len(log[f]) : i > Expected(stream'[f]) => log[f][i].val \in strays
  PROVE  StreamInv'
<1>1. StreamInv
  BY DEF IInv
<1>2. \A c \in Broker : c # f =>
        /\ part'[c].role = "Follower" => part'[c].leader \in Broker
        /\ stream'[c].from = NoBroker => stream'[c].chan = << >>
        /\ stream'[c].chan # << >> => stream'[c].offset = stream'[c].chan[1].msg.offset + 1
        /\ stream'[c].from # NoBroker =>
             /\ up'[c] /\ part'[c].role = "Follower"
             /\ \A i \in 1 .. Len(log'[c]) : i > Expected(stream'[c]) => log'[c][i].val \in strays'
  BY <1>1 DEF StreamInv
<1>3. /\ part'[f].role = "Follower" => part'[f].leader \in Broker
      /\ stream'[f].from # NoBroker =>
           /\ up'[f] /\ part'[f].role = "Follower"
           /\ \A i \in 1 .. Len(log'[f]) : i > Expected(stream'[f]) => log'[f][i].val \in strays'
  BY <1>1 DEF StreamInv
<1> QED BY <1>2, <1>3 DEF StreamInv, Expected

\* No stream.
LEMMA NoStreamIs ==
  NoStream \in Stream /\ NoStream.from = NoBroker /\ NoStream.chan = << >>
BY DEF NoStream, Stream

\* The stream of f ends, and nothing else happens.
LEMMA StreamGoneStep ==
  ASSUME IInv, NEW f \in Broker, stream' = [stream EXCEPT ![f] = NoStream],
         UNCHANGED <<coordVars, up, part, log, produce, history, msgs, outages>>,
         faults' = faults \/ faults' \in 0 .. MaxFaults
  PROVE  Step
<1>1. TypeOK /\ EpochInv
  BY DEF IInv
<1>2. /\ stream' \in [Broker -> Stream] /\ stream'[f] = NoStream
      /\ \A c \in Broker : c # f => stream'[c] = stream[c]
  BY <1>1, NoStreamIs DEF TypeOK
<1>3. TypeOK'
  BY <1>1, <1>2 DEF TypeOK, coordVars, history
<1>4. EpochInv'
  BY <1>1 DEF EpochInv, coordVars
<1>5. StreamInv'
  <2>1. UNCHANGED <<log, strays, up, part>>
    BY DEF history
  <2> QED BY <1>2, <2>1, NoStreamIs, OneStream
<1>6. LogKept /\ WatermarkKept
  BY <1>1, SameLog, SamePart
<1> QED BY <1>3, <1>4, <1>5, <1>6 DEF Step, IInv

\* A stream starts at the end of the log of the follower.
LEMMA ConnectStep ==
  ASSUME IInv, NEW f \in Broker, Connect(f)
  PROVE  Step
<1> DEFINE b == part[f].leader
           o == LogEndOffset(log[f])
           s == [from |-> b, offset |-> o, chan |-> << >>]
<1>1. TypeOK /\ EpochInv /\ StreamInv
  BY DEF IInv
<1>2. /\ up[f] /\ part[f].role = "Follower" /\ updateReplicaState(b, f, o)
      /\ stream' = (IF ReadInRange(log[b], o) THEN [stream EXCEPT ![f] = s] ELSE stream)
      /\ UNCHANGED <<fsm, dead, calls, up, log, produce, history, bounds>>
  BY DEF Connect
<1>3. b \in Broker /\ o \in Nat /\ o = Len(log[f])
  BY <1>1, <1>2, PartFields DEF StreamInv, LogEndOffset
<1>4. s \in Stream /\ s.from = b /\ s.offset = o /\ s.chan = << >>
  BY <1>3 DEF Stream
<1> HIDE DEF b, o, s
<1>5. /\ part' \in [Broker -> Partition]
      /\ \A c \in Broker : /\ part'[c].role = part[c].role
                           /\ part'[c].epoch = part[c].epoch
                           /\ part'[c].leader = part[c].leader
                           /\ part'[c].hw >= part[c].hw
      /\ reports' \in SUBSET Report /\ reported' \in Nat
      /\ \A x \in reports' : x.epoch <= fsm.epoch
  BY <1>1, <1>2, <1>3, UpdateStep
<1>6. stream' \in [Broker -> Stream]
  BY <1>1, <1>2, <1>4 DEF TypeOK
<1>7. TypeOK'
  BY <1>1, <1>2, <1>5, <1>6 DEF TypeOK, history, bounds
<1>8. EpochInv'
  BY <1>1, <1>2, <1>5 DEF EpochInv
<1>9. StreamInv'
  <2>1. CASE stream' = stream
    BY <1>2, <1>5, <2>1, StreamsStay DEF history
  <2>2. CASE stream' = [stream EXCEPT ![f] = s]
    <3>1. stream'[f] = s /\ \A c \in Broker : c # f => stream'[c] = stream[c]
      BY <1>1, <2>2 DEF TypeOK
    <3>2. Expected(s) = Len(log[f])
      BY <1>3, <1>4 DEF Expected
    <3>3. \A i \in 1 .. Len(log[f]) : ~(i > Len(log[f]))
      BY <1>3
    <3>4. UNCHANGED <<log, strays, up>>
      BY <1>2 DEF history
    <3> QED BY <1>2, <1>4, <1>5, <3>1, <3>2, <3>3, <3>4, OneStream
  <2> QED BY <1>2, <2>1, <2>2
<1>10. LogKept /\ WatermarkKept
  BY <1>1, <1>2, <1>5, SameLog, SameOrHigher
<1> QED BY <1>7, <1>8, <1>9, <1>10 DEF Step, IInv

\* The message sent is the one at the offset of the handler.
LEMMA SendStep ==
  ASSUME IInv, NEW f \in Broker, Send(f)
  PROVE  Step
<1> DEFINE s == stream[f]
           b == s.from
           rec == [msg |-> log[b][s.offset + 1], hw |-> part[b].hw]
           n == s.offset + 1
<1>1. TypeOK /\ EpochInv /\ StreamInv
  BY DEF IInv
<1>2. /\ b # NoBroker /\ s.chan = << >> /\ s.offset < Len(log[b])
      /\ stream' = [stream EXCEPT ![f].offset = n, ![f].chan = <<rec>>]
      /\ updateReplicaState(b, f, n)
      /\ UNCHANGED <<fsm, dead, calls, up, log, produce, history, bounds>>
  BY DEF Send, LogEndOffset
<1>3. s \in Stream /\ b \in Broker /\ s.offset \in Nat /\ n \in Nat
  BY <1>1, <1>2, StreamFields
<1>4. rec \in [msg : Message, hw : Nat] /\ rec.msg.offset = s.offset
  <2>1. s.offset + 1 \in 1 .. Len(log[b]) /\ log[b] \in Seq(Message) /\ part[b].hw \in Nat
    BY <1>1, <1>2, <1>3, PartFields
  <2>2. log[b][s.offset + 1] \in Message /\ log[b][s.offset + 1].offset = s.offset + 1 - 1
    BY <1>1, <1>3, <2>1, LogFields
  <2> QED BY <1>3, <2>1, <2>2
<1>5. /\ part' \in [Broker -> Partition]
      /\ \A c \in Broker : /\ part'[c].role = part[c].role
                           /\ part'[c].epoch = part[c].epoch
                           /\ part'[c].leader = part[c].leader
                           /\ part'[c].hw >= part[c].hw
      /\ reports' \in SUBSET Report /\ reported' \in Nat
      /\ \A x \in reports' : x.epoch <= fsm.epoch
  BY <1>1, <1>2, <1>3, UpdateStep
<1> HIDE DEF rec, n
<1>6. /\ \A c \in Broker : c # f => stream'[c] = stream[c]
      /\ stream'[f] = [s EXCEPT !.offset = n, !.chan = <<rec>>]
      /\ stream \in [Broker -> Stream]
  BY <1>1, <1>2 DEF TypeOK
<1>7. /\ stream'[f] \in Stream /\ stream'[f].from = b /\ stream'[f].offset = n
      /\ stream'[f].chan = <<rec>>
  <2> DEFINE t == stream'[f]
  <2>1. t = [s EXCEPT !.offset = n, !.chan = <<rec>>]
    BY <1>6
  <2>2. <<rec>> \in Seq([msg : Message, hw : Nat])
    BY <1>4
  <2> HIDE DEF s, t
  <2>3. t \in Stream /\ t.from = s.from /\ t.offset = n /\ t.chan = <<rec>>
    BY ONLY <1>3, <2>1, <2>2, Zenon DEF Stream
  <2> QED BY <2>3 DEF s, t
<1>8. stream' \in [Broker -> Stream]
  BY <1>2, <1>6, <1>7
<1>9. TypeOK'
  BY <1>1, <1>2, <1>5, <1>8 DEF TypeOK, history, bounds
<1>10. EpochInv'
  BY <1>1, <1>2, <1>5 DEF EpochInv
<1>11. StreamInv'
  <2>1. <<rec>> # << >> /\ <<rec>>[1] = rec
    OBVIOUS
  <2>2. Expected(stream'[f]) = s.offset /\ Expected(s) = s.offset
    BY <1>2, <1>4, <1>7, <2>1, Zenon DEF Expected
  <2>3. /\ up[f] /\ part[f].role = "Follower"
        /\ \A i \in 1 .. Len(log[f]) : i > s.offset => log[f][i].val \in strays
    BY <1>1, <1>2, <2>2 DEF StreamInv
  <2>4. UNCHANGED <<log, strays, up>>
    BY <1>2 DEF history
  <2>5. stream'[f].offset = stream'[f].chan[1].msg.offset + 1
    BY <1>4, <1>7, <2>1 DEF n
  <2>6. stream'[f].from # NoBroker
    BY <1>2, <1>7
  <2>7. \A i \in 1 .. Len(log[f]) : i > Expected(stream'[f]) => log[f][i].val \in strays
    BY <2>2, <2>3
  <2> HIDE DEF s
  <2> QED BY <1>5, <1>6, <2>3, <2>4, <2>5, <2>6, <2>7, OneStream, Zenon
<1>12. LogKept /\ WatermarkKept
  BY <1>1, <1>2, <1>5, SameLog, SameOrHigher
<1> QED BY <1>9, <1>10, <1>11, <1>12 DEF Step, IInv

\* What is left of the log of f before a message is appended.
LEMMA BaseIs ==
  ASSUME TypeOK, NEW f \in Broker, NEW o \in Nat, NEW base,
         base = IF o < LogEndOffset(log[f]) THEN TruncatedTo(log[f], o) ELSE log[f]
  PROVE  /\ base \in Seq(Message) /\ Len(base) <= Len(log[f])
         /\ \A i \in 1 .. Len(base) : base[i] = log[f][i]
<1>1. log[f] \in Seq(Message) /\ Len(log[f]) \in Nat
  BY PartFields
<1>2. CASE o < Len(log[f])
  <2>1. base = SubSeq(log[f], 1, o)
    BY <1>2 DEF LogEndOffset, TruncatedTo
  <2>2. \A i \in 1 .. o : log[f][i] \in Message
    BY <1>1, <1>2
  <2>3. base \in Seq(Message) /\ Len(base) = o /\ \A i \in 1 .. o : base[i] = log[f][i]
    BY <1>1, <1>2, <2>1, <2>2
  <2> QED BY <1>1, <1>2, <2>3
<1>3. CASE ~(o < Len(log[f]))
  <2>1. base = log[f]
    BY <1>3 DEF LogEndOffset
  <2> QED BY <1>1, <2>1
<1> QED BY <1>2, <1>3

\* A message that is appended takes the place of strays.
LEMMA RecvStep ==
  ASSUME IInv, NEW f \in Broker, Recv(f)
  PROVE  Step
<1> DEFINE rec  == Head(stream[f].chan)
           o    == rec.msg.offset
           base == IF o < LogEndOffset(log[f]) THEN TruncatedTo(log[f], o) ELSE log[f]
           h    == IF rec.hw > part[f].hw THEN rec.hw ELSE part[f].hw
<1>1. TypeOK /\ EpochInv /\ StreamInv
  BY DEF IInv
<1>2. /\ stream[f].chan # << >>
      /\ UNCHANGED <<coordVars, up, produce, history, bounds>>
  BY DEF Recv
<1>3. /\ stream[f].chan \in Seq([msg : Message, hw : Nat]) /\ stream[f].from # NoBroker
      /\ rec = stream[f].chan[1] /\ rec \in [msg : Message, hw : Nat]
  <2>1. stream[f].chan \in Seq([msg : Message, hw : Nat])
    BY <1>1, StreamFields, Zenon
  <2>2. stream[f].from # NoBroker
    BY <1>1, <1>2 DEF StreamInv
  <2> QED BY <1>2, <2>1, <2>2, NonEmptySeq, Zenon
<1>4. rec.msg \in Message /\ o \in Nat /\ rec.hw \in Nat
  BY <1>3 DEF Message
<1>5. /\ stream[f].offset = o + 1 /\ up[f] /\ part[f].role = "Follower"
      /\ \A i \in 1 .. Len(log[f]) : i > o => log[f][i].val \in strays
  BY <1>1, <1>2, <1>3 DEF StreamInv, Expected
<1>6. CASE ReplicaFits(base, rec.msg)
  <2>1. /\ log' = [log EXCEPT ![f] = Append(base, rec.msg)]
        /\ part' = [part EXCEPT ![f].hw = h]
        /\ stream' = [stream EXCEPT ![f].chan = << >>]
    BY <1>1, <1>6, Zenon DEF Recv, TypeOK
  <2>2. /\ base \in Seq(Message) /\ Len(base) <= Len(log[f])
        /\ \A i \in 1 .. Len(base) : base[i] = log[f][i]
    BY <1>1, <1>4, BaseIs
  <2>3. Len(base) = o
    BY <1>6 DEF ReplicaFits
  <2>4. h \in Nat /\ h >= part[f].hw
    BY <1>1, <1>4, PartFields
  <2> HIDE DEF base, h
  <2>5. /\ Append(base, rec.msg) \in Seq(Message) /\ Len(Append(base, rec.msg)) = o + 1
        /\ Append(base, rec.msg)[o + 1] = rec.msg
        /\ \A i \in 1 .. o : Append(base, rec.msg)[i] = log[f][i]
    BY <1>4, <2>2, <2>3
  <2> HIDE DEF rec, o
  <2> DEFINE new == Append(base, rec.msg)
  <2> HIDE DEF new
  <2>6. /\ log' \in [Broker -> Seq(Message)] /\ log'[f] = new
        /\ \A c \in Broker : c # f => log'[c] = log[c]
        /\ new \in Seq(Message) /\ Len(new) = o + 1 /\ new[o + 1] = rec.msg
        /\ \A i \in 1 .. o : new[i] = log[f][i]
    BY <1>1, <2>1, <2>5, Zenon DEF TypeOK, new
  <2>7. \A c \in Broker : \A i \in DOMAIN log'[c] : log'[c][i].offset = i - 1
    <3>1. \A i \in 1 .. o : log[f][i].offset = i - 1
      <4>1. Len(log[f]) \in Nat /\ o <= Len(log[f])
        BY <1>1, <2>2, <2>3, PartFields
      <4>2. \A i \in 1 .. o : i \in 1 .. Len(log[f])
        BY <1>4, <4>1
      <4> QED BY <1>1, <4>2, LogFields
    <3>2. rec.msg.offset = o
      BY DEF o
    <3>3. ASSUME NEW i \in 1 .. o + 1 PROVE new[i].offset = i - 1
      <4>1. i = o + 1 \/ i \in 1 .. o
        BY <1>4
      <4>2. CASE i = o + 1
        BY <1>4, <2>6, <3>2, <4>2
      <4>3. CASE i \in 1 .. o
        BY <2>6, <3>1, <4>3
      <4> QED BY <4>1, <4>2, <4>3
    <3>4. DOMAIN log'[f] = 1 .. o + 1
      BY <2>6
    <3>5. \A i \in DOMAIN log'[f] : log'[f][i].offset = i - 1
      BY <2>6, <3>3, <3>4
    <3>6. \A c \in Broker : \A i \in DOMAIN log[c] : log[c][i].offset = i - 1
      BY <1>1 DEF TypeOK
    <3>7. \A c \in Broker : c # f => log'[c] = log[c]
      BY <2>6
    <3> QED BY ONLY <3>5, <3>6, <3>7
  <2>8. /\ part' \in [Broker -> Partition]
        /\ \A c \in Broker : /\ part'[c].role = part[c].role
                             /\ part'[c].epoch = part[c].epoch
                             /\ part'[c].leader = part[c].leader
                             /\ part'[c].hw = IF c = f THEN h ELSE part[c].hw
    BY <1>1, <2>1, <2>4, WatermarkStep, Zenon
  <2>9. /\ stream' \in [Broker -> Stream] /\ \A c \in Broker : c # f => stream'[c] = stream[c]
        /\ stream'[f].from = stream[f].from /\ stream'[f].offset = stream[f].offset
        /\ stream'[f].chan = << >>
    <3>1. << >> \in Seq([msg : Message, hw : Nat])
      OBVIOUS
    <3>2. stream'[f] = [stream[f] EXCEPT !.chan = << >>] /\ stream[f] \in Stream
      BY <1>1, <2>1 DEF TypeOK
    <3> DEFINE p == stream[f]
               q == stream'[f]
    <3>3. p \in Stream /\ q = [p EXCEPT !.chan = << >>]
      BY <3>2
    <3> HIDE DEF p, q
    <3>4. q \in Stream /\ q.from = p.from /\ q.offset = p.offset /\ q.chan = << >>
      BY ONLY <3>1, <3>3, Zenon DEF Stream
    <3>5. stream'[f] \in Stream /\ stream'[f].from = stream[f].from
          /\ stream'[f].offset = stream[f].offset /\ stream'[f].chan = << >>
      BY <3>4 DEF p, q
    <3>6. \A c \in Broker : c # f => stream'[c] = stream[c]
      BY <1>1, <2>1 DEF TypeOK
    <3> QED BY <1>1, <2>1, <3>5, <3>6 DEF TypeOK
  <2>10. TypeOK'
    BY <1>1, <1>2, <2>6, <2>7, <2>8, <2>9 DEF TypeOK, coordVars, history, bounds
  <2>11. EpochInv'
    BY <1>1, <1>2, <2>8 DEF EpochInv, coordVars
  <2>12. StreamInv'
    <3>1. Expected(stream'[f]) = o + 1
      BY <1>5, <2>9 DEF Expected
    <3>2. \A i \in 1 .. Len(log'[f]) : ~(i > Expected(stream'[f]))
      BY <1>4, <2>6, <3>1
    <3>3. up' = up /\ strays' = strays
      BY <1>2 DEF history
    <3>4. ASSUME NEW c \in Broker, c # f
          PROVE  /\ part'[c].role = "Follower" => part'[c].leader \in Broker
                 /\ stream'[c].from = NoBroker => stream'[c].chan = << >>
                 /\ stream'[c].chan # << >> => stream'[c].offset = stream'[c].chan[1].msg.offset + 1
                 /\ stream'[c].from # NoBroker =>
                      /\ up'[c] /\ part'[c].role = "Follower"
                      /\ \A i \in 1 .. Len(log'[c]) : i > Expected(stream'[c]) => log'[c][i].val \in strays'
      <4>1. log'[c] = log[c] /\ stream'[c] = stream[c] /\ part'[c].role = part[c].role
            /\ part'[c].leader = part[c].leader
        BY <2>6, <2>8, <2>9, <3>4
      <4> QED BY <1>1, <3>3, <4>1 DEF StreamInv
    <3>5. /\ part'[f].role = "Follower" => part'[f].leader \in Broker
          /\ up'[f] /\ part'[f].role = "Follower"
          /\ \A i \in 1 .. Len(log'[f]) : i > Expected(stream'[f]) => log'[f][i].val \in strays'
      BY <1>1, <1>5, <2>8, <3>2, <3>3 DEF StreamInv
    <3> QED BY <2>9, <3>4, <3>5, Zenon DEF StreamInv, Expected
  <2>13. LogKept
    <3>1. ASSUME NEW i \in 1 .. Len(log[f])
          PROVE  (i <= Len(log'[f]) /\ log'[f][i] = log[f][i]) \/ log[f][i].val \in strays
      <4>1. i \in 1 .. o \/ i > o
        BY <1>1, <1>4, PartFields
      <4>2. CASE i > o
        BY <1>5, <4>2
      <4>3. CASE i \in 1 .. o
        BY <1>4, <2>6, <4>3
      <4> QED BY <4>1, <4>2, <4>3
    <3>2. \A c \in Broker : Len(log[c]) \in Nat
      BY <1>1, PartFields
    <3> QED BY <2>6, <3>1, <3>2 DEF LogKept
  <2>14. WatermarkKept
    <3>1. \A c \in Broker : part[c].hw \in Nat
      BY <1>1, PartFields
    <3> QED BY <2>4, <2>8, <3>1 DEF WatermarkKept
  <2> QED BY <2>10, <2>11, <2>12, <2>13, <2>14 DEF Step, IInv
<1>7. CASE ~ReplicaFits(base, rec.msg)
  <2>1. /\ stream' = [stream EXCEPT ![f] = NoStream]
        /\ UNCHANGED <<log, part>>
    BY <1>7 DEF Recv
  <2>2. UNCHANGED <<coordVars, up, produce, history, bounds>>
    BY <1>2
  <2> QED BY <2>1, <2>2, StreamGoneStep, Zenon DEF bounds
<1> QED BY <1>6, <1>7

LEMMA BreakStep ==
  ASSUME IInv, NEW f \in Broker, Break(f)
  PROVE  Step
<1>1. faults' \in 0 .. MaxFaults
  BY EpochsAssumption DEF Break, IInv, TypeOK
<1> QED BY <1>1, StreamGoneStep, Zenon DEF Break

\* A call is of an epoch that the FSM has reached, and a transition ends the stream.
LEMMA DeliverStep ==
  ASSUME IInv, NEW m \in calls, Deliver(m)
  PROVE  Step
<1> DEFINE b == m.to
           p == IF m.role = "Leader" THEN BecomeLeader(b, m.epoch)
                ELSE BecomeFollower(b, m.leader, m.epoch)
<1>1. TypeOK /\ EpochInv /\ StreamInv
  BY DEF IInv
<1>2. /\ calls' = calls \ {m}
      /\ part' = [part EXCEPT ![b] = p]
      /\ stream' = IF m.epoch < part[b].epoch THEN stream ELSE [stream EXCEPT ![b] = NoStream]
      /\ UNCHANGED <<fsm, dead, reports, reported, up, log, produce, history, bounds>>
  BY DEF Deliver
<1>3. /\ b \in Broker /\ m.role \in {"Leader", "Follower"} /\ m.epoch \in 0 .. MaxEpoch
      /\ m.leader \in Broker /\ m.epoch <= fsm.epoch
  BY <1>1 DEF TypeOK, AssignRole, EpochInv
<1> HIDE DEF b
<1>4. CASE m.epoch < part[b].epoch
  <2>1. p = part[b]
    BY <1>4 DEF BecomeLeader, BecomeFollower
  <2>2. part' = part /\ stream' = stream
    BY <1>1, <1>2, <1>4, <2>1, Zenon DEF TypeOK
  <2>3. TypeOK' /\ EpochInv'
    BY <1>1, <1>2, <2>2, Zenon DEF TypeOK, EpochInv, history, bounds
  <2>4. StreamInv'
    BY <1>2, <2>2, StreamsStay DEF history
  <2> QED BY <1>1, <1>2, <2>2, <2>3, <2>4, SameLog, SamePart, Zenon DEF Step, IInv
<1>5. CASE ~(m.epoch < part[b].epoch)
  <2>1. /\ p \in Partition /\ p.epoch = m.epoch /\ p.hw = part[b].hw
        /\ p.role = "Follower" => p.leader \in Broker
    <3> DEFINE q == part[b]
               r == NoReplicas
    <3>1. q \in Partition /\ r \in [Broker -> ReplicaState]
      BY <1>1, <1>3, PartFields, Zenon DEF NoReplicas, ReplicaState
    <3>2. p = IF m.role = "Leader"
              THEN [q EXCEPT !.role = "Leader", !.epoch = m.epoch, !.replicas = r]
              ELSE [q EXCEPT !.role = "Follower", !.epoch = m.epoch, !.leader = m.leader]
      BY <1>5 DEF BecomeLeader, BecomeFollower
    <3> HIDE DEF p, q, r
    <3>3. /\ p \in Partition /\ p.epoch = m.epoch /\ p.hw = q.hw
          /\ p.role = "Follower" => p.leader \in Broker
      BY ONLY <1>3, <3>1, <3>2, Zenon DEF Partition
    <3> QED BY <3>3 DEF q
  <2> HIDE DEF p
  <2>2. /\ part' \in [Broker -> Partition] /\ part'[b] = p
        /\ \A c \in Broker : c # b => part'[c] = part[c]
    BY <1>1, <1>2, <1>3, <2>1 DEF TypeOK
  <2>3. /\ stream' \in [Broker -> Stream] /\ stream'[b] = NoStream
        /\ \A c \in Broker : c # b => stream'[c] = stream[c]
    BY <1>1, <1>2, <1>3, <1>5, NoStreamIs DEF TypeOK
  <2>4. TypeOK'
    BY <1>1, <1>2, <2>2, <2>3 DEF TypeOK, history, bounds
  <2>5. EpochInv'
    BY <1>1, <1>2, <1>3, <2>1, <2>2, Zenon DEF EpochInv
  <2>6. StreamInv'
    <3>1. log' = log /\ strays' = strays /\ up' = up
      BY <1>2 DEF history
    <3> QED BY <1>1, <2>1, <2>2, <2>3, <3>1, NoStreamIs DEF StreamInv, Expected
  <2>7. LogKept
    BY <1>1, <1>2, SameLog
  <2>8. WatermarkKept
    <3>1. \A c \in Broker : part[c].hw \in Nat
      BY <1>1, PartFields
    <3> QED BY <2>1, <2>2, <3>1 DEF WatermarkKept
  <2> QED BY <2>4, <2>5, <2>6, <2>7, <2>8 DEF Step, IInv
<1> QED BY <1>4, <1>5

LEMMA CrashStep ==
  ASSUME IInv, NEW b \in Broker, Crash(b)
  PROVE  Step
<1>1. TypeOK /\ EpochInv /\ StreamInv
  BY DEF IInv
<1>2. /\ outages < MaxOutages /\ outages' = outages + 1
      /\ up' = [up EXCEPT ![b] = FALSE]
      /\ produce' = [produce EXCEPT ![b] = "idle"]
      /\ stream' = [f \in Broker |-> IF f = b \/ stream[f].from = b THEN NoStream ELSE stream[f]]
      /\ calls' = {m \in calls : m.to # b}
      /\ UNCHANGED <<fsm, dead, reports, reported, part, log, history, msgs, faults>>
  BY DEF Crash
<1>3. /\ stream' \in [Broker -> Stream]
      /\ \A f \in Broker : stream'[f] = NoStream \/ (f # b /\ stream'[f] = stream[f])
  BY <1>1, <1>2, NoStreamIs DEF TypeOK
<1>4. outages' \in 0 .. MaxOutages
  BY <1>1, <1>2, EpochsAssumption DEF TypeOK
<1>5. TypeOK'
  BY <1>1, <1>2, <1>3, <1>4 DEF TypeOK, history
<1>6. EpochInv'
  BY <1>1, <1>2, Zenon DEF EpochInv
<1>7. StreamInv'
  <2>1. log' = log /\ strays' = strays /\ part' = part
    BY <1>2 DEF history
  <2>2. \A f \in Broker : f # b => up'[f] = up[f]
    BY <1>1, <1>2, Zenon DEF TypeOK
  <2> QED BY <1>1, <1>3, <2>1, <2>2, NoStreamIs DEF StreamInv, Expected
<1>8. LogKept /\ WatermarkKept
  BY <1>1, <1>2, SameLog, SamePart, Zenon
<1> QED BY <1>5, <1>6, <1>7, <1>8 DEF Step, IInv

\* The watermark of a restarted broker may be lower than before, but not lower than
\* the end of its log.
LEMMA RestartStep ==
  ASSUME IInv, NEW b \in Broker, Restart(b)
  PROVE  Step
<1> DEFINE p == [role |-> "Leader", epoch |-> 0, leader |-> NoBroker,
                 hw |-> LogEndOffset(log[b]), replicas |-> NoReplicas]
<1>1. TypeOK /\ EpochInv /\ StreamInv
  BY DEF IInv
<1>2. /\ ~up[b] /\ up' = [up EXCEPT ![b] = TRUE]
      /\ part' = [part EXCEPT ![b] = p]
      /\ UNCHANGED <<coordVars, log, produce, stream, history, bounds>>
  BY Zenon DEF Restart
<1>3. p \in Partition /\ p.role = "Leader" /\ p.epoch = 0 /\ p.hw = Len(log[b])
  <2>1. NoReplicas \in [Broker -> ReplicaState]
    BY DEF NoReplicas, ReplicaState
  <2>2. log[b] \in Seq(Message)
    BY <1>1 DEF TypeOK
  <2>3. LogEndOffset(log[b]) = Len(log[b]) /\ Len(log[b]) \in Nat
    BY <2>2 DEF LogEndOffset
  <2>4. 0 \in 0 .. MaxEpoch
    BY EpochsAssumption
  <2> QED BY ONLY <2>1, <2>3, <2>4, Zenon DEF Partition
<1> HIDE DEF p
<1>4. /\ part' \in [Broker -> Partition] /\ part'[b] = p
      /\ \A c \in Broker : c # b => part'[c] = part[c]
  BY <1>1, <1>2, <1>3 DEF TypeOK
<1>5. TypeOK'
  BY <1>1, <1>2, <1>4 DEF TypeOK, coordVars, history, bounds
<1>6. EpochInv'
  <2>1. fsm.epoch \in Nat
    BY <1>1, FsmFields
  <2> QED BY <1>1, <1>2, <1>3, <1>4, <2>1 DEF EpochInv, coordVars
<1>7. StreamInv'
  <2>1. log' = log /\ strays' = strays /\ stream' = stream
    BY <1>2 DEF history
  <2>2. \A f \in Broker : up[f] => up'[f]
    BY <1>1, <1>2 DEF TypeOK
  <2> QED BY <1>1, <1>2, <1>3, <1>4, <2>1, <2>2 DEF StreamInv, Expected
<1>8. LogKept
  BY <1>1, <1>2, SameLog
<1>9. WatermarkKept
  <2>1. \A c \in Broker : part[c].hw \in Nat /\ Len(log[c]) \in Nat
    BY <1>1, PartFields
  <2> QED BY <1>2, <1>3, <1>4, <2>1 DEF WatermarkKept
<1> QED BY <1>5, <1>6, <1>7, <1>8, <1>9 DEF Step, IInv

LEMMA AgeStep ==
  ASSUME IInv, NEW b \in Broker, Age(b)
  PROVE  Step
<1>1. TypeOK /\ EpochInv
  BY DEF IInv
<1>2. /\ dead' = dead \cup {b} /\ outages' \in 0 .. MaxOutages
      /\ UNCHANGED <<fsm, calls, reports, reported, up, part, log, produce, stream, history,
                     msgs, faults>>
  BY <1>1, EpochsAssumption DEF Age, TypeOK
<1>3. TypeOK' /\ EpochInv'
  BY <1>1, <1>2 DEF TypeOK, EpochInv, history
<1>4. StreamInv'
  BY <1>2, StreamsStay DEF history
<1> QED BY <1>1, <1>2, <1>3, <1>4, SameLog, SamePart DEF Step, IInv

\* Calls to follow have the epoch they are made with.
LEMMA FollowerCallsAre ==
  ASSUME NEW b \in Broker, NEW e \in 0 .. MaxEpoch, NEW D
  PROVE  /\ FollowerCalls(b, e, D) \in SUBSET AssignRole
         /\ \A m \in FollowerCalls(b, e, D) : m.epoch = e
BY DEF FollowerCalls, AssignRole

LEMMA HeartbeatStep ==
  ASSUME IInv, NEW b \in Broker, Heartbeat(b)
  PROVE  Step
<1> DEFINE C == FollowerCalls(fsm.primary, 0, dead')
<1>1. TypeOK /\ EpochInv
  BY DEF IInv
<1>2. /\ dead' = dead \ {b}
      /\ calls' = IF b = fsm.primary THEN calls ELSE calls \cup C
      /\ UNCHANGED <<fsm, reports, reported, up, part, log, produce, stream, history, bounds>>
  BY DEF Heartbeat
<1>3. 0 \in 0 .. MaxEpoch /\ fsm.primary \in Broker /\ fsm.epoch \in Nat
  BY <1>1, FsmFields, EpochsAssumption
<1>4. C \in SUBSET AssignRole /\ \A m \in C : m.epoch = 0
  BY <1>3, FollowerCallsAre
<1> HIDE DEF C
<1>5. calls' \in SUBSET AssignRole /\ \A m \in calls' : m.epoch <= fsm.epoch
  BY <1>1, <1>2, <1>3, <1>4 DEF TypeOK, EpochInv
<1>6. TypeOK' /\ EpochInv'
  BY <1>1, <1>2, <1>5, Zenon DEF TypeOK, EpochInv, history, bounds
<1>7. StreamInv'
  BY <1>2, StreamsStay DEF history
<1> QED BY <1>1, <1>2, <1>6, <1>7, SameLog, SamePart DEF Step, IInv

LEMMA PromoteStep ==
  ASSUME IInv, NEW b \in Broker, Promote(b)
  PROVE  Step
<1> DEFINE e == fsm.epoch + 1
           C == FollowerCalls(b, e, dead)
           L == IF up[b] THEN {[to |-> b, role |-> "Leader", epoch |-> e, leader |-> b]} ELSE {}
<1>1. TypeOK /\ EpochInv
  BY DEF IInv
<1>2. /\ fsm.epoch < MaxEpoch /\ fsm' = [fsm EXCEPT !.primary = b, !.epoch = e]
      /\ left' = left \cup {v \in 1 .. msgs : ~Holds(b, v)}
      /\ named' = named \cup {b}
      /\ UNCHANGED <<dead, reports, reported, up, part, log, produce, stream, strays, msgs, outages>>
  BY DEF Promote
<1>3. fsm \in [primary : Broker, epoch : 1 .. MaxEpoch, isr : SUBSET Broker, isrEpoch : 0 .. MaxEpoch]
  BY <1>1 DEF TypeOK
<1>4. /\ e \in 0 .. MaxEpoch /\ e \in 1 .. MaxEpoch /\ fsm.epoch \in Nat /\ fsm.epoch <= e
  BY <1>1, <1>2, FsmFields, EpochsAssumption
<1>5. fsm'.epoch = e
  BY <1>2, <1>3
<1>6. calls' = calls \cup C \cup L
  BY <1>5 DEF Promote
<1> HIDE DEF e
<1>7. fsm' \in [primary : Broker, epoch : 1 .. MaxEpoch, isr : SUBSET Broker, isrEpoch : 0 .. MaxEpoch]
  BY <1>2, <1>3, <1>4, Zenon
<1>8. C \in SUBSET AssignRole /\ \A m \in C : m.epoch = e
  BY <1>4, FollowerCallsAre
<1>9. L \in SUBSET AssignRole /\ \A m \in L : m.epoch = e
  BY <1>4 DEF AssignRole
<1> HIDE DEF C, L
<1>10. calls' \in SUBSET AssignRole
  BY <1>1, <1>6, <1>8, <1>9 DEF TypeOK
<1>11. left' \in SUBSET (1 .. MaxMsgs) /\ named' \in SUBSET Broker
  BY <1>1, <1>2, EpochsAssumption DEF TypeOK
<1>12. TypeOK'
  <2>1. faults' \in 0 .. MaxFaults
    <3>1. faults' = faults \/ (faults < MaxFaults /\ faults' = faults + 1)
      BY DEF Promote
    <3> QED BY <1>1, <3>1, EpochsAssumption DEF TypeOK
  <2> QED BY <1>1, <1>2, <1>7, <1>10, <1>11, <2>1 DEF TypeOK
<1>13. EpochInv'
  <2>1. \A x \in 0 .. MaxEpoch : x <= fsm.epoch => x <= e
    BY <1>4
  <2>2. \A c \in Broker : part[c].epoch \in 0 .. MaxEpoch
    BY <1>1, PartFields
  <2>3. /\ \A m \in calls : m.epoch \in 0 .. MaxEpoch
        /\ \A r \in reports : r.epoch \in 0 .. MaxEpoch
    BY <1>1 DEF TypeOK, AssignRole, Report
  <2>4. e <= e
    BY <1>4
  <2> QED BY <1>1, <1>2, <1>5, <1>6, <1>8, <1>9, <2>1, <2>2, <2>3, <2>4 DEF EpochInv
<1>14. StreamInv'
  BY <1>2, StreamsStay
<1> QED BY <1>1, <1>2, <1>12, <1>13, <1>14, SameLog, SamePart DEF Step, IInv

LEMMA AlterIsrStep ==
  ASSUME IInv, NEW r \in reports, AlterIsr(r)
  PROVE  Step
<1>1. TypeOK /\ EpochInv
  BY DEF IInv
<1>2. UNCHANGED <<fsm, dead, calls, reported, up, part, log, produce, stream, history, bounds>>
  BY DEF AlterIsr
<1>3. r \in Report /\ r.epoch <= fsm.epoch
  BY <1>1 DEF TypeOK, EpochInv
<1>4. [r EXCEPT !.checked = TRUE] \in Report /\ [r EXCEPT !.checked = TRUE].epoch = r.epoch
  BY <1>3, Zenon DEF Report
<1>5. reports' \in SUBSET Report /\ \A x \in reports' : x.epoch <= fsm.epoch
  <2>1. reports' = (reports \ {r}) \cup
          (IF r.epoch < fsm.epoch THEN {} ELSE {[r EXCEPT !.checked = TRUE]})
    BY DEF AlterIsr
  <2> DEFINE x == [r EXCEPT !.checked = TRUE]
  <2>2. x \in Report /\ x.epoch <= fsm.epoch
    BY <1>3, <1>4
  <2>3. \A y \in reports' : y \in reports \/ y = x
    BY <2>1
  <2> HIDE DEF x
  <2> QED BY <1>1, <2>2, <2>3 DEF TypeOK, EpochInv
<1>6. TypeOK' /\ EpochInv'
  BY <1>1, <1>2, <1>5 DEF TypeOK, EpochInv, history, bounds
<1>7. StreamInv'
  BY <1>2, StreamsStay DEF history
<1> QED BY <1>1, <1>2, <1>6, <1>7, SameLog, SamePart DEF Step, IInv

LEMMA ApplyUpdateISRStep ==
  ASSUME IInv, NEW r \in reports, ApplyUpdateISR(r)
  PROVE  Step
<1>1. TypeOK /\ EpochInv
  BY DEF IInv
<1>2. /\ reports' = reports \ {r}
      /\ fsm' = IF r.epoch >= fsm.epoch THEN [fsm EXCEPT !.isr = r.isr, !.isrEpoch = r.epoch] ELSE fsm
      /\ UNCHANGED <<dead, calls, reported, up, part, log, produce, stream, history, bounds>>
  BY DEF ApplyUpdateISR
<1>3. /\ fsm \in [primary : Broker, epoch : 1 .. MaxEpoch, isr : SUBSET Broker, isrEpoch : 0 .. MaxEpoch]
      /\ r.epoch \in 0 .. MaxEpoch /\ r.isr \in SUBSET Broker
  BY <1>1 DEF TypeOK, Report
<1>4. /\ fsm' \in [primary : Broker, epoch : 1 .. MaxEpoch, isr : SUBSET Broker, isrEpoch : 0 .. MaxEpoch]
      /\ fsm'.epoch = fsm.epoch
  BY <1>2, <1>3, Zenon
<1>5. TypeOK'
  BY <1>1, <1>2, <1>4 DEF TypeOK, history, bounds
<1>6. EpochInv'
  BY <1>1, <1>2, <1>4 DEF EpochInv
<1>7. StreamInv'
  BY <1>2, StreamsStay DEF history
<1> QED BY <1>1, <1>2, <1>5, <1>6, <1>7, SameLog, SamePart DEF Step, IInv

-----------------------------------------------------------------------------
(* The invariant, and the theorems.                                        *)

LEMMA IInvInit == Init => IInv
<1> SUFFICES ASSUME Init PROVE IInv
  OBVIOUS
<1> DEFINE p(b) == [role |-> IF b = First THEN "Leader" ELSE "Follower",
                    epoch |-> 1, leader |-> IF b = First THEN NoBroker ELSE First,
                    hw |-> 0, replicas |-> NoReplicas]
<1>1. NoReplicas \in [Broker -> ReplicaState] /\ 1 \in 0 .. MaxEpoch /\ 1 \in 1 .. MaxEpoch
  BY EpochsAssumption DEF NoReplicas, ReplicaState
<1>2. \A b \in Broker : p(b) \in Partition /\ p(b).epoch = 1
                        /\ (p(b).role = "Follower" => p(b).leader \in Broker)
  BY <1>1, EpochsAssumption DEF Partition
<1>3. part = [b \in Broker |-> p(b)]
  BY DEF Init
<1> HIDE DEF p
<1>4. part \in [Broker -> Partition]
  BY <1>2, <1>3
<1>5. /\ fsm \in [primary : Broker, epoch : 1 .. MaxEpoch, isr : SUBSET Broker, isrEpoch : 0 .. MaxEpoch]
      /\ fsm.epoch = 1
  BY <1>1, EpochsAssumption DEF Init
<1>6. \A b \in Broker : log[b] = << >> /\ stream[b] = NoStream
  BY DEF Init
<1>7. TypeOK
  BY <1>4, <1>5, <1>6, NoStreamIs, EpochsAssumption DEF Init, TypeOK
<1>8. EpochInv
  BY <1>2, <1>3, <1>5 DEF Init, EpochInv
<1>9. StreamInv
  BY <1>2, <1>3, <1>6, NoStreamIs DEF StreamInv
<1> QED BY <1>7, <1>8, <1>9 DEF IInv

LEMMA IInvNext == IInv /\ [Next]_vars => Step
<1> SUFFICES ASSUME IInv, [Next]_vars PROVE Step
  OBVIOUS
<1>1. CASE Next
  BY <1>1, EvictStep, ProduceCheckStep, ProduceAppendStep, ProduceVisibleStep, ConnectStep,
     SendStep, RecvStep, BreakStep, DeliverStep, CrashStep, RestartStep,
     AgeStep, HeartbeatStep, PromoteStep, AlterIsrStep, ApplyUpdateISRStep, Zenon DEF Next
<1>2. CASE UNCHANGED vars
  <2>1. TypeOK
    BY DEF IInv
  <2>2. IInv'
    BY <1>2, Zenon DEF IInv, TypeOK, EpochInv, StreamInv, Expected, vars, coordVars, history, bounds
  <2>3. log' = log /\ part' = part
    BY <1>2 DEF vars
  <2> QED BY <2>1, <2>2, <2>3, SameLog, SamePart DEF Step
<1> QED BY <1>1, <1>2

LEMMA IInvariant == Spec => []IInv
<1>1. IInv /\ [Next]_vars => IInv'
  BY IInvNext DEF Step
<1> QED BY <1>1, IInvInit, PTL DEF Spec

\* Partitions, streams, calls and reports keep their types, and a message is at its
\* offset in every log, for any brokers.
THEOREM TypeCorrect == Spec => []TypeOK
<1>1. IInv => TypeOK
  BY DEF IInv
<1> QED BY <1>1, IInvariant, PTL

\* Replicas discard strays only (partition.go:294-299, 329-336).
THEOREM OnlyStraysDiscardedAlways == Spec => OnlyStraysDiscarded
<1>1. ASSUME IInv, [Next]_vars
      PROVE  \A b \in Broker, v \in 1 .. MaxMsgs : Holds(b, v) => Holds(b, v)' \/ v \in strays
  <2>1. LogKept /\ TypeOK /\ TypeOK'
    BY <1>1, IInvNext DEF Step, IInv
  <2> SUFFICES ASSUME NEW b \in Broker, NEW v \in 1 .. MaxMsgs, Holds(b, v), v \notin strays
               PROVE  Holds(b, v)'
    OBVIOUS
  <2>2. DOMAIN log[b] = 1 .. Len(log[b]) /\ DOMAIN log'[b] = 1 .. Len(log'[b])
    <3>1. log[b] \in Seq(Message) /\ log'[b] \in Seq(Message)
      BY <2>1 DEF TypeOK
    <3> QED BY <3>1
  <2>3. PICK i \in 1 .. Len(log[b]) : log[b][i].val = v
    BY <2>2 DEF Holds
  <2>4. i <= Len(log'[b]) /\ log'[b][i] = log[b][i]
    BY <2>1, <2>3 DEF LogKept
  <2>5. Len(log[b]) \in Nat /\ Len(log'[b]) \in Nat
    <3>1. log[b] \in Seq(Message) /\ log'[b] \in Seq(Message)
      BY <2>1 DEF TypeOK
    <3> QED BY <3>1
  <2>6. i \in DOMAIN log'[b]
    BY <2>2, <2>4, <2>5
  <2> QED BY <2>3, <2>4, <2>6 DEF Holds
<1> QED BY <1>1, IInvariant, PTL DEF Spec, OnlyStraysDiscarded

\* What a broker would give to a consumer it goes on giving, strays excepted
\* (partition.go:79, 109-151, 341-345).
THEOREM ReadableStaysAlways == Spec => ReadableStays
<1>1. ASSUME IInv, [Next]_vars
      PROVE  \A b \in Broker, v \in 1 .. MaxMsgs : Readable(b, v) => Readable(b, v)' \/ v \in strays
  <2>1. LogKept /\ WatermarkKept /\ TypeOK /\ TypeOK'
    BY <1>1, IInvNext DEF Step, IInv
  <2> SUFFICES ASSUME NEW b \in Broker, NEW v \in 1 .. MaxMsgs, Readable(b, v), v \notin strays
               PROVE  Readable(b, v)'
    OBVIOUS
  <2>2. DOMAIN log[b] = 1 .. Len(log[b]) /\ DOMAIN log'[b] = 1 .. Len(log'[b])
    <3>1. log[b] \in Seq(Message) /\ log'[b] \in Seq(Message)
      BY <2>1, Zenon DEF TypeOK
    <3> QED BY <3>1
  <2>3. PICK i \in 1 .. Len(log[b]) : log[b][i].val = v /\ i <= part[b].hw
    BY <2>2 DEF Readable
  <2>4. i <= Len(log'[b]) /\ log'[b][i] = log[b][i]
    BY <2>1, <2>3 DEF LogKept
  <2>5. Len(log[b]) \in Nat /\ Len(log'[b]) \in Nat
    <3>1. log[b] \in Seq(Message) /\ log'[b] \in Seq(Message)
      BY <2>1, Zenon DEF TypeOK
    <3> QED BY <3>1
  <2>6. part[b].hw \in Nat /\ part'[b].hw \in Nat
    BY <2>1, Zenon DEF TypeOK, Partition
  <2>7. i \in DOMAIN log'[b]
    BY <2>2, <2>4, <2>5
  <2>8. i <= part'[b].hw
    BY <2>1, <2>3, <2>4, <2>5, <2>6 DEF WatermarkKept
  <2> QED BY <2>3, <2>4, <2>7, <2>8 DEF Readable
<1> QED BY <1>1, IInvariant, PTL DEF Spec, ReadableStays

\* The in-sync set of the FSM is that of a leader of its epoch when it is set
\* (coordinator.go:434-447, fsm.go:79-84).
THEOREM IsrFromCurrentLeaderAlways == Spec => IsrFromCurrentLeader
<1>1. ASSUME IInv, [Next]_vars
      PROVE  fsm'.isr # fsm.isr => fsm'.isrEpoch = fsm'.epoch
  <2>1. fsm \in [primary : Broker, epoch : 1 .. MaxEpoch, isr : SUBSET Broker, isrEpoch : 0 .. MaxEpoch]
    BY <1>1, Zenon DEF IInv, TypeOK
  <2>2. CASE fsm' = fsm
    BY <2>2, Zenon
  <2>3. ASSUME NEW b \in Broker, Promote(b) PROVE fsm'.isr = fsm.isr
    BY <2>1, <2>3 DEF Promote
  <2>4. ASSUME NEW r \in reports, ApplyUpdateISR(r), fsm' # fsm
        PROVE  fsm'.isrEpoch = fsm'.epoch
    <3>1. r.epoch <= fsm.epoch /\ r.epoch \in 0 .. MaxEpoch /\ fsm.epoch \in Nat
      BY <1>1, FsmFields DEF IInv, EpochInv, TypeOK, Report
    <3>2. r.epoch >= fsm.epoch /\ fsm' = [fsm EXCEPT !.isr = r.isr, !.isrEpoch = r.epoch]
      BY <2>4 DEF ApplyUpdateISR
    <3>3. r.epoch = fsm.epoch
      BY <3>1, <3>2
    <3> QED BY <2>1, <3>2, <3>3
  <2>5. CASE Next
    <3>1. ASSUME NEW b \in Broker, NEW f \in Broker,
                 \/ Evict(b, f) \/ ProduceCheck(b) \/ ProduceAppend(b) \/ ProduceVisible(b)
                 \/ Connect(f) \/ Send(f) \/ Recv(f) \/ Break(f)
          PROVE  fsm' = fsm
      BY <3>1, Zenon DEF Evict, ProduceCheck, ProduceAppend, ProduceVisible, Connect, Send, Recv,
         Break, coordVars
    <3>2. ASSUME NEW b \in Broker, Crash(b) \/ Restart(b) \/ Age(b) \/ Heartbeat(b)
          PROVE  fsm' = fsm
      BY <3>2 DEF Crash, Restart, Age, Heartbeat, coordVars
    <3>3. ASSUME NEW m \in calls, Deliver(m) PROVE fsm' = fsm
      BY <3>3 DEF Deliver
    <3>4. ASSUME NEW r \in reports, AlterIsr(r) PROVE fsm' = fsm
      BY <3>4 DEF AlterIsr
    <3> QED BY <2>2, <2>3, <2>4, <2>5, <3>1, <3>2, <3>3, <3>4, Zenon DEF Next
  <2>6. CASE UNCHANGED vars
    BY <2>2, <2>6 DEF vars, coordVars
  <2> QED BY <1>1, <2>5, <2>6
<1> QED BY <1>1, IInvariant, PTL DEF Spec, IsrFromCurrentLeader

-----------------------------------------------------------------------------
(* Replicas diverge for no reason but strays and messages left behind.     *)

\* The messages in the logs and in the streams.
InLog(m)    == \E b \in Broker : \E i \in 1 .. Len(log[b]) : m = log[b][i]
InStream(m) == \E f \in Broker : stream[f].chan # << >> /\ m = stream[f].chan[1].msg

Carried == {m \in Message : InLog(m) \/ InStream(m)}

\* The number of a message determines it, its offset included, wherever it is, and
\* the number of the next message is new.
MessageInv ==
  /\ \A m \in Carried : m.val <= msgs
  /\ \A m, n \in Carried : m.val = n.val => m = n

\* The primary has every message but strays and those left behind.
PrimaryInv ==
  \A v \in 1 .. msgs : v \in strays \cup left \/ Holds(fsm.primary, v)

\* Steps that leave the logs alone, and send nothing, carry no more messages.
LEMMA CarriedNotMore ==
  ASSUME log' = log,
         \A f \in Broker : stream'[f].chan = stream[f].chan \/ stream'[f].chan = << >>
  PROVE  Carried' \subseteq Carried
BY DEF Carried, InLog, InStream

\* A set of messages that did not grow keeps MessageInv.
LEMMA MessageInvKept ==
  ASSUME TypeOK, TypeOK', MessageInv, Carried' \subseteq Carried, msgs' = msgs
  PROVE  MessageInv'
BY DEF MessageInv

\* A message with the next number, added to the set, keeps MessageInv.
LEMMA MessageInvNew ==
  ASSUME TypeOK, MessageInv, NEW x \in Message, x.val = msgs + 1, msgs' = msgs + 1,
         Carried' \subseteq Carried \cup {x}
  PROVE  MessageInv'
<1>1. msgs \in Nat /\ \A m \in Carried : m.val \in Nat /\ m.val <= msgs
  <2>1. Carried \subseteq Message
    BY Zenon DEF Carried
  <2>2. \A m \in Message : m.val \in 1 .. MaxMsgs
    BY DEF Message
  <2>3. msgs \in Nat /\ MaxMsgs \in Nat
    BY MsgsFields, EpochsAssumption, Zenon
  <2> QED BY <2>1, <2>2, <2>3 DEF MessageInv
<1>2. \A m \in Carried : m.val # x.val
  BY <1>1
<1>3. \A m \in Carried' : m.val <= msgs'
  BY <1>1
<1>4. ASSUME NEW m \in Carried', NEW n \in Carried', m.val = n.val PROVE m = n
  BY <1>2, <1>4 DEF MessageInv
<1> QED BY <1>3, <1>4 DEF MessageInv

\* Appending writes the next number, copying writes no new message.
LEMMA MessageInvNext == IInv /\ IInv' /\ MessageInv /\ [Next]_vars => MessageInv'
<1> SUFFICES ASSUME IInv, IInv', MessageInv, [Next]_vars PROVE MessageInv'
  OBVIOUS
<1>1. TypeOK /\ TypeOK' /\ StreamInv
  BY DEF IInv
<1>2. /\ stream \in [Broker -> Stream] /\ log \in [Broker -> Seq(Message)]
      /\ NoBroker \notin Broker /\ NoStream.chan = << >>
  BY <1>1, EpochsAssumption, Zenon DEF TypeOK, NoStream
<1> DEFINE Quiet == /\ log' = log /\ msgs' = msgs
                    /\ \A f \in Broker : stream'[f].chan = stream[f].chan \/ stream'[f].chan = << >>
<1>3. ASSUME Quiet PROVE MessageInv'
  BY <1>1, <1>3, CarriedNotMore, MessageInvKept
<1>4. ASSUME NEW b \in Broker, NEW f \in Broker,
             \/ Evict(b, f) \/ ProduceCheck(b) \/ ProduceVisible(b)
             \/ Restart(b) \/ Age(b) \/ Heartbeat(b) \/ Promote(b)
      PROVE  Quiet
  BY <1>4 DEF Evict, ProduceCheck, ProduceVisible, Restart, Age, Heartbeat, Promote, bounds
<1>5. ASSUME NEW f \in Broker, Connect(f) PROVE Quiet
  <2> DEFINE s == [from |-> part[f].leader, offset |-> LogEndOffset(log[f]), chan |-> << >>]
  <2>1. /\ stream' = [stream EXCEPT ![f] = s] \/ stream' = stream
        /\ log' = log /\ msgs' = msgs
    BY <1>5 DEF Connect, bounds
  <2>2. s.chan = << >>
    OBVIOUS
  <2> HIDE DEF s
  <2> QED BY <1>2, <2>1, <2>2
<1>6. ASSUME NEW f \in Broker, Break(f) PROVE Quiet
  BY <1>2, <1>6 DEF Break
<1>7. ASSUME NEW m \in calls, Deliver(m) PROVE Quiet
  <2>1. /\ stream' = [stream EXCEPT ![m.to] = NoStream] \/ stream' = stream
        /\ log' = log /\ msgs' = msgs
    BY <1>7 DEF Deliver, bounds
  <2> QED BY <1>2, <2>1, Zenon
<1>8. ASSUME NEW b \in Broker, Crash(b) PROVE Quiet
  BY <1>2, <1>8 DEF Crash
<1>9. ASSUME NEW r \in reports, AlterIsr(r) \/ ApplyUpdateISR(r) PROVE Quiet
  BY <1>9 DEF AlterIsr, ApplyUpdateISR, bounds
<1>10. ASSUME NEW b \in Broker, ProduceAppend(b) PROVE MessageInv'
  <2> DEFINE x == [offset |-> Len(log[b]), val |-> msgs + 1]
  <2>1. msgs \in Nat /\ MaxMsgs \in Nat /\ msgs < MaxMsgs /\ msgs' = msgs + 1 /\ stream' = stream
    BY <1>1, <1>10, MsgsFields, EpochsAssumption DEF ProduceAppend
  <2>2. log' = [log EXCEPT ![b] = Append(log[b], x)]
    BY <1>2, <1>10, <2>1, Zenon DEF ProduceAppend, AppendTo
  <2>3. x \in Message /\ x.val = msgs + 1
    BY <1>2, <2>1 DEF Message
  <2> HIDE DEF x
  <2>4. /\ log'[b] = Append(log[b], x) /\ log[b] \in Seq(Message)
        /\ \A c \in Broker : c # b => log'[c] = log[c]
    BY <1>2, <2>2
  <2>5. /\ Len(log'[b]) = Len(log[b]) + 1 /\ log'[b][Len(log[b]) + 1] = x
        /\ \A i \in 1 .. Len(log[b]) : log'[b][i] = log[b][i]
        /\ Len(log[b]) \in Nat
    BY <2>3, <2>4
  <2>6. Carried' \subseteq Carried \cup {x}
    <3> SUFFICES ASSUME NEW m \in Carried' PROVE m \in Carried \/ m = x
      OBVIOUS
    <3>1. CASE \E f \in Broker : stream'[f].chan # << >> /\ m = stream'[f].chan[1].msg
      BY <2>1, <3>1, Zenon DEF Carried, InLog, InStream
    <3>2. ASSUME NEW c \in Broker, NEW i \in 1 .. Len(log'[c]), m = log'[c][i]
          PROVE  m \in Carried \/ m = x
      <4>1. CASE c # b
        BY <2>4, <3>2, <4>1, Zenon DEF Carried, InLog, InStream
      <4>2. CASE c = b /\ i \in 1 .. Len(log[b])
        BY <2>5, <3>2, <4>2 DEF Carried, InLog, InStream
      <4>3. CASE c = b /\ i = Len(log[b]) + 1
        BY <2>5, <3>2, <4>3
      <4> QED BY <2>5, <3>2, <4>1, <4>2, <4>3
    <3> QED BY <3>1, <3>2 DEF Carried, InLog, InStream
  <2> QED BY <1>1, <2>1, <2>3, <2>6, MessageInvNew
<1>11. ASSUME NEW f \in Broker, Send(f) PROVE MessageInv'
  <2> DEFINE b == stream[f].from
             k == stream[f].offset + 1
             q == <<[msg |-> log[b][k], hw |-> part[b].hw]>>
  <2>1. /\ b # NoBroker /\ stream[f].offset < Len(log[b]) /\ log' = log /\ msgs' = msgs
        /\ stream' = [stream EXCEPT ![f].offset = k, ![f].chan = q]
    BY <1>11 DEF Send, LogEndOffset, bounds
  <2>2. b \in Broker /\ k \in 1 .. Len(log[b])
    <3>1. b \in Broker /\ stream[f].offset \in Nat
      BY <1>1, <2>1, StreamFields
    <3> QED BY <1>2, <2>1, <3>1
  <2>3. q[1].msg = log[b][k]
    OBVIOUS
  <2> HIDE DEF q, k, b
  <2>4. stream'[f].chan = q /\ \A g \in Broker : g # f => stream'[g] = stream[g]
    <3>1. stream[f] \in Stream
      BY <1>2
    <3>2. stream'[f] = [stream[f] EXCEPT !.offset = k, !.chan = q]
      BY <1>2, <2>1, Zenon
    <3>3. stream'[f].chan = q
      BY <3>1, <3>2 DEF Stream
    <3> QED BY <1>2, <2>1, <3>3
  <2>5. Carried' \subseteq Carried
    <3> SUFFICES ASSUME NEW m \in Carried' PROVE m \in Carried
      OBVIOUS
    <3>1. ASSUME NEW g \in Broker, stream'[g].chan # << >>, m = stream'[g].chan[1].msg
          PROVE  InLog(m) \/ InStream(m)
      BY <2>2, <2>3, <2>4, <3>1 DEF InLog, InStream
    <3>2. m \in Message /\ (InLog(m) \/ \E g \in Broker :
                               stream'[g].chan # << >> /\ m = stream'[g].chan[1].msg)
      BY <2>1, Zenon DEF Carried, InLog, InStream
    <3> QED BY <3>1, <3>2 DEF Carried
  <2> QED BY <1>1, <2>1, <2>5, MessageInvKept
<1>12. ASSUME NEW f \in Broker, Recv(f) PROVE MessageInv'
  <2> DEFINE m    == stream[f].chan[1].msg
             base == IF m.offset < LogEndOffset(log[f]) THEN TruncatedTo(log[f], m.offset) ELSE log[f]
  <2>1. stream[f].chan # << >> /\ Head(stream[f].chan) = stream[f].chan[1] /\ m \in Message
    <3>1. stream[f].chan \in Seq([msg : Message, hw : Nat])
      BY <1>1, StreamFields, Zenon
    <3>2. stream[f].chan # << >>
      BY <1>12 DEF Recv
    <3>3. Head(stream[f].chan) = stream[f].chan[1] /\ stream[f].chan[1] \in [msg : Message, hw : Nat]
      BY <3>1, <3>2, NonEmptySeq, Zenon
    <3> QED BY <3>2, <3>3
  <2>2. CASE log' = log /\ stream' = [stream EXCEPT ![f] = NoStream]
    <3>1. Quiet
      BY <1>2, <1>12, <2>2 DEF Recv, bounds
    <3> QED BY <1>3, <3>1
  <2>3. CASE /\ log' = [log EXCEPT ![f] = Append(base, m)]
             /\ stream' = [stream EXCEPT ![f].chan = << >>]
    <3>1. /\ base \in Seq(Message) /\ Len(base) <= Len(log[f])
          /\ \A i \in 1 .. Len(base) : base[i] = log[f][i]
      <4>1. m.offset \in Nat
        BY <2>1 DEF Message
      <4> QED BY <1>1, <4>1, BaseIs, Zenon
    <3>2. m \in Carried
      BY <2>1, Zenon DEF Carried, InLog, InStream
    <3>3. msgs' = msgs
      BY <1>12 DEF Recv, bounds
    <3>4. stream'[f].chan = << >> /\ \A g \in Broker : g # f => stream'[g] = stream[g]
      <4>1. stream[f] \in Stream
        BY <1>2
      <4>2. stream'[f] = [stream[f] EXCEPT !.chan = << >>]
        BY <1>2, <2>3, Zenon
      <4>3. stream'[f].chan = << >>
        BY <4>1, <4>2 DEF Stream
      <4> QED BY <1>2, <2>3, <4>3
    <3> HIDE DEF m, base
    <3>5. log'[f] = Append(base, m) /\ \A c \in Broker : c # f => log'[c] = log[c]
      BY <1>2, <2>3
    <3>6. /\ Len(log'[f]) = Len(base) + 1 /\ Len(base) \in Nat /\ Len(log[f]) \in Nat
          /\ log'[f][Len(base) + 1] = m
          /\ \A i \in 1 .. Len(base) : log'[f][i] = base[i]
      BY <1>2, <2>1, <3>1, <3>5
    <3>7. Carried' \subseteq Carried
      <4> SUFFICES ASSUME NEW n \in Carried' PROVE n \in Carried
        OBVIOUS
      <4>1. CASE \E g \in Broker : stream'[g].chan # << >> /\ n = stream'[g].chan[1].msg
        BY <3>4, <4>1 DEF Carried, InLog, InStream
      <4>2. ASSUME NEW c \in Broker, NEW i \in 1 .. Len(log'[c]), n = log'[c][i]
            PROVE  n \in Carried
        <5>1. CASE c # f
          BY <3>5, <4>2, <5>1 DEF Carried, InLog, InStream
        <5>2. CASE c = f /\ i \in 1 .. Len(base)
          <6>1. i \in 1 .. Len(log[f]) /\ n = log[f][i]
            BY <3>1, <3>6, <4>2, <5>2
          <6> QED BY <6>1 DEF Carried, InLog, InStream
        <5>3. CASE c = f /\ i = Len(base) + 1
          BY <3>2, <3>6, <4>2, <5>3
        <5> QED BY <3>6, <4>2, <5>1, <5>2, <5>3
      <4> QED BY <4>1, <4>2 DEF Carried, InLog, InStream
    <3> QED BY <1>1, <3>3, <3>7, MessageInvKept
  <2> QED BY <1>12, <2>1, <2>2, <2>3, Zenon DEF Recv
<1>13. CASE UNCHANGED vars
  BY <1>3, <1>13 DEF vars, bounds
<1> HIDE DEF Quiet
<1> QED BY <1>3, <1>4, <1>5, <1>6, <1>7, <1>8, <1>9, <1>10, <1>11, <1>12, <1>13 DEF Next

\* A message the primary has stays there unless it is a stray, and a promotion leaves
\* behind what the new primary has not.
LEMMA PrimaryInvNext == IInv /\ Step /\ PrimaryInv /\ [Next]_vars => PrimaryInv'
<1> SUFFICES ASSUME IInv, Step, PrimaryInv, [Next]_vars,
                    NEW v \in 1 .. msgs', v \notin strays', v \notin left'
             PROVE  Holds(fsm.primary, v)'
  BY DEF PrimaryInv
<1>1. TypeOK /\ TypeOK' /\ LogKept /\ fsm.primary \in Broker
  BY FsmFields, Zenon DEF IInv, Step
<1>2. log \in [Broker -> Seq(Message)] /\ log' \in [Broker -> Seq(Message)] /\ msgs \in Nat
  <2>1. log \in [Broker -> Seq(Message)] /\ log' \in [Broker -> Seq(Message)]
    BY <1>1, Zenon DEF TypeOK
  <2> QED BY <1>1, <2>1, MsgsFields, Zenon
<1>3. ASSUME NEW b \in Broker, Holds(b, v), v \notin strays PROVE Holds(b, v)'
  <2>1. /\ DOMAIN log[b] = 1 .. Len(log[b]) /\ DOMAIN log'[b] = 1 .. Len(log'[b])
        /\ Len(log[b]) \in Nat /\ Len(log'[b]) \in Nat
    <3>1. log[b] \in Seq(Message) /\ log'[b] \in Seq(Message)
      BY <1>2
    <3> QED BY <3>1
  <2>2. PICK i \in 1 .. Len(log[b]) : log[b][i].val = v
    BY <1>3, <2>1 DEF Holds
  <2>3. i <= Len(log'[b]) /\ log'[b][i] = log[b][i]
    BY <1>1, <1>3, <2>2, Zenon DEF LogKept
  <2>4. i \in DOMAIN log'[b]
    BY <2>1, <2>3
  <2> QED BY <2>2, <2>3, <2>4 DEF Holds
<1>4. ASSUME fsm'.primary = fsm.primary, msgs' = msgs, strays' = strays, left' = left
      PROVE  Holds(fsm.primary, v)'
  BY <1>1, <1>3, <1>4 DEF PrimaryInv, Holds
<1>5. ASSUME NEW b \in Broker, ProduceAppend(b) PROVE Holds(fsm.primary, v)'
  <2>1. /\ msgs' = msgs + 1 /\ fsm' = fsm /\ strays \subseteq strays' /\ left \subseteq left'
        /\ b # fsm.primary => msgs' \in left'
    BY <1>5 DEF ProduceAppend, coordVars
  <2>2. CASE v \in 1 .. msgs
    BY <1>1, <1>3, <2>1, <2>2 DEF PrimaryInv, Holds
  <2>3. CASE v = msgs'
    <3>1. b = fsm.primary
      BY <2>1, <2>3
    <3> DEFINE x == [offset |-> Len(log[b]), val |-> msgs']
    <3>2. log' = [log EXCEPT ![b] = Append(log[b], x)]
      BY <1>2, <1>5 DEF ProduceAppend, AppendTo
    <3>3. x.val = v
      BY <2>3
    <3> HIDE DEF x
    <3>4. log'[b] = Append(log[b], x) /\ log[b] \in Seq(Message)
      BY <1>2, <3>2
    <3>5. Len(log[b]) + 1 \in DOMAIN log'[b] /\ log'[b][Len(log[b]) + 1] = x
      BY <3>4
    <3> QED BY <2>1, <3>1, <3>3, <3>5 DEF Holds
  <2> QED BY <1>2, <2>1, <2>2, <2>3
<1>6. ASSUME NEW b \in Broker, Promote(b) PROVE Holds(fsm.primary, v)'
  <2>1. /\ log' = log /\ msgs' = msgs /\ left' = left \cup {w \in 1 .. msgs : ~Holds(b, w)}
        /\ fsm' = [fsm EXCEPT !.primary = b, !.epoch = @ + 1]
    BY <1>6 DEF Promote, bounds
  <2>2. fsm'.primary = b
    BY <1>1, <2>1 DEF TypeOK
  <2>3. Holds(b, v)
    BY <2>1
  <2> QED BY <2>1, <2>2, <2>3 DEF Holds
<1>7. ASSUME NEW r \in reports, ApplyUpdateISR(r) PROVE Holds(fsm.primary, v)'
  <2>1. /\ fsm' = [fsm EXCEPT !.isr = r.isr, !.isrEpoch = r.epoch] \/ fsm' = fsm
        /\ msgs' = msgs /\ strays' = strays /\ left' = left
    BY <1>7 DEF ApplyUpdateISR, bounds, history
  <2>2. fsm'.primary = fsm.primary
    BY <1>1, <2>1, Zenon DEF TypeOK
  <2> QED BY <1>4, <2>1, <2>2
<1>8. ASSUME NEW b \in Broker, NEW f \in Broker,
             \/ Evict(b, f) \/ ProduceCheck(b) \/ ProduceVisible(b) \/ Connect(f) \/ Send(f)
             \/ Recv(f) \/ Break(f) \/ Crash(b) \/ Restart(b) \/ Age(b) \/ Heartbeat(b)
      PROVE  fsm' = fsm /\ msgs' = msgs /\ strays' = strays /\ left' = left
  BY <1>8, Zenon DEF Evict, ProduceCheck, ProduceVisible, Connect, Send, Recv, Break, Crash, Restart,
     Age, Heartbeat, coordVars, bounds, history
<1>9. ASSUME NEW m \in calls, Deliver(m)
      PROVE  fsm' = fsm /\ msgs' = msgs /\ strays' = strays /\ left' = left
  BY <1>9, Zenon DEF Deliver, bounds, history
<1>10. ASSUME NEW r \in reports, AlterIsr(r)
      PROVE  fsm' = fsm /\ msgs' = msgs /\ strays' = strays /\ left' = left
  BY <1>10, Zenon DEF AlterIsr, bounds, history
<1>11. CASE UNCHANGED vars
  BY <1>4, <1>11, Zenon DEF vars, bounds, history, coordVars
<1> QED BY <1>4, <1>5, <1>6, <1>7, <1>8, <1>9, <1>10, <1>11, Zenon DEF Next

\* The logs of any two brokers agree, unless one of them has a stray or a message
\* left behind: a message that is neither is on the primary, at its offset.
LEMMA LogsAgree ==
  ASSUME TypeOK, MessageInv, PrimaryInv, NEW f \in Broker, NEW b \in Broker
  PROVE  \/ Agree(log[f], log[b])
         \/ \E v \in strays \cup left : Holds(f, v) \/ Holds(b, v)
<1> SUFFICES ASSUME NEW i \in DOMAIN log[f] \cap DOMAIN log[b],
                    \A v \in strays \cup left : ~Holds(f, v) /\ ~Holds(b, v)
             PROVE  log[f][i] = log[b][i]
  BY DEF Agree
<1> DEFINE p == fsm.primary
<1>1. /\ p \in Broker /\ log[f] \in Seq(Message) /\ log[b] \in Seq(Message) /\ log[p] \in Seq(Message)
      /\ msgs \in Nat
  <2>1. \A c \in Broker : log[c] \in Seq(Message)
    BY Zenon DEF TypeOK
  <2>2. p \in Broker
    BY FsmFields, Zenon
  <2>3. msgs \in Nat
    BY MsgsFields, Zenon
  <2> QED BY <2>1, <2>2, <2>3, Zenon
<1>2. \A c \in Broker : DOMAIN log[c] = 1 .. Len(log[c])
  BY LogDomain, Zenon
<1>3. ASSUME NEW c \in {f, b} PROVE i \in DOMAIN log[p] /\ log[p][i] = log[c][i]
  <2> DEFINE m == log[c][i]
  <2>0. c \in Broker /\ i \in 1 .. Len(log[c])
    BY <1>2, Zenon
  <2>1. c \in Broker /\ i \in 1 .. Len(log[c]) /\ m \in Carried
    BY <2>0, LogFields, Zenon DEF Carried, InLog
  <2>2. m \in Message /\ m.val <= msgs /\ m.offset = i - 1
    BY <2>1, LogFields DEF MessageInv
  <2>3. m.val \in 1 .. msgs
    <3>1. m.val \in 1 .. MaxMsgs /\ MaxMsgs \in Nat
      BY <2>2, EpochsAssumption DEF Message
    <3> HIDE DEF m
    <3> QED BY <1>1, <2>2, <3>1
  <2>4. Holds(c, m.val)
    BY <1>2, <2>1 DEF Holds
  <2>5. Holds(p, m.val)
    BY <2>3, <2>4 DEF PrimaryInv
  <2>6. PICK j \in 1 .. Len(log[p]) : log[p][j].val = m.val
    BY <1>1, <1>2, <2>5 DEF Holds
  <2>7. log[p][j] \in Carried /\ log[p][j].offset = j - 1
    BY <1>1, <2>6, LogFields DEF Carried, InLog, InStream
  <2>8. log[p][j] = m
    BY <2>1, <2>6, <2>7 DEF MessageInv
  <2>9. j = i
    BY <2>1, <2>2, <2>6, <2>7, <2>8
  <2> QED BY <1>1, <1>2, <2>6, <2>8, <2>9, Zenon
<1> QED BY <1>3

\* A follower and the leader it reads from have the same messages as far as both logs
\* reach, for any number of brokers, epochs and messages, unless one of them has a
\* stray or a message left behind (partition.go:253-313, coordinator.go:363-398).
THEOREM LogsAgreeUnlessLeftAlways == Spec => []LogsAgreeUnlessLeft
<1>1. Init => MessageInv /\ PrimaryInv
  <2> SUFFICES ASSUME Init PROVE MessageInv /\ PrimaryInv
    OBVIOUS
  <2>1. /\ \A b \in Broker : log[b] = << >> /\ stream[b].chan = << >>
        /\ msgs = 0
    BY DEF Init, NoStream
  <2>2. Carried = {}
    BY <2>1 DEF Carried, InLog, InStream
  <2> QED BY <2>1, <2>2 DEF MessageInv, PrimaryInv
<1>2. IInv /\ [Next]_vars => IInv' /\ Step
  BY IInvNext DEF Step
<1>3. IInv /\ MessageInv /\ PrimaryInv => LogsAgreeUnlessLeft
  BY LogsAgree, Zenon DEF IInv, LogsAgreeUnlessLeft
<1> QED BY <1>1, <1>2, <1>3, IInvariant, MessageInvNext, PrimaryInvNext, PTL DEF Spec
=============================================================================
