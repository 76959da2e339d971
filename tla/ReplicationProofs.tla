------------------------- MODULE ReplicationProofs -------------------------
(***************************************************************************)
(* Proofs about Replication for every set of followers, every payload set, *)
(* batch size and bound.                                                   *)
(***************************************************************************)
EXTENDS Replication, WellFoundedInduction, TLAPS

-----------------------------------------------------------------------------
(* Facts about naturals and logs.                                          *)

\* A non-empty set of naturals has a least element: the minimum that
\* updateReplicaState takes exists for any number of followers.
LEMMA LeastNat ==
  ASSUME NEW T \in SUBSET Nat, T # {}
  PROVE  \E x \in T : \A y \in T : x <= y
<1> DEFINE R == OpToRel(<, Nat)
<1>1. IsWellFoundedOn(R, Nat)
  BY NatLessThanWellFounded, Zenon
<1>2. PICK x \in T : \A y \in T : ~ (<<y, x>> \in R)
  <2> HIDE DEF R
  <2> QED BY <1>1, WFMin, Zenon
<1>3. \A y \in T : ~(y < x)
  BY <1>2, Zenon DEF OpToRel
<1> QED BY <1>3

\* A log is the prefix of another when it is as long at most and agrees with
\* it at every position: prefixes are compared message by message.
LEMMA PrefixByElements ==
  ASSUME NEW S, NEW a \in Seq(S), NEW b \in Seq(S), Len(a) <= Len(b),
         \A i \in 1 .. Len(a) : a[i] = b[i]
  PROVE  a = SubSeq(b, 1, Len(a))
<1> DEFINE c == SubSeq(b, 1, Len(a))
<1>1. Len(a) \in Nat /\ Len(b) \in Nat
  OBVIOUS
<1>2. \A i \in 1 .. Len(a) : b[i] \in S
  BY <1>1
<1>3. c \in Seq(S) /\ Len(c) = Len(a) /\ \A i \in 1 .. Len(a) : c[i] = b[i]
  BY <1>1, <1>2
<1> HIDE DEF c
<1>4. a = c
  BY <1>3
<1> QED BY <1>4 DEF c

\* The first record in flight and those behind it.
LEMMA NonEmptySeq ==
  ASSUME NEW S, NEW s \in Seq(S), s # << >>
  PROVE  /\ Len(s) \in Nat /\ Len(s) >= 1
         /\ Head(s) = s[1] /\ Head(s) \in S
         /\ Tail(s) \in Seq(S)
         /\ Len(Tail(s)) = Len(s) - 1
         /\ \A i \in 1 .. Len(s) - 1 : Tail(s)[i] = s[i + 1]
<1>1. Len(s) \in Nat /\ Len(s) >= 1 /\ Head(s) = s[1]
  OBVIOUS
<1>2. /\ Head(s) \in S /\ Tail(s) \in Seq(S) /\ Len(Tail(s)) = Len(s) - 1
      /\ \A i \in 1 .. Len(Tail(s)) : Tail(s)[i] = s[i + 1]
  OBVIOUS
<1> QED BY <1>1, <1>2

-----------------------------------------------------------------------------
(* The inductive invariant.                                                *)

\* Every message of the leader's log carries its position.
LogOffsets == \A i \in 1 .. Len(log) : log[i].offset = i - 1

LeaderBounds ==
  /\ hw <= Len(log)
  /\ \A f \in Follower : replicas[f].leo <= Len(log)

\* No handler is ahead of the log, a batch being sent lies within it, and
\* streams not yet opened have no handler and no connection.
HandlerBounds ==
  \A f \in Follower, k \in Stream :
    /\ handler[f][k].offset <= Len(log)
    /\ handler[f][k].pc = "send" =>
         handler[f][k].offset < handler[f][k].end /\ handler[f][k].end <= Len(log)
    /\ k > streams[f] => handler[f][k].pc = "none"
    /\ handler[f][k].pc = "none" => ~handler[f][k].open

\* What f has, followed by what is in flight to it, is the log up to the
\* offset of the handler that feeds it.
StreamInOrder(f) ==
  /\ Len(flog[f]) + Len(chan[f]) <= Len(log)
  /\ \A i \in 1 .. Len(flog[f]) : flog[f][i] = log[i]
  /\ \A i \in 1 .. Len(chan[f]) : chan[f][i].msg = log[Len(flog[f]) + i]
  /\ link[f] # "open" => chan[f] = << >>
  /\ link[f] = "open" =>
       /\ streams[f] \in Stream
       /\ handler[f][streams[f]].pc \in {"start", "read", "send", "update"} =>
            handler[f][streams[f]].offset = Len(flog[f]) + Len(chan[f])

\* No watermark a follower has, or is about to get, exceeds the leader's.
FollowerWatermarks(f) ==
  /\ fhw[f] <= hw
  /\ \A i \in 1 .. Len(chan[f]) : chan[f][i].hw <= hw

IInv ==
  /\ TypeOK
  /\ LogOffsets
  /\ LeaderBounds
  /\ HandlerBounds
  /\ \A f \in Follower : StreamInOrder(f) /\ FollowerWatermarks(f)

\* What the invariant says of one follower, and of the log it copies.
LEMMA FollowerFacts ==
  ASSUME IInv, NEW f \in Follower
  PROVE  /\ log \in Seq(Message) /\ Len(log) \in Nat /\ hw \in Nat
         /\ chan[f] \in Seq(Record) /\ Len(chan[f]) \in Nat
         /\ flog[f] \in Seq(Message) /\ Len(flog[f]) \in Nat
         /\ fhw[f] \in Nat
         /\ StreamInOrder(f) /\ FollowerWatermarks(f)
<1>1. /\ log \in Seq(Message) /\ hw \in Nat
      /\ chan[f] \in Seq(Record) /\ flog[f] \in Seq(Message) /\ fhw[f] \in Nat
      /\ StreamInOrder(f) /\ FollowerWatermarks(f)
  BY Zenon DEF IInv, TypeOK
<1>2. Len(log) \in Nat /\ Len(chan[f]) \in Nat /\ Len(flog[f]) \in Nat
  BY <1>1
<1> QED BY <1>1, <1>2, Zenon

-----------------------------------------------------------------------------
(* The high watermark.                                                     *)

\* The minimum of updateReplicaState, monitorISR and scheduleReplicaEviction
\* exists, and is at most the log end and every tracked end of the in-sync set.
LEMMA minISRIs ==
  ASSUME log \in Seq(Message), NEW r \in [Follower -> ReplicaState]
  PROVE  /\ minISR(r) \in Nat
         /\ minISR(r) <= Len(log)
         /\ \A f \in Follower : r[f].tracked /\ r[f].inSync => minISR(r) <= r[f].leo
<1> DEFINE InSync == {g \in Follower : r[g].tracked /\ r[g].inSync}
           ends == {Len(log)} \cup {r[f].leo : f \in InSync}
<1>1. ends \in SUBSET Nat /\ ends # {}
  BY DEF ReplicaState
<1>2. minISR(r) = CHOOSE e \in ends : \A d \in ends : e <= d
  BY DEF minISR, LogEndOffset
<1>3. \A f \in InSync : r[f].leo \in ends
  OBVIOUS
<1>4. Len(log) \in ends
  OBVIOUS
<1>5. \A f \in Follower : r[f].tracked /\ r[f].inSync => f \in InSync
  OBVIOUS
<1> HIDE DEF ends, InSync
<1>6. \E e \in ends : \A d \in ends : e <= d
  BY <1>1, LeastNat
<1>7. minISR(r) \in ends /\ \A d \in ends : minISR(r) <= d
  BY <1>2, <1>6
<1> QED BY <1>1, <1>3, <1>4, <1>5, <1>7, Zenon

\* However the replica map changed, the watermark moves up or stays, within the
\* log, and when it moves it stays within the tracked ends of the in-sync set.
LEMMA AdvanceHWIs ==
  ASSUME log \in Seq(Message), hw \in Nat, hw <= Len(log),
         NEW r \in [Follower -> ReplicaState], AdvanceHW(r)
  PROVE  /\ hw' \in Nat /\ hw' >= hw /\ hw' <= Len(log)
         /\ hw' > hw =>
              \A f \in Follower : r[f].tracked /\ r[f].inSync => r[f].leo >= hw'
<1>1. \A f \in Follower : r[f].leo \in Nat
  BY DEF ReplicaState
<1> QED BY <1>1, minISRIs DEF AdvanceHW
-----------------------------------------------------------------------------
(* Steps of the leader that leave the log and the channels alone.          *)

Active == {"start", "read", "send", "update"}

\* What a handler step does to the handlers of the other streams: nothing.
LEMMA SetHandlerIs ==
  ASSUME handler \in [Follower -> [Stream -> Handler]],
         NEW f \in Follower, NEW k \in Stream, NEW h \in Handler, SetHandler(f, k, h)
  PROVE  /\ handler' \in [Follower -> [Stream -> Handler]]
         /\ handler'[f][k] = h
         /\ \A g \in Follower, j \in Stream :
              g # f \/ j # k => handler'[g][j] = handler[g][j]
<1> DEFINE row == [handler[f] EXCEPT ![k] = h]
<1>1. handler' = [handler EXCEPT ![f] = row]
  BY DEF SetHandler
<1>2. row \in [Stream -> Handler] /\ row[k] = h
      /\ \A j \in Stream : j # k => row[j] = handler[f][j]
  OBVIOUS
<1> HIDE DEF row
<1> QED BY <1>1, <1>2

\* A step under Partition.mu that moves the watermark up within the log, keeps
\* tracked ends within it, and moves no handler keeps the invariant.
LEMMA LeaderStep ==
  ASSUME IInv, UNCHANGED <<log, chan, streams, link, flog, fhw>>,
         pending' \in Nat, breaks' \in 0 .. MaxBreaks,
         hw' \in Nat, hw' >= hw, hw' <= Len(log),
         replicas' \in [Follower -> ReplicaState],
         \A f \in Follower : replicas'[f].leo <= Len(log),
         handler' \in [Follower -> [Stream -> Handler]],
         HandlerBounds',
         \A f \in Follower, k \in Stream :
           handler'[f][k].pc \in Active =>
             handler[f][k].pc \in Active /\ handler'[f][k].offset = handler[f][k].offset
  PROVE  IInv'
<1>1. TypeOK'
  BY DEF IInv, TypeOK
<1>2. LogOffsets' /\ LeaderBounds'
  BY DEF IInv, LogOffsets, LeaderBounds
<1>3. ASSUME NEW f \in Follower PROVE StreamInOrder(f)'
  BY Zenon DEF IInv, StreamInOrder, Active
<1>4. ASSUME NEW f \in Follower PROVE FollowerWatermarks(f)'
  <2>1. \A i \in 1 .. Len(chan[f]) : chan[f][i].hw \in Nat
    <3>1. chan[f] \in Seq(Record)
      BY DEF IInv, TypeOK
    <3>2. \A i \in 1 .. Len(chan[f]) : chan[f][i] \in Record
      BY <3>1
    <3> QED BY <3>2 DEF Record
  <2> QED BY <2>1 DEF IInv, TypeOK, FollowerWatermarks
<1> QED BY <1>1, <1>2, <1>3, <1>4 DEF IInv

\* A step of one handler to state h that keeps its offset keeps HandlerBounds.
LEMMA HandlerStays ==
  ASSUME TypeOK, HandlerBounds, UNCHANGED <<log, streams>>,
         NEW f \in Follower, NEW k \in Stream, NEW h \in Handler, SetHandler(f, k, h),
         h.offset <= Len(log),
         h.pc = "send" => h.offset < h.end /\ h.end <= Len(log),
         handler[f][k].pc # "none", h.pc # "none",
         h.pc \in Active => handler[f][k].pc \in Active /\ h.offset = handler[f][k].offset
  PROVE  /\ handler' \in [Follower -> [Stream -> Handler]]
         /\ HandlerBounds'
         /\ \A g \in Follower, j \in Stream :
              handler'[g][j].pc \in Active =>
                handler[g][j].pc \in Active /\ handler'[g][j].offset = handler[g][j].offset
<1>1. /\ handler' \in [Follower -> [Stream -> Handler]]
      /\ handler'[f][k] = h
      /\ \A g \in Follower, j \in Stream :
           g # f \/ j # k => handler'[g][j] = handler[g][j]
  BY SetHandlerIs DEF TypeOK
<1>2. ~(k > streams[f])
  BY DEF HandlerBounds
<1>3. HandlerBounds'
  BY <1>1, <1>2 DEF HandlerBounds
<1>4. \A g \in Follower, j \in Stream :
        handler'[g][j].pc \in Active =>
          handler[g][j].pc \in Active /\ handler'[g][j].offset = handler[g][j].offset
  BY <1>1
<1> QED BY <1>1, <1>3, <1>4

\* updateReplicaState keeps what the leader tracks within its log.
LEMMA UpdateReplicaStateIs ==
  ASSUME IInv, NEW f \in Follower, NEW fetchOffset \in Nat, fetchOffset <= Len(log),
         updateReplicaState(f, fetchOffset)
  PROVE  /\ hw' \in Nat /\ hw' >= hw /\ hw' <= Len(log)
         /\ replicas' \in [Follower -> ReplicaState]
         /\ \A g \in Follower : replicas'[g].leo <= Len(log)
<1> DEFINE in == ~replicas[f].tracked \/ replicas[f].inSync
                   \/ fetchOffset >= LogEndOffset(log)
           r  == [tracked |-> TRUE, leo |-> fetchOffset, inSync |-> in, aged |-> FALSE]
<1>1. in \in BOOLEAN
  OBVIOUS
<1>2. replicas' = [replicas EXCEPT ![f] = r]
  BY DEF updateReplicaState, UpdatedReplica
<1> HIDE DEF in
<1>3. r \in ReplicaState /\ r.leo = fetchOffset
  BY <1>1 DEF ReplicaState
<1> HIDE DEF r
<1>4. /\ replicas' \in [Follower -> ReplicaState]
      /\ \A g \in Follower : replicas'[g] = IF g = f THEN r ELSE replicas[g]
  BY <1>2, <1>3 DEF IInv, TypeOK
<1>5. \A g \in Follower : replicas'[g].leo <= Len(log)
  BY <1>3, <1>4 DEF IInv, LeaderBounds
<1>6. AdvanceHW(replicas')
  BY DEF updateReplicaState
<1>7. hw' \in Nat /\ hw' >= hw /\ hw' <= Len(log)
  BY <1>4, <1>6, AdvanceHWIs DEF IInv, TypeOK, LeaderBounds
<1> QED BY <1>4, <1>5, <1>7
-----------------------------------------------------------------------------
(* Each action keeps the invariant.                                        *)

\* Produce, first half: the log grows, everything known of it stays true.
LEMMA ProduceAppendKeeps ==
  ASSUME IInv, NEW v \in Value, ProduceAppend(v)
  PROVE  IInv'
<1> DEFINE m == [offset |-> Len(log), val |-> v]
<1>1. log \in Seq(Message) /\ m \in Message /\ m.offset = Len(log)
  BY DEF IInv, TypeOK, Message
<1>2. log' = Append(log, m)
  BY DEF ProduceAppend, AppendTo
<1> HIDE DEF m
<1>3. /\ log' \in Seq(Message)
      /\ Len(log') = Len(log) + 1
      /\ Len(log) \in Nat
      /\ \A i \in 1 .. Len(log) : log'[i] = log[i]
      /\ log'[Len(log) + 1] = m
  BY <1>1, <1>2
<1>4. UNCHANGED <<hw, replicas, handler, chan, streams, link, flog, fhw, breaks>>
      /\ pending' = pending + 1
  BY DEF ProduceAppend, followerVars
<1>5. TypeOK'
  BY <1>3, <1>4 DEF IInv, TypeOK
<1>6. LogOffsets'
  BY <1>1, <1>3 DEF IInv, LogOffsets
<1>7. LeaderBounds'
  <2>1. \A f \in Follower : replicas[f].leo \in Nat
    BY DEF IInv, TypeOK, ReplicaState
  <2> QED BY <2>1, <1>3, <1>4 DEF IInv, TypeOK, LeaderBounds
<1>8. HandlerBounds'
  <2>1. \A f \in Follower, k \in Stream :
          handler[f][k].offset \in Nat /\ handler[f][k].end \in Nat
    BY DEF IInv, TypeOK, Handler
  <2> QED BY <2>1, <1>3, <1>4 DEF IInv, HandlerBounds
<1>9. ASSUME NEW f \in Follower PROVE StreamInOrder(f)' /\ FollowerWatermarks(f)'
  <2>1. Len(flog[f]) \in Nat /\ Len(chan[f]) \in Nat
    BY DEF IInv, TypeOK
  <2>2. StreamInOrder(f)'
    <3> DEFINE a == Len(flog[f])
               b == Len(chan[f])
               n == Len(log)
    <3>1. StreamInOrder(f)
      BY DEF IInv
    <3>2. a \in Nat /\ b \in Nat /\ n \in Nat /\ a + b <= n
      BY <1>3, <2>1, <3>1, Zenon DEF StreamInOrder
    <3>3. Len(log') = n + 1 /\ \A i \in 1 .. n : log'[i] = log[i]
      BY <1>3
    <3>4. /\ \A i \in 1 .. a : flog[f][i] = log[i]
          /\ \A i \in 1 .. b : chan[f][i].msg = log[a + i]
      BY <3>1 DEF StreamInOrder
    <3>5. UNCHANGED <<handler, chan, streams, link, flog>> /\ Len(flog[f]) = a /\ Len(chan[f]) = b
      BY <1>4
    <3> HIDE DEF a, b, n
    <3>6. a + b <= n + 1
      BY <3>2
    <3>7. \A i \in 1 .. a : flog[f][i] = log'[i]
      BY <3>2, <3>3, <3>4
    <3>8. \A i \in 1 .. b : chan[f][i].msg = log'[a + i]
      BY <3>2, <3>3, <3>4
    <3> QED BY <3>1, <3>3, <3>5, <3>6, <3>7, <3>8 DEF StreamInOrder
  <2>3. FollowerWatermarks(f)'
    BY <1>4 DEF IInv, FollowerWatermarks
  <2> QED BY <2>2, <2>3
<1> QED BY <1>5, <1>6, <1>7, <1>8, <1>9 DEF IInv

\* Produce, second half.
LEMMA ProduceFinishKeeps ==
  ASSUME IInv, ProduceFinish
  PROVE  IInv'
<1>1. /\ UNCHANGED <<log, replicas, handler, chan, streams, link, flog, fhw, breaks>>
      /\ pending' \in Nat
  BY DEF IInv, TypeOK, ProduceFinish, followerVars
<1>2. hw' \in Nat /\ hw' >= hw /\ hw' <= Len(log)
  BY DEF IInv, TypeOK, LeaderBounds, ProduceFinish, LogEndOffset
<1>3. HandlerBounds'
  BY <1>1 DEF IInv, HandlerBounds
<1> QED BY <1>1, <1>2, <1>3, LeaderStep DEF IInv, TypeOK, LeaderBounds, Active

\* A handler calls updateReplicaState, for the request or for a batch.
LEMMA HandlerUpdateKeeps ==
  ASSUME IInv, NEW f \in Follower, NEW k \in Stream,
         HandlerStart(f, k) \/ HandlerUpdate(f, k)
  PROVE  IInv'
<1> DEFINE h == [handler[f][k] EXCEPT !.pc = "read"]
<1>1. /\ handler[f][k] \in Handler
      /\ handler[f][k].pc \in {"start", "update"}
      /\ SetHandler(f, k, h)
      /\ updateReplicaState(f, handler[f][k].offset)
      /\ UNCHANGED <<log, pending, chan, streams, link, flog, fhw, breaks>>
  BY DEF IInv, TypeOK, HandlerStart, HandlerUpdate, followerVars
<1>2. h \in Handler /\ h.pc = "read" /\ h.offset = handler[f][k].offset
  BY <1>1 DEF Handler
<1> HIDE DEF h
<1>3. handler[f][k].offset \in Nat /\ handler[f][k].offset <= Len(log)
  BY <1>1 DEF Handler, IInv, HandlerBounds
<1>4. /\ hw' \in Nat /\ hw' >= hw /\ hw' <= Len(log)
      /\ replicas' \in [Follower -> ReplicaState]
      /\ \A g \in Follower : replicas'[g].leo <= Len(log)
  BY <1>1, <1>3, UpdateReplicaStateIs
<1>5. /\ handler' \in [Follower -> [Stream -> Handler]]
      /\ HandlerBounds'
      /\ \A g \in Follower, j \in Stream :
           handler'[g][j].pc \in Active =>
             handler[g][j].pc \in Active /\ handler'[g][j].offset = handler[g][j].offset
  BY <1>1, <1>2, <1>3, HandlerStays DEF IInv, Active
<1> QED BY <1>1, <1>4, <1>5, LeaderStep DEF IInv, TypeOK

\* Steps that touch one handler and nothing else: reading a batch, returning,
\* and learning that the stream is cancelled.
LEMMA HandlerOnlyKeeps ==
  ASSUME IInv, UNCHANGED <<log, hw, replicas, pending, chan, streams, link, flog, fhw>>,
         breaks' \in 0 .. MaxBreaks,
         NEW f \in Follower, NEW k \in Stream, NEW h \in Handler, SetHandler(f, k, h),
         h.offset <= Len(log),
         h.pc = "send" => h.offset < h.end /\ h.end <= Len(log),
         handler[f][k].pc # "none", h.pc # "none",
         h.pc \in Active => handler[f][k].pc \in Active /\ h.offset = handler[f][k].offset
  PROVE  IInv'
<1>1. /\ handler' \in [Follower -> [Stream -> Handler]]
      /\ HandlerBounds'
      /\ \A g \in Follower, j \in Stream :
           handler'[g][j].pc \in Active =>
             handler[g][j].pc \in Active /\ handler'[g][j].offset = handler[g][j].offset
  BY HandlerStays DEF IInv
<1>2. hw' \in Nat /\ hw' >= hw /\ hw' <= Len(log)
  BY DEF IInv, TypeOK, LeaderBounds
<1> QED BY <1>1, <1>2, LeaderStep DEF IInv, TypeOK, LeaderBounds
\* ReadReplica starts a batch.
LEMMA HandlerReadKeeps ==
  ASSUME IInv, NEW f \in Follower, NEW k \in Stream, HandlerRead(f, k)
  PROVE  IInv'
<1> DEFINE old == handler[f][k]
           end == ReadEnd(log, old.offset, BatchSize)
           h   == [old EXCEPT !.pc = "send", !.end = end]
<1>1. /\ old \in Handler /\ old.pc = "read" /\ end > old.offset
      /\ SetHandler(f, k, h)
      /\ UNCHANGED <<log, hw, replicas, pending, chan, streams, link, flog, fhw, breaks>>
  BY DEF IInv, TypeOK, HandlerRead, leaderVars, followerVars
<1>2. old.offset \in Nat /\ old.offset <= Len(log) /\ Len(log) \in Nat
  <2>1. old.offset \in Nat
    BY <1>1, Zenon DEF Handler
  <2>2. old.offset <= Len(log)
    BY <1>1, Zenon DEF IInv, HandlerBounds
  <2> QED BY <2>1, <2>2, FollowerFacts, Zenon
<1>3. end \in Nat /\ end <= Len(log)
  BY <1>2, ReplicationAssumption DEF ReadEnd
<1> HIDE DEF end
<1>4. h \in Handler /\ h.pc = "send" /\ h.offset = old.offset /\ h.end = end
  BY <1>1, <1>3, Zenon DEF Handler
<1> HIDE DEF h
<1> QED
  BY <1>1, <1>2, <1>3, <1>4, HandlerOnlyKeeps, Zenon DEF IInv, TypeOK, Active

\* The handler returns.
LEMMA HandlerReturnKeeps ==
  ASSUME IInv, NEW f \in Follower, NEW k \in Stream, HandlerReturn(f, k)
  PROVE  IInv'
<1>1. /\ handler[f][k].pc # "none"
      /\ SetHandler(f, k, Returned)
      /\ UNCHANGED <<log, hw, replicas, pending, chan, streams, link, flog, fhw, breaks>>
  BY DEF HandlerReturn, leaderVars, followerVars
<1>2. Returned \in Handler /\ Returned.pc = "evict" /\ Returned.offset = 0
  BY DEF Returned, Handler
<1>3. 0 <= Len(log)
  BY DEF IInv, TypeOK
<1> QED BY <1>1, <1>2, <1>3, HandlerOnlyKeeps, Zenon DEF IInv, TypeOK, Active

\* The leader learns that a stream is cancelled.
LEMMA LeaderNoticesKeeps ==
  ASSUME IInv, NEW f \in Follower, NEW k \in Stream, LeaderNotices(f, k)
  PROVE  IInv'
<1> DEFINE h == [handler[f][k] EXCEPT !.open = FALSE]
<1>1. /\ handler[f][k] \in Handler /\ handler[f][k].open
      /\ SetHandler(f, k, h)
      /\ UNCHANGED <<log, hw, replicas, pending, chan, streams, link, flog, fhw>>
  BY DEF IInv, TypeOK, LeaderNotices, leaderVars
<1>2. breaks' \in 0 .. MaxBreaks
  BY ReplicationAssumption DEF IInv, TypeOK, LeaderNotices, Break
<1>3. /\ h \in Handler /\ h.pc = handler[f][k].pc
      /\ h.offset = handler[f][k].offset /\ h.end = handler[f][k].end
  BY <1>1, Zenon DEF Handler
<1> HIDE DEF h
<1>4. handler[f][k].pc # "none"
  BY <1>1 DEF IInv, HandlerBounds
<1>5. /\ h.offset <= Len(log)
      /\ h.pc = "send" => h.offset < h.end /\ h.end <= Len(log)
  BY <1>3 DEF IInv, HandlerBounds
<1> QED BY <1>1, <1>2, <1>3, <1>4, <1>5, HandlerOnlyKeeps

\* Taking followers out of the in-sync set moves no tracked end.
LEMMA EvictedIs ==
  ASSUME IInv, NEW S \in SUBSET Follower, replicas' = Evicted(S), AdvanceHW(replicas')
  PROVE  /\ hw' \in Nat /\ hw' >= hw /\ hw' <= Len(log)
         /\ replicas' \in [Follower -> ReplicaState]
         /\ \A g \in Follower : replicas'[g].leo <= Len(log)
<1>1. ASSUME NEW g \in Follower
      PROVE  replicas'[g] \in ReplicaState /\ replicas'[g].leo = replicas[g].leo
  <2>1. replicas[g] \in ReplicaState
    BY DEF IInv, TypeOK
  <2>2. replicas'[g] = IF g \in S THEN [replicas[g] EXCEPT !.inSync = FALSE]
                                  ELSE replicas[g]
    BY DEF Evicted
  <2> QED BY <2>1, <2>2, Zenon DEF ReplicaState
<1>2. replicas' \in [Follower -> ReplicaState]
  BY <1>1 DEF Evicted
<1>3. hw' \in Nat /\ hw' >= hw /\ hw' <= Len(log)
  BY <1>2, AdvanceHWIs DEF IInv, TypeOK, LeaderBounds
<1> QED BY <1>1, <1>2, <1>3 DEF IInv, LeaderBounds

\* An eviction timer fires.
LEMMA EvictionKeeps ==
  ASSUME IInv, NEW f \in Follower, NEW k \in Stream, scheduleReplicaEviction(f, k)
  PROVE  IInv'
<1> DEFINE h == [handler[f][k] EXCEPT !.pc = "done"]
<1>1. /\ handler[f][k] \in Handler /\ handler[f][k].pc = "evict"
      /\ SetHandler(f, k, h)
      /\ UNCHANGED <<log, pending, chan, streams, link, flog, fhw, breaks>>
  BY DEF IInv, TypeOK, scheduleReplicaEviction, followerVars
<1>2. h \in Handler /\ h.pc = "done" /\ h.offset = handler[f][k].offset
  BY <1>1 DEF Handler
<1> HIDE DEF h
<1>3. h.offset <= Len(log)
  BY <1>2 DEF IInv, HandlerBounds
<1>4. /\ handler' \in [Follower -> [Stream -> Handler]]
      /\ HandlerBounds'
      /\ \A g \in Follower, j \in Stream :
           handler'[g][j].pc \in Active =>
             handler[g][j].pc \in Active /\ handler'[g][j].offset = handler[g][j].offset
  BY <1>1, <1>2, <1>3, HandlerStays DEF IInv, Active
<1>5. /\ hw' \in Nat /\ hw' >= hw /\ hw' <= Len(log)
      /\ replicas' \in [Follower -> ReplicaState]
      /\ \A g \in Follower : replicas'[g].leo <= Len(log)
  <2>1. CASE replicas' = Evicted({f}) /\ AdvanceHW(replicas')
    BY <2>1, EvictedIs, Zenon
  <2>2. CASE UNCHANGED <<hw, replicas>>
    BY <2>2 DEF IInv, TypeOK, LeaderBounds
  <2> QED BY <2>1, <2>2 DEF scheduleReplicaEviction
<1> QED BY <1>1, <1>4, <1>5, LeaderStep DEF IInv, TypeOK

\* A tick of monitorISR, and the passing of time.
LEMMA MonitorKeeps ==
  ASSUME IInv, monitorISR \/ \E f \in Follower : Age(f)
  PROVE  IInv'
<1>1. UNCHANGED <<log, pending, handler, chan, streams, link, flog, fhw, breaks>>
  BY DEF monitorISR, Age, followerVars
<1>2. HandlerBounds'
  BY <1>1 DEF IInv, HandlerBounds
<1>3. /\ hw' \in Nat /\ hw' >= hw /\ hw' <= Len(log)
      /\ replicas' \in [Follower -> ReplicaState]
      /\ \A g \in Follower : replicas'[g].leo <= Len(log)
  <2>1. CASE monitorISR
    BY <2>1, EvictedIs DEF monitorISR, Silent
  <2>2. ASSUME NEW f \in Follower, Age(f) PROVE <1>3
    <3> DEFINE r == [replicas[f] EXCEPT !.aged = TRUE]
    <3>1. r \in ReplicaState /\ r.leo = replicas[f].leo
      BY Zenon DEF IInv, TypeOK, ReplicaState
    <3>2. replicas' = [replicas EXCEPT ![f] = r] /\ hw' = hw
      BY <2>2 DEF Age
    <3> HIDE DEF r
    <3>3. replicas \in [Follower -> ReplicaState] /\ hw \in Nat /\ LeaderBounds
      BY Zenon DEF IInv, TypeOK
    <3> QED BY <3>1, <3>2, <3>3 DEF LeaderBounds
  <2> QED BY <2>1, <2>2
<1> QED BY <1>1, <1>2, <1>3, LeaderStep DEF IInv, TypeOK
\* One message leaves the leader.  On the stream the follower reads from it
\* extends what is in flight; on an abandoned one it changes nothing else.
LEMMA HandlerSendKeeps ==
  ASSUME IInv, NEW f \in Follower, NEW k \in Stream, HandlerSend(f, k)
  PROVE  IInv'
<1> DEFINE old == handler[f][k]
           rec == [msg |-> log[old.offset + 1], hw |-> hw]
           pc  == IF old.offset + 1 = old.end THEN "update" ELSE "send"
           h   == [old EXCEPT !.offset = old.offset + 1, !.pc = pc]
<1>1. /\ old \in Handler /\ old.pc = "send"
      /\ SetHandler(f, k, h)
      /\ chan' = IF Reads(f, k) THEN [chan EXCEPT ![f] = Append(@, rec)] ELSE chan
      /\ UNCHANGED <<log, hw, replicas, pending, streams, link, flog, fhw, breaks>>
  BY DEF IInv, TypeOK, HandlerSend, leaderVars, followerVars
<1>2. /\ old.offset \in Nat /\ old.end \in Nat /\ Len(log) \in Nat
      /\ old.offset < old.end /\ old.end <= Len(log)
  BY <1>1 DEF Handler, IInv, TypeOK, HandlerBounds
<1>3. /\ rec \in Record
      /\ rec.msg = log[old.offset + 1] /\ rec.hw = hw
  BY <1>2 DEF Record, IInv, TypeOK
<1>4. /\ h \in Handler /\ h.offset = old.offset + 1 /\ h.end = old.end /\ h.pc = pc
      /\ pc \in {"update", "send"}
      /\ pc = "send" => old.offset + 1 # old.end
  <2>1. pc \in {"update", "send"} /\ (pc = "send" => old.offset + 1 # old.end)
    OBVIOUS
  <2>2. h \in Handler /\ h.offset = old.offset + 1 /\ h.end = old.end /\ h.pc = pc
    <3> DEFINE next == old.offset + 1
    <3>1. next \in Nat
      BY <1>2
    <3> HIDE DEF pc, next
    <3>2. [old EXCEPT !.offset = next, !.pc = pc] \in Handler
      BY <1>1, <2>1, <3>1, Zenon DEF Handler
    <3>3. /\ [old EXCEPT !.offset = next, !.pc = pc].offset = next
          /\ [old EXCEPT !.offset = next, !.pc = pc].end = old.end
          /\ [old EXCEPT !.offset = next, !.pc = pc].pc = pc
      BY <1>1 DEF Handler
    <3> QED BY <3>2, <3>3 DEF next
  <2> QED BY <2>1, <2>2
<1> HIDE DEF rec, h, pc
<1>5. /\ handler' \in [Follower -> [Stream -> Handler]]
      /\ handler'[f][k] = h
      /\ \A g \in Follower, j \in Stream :
           g # f \/ j # k => handler'[g][j] = handler[g][j]
  <2>1. handler \in [Follower -> [Stream -> Handler]]
    BY Zenon DEF IInv, TypeOK
  <2> QED BY <1>1, <1>4, <2>1, SetHandlerIs, Zenon
<1>6. /\ chan[f] \in Seq(Record) /\ Len(chan[f]) \in Nat
      /\ Append(chan[f], rec) \in Seq(Record)
      /\ Len(Append(chan[f], rec)) = Len(chan[f]) + 1
      /\ \A i \in 1 .. Len(chan[f]) : Append(chan[f], rec)[i] = chan[f][i]
      /\ Append(chan[f], rec)[Len(chan[f]) + 1] = rec
  <2>1. chan[f] \in Seq(Record) /\ Len(chan[f]) \in Nat
    BY FollowerFacts, Zenon
  <2> QED BY <1>3, <2>1
<1>7. /\ chan' \in [Follower -> Seq(Record)]
      /\ \A g \in Follower : g # f => chan'[g] = chan[g]
      /\ chan'[f] = IF Reads(f, k) THEN Append(chan[f], rec) ELSE chan[f]
  BY <1>1, <1>6 DEF IInv, TypeOK
<1>8. TypeOK'
  BY <1>1, <1>5, <1>7 DEF IInv, TypeOK
<1>9. LogOffsets' /\ LeaderBounds'
  BY <1>1 DEF IInv, LogOffsets, LeaderBounds
<1>10. HandlerBounds'
  <2>1. ~(k > streams[f])
    BY <1>1 DEF IInv, HandlerBounds
  <2>2. /\ h.offset <= Len(log)
        /\ h.pc = "send" => h.offset < h.end /\ h.end <= Len(log)
        /\ h.pc # "none"
    BY <1>2, <1>4
  <2>3. ASSUME NEW g \in Follower, NEW j \in Stream
        PROVE  /\ handler'[g][j].offset <= Len(log)
               /\ handler'[g][j].pc = "send" =>
                    handler'[g][j].offset < handler'[g][j].end
                    /\ handler'[g][j].end <= Len(log)
               /\ j > streams[g] => handler'[g][j].pc = "none"
               /\ handler'[g][j].pc = "none" => ~handler'[g][j].open
    <3>1. CASE g = f /\ j = k
      BY <1>5, <2>1, <2>2, <3>1
    <3>2. CASE g # f \/ j # k
      BY <1>5, <3>2 DEF IInv, HandlerBounds
    <3> QED BY <3>1, <3>2
  <2> QED BY <1>1, <2>3 DEF HandlerBounds
<1>11. ASSUME NEW g \in Follower, g # f PROVE StreamInOrder(g)' /\ FollowerWatermarks(g)'
  BY <1>1, <1>5, <1>7, <1>11, Zenon DEF IInv, StreamInOrder, FollowerWatermarks
<1>12. ASSUME Reads(f, k) PROVE StreamInOrder(f)' /\ FollowerWatermarks(f)'
  <2> DEFINE a == Len(flog[f])
             b == Len(chan[f])
  <2>1. link[f] = "open" /\ streams[f] = k /\ StreamInOrder(f)
    BY <1>12 DEF IInv, Reads
  <2>2. /\ old.offset = a + b
        /\ \A i \in 1 .. a : flog[f][i] = log[i]
        /\ \A i \in 1 .. b : chan[f][i].msg = log[a + i]
    BY <1>1, <2>1, Zenon DEF StreamInOrder
  <2>3. a \in Nat /\ b \in Nat
    BY FollowerFacts, Zenon
  <2>4. /\ chan'[f] = Append(chan[f], rec)
        /\ Len(chan'[f]) = b + 1
        /\ \A i \in 1 .. b : chan'[f][i] = chan[f][i]
        /\ chan'[f][b + 1] = rec
    BY <1>6, <1>7, <1>12
  <2>5. StreamInOrder(f)'
    <3>1. Len(flog'[f]) = a /\ flog'[f] = flog[f]
      BY <1>1
    <3> HIDE DEF a, b
    <3>2. ASSUME NEW i \in 1 .. b + 1 PROVE chan'[f][i].msg = log[a + i]
      <4>1. CASE i = b + 1
        <5>1. a + i = (a + b) + 1
          BY <2>3, <4>1
        <5> QED BY <1>3, <2>2, <2>4, <4>1, <5>1
      <4>2. CASE i # b + 1
        <5>1. i \in 1 .. b
          BY <2>3, <4>2
        <5> QED BY <2>2, <2>4, <5>1
      <4> QED BY <4>1, <4>2
    <3>3. a + (b + 1) <= Len(log) /\ h.offset = a + (b + 1)
      BY <1>2, <1>4, <2>2, <2>3
    <3> QED BY <1>1, <1>5, <2>1, <2>2, <2>4, <3>1, <3>2, <3>3 DEF StreamInOrder
  <2>6. \A i \in 1 .. Len(chan'[f]) : chan'[f][i].hw <= hw
    <3>1. \A i \in 1 .. Len(chan[f]) : chan[f][i].hw <= hw
      BY FollowerFacts, Zenon DEF FollowerWatermarks
    <3>2. rec.hw <= hw
      BY <1>3 DEF IInv, TypeOK
    <3> QED BY <2>3, <2>4, <3>1, <3>2
  <2>7. FollowerWatermarks(f)'
    BY <1>1, <2>6 DEF IInv, FollowerWatermarks
  <2> QED BY <2>5, <2>7
<1>13. ASSUME ~Reads(f, k) PROVE StreamInOrder(f)' /\ FollowerWatermarks(f)'
  <2>1. chan'[f] = chan[f]
    BY <1>7, <1>13
  <2>2. link[f] = "open" => handler'[f][streams[f]] = handler[f][streams[f]]
    BY <1>5, <1>13, Zenon DEF Reads, IInv, StreamInOrder
  <2>3. StreamInOrder(f)'
    <3>1. StreamInOrder(f)
      BY DEF IInv
    <3>2. link'[f] = link[f] /\ streams'[f] = streams[f] /\ flog'[f] = flog[f]
      BY <1>1
    <3> QED BY <1>1, <2>1, <2>2, <3>1, <3>2, Zenon DEF StreamInOrder
  <2>4. FollowerWatermarks(f)'
    BY <1>1, <2>1, Zenon DEF IInv, FollowerWatermarks
  <2> QED BY <2>3, <2>4
<1> QED BY <1>8, <1>9, <1>10, <1>11, <1>12, <1>13 DEF IInv
\* A follower opens a stream at its own log end.
LEMMA ConnectKeeps ==
  ASSUME IInv, NEW f \in Follower, Connect(f)
  PROVE  IInv'
<1> DEFINE k == streams[f] + 1
           h == [pc |-> "start", offset |-> Len(flog[f]), end |-> 0, open |-> TRUE]
<1>1. /\ link[f] = "none" /\ k \in Stream
      /\ streams' = [streams EXCEPT ![f] = k]
      /\ link' = [link EXCEPT ![f] = "open"]
      /\ SetHandler(f, k, h)
      /\ UNCHANGED <<log, hw, replicas, pending, chan, flog, fhw, breaks>>
  BY ReplicationAssumption
     DEF Connect, LogEndOffset, leaderVars, IInv, TypeOK, Stream
<1>2. /\ Len(flog[f]) \in Nat /\ Len(flog[f]) <= Len(log)
      /\ chan[f] = << >> /\ Len(chan[f]) = 0
  <2>1. StreamInOrder(f) /\ Len(flog[f]) \in Nat /\ Len(log) \in Nat
    BY FollowerFacts, Zenon
  <2>2. chan[f] = << >> /\ Len(flog[f]) + Len(chan[f]) <= Len(log)
    BY <1>1, <2>1, Zenon DEF StreamInOrder
  <2>3. Len(chan[f]) = 0
    BY <2>2
  <2> QED BY <2>1, <2>2, <2>3
<1>3. h \in Handler /\ h.pc = "start" /\ h.offset = Len(flog[f]) /\ h.open
  BY <1>2 DEF Handler
<1> HIDE DEF h
<1>4. /\ handler' \in [Follower -> [Stream -> Handler]]
      /\ handler'[f][k] = h
      /\ \A g \in Follower, j \in Stream :
           g # f \/ j # k => handler'[g][j] = handler[g][j]
  <2> HIDE DEF k
  <2>1. handler \in [Follower -> [Stream -> Handler]]
    BY Zenon DEF IInv, TypeOK
  <2> QED BY <1>1, <1>3, <2>1, SetHandlerIs, Zenon
<1>5. /\ streams[f] \in Nat
      /\ streams' \in [Follower -> 0 .. MaxBreaks + 1]
      /\ streams'[f] = k
      /\ \A g \in Follower : g # f => streams'[g] = streams[g] /\ link'[g] = link[g]
      /\ link' \in [Follower -> {"none", "open", "dead"}]
      /\ link'[f] = "open"
  BY <1>1, ReplicationAssumption DEF IInv, TypeOK, Stream
<1>6. TypeOK'
  BY <1>1, <1>4, <1>5 DEF IInv, TypeOK
<1>7. LogOffsets' /\ LeaderBounds'
  BY <1>1 DEF IInv, LogOffsets, LeaderBounds
<1>8. HandlerBounds'
  <2>1. ASSUME NEW g \in Follower, NEW j \in Stream
        PROVE  /\ handler'[g][j].offset <= Len(log)
               /\ handler'[g][j].pc = "send" =>
                    handler'[g][j].offset < handler'[g][j].end
                    /\ handler'[g][j].end <= Len(log)
               /\ j > streams'[g] => handler'[g][j].pc = "none"
               /\ handler'[g][j].pc = "none" => ~handler'[g][j].open
    <3>1. CASE g = f /\ j = k
      BY <1>2, <1>3, <1>4, <1>5, <3>1, SMTT(30) DEF Stream
    <3>2. CASE g = f /\ j # k
      <4>1. j > streams'[g] => j > streams[g]
        BY <1>5, <3>2, ReplicationAssumption DEF Stream
      <4> QED BY <1>4, <3>2, <4>1 DEF IInv, HandlerBounds
    <3>3. CASE g # f
      BY <1>4, <1>5, <3>3 DEF IInv, HandlerBounds
    <3> QED BY <3>1, <3>2, <3>3
  <2> QED BY <1>1, <2>1 DEF HandlerBounds
<1>9. ASSUME NEW g \in Follower PROVE StreamInOrder(g)'
  <2>1. CASE g = f
    <3>1. StreamInOrder(f)
      BY DEF IInv
    <3> HIDE DEF k
    <3>2. /\ Len(flog[f]) + Len(chan[f]) <= Len(log)
          /\ \A i \in 1 .. Len(flog[f]) : flog[f][i] = log[i]
          /\ \A i \in 1 .. Len(chan[f]) : chan[f][i].msg = log[Len(flog[f]) + i]
      BY <3>1, Zenon DEF StreamInOrder
    <3>3. Len(flog[f]) + Len(chan[f]) = Len(flog[f])
      BY <1>2
    <3>4. handler'[f][streams'[f]].offset = Len(flog[f]) + Len(chan[f])
      BY <1>3, <1>4, <1>5, <3>3, Zenon
    <3>5. streams'[f] \in Stream
      BY <1>1, <1>5
    <3>6. chan' = chan /\ flog' = flog /\ log' = log
      BY <1>1
    <3> QED BY <1>5, <2>1, <3>2, <3>4, <3>5, <3>6, Zenon DEF StreamInOrder
  <2>2. CASE g # f
    <3>1. StreamInOrder(g)
      BY DEF IInv
    <3> QED BY <1>1, <1>4, <1>5, <2>2, <3>1, Zenon DEF StreamInOrder
  <2> QED BY <2>1, <2>2
<1>10. ASSUME NEW g \in Follower PROVE FollowerWatermarks(g)'
  BY <1>1 DEF IInv, FollowerWatermarks
<1> QED BY <1>6, <1>7, <1>8, <1>9, <1>10 DEF IInv

\* A stream breaks, or its follower dies: what was in flight is lost.
LEMMA BreakKeeps ==
  ASSUME IInv, NEW f \in Follower, StreamBreaks(f) \/ Die(f)
  PROVE  IInv'
<1>1. /\ UNCHANGED <<log, hw, replicas, pending, handler, streams, flog, fhw>>
      /\ chan' = [chan EXCEPT ![f] = << >>]
      /\ \E x \in {"none", "dead"} : link' = [link EXCEPT ![f] = x]
  BY DEF StreamBreaks, Die, leaderVars
<1>2. breaks' \in 0 .. MaxBreaks
  BY ReplicationAssumption DEF IInv, TypeOK, StreamBreaks, Die, Break
<1>3. << >> \in Seq(Record) /\ Len(<< >>) = 0
  OBVIOUS
<1>4. /\ chan' \in [Follower -> Seq(Record)]
      /\ chan'[f] = << >>
      /\ \A g \in Follower : g # f => chan'[g] = chan[g] /\ link'[g] = link[g]
      /\ link' \in [Follower -> {"none", "open", "dead"}]
      /\ link'[f] # "open"
  BY <1>1, <1>3 DEF IInv, TypeOK
<1>5. TypeOK'
  BY <1>1, <1>2, <1>4, Zenon DEF IInv, TypeOK
<1>6. LogOffsets' /\ LeaderBounds' /\ HandlerBounds'
  BY <1>1 DEF IInv, LogOffsets, LeaderBounds, HandlerBounds
<1>7. ASSUME NEW g \in Follower PROVE StreamInOrder(g)'
  <2>1. StreamInOrder(g) /\ Len(flog[g]) \in Nat /\ Len(chan[g]) \in Nat /\ Len(log) \in Nat
    BY DEF IInv, TypeOK
  <2>2. CASE g = f
    <3>1. /\ Len(flog[f]) + Len(chan[f]) <= Len(log)
          /\ \A i \in 1 .. Len(flog[f]) : flog[f][i] = log[i]
      BY <2>1, <2>2, Zenon DEF StreamInOrder
    <3>2. Len(flog[f]) + 0 <= Len(log)
      <4> DEFINE a == Len(flog[f])
                 b == Len(chan[f])
                 n == Len(log)
      <4>1. a \in Nat /\ b \in Nat /\ n \in Nat /\ a + b <= n
        BY <2>1, <2>2, <3>1, Zenon
      <4> HIDE DEF a, b, n
      <4>2. a + 0 <= n
        BY <4>1
      <4> QED BY <4>2 DEF a, n
    <3>3. /\ log' = log /\ flog'[f] = flog[f] /\ link'[f] # "open"
          /\ chan'[f] = << >> /\ Len(chan'[f]) = 0
      BY <1>1, <1>3, <1>4
    <3>4. Len(flog'[f]) + Len(chan'[f]) <= Len(log')
      BY <3>2, <3>3
    <3>5. \A i \in 1 .. Len(flog'[f]) : flog'[f][i] = log'[i]
      BY <3>1, <3>3
    <3>6. \A i \in 1 .. Len(chan'[f]) : chan'[f][i].msg = log'[Len(flog'[f]) + i]
      BY <3>3
    <3> QED BY <2>2, <3>3, <3>4, <3>5, <3>6, Zenon DEF StreamInOrder
  <2>3. CASE g # f
    BY <1>1, <1>4, <2>1, <2>3 DEF StreamInOrder
  <2> QED BY <2>2, <2>3
<1>8. ASSUME NEW g \in Follower PROVE FollowerWatermarks(g)'
  BY <1>1, <1>3, <1>4 DEF IInv, FollowerWatermarks
<1> QED BY <1>5, <1>6, <1>7, <1>8 DEF IInv
\* A record that arrives is the next message of the leader's log: the follower
\* neither truncates nor rejects it.
LEMMA FollowerRecvIs ==
  ASSUME IInv, NEW f \in Follower, FollowerRecv(f)
  PROVE  /\ chan[f] # << >>
         /\ Head(chan[f]) \in Record
         /\ Head(chan[f]).msg = log[Len(flog[f]) + 1]
         /\ flog' = [flog EXCEPT ![f] = Append(flog[f], log[Len(flog[f]) + 1])]
         /\ fhw' = [fhw EXCEPT ![f] = IF Head(chan[f]).hw > fhw[f]
                                      THEN Head(chan[f]).hw ELSE fhw[f]]
         /\ chan' = [chan EXCEPT ![f] = Tail(chan[f])]
         /\ UNCHANGED <<log, hw, replicas, pending, handler, streams, link, breaks>>
<1> DEFINE a == Len(flog[f])
           b == Len(chan[f])
           n == Len(log)
           rec == Head(chan[f])
<1>1. chan[f] \in Seq(Record) /\ chan[f] # << >> /\ StreamInOrder(f)
  BY FollowerFacts, Zenon DEF FollowerRecv
<1>2. b \in Nat /\ b >= 1 /\ rec = chan[f][1] /\ rec \in Record
  BY <1>1, NonEmptySeq
<1>3. a \in Nat /\ n \in Nat /\ a + b <= n
  BY <1>1, FollowerFacts, Zenon DEF StreamInOrder
<1>4. rec.msg = log[a + 1]
  <2>1. \A i \in 1 .. b : chan[f][i].msg = log[a + i]
    BY <1>1, Zenon DEF StreamInOrder
  <2>2. 1 \in 1 .. b
    <3> HIDE DEF b
    <3> QED BY <1>2
  <2> QED BY <1>2, <2>1, <2>2, Zenon
<1>5. a + 1 \in 1 .. n
  <2> HIDE DEF a, b, n
  <2> QED BY <1>2, <1>3
<1>6. log[a + 1].offset = (a + 1) - 1
  BY <1>5 DEF IInv, LogOffsets
<1>7. rec.msg.offset = a
  <2> HIDE DEF a
  <2> QED BY <1>3, <1>4, <1>6
<1>8. ~(rec.msg.offset < LogEndOffset(flog[f])) /\ ReplicaFits(flog[f], rec.msg)
  BY <1>3, <1>7 DEF LogEndOffset, ReplicaFits
<1>9. /\ flog' = [flog EXCEPT ![f] = Append(flog[f], rec.msg)]
      /\ fhw' = [fhw EXCEPT ![f] = IF rec.hw > fhw[f] THEN rec.hw ELSE fhw[f]]
      /\ chan' = [chan EXCEPT ![f] = Tail(chan[f])]
      /\ UNCHANGED <<log, hw, replicas, pending, handler, streams, link, breaks>>
  BY <1>8 DEF FollowerRecv, leaderVars
<1> QED BY <1>1, <1>2, <1>4, <1>9, Zenon

\* The follower appends it and takes over its watermark.
LEMMA FollowerRecvKeeps ==
  ASSUME IInv, NEW f \in Follower, FollowerRecv(f)
  PROVE  IInv'
<1> DEFINE a == Len(flog[f])
           b == Len(chan[f])
           n == Len(log)
           rec == Head(chan[f])
           m == log[a + 1]
           w == IF rec.hw > fhw[f] THEN rec.hw ELSE fhw[f]
<1>1. /\ chan[f] # << >> /\ rec \in Record /\ rec.msg = m
      /\ flog' = [flog EXCEPT ![f] = Append(flog[f], m)]
      /\ fhw' = [fhw EXCEPT ![f] = w]
      /\ chan' = [chan EXCEPT ![f] = Tail(chan[f])]
      /\ UNCHANGED <<log, hw, replicas, pending, handler, streams, link, breaks>>
  BY FollowerRecvIs, Zenon
<1>2. /\ chan[f] \in Seq(Record) /\ flog[f] \in Seq(Message) /\ fhw[f] \in Nat
      /\ m \in Message /\ rec.hw \in Nat /\ hw \in Nat
  BY <1>1, Zenon DEF IInv, TypeOK, Record
<1>3. /\ b \in Nat /\ b >= 1 /\ rec = chan[f][1]
      /\ Tail(chan[f]) \in Seq(Record)
      /\ Len(Tail(chan[f])) = b - 1
      /\ \A i \in 1 .. b - 1 : Tail(chan[f])[i] = chan[f][i + 1]
  BY <1>1, <1>2, NonEmptySeq
<1>4. /\ a \in Nat
      /\ Append(flog[f], m) \in Seq(Message)
      /\ Len(Append(flog[f], m)) = a + 1
      /\ \A i \in 1 .. a : Append(flog[f], m)[i] = flog[f][i]
      /\ Append(flog[f], m)[a + 1] = m
  BY <1>2
<1>5. w \in Nat /\ w <= hw
  <2>1. fhw[f] <= hw /\ rec.hw <= hw
    <3>1. /\ fhw[f] <= hw
          /\ \A i \in 1 .. Len(chan[f]) : chan[f][i].hw <= hw
      BY FollowerFacts, Zenon DEF FollowerWatermarks
    <3> QED BY <1>3, <3>1
  <2> QED BY <1>2, <2>1
<1> HIDE DEF w, rec, m
<1>6. /\ chan' \in [Follower -> Seq(Record)]
      /\ flog' \in [Follower -> Seq(Message)]
      /\ fhw' \in [Follower -> Nat]
      /\ chan'[f] = Tail(chan[f]) /\ flog'[f] = Append(flog[f], m) /\ fhw'[f] = w
      /\ \A g \in Follower :
           g # f => chan'[g] = chan[g] /\ flog'[g] = flog[g] /\ fhw'[g] = fhw[g]
  BY <1>1, <1>3, <1>4, <1>5 DEF IInv, TypeOK
<1>7. TypeOK'
  BY <1>1, <1>6 DEF IInv, TypeOK
<1>8. LogOffsets' /\ LeaderBounds' /\ HandlerBounds'
  BY <1>1 DEF IInv, LogOffsets, LeaderBounds, HandlerBounds
<1>9. StreamInOrder(f)'
  <2>1. StreamInOrder(f)
    BY DEF IInv
  <2>8. link[f] = "open"
    BY <1>1, <2>1 DEF StreamInOrder
  <2>2. /\ a + b <= n
        /\ \A i \in 1 .. a : flog[f][i] = log[i]
        /\ \A i \in 1 .. b : chan[f][i].msg = log[a + i]
        /\ streams[f] \in Stream
        /\ handler[f][streams[f]].pc \in {"start", "read", "send", "update"} =>
             handler[f][streams[f]].offset = a + b
    BY <2>1, <2>8, Zenon DEF StreamInOrder
  <2>3. Len(chan'[f]) = b - 1 /\ Len(flog'[f]) = a + 1
    BY <1>3, <1>4, <1>6
  <2>4. m = log[a + 1]
    BY DEF m
  <2> HIDE DEF a, b, n
  <2>5. (a + 1) + (b - 1) = a + b /\ a + b \in Nat
    BY <1>3, <1>4
  <2>6. ASSUME NEW i \in 1 .. a + 1 PROVE flog'[f][i] = log[i]
    <3>1. CASE i = a + 1
      BY <1>4, <1>6, <2>4, <3>1
    <3>2. CASE i # a + 1
      <4>1. i \in 1 .. a
        BY <1>4, <3>2
      <4> QED BY <1>4, <1>6, <2>2, <4>1
    <3> QED BY <3>1, <3>2
  <2>7. ASSUME NEW i \in 1 .. b - 1 PROVE chan'[f][i].msg = log[(a + 1) + i]
    <3>1. i + 1 \in 1 .. b /\ a + (i + 1) = (a + 1) + i
      BY <1>3, <1>4
    <3>2. chan'[f][i] = chan[f][i + 1]
      BY <1>3, <1>6
    <3>3. chan[f][i + 1].msg = log[a + (i + 1)]
      BY <2>2, <3>1
    <3> QED BY <3>1, <3>2, <3>3
  <2> QED BY <1>1, <2>2, <2>3, <2>5, <2>6, <2>7, <2>8, Zenon DEF StreamInOrder, n
<1>10. FollowerWatermarks(f)'
  <2>1. \A i \in 1 .. b : chan[f][i].hw <= hw
    BY FollowerFacts, Zenon DEF FollowerWatermarks
  <2> HIDE DEF b
  <2>2. \A i \in 1 .. b - 1 : Tail(chan[f])[i].hw <= hw
    BY <1>3, <2>1
  <2>3. /\ hw' = hw /\ fhw'[f] <= hw
        /\ \A i \in 1 .. Len(chan'[f]) : chan'[f][i].hw <= hw
    BY <1>1, <1>3, <1>5, <1>6, <2>2
  <2> QED BY <2>3, Zenon DEF FollowerWatermarks
<1>11. ASSUME NEW g \in Follower, g # f PROVE StreamInOrder(g)' /\ FollowerWatermarks(g)'
  <2>1. StreamInOrder(g) /\ FollowerWatermarks(g)
    BY DEF IInv
  <2>2. StreamInOrder(g)'
    BY <1>1, <1>6, <1>11, <2>1 DEF StreamInOrder
  <2>3. FollowerWatermarks(g)'
    BY <1>1, <1>6, <1>11, <2>1 DEF FollowerWatermarks
  <2> QED BY <2>2, <2>3
<1> QED BY <1>7, <1>8, <1>9, <1>10, <1>11 DEF IInv
-----------------------------------------------------------------------------
(* The invariant, and what follows from it.                                *)

\* The invariant holds of a partition whose followers have not connected yet.
LEMMA InitIInv == Init => IInv
<1> SUFFICES ASSUME Init PROVE IInv
  OBVIOUS
<1>1. << >> \in Seq(Message) /\ << >> \in Seq(Record) /\ Len(<< >>) = 0
  OBVIOUS
<1>2. \A f \in Follower : Len(flog[f]) = 0 /\ Len(chan[f]) = 0
  BY <1>1 DEF Init
<1>3. replicas \in [Follower -> ReplicaState] /\ \A f \in Follower : replicas[f].leo = 0
  BY DEF Init, ReplicaState
<1>4. /\ handler \in [Follower -> [Stream -> Handler]]
      /\ \A f \in Follower, k \in Stream :
           handler[f][k] = [pc |-> "none", offset |-> 0, end |-> 0, open |-> FALSE]
  BY DEF Init, Handler
<1>5. TypeOK
  BY <1>1, <1>3, <1>4, ReplicationAssumption DEF Init, TypeOK
<1>6. LogOffsets /\ LeaderBounds
  BY <1>1, <1>3 DEF Init, LogOffsets, LeaderBounds
<1>7. HandlerBounds
  BY <1>1, <1>4 DEF Init, HandlerBounds
<1>8. \A f \in Follower : StreamInOrder(f) /\ FollowerWatermarks(f)
  BY <1>1, <1>2 DEF Init, StreamInOrder, FollowerWatermarks
<1> QED BY <1>5, <1>6, <1>7, <1>8 DEF IInv

\* Every step keeps the invariant.
LEMMA NextIInv == IInv /\ [Next]_vars => IInv'
<1> SUFFICES ASSUME IInv, [Next]_vars PROVE IInv'
  OBVIOUS
<1>1. CASE \E v \in Value : ProduceAppend(v)
  BY <1>1, ProduceAppendKeeps
<1>2. CASE ProduceFinish
  BY <1>2, ProduceFinishKeeps
<1>3. CASE \E f \in Follower, k \in Stream : HandlerStep(f, k)
  BY <1>3, HandlerUpdateKeeps, HandlerReadKeeps, HandlerSendKeeps, HandlerReturnKeeps
     DEF HandlerStep
<1>4. CASE \E f \in Follower, k \in Stream : scheduleReplicaEviction(f, k)
  BY <1>4, EvictionKeeps
<1>5. CASE \E f \in Follower, k \in Stream : LeaderNotices(f, k)
  BY <1>5, LeaderNoticesKeeps
<1>6. CASE monitorISR \/ \E f \in Follower : Age(f)
  BY <1>6, MonitorKeeps
<1>7. CASE \E f \in Follower : Connect(f)
  BY <1>7, ConnectKeeps
<1>8. CASE \E f \in Follower : FollowerRecv(f)
  BY <1>8, FollowerRecvKeeps
<1>9. CASE \E f \in Follower : StreamBreaks(f) \/ Die(f)
  BY <1>9, BreakKeeps
<1>10. CASE UNCHANGED vars
  <2>1. UNCHANGED <<log, hw, replicas, pending, handler, streams, link, chan, flog, fhw,
                    breaks>>
    BY <1>10 DEF vars
  <2> QED BY <2>1, Zenon DEF IInv, TypeOK, LogOffsets, LeaderBounds, HandlerBounds,
                      StreamInOrder, FollowerWatermarks
<1> QED BY <1>1, <1>2, <1>3, <1>4, <1>5, <1>6, <1>7, <1>8, <1>9, <1>10 DEF Next

\* The invariant holds in every reachable state.
LEMMA IInvariant == Spec => []IInv
BY InitIInv, NextIInv, PTL DEF Spec

\* Every variable keeps its type, for any number of followers, streams and
\* messages.
THEOREM TypeCorrect == Spec => []TypeOK
BY IInvariant, PTL DEF IInv

\* However streams break and handlers linger, each follower's log is a prefix
\* of the leader's (replicationLoop, FetchReplica).
THEOREM FollowerLogIsPrefixAlways == Spec => []FollowerLogIsPrefix
<1>1. IInv => FollowerLogIsPrefix
  <2> SUFFICES ASSUME IInv, NEW f \in Follower
               PROVE  /\ Len(flog[f]) <= Len(log)
                      /\ flog[f] = SubSeq(log, 1, Len(flog[f]))
    BY DEF FollowerLogIsPrefix
  <2> DEFINE a == Len(flog[f])
             b == Len(chan[f])
             n == Len(log)
  <2>1. /\ flog[f] \in Seq(Message) /\ log \in Seq(Message)
        /\ a \in Nat /\ b \in Nat /\ n \in Nat /\ StreamInOrder(f)
    BY DEF IInv, TypeOK
  <2>2. \A i \in 1 .. a : flog[f][i] = log[i]
    BY <2>1, Zenon DEF StreamInOrder
  <2>3. a <= n
    <3>1. a \in Nat /\ b \in Nat /\ n \in Nat /\ a + b <= n
      BY <2>1, Zenon DEF StreamInOrder
    <3> HIDE DEF a, b, n
    <3> QED BY <3>1
  <2> QED BY <2>1, <2>2, <2>3, PrefixByElements
<1> QED BY <1>1, IInvariant, PTL

\* Neither a tracked end nor a watermark is ever ahead of what it speaks of
\* (updateReplicaState, replicationLoop).
THEOREM WatermarksBoundedAlways == Spec => []WatermarksBounded
<1>1. IInv => WatermarksBounded
  BY DEF IInv, LeaderBounds, FollowerWatermarks, WatermarksBounded, LogEndOffset
<1> QED BY <1>1, IInvariant, PTL

\* What a step does to the leader's watermark.
LEMMA WatermarkStep ==
  ASSUME IInv, [Next]_vars
  PROVE  /\ hw' >= hw
         /\ hw' > hw => \A f \in Follower :
              replicas'[f].tracked /\ replicas'[f].inSync => replicas'[f].leo >= hw'
<1>1. hw \in Nat /\ log \in Seq(Message) /\ Len(log) \in Nat /\ hw <= Len(log)
  BY DEF IInv, TypeOK, LeaderBounds
<1>2. replicas' \in [Follower -> ReplicaState]
  BY NextIInv DEF IInv, TypeOK
<1>3. CASE AdvanceHW(replicas')
  BY <1>1, <1>2, <1>3, AdvanceHWIs
<1>4. CASE ProduceFinish
  BY <1>1, <1>4 DEF ProduceFinish, LogEndOffset
<1>5. CASE UNCHANGED hw
  BY <1>1, <1>5
<1>6. AdvanceHW(replicas') \/ ProduceFinish \/ UNCHANGED hw
  <2>1. CASE \E f \in Follower, k \in Stream : HandlerStep(f, k)
    BY <2>1 DEF HandlerStep, HandlerStart, HandlerRead, HandlerSend, HandlerUpdate,
                HandlerReturn, updateReplicaState, leaderVars
  <2>2. CASE \E f \in Follower, k \in Stream :
               scheduleReplicaEviction(f, k) \/ LeaderNotices(f, k)
    BY <2>2 DEF scheduleReplicaEviction, LeaderNotices, leaderVars
  <2>3. CASE \E f \in Follower :
               Age(f) \/ Connect(f) \/ FollowerRecv(f) \/ StreamBreaks(f) \/ Die(f)
    BY <2>3, Zenon DEF Age, Connect, FollowerRecv, StreamBreaks, Die, leaderVars
  <2>4. CASE monitorISR \/ ProduceFinish \/ \E v \in Value : ProduceAppend(v)
    BY <2>4 DEF monitorISR, ProduceAppend
  <2>5. CASE UNCHANGED vars
    BY <2>5 DEF vars
  <2> QED BY <2>1, <2>2, <2>3, <2>4, <2>5 DEF Next
<1> QED BY <1>3, <1>4, <1>5, <1>6

\* What a step does to the followers' logs and watermarks.
LEMMA FollowerStep ==
  ASSUME IInv, [Next]_vars, NEW g \in Follower
  PROVE  /\ fhw'[g] >= fhw[g]
         /\ Len(flog[g]) <= Len(flog'[g])
         /\ SubSeq(flog'[g], 1, Len(flog[g])) = flog[g]
<1>1. fhw[g] \in Nat /\ flog[g] \in Seq(Message) /\ Len(flog[g]) \in Nat
  BY DEF IInv, TypeOK
<1>2. CASE UNCHANGED <<flog, fhw>>
  <2>1. flog[g] = SubSeq(flog[g], 1, Len(flog[g]))
    BY <1>1, PrefixByElements
  <2> QED BY <1>1, <1>2, <2>1
<1>3. ASSUME NEW f \in Follower, FollowerRecv(f)
      PROVE  /\ fhw'[g] >= fhw[g]
             /\ Len(flog[g]) <= Len(flog'[g])
             /\ SubSeq(flog'[g], 1, Len(flog[g])) = flog[g]
  <2> DEFINE m == log[Len(flog[f]) + 1]
             w == IF Head(chan[f]).hw > fhw[f] THEN Head(chan[f]).hw ELSE fhw[f]
  <2>1. /\ flog' = [flog EXCEPT ![f] = Append(flog[f], m)]
        /\ fhw' = [fhw EXCEPT ![f] = w]
        /\ Head(chan[f]) \in Record /\ Head(chan[f]).msg = m
    BY <1>3, FollowerRecvIs
  <2>2. m \in Message /\ Head(chan[f]).hw \in Nat
    BY <2>1 DEF Record
  <2>3. fhw[f] \in Nat /\ w >= fhw[f]
    BY <2>2 DEF IInv, TypeOK
  <2> HIDE DEF m, w
  <2>4. fhw'[g] >= fhw[g]
    BY <1>1, <2>1, <2>3 DEF IInv, TypeOK
  <2>5. flog'[g] = IF g = f THEN Append(flog[g], m) ELSE flog[g]
    BY <2>1 DEF IInv, TypeOK
  <2>6. /\ flog'[g] \in Seq(Message)
        /\ Len(flog[g]) <= Len(flog'[g])
        /\ \A i \in 1 .. Len(flog[g]) : flog[g][i] = flog'[g][i]
    BY <1>1, <2>2, <2>5
  <2>7. flog[g] = SubSeq(flog'[g], 1, Len(flog[g]))
    BY <1>1, <2>6, PrefixByElements
  <2> QED BY <2>4, <2>6, <2>7
<1>4. UNCHANGED <<flog, fhw>> \/ \E f \in Follower : FollowerRecv(f)
  <2>1. CASE \E f \in Follower, k \in Stream : HandlerStep(f, k)
    BY <2>1 DEF HandlerStep, HandlerStart, HandlerRead, HandlerSend, HandlerUpdate,
                HandlerReturn, followerVars
  <2>2. CASE \E f \in Follower, k \in Stream :
               scheduleReplicaEviction(f, k) \/ LeaderNotices(f, k)
    BY <2>2 DEF scheduleReplicaEviction, LeaderNotices, followerVars
  <2>3. CASE \E f \in Follower : Age(f) \/ Connect(f) \/ StreamBreaks(f) \/ Die(f)
    BY <2>3 DEF Age, Connect, StreamBreaks, Die, followerVars
  <2>4. CASE monitorISR \/ ProduceFinish \/ \E v \in Value : ProduceAppend(v)
    BY <2>4 DEF monitorISR, ProduceFinish, ProduceAppend, followerVars
  <2>5. CASE UNCHANGED vars
    BY <2>5 DEF vars
  <2> QED BY <2>1, <2>2, <2>3, <2>4, <2>5 DEF Next
<1> QED BY <1>2, <1>3, <1>4

\* No step of leader, followers or timers takes a watermark back.
THEOREM WatermarksNeverDecreaseAlways == Spec => WatermarksNeverDecrease
<1>1. IInv /\ [Next]_vars =>
        [hw' >= hw /\ \A f \in Follower : fhw'[f] >= fhw[f]]_vars
  BY WatermarkStep, FollowerStep
<1> QED BY <1>1, IInvariant, PTL DEF Spec, WatermarksNeverDecrease

\* A watermark that moves stays within the tracked end of every in-sync
\* follower, whichever code path moves it.
THEOREM AdvanceCoversInSyncAlways == Spec => AdvanceCoversInSync
<1>1. IInv /\ [Next]_vars =>
        [hw' > hw => \A f \in Follower :
           replicas'[f].tracked /\ replicas'[f].inSync => replicas'[f].leo >= hw']_vars
  BY WatermarkStep
<1> QED BY <1>1, IInvariant, PTL DEF Spec, AdvanceCoversInSync

\* No follower ever discards a message within an epoch.
THEOREM FollowersKeepMessagesAlways == Spec => FollowersKeepMessages
<1>1. IInv /\ [Next]_vars =>
        [\A f \in Follower : /\ Len(flog[f]) <= Len(flog'[f])
                            /\ SubSeq(flog'[f], 1, Len(flog[f])) = flog[f]]_vars
  BY FollowerStep
<1> QED BY <1>1, IInvariant, PTL DEF Spec, FollowersKeepMessages

=============================================================================
