---------------------------- MODULE Replication ----------------------------
(***************************************************************************)
(* Replication of one partition from its leader to its followers within    *)
(* one leader epoch (src/internal/broker/partition.go and FetchReplica of  *)
(* src/internal/broker/broker.go).                                         *)
(*                                                                         *)
(* The leader appends what producers send, runs one FetchReplica handler   *)
(* per stream a follower has opened, tracks where each follower is, and    *)
(* derives the high watermark from it; monitorISR and the eviction timers  *)
(* take silent followers out of the in-sync set.  A follower opens a       *)
(* stream at its own log end, appends what arrives on it, and opens the    *)
(* next one when it breaks.  The leader may notice a break long after the  *)
(* follower has: handlers of several streams of one follower coexist.      *)
(*                                                                         *)
(* Each action runs under Partition.mu, or touches only the log, which has *)
(* a mutex of its own, or is a step of the one goroutine that owns what it *)
(* changes.                                                                *)
(***************************************************************************)
EXTENDS Log

CONSTANTS
  Follower,    \* the followers of the partition
  Mortal,      \* those that may stop for good
  Value,       \* message payloads
  BatchSize,   \* messages one ReadReplica returns at most (64 in the code)
  MaxLen,      \* bound: messages produced
  MaxBreaks    \* bound: connections that break

ASSUME ReplicationAssumption ==
  /\ Mortal \subseteq Follower
  /\ BatchSize \in Nat \ {0}
  /\ MaxLen \in Nat
  /\ MaxBreaks \in Nat

VARIABLES
  log,       \* the leader's log
  hw,        \* the leader's high watermark
  replicas,  \* Partition.replicas, and how long ago lastFetchTime is
  pending,   \* Append calls between their log.Append and their hw update
  handler,   \* handler[f][k]: the FetchReplica handler of f's k-th stream
  streams,   \* streams[f]: how many streams f has opened
  link,      \* link[f]: where f's replicationLoop is
  chan,      \* chan[f]: records in flight on the stream f reads from
  flog,      \* flog[f]: the log of follower f
  fhw,       \* fhw[f]: the high watermark of follower f
  breaks     \* how many connections have broken

leaderVars   == <<log, hw, replicas, pending>>
followerVars == <<streams, link, flog, fhw, breaks>>
vars == <<log, hw, replicas, pending, handler, streams, link, chan, flog, fhw,
          breaks>>

Message == [offset : Nat, val : Value]
Record  == [msg : Message, hw : Nat]
Stream  == 1 .. MaxBreaks + 1

\* aged: lastFetchTime is further back than isrTimeout and than the grace of
\* scheduleReplicaEviction.
ReplicaState == [tracked : BOOLEAN, leo : Nat, inSync : BOOLEAN, aged : BOOLEAN]

\* A handler is about to call updateReplicaState for the request ("start"), to
\* read or wait for data ("read"), to send the rest of a batch ("send"), to
\* call updateReplicaState for the batch ("update"); or it has returned and
\* its eviction timer runs ("evict") or has fired ("done").
Handler == [pc : {"none", "start", "read", "send", "update", "evict", "done"},
            offset : Nat, end : Nat, open : BOOLEAN]

TypeOK ==
  /\ log \in Seq(Message)
  /\ hw \in Nat
  /\ replicas \in [Follower -> ReplicaState]
  /\ pending \in Nat
  /\ handler \in [Follower -> [Stream -> Handler]]
  /\ streams \in [Follower -> 0 .. MaxBreaks + 1]
  /\ link \in [Follower -> {"none", "open", "dead"}]
  /\ chan \in [Follower -> Seq(Record)]
  /\ flog \in [Follower -> Seq(Message)]
  /\ fhw \in [Follower -> Nat]
  /\ breaks \in 0 .. MaxBreaks

\* A step of the handler of f's k-th stream that leaves it in state h.
SetHandler(f, k, h) == handler' = [handler EXCEPT ![f][k] = h]

-----------------------------------------------------------------------------
(* The high watermark.                                                     *)

\* The least of the leader's log end and the tracked ends of the in-sync
\* replicas in r.
minISR(r) ==
  LET ends == {LogEndOffset(log)} \cup
              {r[f].leo : f \in {g \in Follower : r[g].tracked /\ r[g].inSync}}
  IN  CHOOSE e \in ends : \A d \in ends : e <= d

\* Mutant: the watermark follows the minimum downwards too.
AdvanceHWAlways(r) == hw' = minISR(r)

AdvanceHW(r) == hw' = IF minISR(r) > hw THEN minISR(r) ELSE hw

-----------------------------------------------------------------------------
(* Partition.Append, which Produce calls: log.Append, then the watermark   *)
(* under Partition.mu.                                                     *)

ProduceAppend(v) ==
  /\ Len(log) < MaxLen
  /\ log' = AppendTo(log, v)
  /\ pending' = pending + 1
  /\ UNCHANGED <<hw, replicas, handler, chan, followerVars>>

\* Mutant: the watermark moves although followers are tracked.
ProduceFinishUnguarded ==
  /\ pending > 0
  /\ pending' = pending - 1
  /\ hw' = LogEndOffset(log)
  /\ UNCHANGED <<log, replicas, handler, chan, followerVars>>

ProduceFinish ==
  /\ pending > 0
  /\ pending' = pending - 1
  /\ hw' = IF \E f \in Follower : replicas[f].tracked THEN hw ELSE LogEndOffset(log)
  /\ UNCHANGED <<log, replicas, handler, chan, followerVars>>

-----------------------------------------------------------------------------
(* FetchReplica and updateReplicaState.                                    *)

\* Mutant: the tracked end is one ahead of what was sent.
UpdatedReplicaAhead(f, fetchOffset) ==
  [replicas EXCEPT ![f] =
     [tracked |-> TRUE,
      leo     |-> fetchOffset + 1,
      inSync  |-> ~replicas[f].tracked \/ replicas[f].inSync
                    \/ fetchOffset >= LogEndOffset(log),
      aged    |-> FALSE]]

\* Mutant: the tracked end is the last offset instead of the one behind it.
UpdatedReplicaBehind(f, fetchOffset) ==
  [replicas EXCEPT ![f] =
     [tracked |-> TRUE,
      leo     |-> fetchOffset - 1,
      inSync  |-> ~replicas[f].tracked \/ replicas[f].inSync
                    \/ fetchOffset >= LogEndOffset(log),
      aged    |-> FALSE]]

\* The replica map after updateReplicaState: an unknown follower enters in
\* sync, one that fell out comes back when it is at the log end.
UpdatedReplica(f, fetchOffset) ==
  [replicas EXCEPT ![f] =
     [tracked |-> TRUE,
      leo     |-> fetchOffset,
      inSync  |-> ~replicas[f].tracked \/ replicas[f].inSync
                    \/ fetchOffset >= LogEndOffset(log),
      aged    |-> FALSE]]

updateReplicaState(f, fetchOffset) ==
  /\ replicas' = UpdatedReplica(f, fetchOffset)
  /\ AdvanceHW(replicas')

HandlerStart(f, k) ==
  /\ handler[f][k].pc = "start"
  /\ updateReplicaState(f, handler[f][k].offset)
  /\ SetHandler(f, k, [handler[f][k] EXCEPT !.pc = "read"])
  /\ UNCHANGED <<log, pending, chan, followerVars>>

\* Mutant: the handler waits until two messages are there.
HandlerReadLate(f, k) ==
  LET h   == handler[f][k]
      end == ReadEnd(log, h.offset, BatchSize)
  IN  /\ h.pc = "read"
      /\ end > h.offset + 1
      /\ SetHandler(f, k, [h EXCEPT !.pc = "send", !.end = end])
      /\ UNCHANGED <<leaderVars, chan, followerVars>>

\* ReadReplica when there is something to read; otherwise WaitForData blocks.
HandlerRead(f, k) ==
  LET h   == handler[f][k]
      end == ReadEnd(log, h.offset, BatchSize)
  IN  /\ h.pc = "read"
      /\ end > h.offset
      /\ SetHandler(f, k, [h EXCEPT !.pc = "send", !.end = end])
      /\ UNCHANGED <<leaderVars, chan, followerVars>>

\* f reads from its k-th stream.
Reads(f, k) == link[f] = "open" /\ streams[f] = k

\* Mutant: the record carries the payload of the end of the batch.
HandlerSendAliased(f, k) ==
  LET h   == handler[f][k]
      rec == [msg |-> [log[h.offset + 1] EXCEPT !.val = log[h.end].val], hw |-> hw]
  IN  /\ h.pc = "send"
      /\ SetHandler(f, k, [h EXCEPT
           !.offset = h.offset + 1,
           !.pc     = IF h.offset + 1 = h.end THEN "update" ELSE "send"])
      /\ chan' = IF Reads(f, k) THEN [chan EXCEPT ![f] = Append(@, rec)] ELSE chan
      /\ UNCHANGED <<leaderVars, followerVars>>

\* stream.Send of one message with the watermark of that moment.  A record sent
\* on a stream the follower has left goes nowhere.
HandlerSend(f, k) ==
  LET h   == handler[f][k]
      rec == [msg |-> log[h.offset + 1], hw |-> hw]
  IN  /\ h.pc = "send"
      /\ SetHandler(f, k, [h EXCEPT
           !.offset = h.offset + 1,
           !.pc     = IF h.offset + 1 = h.end THEN "update" ELSE "send"])
      /\ chan' = IF Reads(f, k) THEN [chan EXCEPT ![f] = Append(@, rec)] ELSE chan
      /\ UNCHANGED <<leaderVars, followerVars>>

\* Mutant: the batch is sent and not recorded.
HandlerUpdateNot(f, k) ==
  /\ handler[f][k].pc = "update"
  /\ SetHandler(f, k, [handler[f][k] EXCEPT !.pc = "read"])
  /\ UNCHANGED <<leaderVars, chan, followerVars>>

HandlerUpdate(f, k) ==
  /\ handler[f][k].pc = "update"
  /\ updateReplicaState(f, handler[f][k].offset)
  /\ SetHandler(f, k, [handler[f][k] EXCEPT !.pc = "read"])
  /\ UNCHANGED <<log, pending, chan, followerVars>>

\* A handler that has returned; its locals are gone.
Returned == [pc |-> "evict", offset |-> 0, end |-> 0, open |-> FALSE]

\* The handler returns: Send fails, WaitForData ends because the context is
\* done, or ReadReplica rejects the offset.
HandlerReturn(f, k) ==
  LET h == handler[f][k]
  IN  /\ \/ h.pc \in {"read", "send"} /\ ~h.open
         \/ h.pc = "read" /\ ~ReadInRange(log, h.offset)
      /\ SetHandler(f, k, Returned)
      /\ UNCHANGED <<leaderVars, chan, followerVars>>

-----------------------------------------------------------------------------
(* The in-sync set: scheduleReplicaEviction and monitorISR.                *)

\* The replica map with the followers of S out of sync.
Evicted(S) ==
  [f \in Follower |-> IF f \in S THEN [replicas[f] EXCEPT !.inSync = FALSE]
                                 ELSE replicas[f]]

\* The timer of a returned handler fires.  Its follower has been silent for the
\* whole grace unless the handler of another stream has updated lastFetchTime.
scheduleReplicaEviction(f, k) ==
  /\ handler[f][k].pc = "evict"
  /\ SetHandler(f, k, [handler[f][k] EXCEPT !.pc = "done"])
  /\ \/ /\ replicas[f].aged /\ replicas[f].inSync
        /\ replicas' = Evicted({f})
        /\ AdvanceHW(replicas')
     \/ /\ ~replicas[f].inSync \/ (/\ ~replicas[f].aged
                                 /\ \E i \in Stream \ {k} : handler[f][i].pc # "none")
        /\ UNCHANGED <<hw, replicas>>
  /\ UNCHANGED <<log, pending, chan, followerVars>>

Silent == {f \in Follower : replicas[f].inSync /\ replicas[f].aged}

\* A tick at which some follower has been silent for too long.
monitorISR ==
  /\ Silent # {}
  /\ replicas' = Evicted(Silent)
  /\ AdvanceHW(replicas')
  /\ UNCHANGED <<log, pending, handler, chan, followerVars>>

\* Time passes without a fetch of f.  Only the age of an in-sync replica matters.
Age(f) ==
  /\ replicas[f].inSync /\ ~replicas[f].aged
  /\ replicas' = [replicas EXCEPT ![f].aged = TRUE]
  /\ UNCHANGED <<log, hw, pending, handler, chan, followerVars>>

-----------------------------------------------------------------------------
(* The follower: replicationLoop.                                          *)

\* Mutant: the stream is opened at the watermark instead of at the log end.
ConnectAtHW(f) ==
  LET k == streams[f] + 1
  IN  /\ link[f] = "none" /\ streams[f] <= MaxBreaks
      /\ streams' = [streams EXCEPT ![f] = k]
      /\ link' = [link EXCEPT ![f] = "open"]
      /\ SetHandler(f, k,
           [pc |-> "start", offset |-> fhw[f], end |-> 0, open |-> TRUE])
      /\ UNCHANGED <<leaderVars, chan, flog, fhw, breaks>>

Connect(f) ==
  LET k == streams[f] + 1
  IN  /\ link[f] = "none" /\ streams[f] <= MaxBreaks
      /\ streams' = [streams EXCEPT ![f] = k]
      /\ link' = [link EXCEPT ![f] = "open"]
      /\ SetHandler(f, k,
           [pc |-> "start", offset |-> LogEndOffset(flog[f]), end |-> 0, open |-> TRUE])
      /\ UNCHANGED <<leaderVars, chan, flog, fhw, breaks>>

\* Recv: divergence check and truncation, AppendReplica, watermark.  A record
\* that does not fit ends the stream.
FollowerRecv(f) ==
  LET rec  == Head(chan[f])
      base == IF rec.msg.offset < LogEndOffset(flog[f])
              THEN TruncatedTo(flog[f], rec.msg.offset) ELSE flog[f]
  IN  /\ link[f] = "open" /\ chan[f] # << >>
      /\ IF ReplicaFits(base, rec.msg)
         THEN /\ flog' = [flog EXCEPT ![f] = Append(base, rec.msg)]
              /\ fhw' = [fhw EXCEPT ![f] = IF rec.hw > @ THEN rec.hw ELSE @]
              /\ chan' = [chan EXCEPT ![f] = Tail(@)]
              /\ UNCHANGED link
         ELSE /\ link' = [link EXCEPT ![f] = "none"]
              /\ chan' = [chan EXCEPT ![f] = << >>]
              /\ UNCHANGED <<flog, fhw>>
      /\ UNCHANGED <<leaderVars, handler, streams, breaks>>

\* One more connection breaks, within the bound.
Break == breaks < MaxBreaks /\ breaks' = breaks + 1

\* Recv returns an error and the records in flight are lost, because the
\* connection breaks or the leader's end of the stream is gone.
StreamBreaks(f) ==
  /\ link[f] = "open"
  /\ IF handler[f][streams[f]].open THEN Break ELSE UNCHANGED breaks
  /\ link' = [link EXCEPT ![f] = "none"]
  /\ chan' = [chan EXCEPT ![f] = << >>]
  /\ UNCHANGED <<leaderVars, handler, streams, flog, fhw>>

\* The context of a handler is done, because the connection breaks or because
\* f has left the stream.
LeaderNotices(f, k) ==
  /\ handler[f][k].open
  /\ IF Reads(f, k) THEN Break ELSE UNCHANGED breaks
  /\ SetHandler(f, k, [handler[f][k] EXCEPT !.open = FALSE])
  /\ UNCHANGED <<leaderVars, chan, streams, link, flog, fhw>>

\* A follower stops for good.
Die(f) ==
  /\ f \in Mortal /\ link[f] # "dead"
  /\ link' = [link EXCEPT ![f] = "dead"]
  /\ chan' = [chan EXCEPT ![f] = << >>]
  /\ UNCHANGED <<leaderVars, handler, streams, flog, fhw, breaks>>

-----------------------------------------------------------------------------
Init ==
  /\ log = << >>
  /\ hw = 0
  /\ replicas = [f \in Follower |->
       [tracked |-> FALSE, leo |-> 0, inSync |-> FALSE, aged |-> FALSE]]
  /\ pending = 0
  /\ handler = [f \in Follower |-> [k \in Stream |->
       [pc |-> "none", offset |-> 0, end |-> 0, open |-> FALSE]]]
  /\ streams = [f \in Follower |-> 0]
  /\ link = [f \in Follower |-> "none"]
  /\ chan = [f \in Follower |-> << >>]
  /\ flog = [f \in Follower |-> << >>]
  /\ fhw = [f \in Follower |-> 0]
  /\ breaks = 0

HandlerStep(f, k) ==
  \/ HandlerStart(f, k)
  \/ HandlerRead(f, k)
  \/ HandlerSend(f, k)
  \/ HandlerUpdate(f, k)
  \/ HandlerReturn(f, k)

Next ==
  \/ \E v \in Value : ProduceAppend(v)
  \/ ProduceFinish
  \/ \E f \in Follower, k \in Stream : HandlerStep(f, k)
  \/ \E f \in Follower, k \in Stream : scheduleReplicaEviction(f, k)
  \/ \E f \in Follower, k \in Stream : LeaderNotices(f, k)
  \/ monitorISR
  \/ \E f \in Follower : Age(f)
  \/ \E f \in Follower : Connect(f)
  \/ \E f \in Follower : FollowerRecv(f)
  \/ \E f \in Follower : StreamBreaks(f)
  \/ \E f \in Follower : Die(f)

Spec == Init /\ [][Next]_vars

\* The steps a handler takes by itself.  It returns from WaitForData when it is
\* woken, and the wake-up for a context that is done may come too early (module
\* Fetch): whether a handler that waits ever returns is left open.
HandlerProceeds(f, k) ==
  \/ HandlerStart(f, k)
  \/ HandlerRead(f, k)
  \/ HandlerSend(f, k)
  \/ HandlerUpdate(f, k)
  \/ /\ handler[f][k].pc = "send" \/ ~ReadInRange(log, handler[f][k].offset)
     /\ HandlerReturn(f, k)

\* What Go's scheduler, gRPC and the clock see to: a call that can proceed
\* does, a dropped stream is noticed at either end, timers fire, a follower
\* that runs reconnects and reads.  Producers, breaks and deaths owe nothing.
Fairness ==
  /\ WF_vars(ProduceFinish)
  /\ WF_vars(monitorISR)
  /\ \A f \in Follower :
       /\ WF_vars(Age(f))
       /\ WF_vars(Connect(f))
       /\ WF_vars(FollowerRecv(f))
       /\ \A k \in Stream :
            /\ WF_vars(HandlerProceeds(f, k))
            /\ WF_vars(scheduleReplicaEviction(f, k))
            /\ WF_vars(~Reads(f, k) /\ LeaderNotices(f, k))
            /\ WF_vars(Reads(f, k) /\ ~handler[f][k].open /\ StreamBreaks(f))

FairSpec == Spec /\ Fairness

-----------------------------------------------------------------------------
(* Properties.                                                             *)

\* Through any number of broken streams and of handlers that outlive their
\* stream, a follower's log is a prefix of the leader's: replicationLoop never
\* skips, repeats or alters a message (partition.go:288-313).
FollowerLogIsPrefix ==
  \A f \in Follower :
    /\ Len(flog[f]) <= Len(log)
    /\ flog[f] = SubSeq(log, 1, Len(flog[f]))

\* No end the leader tracks and no watermark is ahead of the log it speaks of,
\* and no follower believes more to be committed than the leader does
\* (partition.go:306-312, 420-458).
WatermarksBounded ==
  /\ hw <= LogEndOffset(log)
  /\ \A f \in Follower : /\ replicas[f].leo <= LogEndOffset(log)
                         /\ fhw[f] <= hw

\* Within an epoch a follower never discards a message it has appended: the
\* truncation of replicationLoop is never needed (partition.go:294-299).
FollowersKeepMessages ==
  [][\A f \in Follower : /\ Len(flog[f]) <= Len(flog'[f])
                        /\ SubSeq(flog'[f], 1, Len(flog[f])) = flog[f]]_vars

\* A watermark, once seen by a consumer, is never taken back: not when followers
\* join behind it, when a stale handler reports an older end, or when the
\* in-sync set changes (partition.go:188-200, 232-241, 340-345, 445-457).
WatermarksNeverDecrease ==
  [][hw' >= hw /\ \A f \in Follower : fhw'[f] >= fhw[f]]_vars

\* Whichever of the four places moves the watermark, it moves no further than
\* any in-sync follower is tracked (partition.go:188-200, 232-241, 340-345,
\* 445-457).
AdvanceCoversInSync ==
  [][hw' > hw => \A f \in Follower :
        replicas'[f].tracked /\ replicas'[f].inSync => replicas'[f].leo >= hw']_vars

\* Every follower that runs ends up with everything the leader has, however
\* its streams broke (partition.go:250-325, broker.go:309-357).
FollowersConverge ==
  \A f \in Follower : <>[](link[f] = "dead" \/ flog[f] = log)

\* Once producers pause, the watermark reaches the log end and every message
\* becomes visible to consumers, whoever falls out of sync on the way
\* (partition.go:160-246).
WatermarkCatchesUp == <>[](hw = LogEndOffset(log))

\* The same, as long as no follower dies for good.  One that does is evicted but
\* stays in replicas: Append then leaves the watermark to handlers and ticks that
\* no longer have a reason to move it (partition.go:160-246, 340-345).
WatermarkCatchesUpUnlessDeath ==
  WatermarkCatchesUp \/ \E f \in Follower : <>(link[f] = "dead")

\* The watermark moves only over messages that every in-sync follower has in
\* its log, as an acknowledged replication would have it (tests.md:104).
AdvanceIsReplicated ==
  [][hw' > hw => \A f \in Follower :
        replicas'[f].tracked /\ replicas'[f].inSync => LogEndOffset(flog[f]) >= hw']_vars

=============================================================================
