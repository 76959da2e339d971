------------------------------- MODULE Fetch -------------------------------
(***************************************************************************)
(* A consumer reads one partition: Broker.Fetch (src/internal/broker/      *)
(* broker.go), the reads and the waits of Partition (partition.go), and    *)
(* the Consumer in single-partition mode (src/internal/consumer/           *)
(* consumer.go), which reconnects when its stream fails.                   *)
(*                                                                         *)
(* Every Fetch stream has a handler goroutine on the broker.  A handler    *)
(* that has nothing to send sleeps on Partition.cond, whose lock is        *)
(* Partition.mu.  The broadcasts that wake it are made with the lock held  *)
(* (AdvanceHW, ReplicaHW) or after it was released (ProduceWake), or       *)
(* without it (AfterFunc).  A handler whose stream broke may run on beside *)
(* the handler of the stream that replaced it.                             *)
(***************************************************************************)
EXTENDS Integers, Sequences

CONSTANTS
  Stream,     \* Fetch streams, each with its handler goroutine
  NoStream,   \* Consumer.stream = nil
  Producer,   \* Produce handlers
  BatchSize,  \* batchSize of Fetch
  Start,      \* offsets at which the consumer may be told to start
  MaxLen,     \* bound: records in the log
  MaxBreaks   \* bound: streams that break, and dials that fail

ASSUME FetchAssumption ==
  /\ NoStream \notin Stream
  /\ BatchSize \in Nat \ {0}
  /\ Start \subseteq Nat
  /\ MaxLen \in Nat /\ MaxBreaks \in Nat

VARIABLES
  role,      \* Partition.role
  tracked,   \* Partition.replicas is not empty
  leo,       \* the length of the log; its records are the offsets below
  hw,        \* Partition.hw
  produce,   \* produce[p]: where the Produce handler p is in Partition.Append
  follow,    \* where the replication loop of a follower is
  handler,   \* handler[s]: where the Fetch handler of s is, and its locals
  after,     \* streams whose AfterFunc runs but has not broadcast yet
  conn,      \* conn[s]: the records on their way to the client, and failures
  stream,    \* Consumer.stream
  next,      \* Consumer.nextOffset
  got,       \* history: the offsets Poll has returned
  running,   \* the consumer's program polls
  breaks

partVars   == <<role, tracked, leo, hw, produce, follow>>
serverVars == <<handler, after>>
clientVars == <<stream, next, got, running>>
vars == <<partVars, serverVars, clientVars, conn, breaks>>

\* A handler takes a snapshot of hw ("read"), reads the log ("log"), sends the
\* batch ("send"); with nothing to send it takes the lock ("lock"), decides to wait
\* ("park", the lock is held), and sleeps on the condition ("sleep").  upto is the
\* snapshot, then the end of the batch.
Handler == [pc : {"idle", "read", "log", "send", "lock", "park", "sleep"},
            offset : Nat, upto : Nat, cancelled : BOOLEAN]

Conn == [sent : Seq(Nat), broken : BOOLEAN]

TypeOK ==
  /\ role \in {"Leader", "Follower"} /\ tracked \in BOOLEAN
  /\ leo \in 0 .. MaxLen /\ hw \in 0 .. MaxLen
  /\ produce \in [Producer -> {"idle", "visible", "wake"}]
  /\ follow \in {"idle", "wake", "hw"}
  /\ handler \in [Stream -> Handler]
  /\ after \in SUBSET Stream
  /\ conn \in [Stream -> Conn]
  /\ stream \in Stream \cup {NoStream}
  /\ next \in Nat /\ got \in Seq(Nat)
  /\ running \in BOOLEAN
  /\ breaks \in 0 .. MaxBreaks

\* Partition.mu is held from the test of the loop in WaitForHW until Wait has put
\* the handler on the list of the condition.  All other holders release it in the
\* step in which they take it.
Locked == \E s \in Stream : handler[s].pc = "park"

\* Cond.Broadcast wakes the handlers that sleep; each takes the lock again.
Broadcast(hs) == [s \in Stream |-> IF hs[s].pc = "sleep" THEN [hs[s] EXCEPT !.pc = "lock"]
                                                         ELSE hs[s]]

-----------------------------------------------------------------------------
(* The partition: what makes records visible, and wakes the handlers.      *)

\* Append by Produce, on a leader ...
ProduceAppend(p) ==
  /\ role = "Leader" /\ produce[p] = "idle" /\ leo < MaxLen
  /\ leo' = leo + 1
  /\ produce' = [produce EXCEPT ![p] = "visible"]
  /\ UNCHANGED <<role, tracked, hw, follow, serverVars, clientVars, conn, breaks>>

\* Mutant: hw is assigned without the lock.
ProduceVisibleUnlocked(p) ==
  /\ produce[p] = "visible"
  /\ hw' = IF tracked THEN hw ELSE leo
  /\ produce' = [produce EXCEPT ![p] = "wake"]
  /\ UNCHANGED <<role, tracked, leo, follow, serverVars, clientVars, conn, breaks>>

\* Mutant: hw is one past the end of the log.
ProduceVisiblePast(p) ==
  /\ produce[p] = "visible" /\ ~Locked
  /\ hw' = IF tracked THEN hw ELSE leo + 1
  /\ produce' = [produce EXCEPT ![p] = "wake"]
  /\ UNCHANGED <<role, tracked, leo, follow, serverVars, clientVars, conn, breaks>>

\* ... without followers the record is visible at once ...
ProduceVisible(p) ==
  /\ produce[p] = "visible" /\ ~Locked
  /\ hw' = IF tracked THEN hw ELSE leo
  /\ produce' = [produce EXCEPT ![p] = "wake"]
  /\ UNCHANGED <<role, tracked, leo, follow, serverVars, clientVars, conn, breaks>>

\* ... and the broadcast comes after the lock was released.
ProduceWake(p) ==
  /\ produce[p] = "wake"
  /\ handler' = Broadcast(handler)
  /\ produce' = [produce EXCEPT ![p] = "idle"]
  /\ UNCHANGED <<role, tracked, leo, hw, follow, after, clientVars, conn, breaks>>

\* updateReplicaState, monitorISR or scheduleReplicaEviction, all under the lock;
\* the first of them to run is the first fetch of a follower.
AdvanceHW(h) ==
  /\ role = "Leader" /\ ~Locked /\ h \in hw .. leo
  /\ tracked' = TRUE
  /\ hw' = h
  /\ handler' = IF h > hw THEN Broadcast(handler) ELSE handler
  /\ UNCHANGED <<role, leo, produce, follow, after, clientVars, conn, breaks>>

\* A follower receives a record: AppendReplica ...  While the role stays the record
\* is the next of the log, and the TruncateTo before AppendReplica cuts nothing: only
\* a message appended across a change of the role is ever discarded (module Epochs,
\* OnlyStraysDiscarded).
ReplicaAppend ==
  /\ role = "Follower" /\ follow = "idle" /\ leo < MaxLen
  /\ leo' = leo + 1
  /\ follow' = "wake"
  /\ UNCHANGED <<role, tracked, hw, produce, serverVars, clientVars, conn, breaks>>

ReplicaWake ==
  /\ follow = "wake"
  /\ handler' = Broadcast(handler)
  /\ follow' = "hw"
  /\ UNCHANGED <<role, tracked, leo, hw, produce, after, clientVars, conn, breaks>>

\* ... and its HighWatermark, which may be ahead of the follower's own log.
ReplicaHW(h) ==
  /\ follow = "hw" /\ ~Locked
  /\ hw' = IF h > hw THEN h ELSE hw
  /\ handler' = IF h > hw THEN Broadcast(handler) ELSE handler
  /\ follow' = "idle"
  /\ UNCHANGED <<role, tracked, leo, produce, after, clientVars, conn, breaks>>

-----------------------------------------------------------------------------
(* Broker.Fetch and Partition.Read, WaitForHW.                             *)

NoHandler == [pc |-> "idle", offset |-> 0, upto |-> 0, cancelled |-> FALSE]

\* WaitForHW registers the AfterFunc of the context, which starts at once if the
\* context is done already.
EnterWait(s) == after' = IF handler[s].cancelled THEN after \cup {s} ELSE after

Registered(s) == handler[s].pc \in {"lock", "park", "sleep"}

\* Read takes the snapshot of hw ...
HandlerRead(s) ==
  /\ handler[s].pc = "read" /\ ~Locked
  /\ IF handler[s].offset >= hw
     THEN handler' = [handler EXCEPT ![s].pc = "lock"] /\ EnterWait(s)
     ELSE handler' = [handler EXCEPT ![s].pc = "log", ![s].upto = hw] /\ UNCHANGED after
  /\ UNCHANGED <<partVars, clientVars, conn, breaks>>

LowerOf(a, b) == IF a < b THEN a ELSE b

\* Mutant: the batch is not clamped to the snapshot.
BatchEndUnclamped(h) == LowerOf(h.offset + BatchSize, leo)

\* The end of the batch: the log's, clamped to the snapshot.
BatchEnd(h) == LowerOf(LowerOf(h.offset + BatchSize, leo), h.upto)

\* ... and then the log; an offset beyond its end is an error, which ends the
\* stream.  hw can be ahead of the log: then the batch is empty.
HandlerLog(s) ==
  /\ handler[s].pc = "log"
  /\ \/ /\ handler[s].offset > leo
        /\ handler' = [handler EXCEPT ![s] = NoHandler]
        /\ UNCHANGED after
     \/ /\ handler[s].offset <= leo /\ BatchEnd(handler[s]) = handler[s].offset
        /\ handler' = [handler EXCEPT ![s].pc = "lock"]
        /\ EnterWait(s)
     \/ /\ handler[s].offset <= leo /\ BatchEnd(handler[s]) > handler[s].offset
        /\ handler' = [handler EXCEPT ![s].pc = "send", ![s].upto = BatchEnd(handler[s])]
        /\ UNCHANGED after
  /\ UNCHANGED <<partVars, clientVars, conn, breaks>>

\* Send fails once the context is done; until then what is sent on a broken
\* connection is lost.
HandlerSend(s) ==
  LET h == handler[s] IN
  /\ h.pc = "send"
  /\ IF h.cancelled
     THEN handler' = [handler EXCEPT ![s] = NoHandler] /\ UNCHANGED conn
     ELSE /\ handler' = [handler EXCEPT ![s].offset = h.offset + 1,
                           ![s].pc = IF h.offset + 1 = h.upto THEN "read" ELSE "send"]
          /\ conn' = IF conn[s].broken THEN conn
                     ELSE [conn EXCEPT ![s].sent = Append(@, h.offset)]
  /\ UNCHANGED <<partVars, after, clientVars, breaks>>

\* Mutant: the handler waits for hw to be two past its offset.
HandlerLockLate(s) ==
  LET h == handler[s] IN
  /\ h.pc = "lock" /\ ~Locked
  /\ \/ /\ hw <= h.offset + 1 /\ ~h.cancelled
        /\ handler' = [handler EXCEPT ![s].pc = "park"]
     \/ /\ hw > h.offset + 1 /\ ~h.cancelled
        /\ handler' = [handler EXCEPT ![s].pc = "read"]
     \/ /\ h.cancelled
        /\ handler' = [handler EXCEPT ![s] = NoHandler]
  /\ UNCHANGED <<partVars, after, clientVars, conn, breaks>>

\* WaitForHW, with the lock: the test of its loop, and Fetch's own of the context.
HandlerLock(s) ==
  LET h == handler[s] IN
  /\ h.pc = "lock" /\ ~Locked
  /\ \/ /\ hw <= h.offset /\ ~h.cancelled
        /\ handler' = [handler EXCEPT ![s].pc = "park"]
     \/ /\ hw > h.offset /\ ~h.cancelled
        /\ handler' = [handler EXCEPT ![s].pc = "read"]
     \/ /\ h.cancelled
        /\ handler' = [handler EXCEPT ![s] = NoHandler]
  /\ UNCHANGED <<partVars, after, clientVars, conn, breaks>>

\* Wait: on the list of the condition, and the lock is released.
HandlerPark(s) ==
  /\ handler[s].pc = "park"
  /\ handler' = [handler EXCEPT ![s].pc = "sleep"]
  /\ UNCHANGED <<partVars, after, clientVars, conn, breaks>>

\* The broker learns that the stream is gone: the context of the handler is done.
Cancel(s) ==
  /\ conn[s].broken /\ handler[s].pc # "idle" /\ ~handler[s].cancelled
  /\ handler' = [handler EXCEPT ![s].cancelled = TRUE]
  /\ after' = IF Registered(s) THEN after \cup {s} ELSE after
  /\ UNCHANGED <<partVars, clientVars, conn, breaks>>

\* The function given to AfterFunc broadcasts, without the lock.
AfterFunc(s) ==
  /\ s \in after
  /\ after' = after \ {s}
  /\ handler' = Broadcast(handler)
  /\ UNCHANGED <<partVars, clientVars, conn, breaks>>

-----------------------------------------------------------------------------
(* The consumer: Poll, called again and again by its program.              *)

\* Mutant: the new stream starts where the first one did.
connectFromStart(s) ==
  /\ running /\ stream = NoStream /\ handler[s].pc = "idle"
  /\ handler' = [handler EXCEPT ![s] = [NoHandler EXCEPT !.pc = "read",
                   !.offset = IF got = <<>> THEN next ELSE Head(got)]]
  /\ conn' = [conn EXCEPT ![s] = [sent |-> <<>>, broken |-> FALSE]]
  /\ stream' = s
  /\ UNCHANGED <<partVars, after, next, got, running, breaks>>

\* A new stream, from nextOffset, and its handler.
connect(s) ==
  /\ running /\ stream = NoStream /\ handler[s].pc = "idle"
  /\ handler' = [handler EXCEPT ![s] = [NoHandler EXCEPT !.pc = "read", !.offset = next]]
  /\ conn' = [conn EXCEPT ![s] = [sent |-> <<>>, broken |-> FALSE]]
  /\ stream' = s
  /\ UNCHANGED <<partVars, after, next, got, running, breaks>>

\* Poll returns the error of connect, and the program gives up.
ConnectFails ==
  /\ running /\ stream = NoStream /\ breaks < MaxBreaks
  /\ running' = FALSE
  /\ breaks' = breaks + 1
  /\ UNCHANGED <<partVars, serverVars, stream, next, got, conn>>

\* Recv returns a record, and Poll returns it.
Recv ==
  /\ running /\ stream # NoStream /\ conn[stream].sent # <<>>
  /\ got' = Append(got, Head(conn[stream].sent))
  /\ next' = Head(conn[stream].sent) + 1
  /\ conn' = [conn EXCEPT ![stream].sent = Tail(@)]
  /\ UNCHANGED <<partVars, serverVars, stream, running, breaks>>

\* Recv fails with Unavailable or Internal: Poll connects again.
RecvError ==
  /\ running /\ stream # NoStream /\ conn[stream].sent = <<>>
  /\ conn[stream].broken \/ handler[stream].pc = "idle"
  /\ stream' = NoStream
  /\ UNCHANGED <<partVars, serverVars, next, got, running, conn, breaks>>

\* The connection fails; some of the records under way are still received.
Break(n) ==
  /\ stream # NoStream /\ ~conn[stream].broken /\ breaks < MaxBreaks
  /\ n \in 0 .. Len(conn[stream].sent)
  /\ conn' = [conn EXCEPT ![stream] = [sent |-> SubSeq(@.sent, 1, n), broken |-> TRUE]]
  /\ breaks' = breaks + 1
  /\ UNCHANGED <<partVars, serverVars, clientVars>>

\* The program is interrupted: Poll returns the error of its context.
Stop ==
  /\ running
  /\ running' = FALSE
  /\ stream' = NoStream
  /\ conn' = IF stream = NoStream THEN conn
             ELSE [conn EXCEPT ![stream] = [sent |-> <<>>, broken |-> TRUE]]
  /\ UNCHANGED <<partVars, serverVars, next, got, breaks>>

-----------------------------------------------------------------------------
Init ==
  /\ role \in {"Leader", "Follower"} /\ tracked = FALSE
  /\ leo = 0 /\ hw = 0
  /\ produce = [p \in Producer |-> "idle"]
  /\ follow = "idle"
  /\ handler = [s \in Stream |-> NoHandler]
  /\ after = {}
  /\ conn = [s \in Stream |-> [sent |-> <<>>, broken |-> FALSE]]
  /\ stream = NoStream
  /\ next \in Start
  /\ got = <<>>
  /\ running = TRUE
  /\ breaks = 0

HandlerStep(s) ==
  \/ HandlerRead(s)
  \/ HandlerLog(s)
  \/ HandlerSend(s)
  \/ HandlerLock(s)
  \/ HandlerPark(s)

PollStep == Recv \/ RecvError \/ \E s \in Stream : connect(s)

Next ==
  \/ \E p \in Producer : ProduceAppend(p)
  \/ \E p \in Producer : ProduceVisible(p)
  \/ \E p \in Producer : ProduceWake(p)
  \/ \E h \in 0 .. MaxLen : AdvanceHW(h)
  \/ ReplicaAppend
  \/ ReplicaWake
  \/ \E h \in 0 .. MaxLen : ReplicaHW(h)
  \/ \E s \in Stream : HandlerStep(s)
  \/ \E s \in Stream : Cancel(s)
  \/ \E s \in Stream : AfterFunc(s)
  \/ PollStep
  \/ ConnectFails
  \/ \E n \in 0 .. MaxLen : Break(n)
  \/ Stop

Spec == Init /\ [][Next]_vars

\* The goroutines run.  Nothing makes producers append, followers fetch, or a
\* broken stream be noticed.
Fairness ==
  /\ \A s \in Stream : WF_vars(HandlerStep(s)) /\ WF_vars(AfterFunc(s))
  /\ \A p \in Producer : WF_vars(ProduceVisible(p)) /\ WF_vars(ProduceWake(p))
  /\ WF_vars(ReplicaWake)
  /\ WF_vars(PollStep)

FairSpec == Spec /\ Fairness

-----------------------------------------------------------------------------
(* Properties.                                                             *)

\* Poll returns the record at nextOffset and no other: whatever streams break, with
\* records under way and the old handler still sending, nothing is skipped,
\* repeated or reordered (consumer.go:222-261, broker.go:283-299).
DeliveredInOrder == [][got' # got => got' = Append(got, next)]_vars

\* Only what is in the log and below the high watermark is ever sent, although hw
\* is read, the log is read, and the records are sent, one after the other without
\* a lock (partition.go:360-385, broker.go:283-299).
OnlyVisibleSent ==
  \A s \in Stream : \A i \in DOMAIN conn[s].sent :
    conn[s].sent[i] < hw /\ conn[s].sent[i] < leo

\* No wake-up is lost: a handler that sleeps although hw is past its offset is
\* about to be woken, by the Append that assigned hw (partition.go:340-346, 484-492).
NoLostWakeup ==
  \A s \in Stream :
    handler[s].pc = "sleep" /\ hw > handler[s].offset =>
      \E p \in Producer : produce[p] = "wake"

\* A visible record is delivered to a consumer that keeps polling, whichever
\* streams fail (broker.go:270-307, consumer.go:207-262).
VisibleDelivered ==
  \A o \in 0 .. MaxLen - 1 : (o < hw /\ o < leo) ~> (next > o \/ ~running)

\* The broadcast of AfterFunc "breaks the Wait loop so the caller can check
\* ctx.Err()" (partition.go:470-472): a handler whose stream is gone returns.
CancelledHandlerReturns ==
  \A s \in Stream : handler[s].cancelled ~> handler[s].pc = "idle"

=============================================================================
