---------------------------- MODULE FetchProofs ----------------------------
(***************************************************************************)
(* Proofs about Fetch for every number of streams and producers, every     *)
(* batch size and every bound.                                             *)
(***************************************************************************)
EXTENDS Fetch, TLAPS

-----------------------------------------------------------------------------
(* Facts about naturals and logs.                                          *)

\* The first record in flight and those behind it.
LEMMA NonEmptySeq ==
  ASSUME NEW S, NEW s \in Seq(S), s # << >>
  PROVE  /\ Len(s) \in Nat /\ Len(s) >= 1
         /\ Head(s) = s[1] /\ Head(s) \in S
         /\ Tail(s) \in Seq(S)
         /\ Len(Tail(s)) = Len(s) - 1
         /\ \A i \in 1 .. Len(s) - 1 : Tail(s)[i] = s[i + 1]
<1>1. Len(s) \in Nat /\ Len(s) >= 1 /\ Head(s) = s[1]
  OBVIOUS
<1>2. /\ Head(s) \in S /\ Tail(s) \in Seq(S) /\ Len(Tail(s)) = Len(s) - 1
      /\ \A i \in 1 .. Len(Tail(s)) : Tail(s)[i] = s[i + 1]
  OBVIOUS
<1> QED BY <1>1, <1>2

-----------------------------------------------------------------------------
(* The inductive invariant.                                                *)

\* A leader's watermark is within its log.  A follower's may not be, but a
\* follower has no Produce handlers.
RoleInv ==
  /\ role = "Leader" => hw <= leo /\ follow = "idle"
  /\ role = "Follower" => \A p \in Producer : produce[p] = "idle"

\* A handler that holds the lock has not been overtaken by hw; the batch that it
\* reads or sends was below hw, and in the log, when it was cut.
HandlerInv ==
  \A s \in Stream :
    /\ handler[s].pc = "park" => hw <= handler[s].offset
    /\ handler[s].pc \in {"log", "send"} =>
         handler[s].offset < handler[s].upto /\ handler[s].upto <= hw
    /\ handler[s].pc = "send" => handler[s].upto <= leo

\* The records under way to the consumer are the next ones, and its handler, if
\* the connection stands, goes on behind them.
StreamInOrder ==
  stream # NoStream =>
    /\ \A i \in 1 .. Len(conn[stream].sent) : conn[stream].sent[i] = next + i - 1
    /\ handler[stream].pc # "idle" /\ ~conn[stream].broken =>
         handler[stream].offset = next + Len(conn[stream].sent)

IInv ==
  /\ TypeOK
  /\ RoleInv
  /\ HandlerInv
  /\ OnlyVisibleSent
  /\ NoLostWakeup
  /\ StreamInOrder

-----------------------------------------------------------------------------
(* Facts shared by the actions.                                            *)

\* Broadcast leaves no handler asleep, and changes nothing else.
LEMMA BroadcastWakes ==
  ASSUME NEW hs \in [Stream -> Handler]
  PROVE  /\ Broadcast(hs) \in [Stream -> Handler]
         /\ \A s \in Stream :
              /\ Broadcast(hs)[s].pc = IF hs[s].pc = "sleep" THEN "lock" ELSE hs[s].pc
              /\ Broadcast(hs)[s].offset = hs[s].offset
              /\ Broadcast(hs)[s].upto = hs[s].upto
              /\ Broadcast(hs)[s].cancelled = hs[s].cancelled
BY DEF Broadcast, Handler

\* Handlers as records of their fields.
LEMMA HandlerFields ==
  ASSUME NEW h \in Handler
  PROVE  /\ h.pc \in {"idle", "read", "log", "send", "lock", "park", "sleep"}
         /\ h.offset \in Nat /\ h.upto \in Nat /\ h.cancelled \in BOOLEAN
BY DEF Handler

\* What is sent stays visible, and in order, when the partition moves on and
\* handlers are woken at most.
LEMMA PartitionStep ==
  ASSUME IInv, TypeOK', hw' >= hw, leo' >= leo,
         UNCHANGED <<conn, stream, next>>,
         handler' = handler \/ handler' = Broadcast(handler)
  PROVE  OnlyVisibleSent' /\ StreamInOrder'
<1>1. OnlyVisibleSent'
  <2> SUFFICES ASSUME NEW s \in Stream, NEW i \in DOMAIN conn[s].sent
               PROVE  conn[s].sent[i] < hw' /\ conn[s].sent[i] < leo'
    BY DEF OnlyVisibleSent
  <2>1. conn[s].sent[i] < hw /\ conn[s].sent[i] < leo
    BY DEF IInv, OnlyVisibleSent
  <2>2. conn[s].sent \in Seq(Nat)
    BY DEF IInv, TypeOK, Conn
  <2>3. conn[s].sent[i] \in Nat
    BY <2>2
  <2> QED BY <2>1, <2>3 DEF IInv, TypeOK
<1>2. \A s \in Stream : /\ handler'[s].offset = handler[s].offset
                        /\ handler'[s].pc # "idle" => handler[s].pc # "idle"
  <2>1. handler \in [Stream -> Handler]
    BY DEF IInv, TypeOK
  <2> QED BY <2>1, BroadcastWakes
<1>3. StreamInOrder'
  BY <1>2 DEF IInv, TypeOK, StreamInOrder
<1> QED BY <1>1, <1>3

\* The same for the invariants of the handlers, when none is about to sleep or hw
\* stays, and whoever sleeps is woken or has reason to sleep on.
LEMMA HandlersStep ==
  ASSUME IInv, TypeOK', hw' >= hw, leo' >= leo,
         hw' = hw \/ ~Locked,
         handler' = handler \/ handler' = Broadcast(handler)
  PROVE  /\ HandlerInv'
         /\ handler' = Broadcast(handler) => NoLostWakeup'
<1>0. handler \in [Stream -> Handler] /\ hw \in Nat /\ hw' \in Nat /\ leo \in Nat /\ leo' \in Nat
  BY DEF IInv, TypeOK
<1>1. \A s \in Stream : /\ handler'[s].offset = handler[s].offset
                        /\ handler'[s].upto = handler[s].upto
                        /\ handler'[s].pc \in {"park", "log", "send"} =>
                             handler'[s].pc = handler[s].pc
  BY <1>0, BroadcastWakes
<1>2. \A s \in Stream : handler[s].offset \in Nat /\ handler[s].upto \in Nat
  BY <1>0, HandlerFields
<1>3. HandlerInv'
  <2> SUFFICES ASSUME NEW s \in Stream
               PROVE  /\ handler'[s].pc = "park" => hw' <= handler[s].offset
                      /\ handler'[s].pc \in {"log", "send"} =>
                           handler[s].offset < handler[s].upto /\ handler[s].upto <= hw'
                      /\ handler'[s].pc = "send" => handler[s].upto <= leo'
    BY <1>1 DEF HandlerInv
  <2>1. handler'[s].pc = "park" => hw' = hw
    BY <1>1 DEF Locked
  <2> QED BY <1>0, <1>1, <1>2, <2>1 DEF HandlerInv, IInv
<1>4. ASSUME handler' = Broadcast(handler)
      PROVE  NoLostWakeup'
  BY <1>0, <1>4, BroadcastWakes DEF NoLostWakeup
<1> QED BY <1>3, <1>4

\* With handlers as they were and no producer's broadcast withdrawn, a watermark
\* that stays loses no wake-up.
LEMMA SleepersStay ==
  ASSUME NoLostWakeup, UNCHANGED <<handler, hw>>,
         \A p \in Producer : produce[p] = "wake" => produce'[p] = "wake"
  PROVE  NoLostWakeup'
BY DEF NoLostWakeup

-----------------------------------------------------------------------------
(* The partition.                                                          *)

LEMMA ProduceAppendStep ==
  ASSUME IInv, NEW p \in Producer, ProduceAppend(p)
  PROVE  IInv'
<1> USE DEF ProduceAppend, serverVars, clientVars
<1>1. TypeOK'
  BY FetchAssumption DEF IInv, TypeOK
<1>2. leo' >= leo /\ hw' >= hw
  BY DEF IInv, TypeOK
<1>3. RoleInv'
  BY <1>1, <1>2 DEF IInv, TypeOK, RoleInv
<1>4. NoLostWakeup'
  <2>1. \A q \in Producer : produce[q] = "wake" => produce'[q] = "wake"
    BY DEF IInv, TypeOK
  <2> QED BY <2>1, SleepersStay DEF IInv
<1> QED BY <1>1, <1>2, <1>3, <1>4, PartitionStep, HandlersStep DEF IInv

LEMMA ProduceVisibleStep ==
  ASSUME IInv, NEW p \in Producer, ProduceVisible(p)
  PROVE  IInv'
<1> USE DEF ProduceVisible, serverVars, clientVars
<1>1. role = "Leader"
  BY DEF IInv, TypeOK, RoleInv
<1>2. TypeOK'
  BY DEF IInv, TypeOK
<1>3. leo' >= leo /\ hw' >= hw /\ hw' <= leo'
  BY <1>1 DEF IInv, TypeOK, RoleInv
<1>4. RoleInv'
  BY <1>1, <1>3 DEF IInv, RoleInv
<1>5. NoLostWakeup'
  <2>1. produce'[p] = "wake"
    BY DEF IInv, TypeOK
  <2> QED BY <2>1 DEF NoLostWakeup
<1> QED BY <1>2, <1>3, <1>4, <1>5, PartitionStep, HandlersStep DEF IInv

LEMMA ProduceWakeStep ==
  ASSUME IInv, NEW p \in Producer, ProduceWake(p)
  PROVE  IInv'
<1> USE DEF ProduceWake, clientVars
<1>1. TypeOK'
  <2>1. handler' \in [Stream -> Handler]
    BY BroadcastWakes DEF IInv, TypeOK
  <2> QED BY <2>1 DEF IInv, TypeOK
<1>2. leo' >= leo /\ hw' >= hw
  BY DEF IInv, TypeOK
<1>3. RoleInv'
  BY DEF IInv, TypeOK, RoleInv
<1> QED BY <1>1, <1>2, <1>3, PartitionStep, HandlersStep DEF IInv

LEMMA AdvanceHWStep ==
  ASSUME IInv, NEW h \in 0 .. MaxLen, AdvanceHW(h)
  PROVE  IInv'
<1> USE DEF AdvanceHW, clientVars
<1>1. TypeOK'
  <2>1. handler' \in [Stream -> Handler]
    BY BroadcastWakes DEF IInv, TypeOK
  <2> QED BY <2>1 DEF IInv, TypeOK
<1>2. leo' >= leo /\ hw' >= hw /\ hw' <= leo'
  BY DEF IInv, TypeOK
<1>3. RoleInv'
  BY <1>2 DEF IInv, RoleInv
<1>4. NoLostWakeup'
  <2>1. CASE h > hw
    BY <1>1, <1>2, <2>1, HandlersStep
  <2>2. CASE ~(h > hw)
    <3>1. hw' = hw /\ handler' = handler
      BY <2>2, <1>2 DEF IInv, TypeOK
    <3> QED BY <3>1, SleepersStay DEF IInv
  <2> QED BY <2>1, <2>2
<1> QED BY <1>1, <1>2, <1>3, <1>4, PartitionStep, HandlersStep DEF IInv

LEMMA ReplicaAppendStep ==
  ASSUME IInv, ReplicaAppend
  PROVE  IInv'
<1> USE DEF ReplicaAppend, serverVars, clientVars
<1>1. TypeOK'
  BY FetchAssumption DEF IInv, TypeOK
<1>2. leo' >= leo /\ hw' >= hw
  BY DEF IInv, TypeOK
<1>3. RoleInv'
  BY DEF IInv, RoleInv
<1>4. NoLostWakeup'
  BY SleepersStay DEF IInv
<1> QED BY <1>1, <1>2, <1>3, <1>4, PartitionStep, HandlersStep DEF IInv

LEMMA ReplicaWakeStep ==
  ASSUME IInv, ReplicaWake
  PROVE  IInv'
<1> USE DEF ReplicaWake, clientVars
<1>1. TypeOK'
  <2>1. handler' \in [Stream -> Handler]
    BY BroadcastWakes DEF IInv, TypeOK
  <2> QED BY <2>1 DEF IInv, TypeOK
<1>2. leo' >= leo /\ hw' >= hw
  BY DEF IInv, TypeOK
<1>3. RoleInv'
  BY DEF IInv, RoleInv
<1> QED BY <1>1, <1>2, <1>3, PartitionStep, HandlersStep DEF IInv

LEMMA ReplicaHWStep ==
  ASSUME IInv, NEW h \in 0 .. MaxLen, ReplicaHW(h)
  PROVE  IInv'
<1> USE DEF ReplicaHW, clientVars
<1>1. TypeOK'
  <2>1. handler' \in [Stream -> Handler]
    BY BroadcastWakes DEF IInv, TypeOK
  <2> QED BY <2>1 DEF IInv, TypeOK
<1>2. leo' >= leo /\ hw' >= hw
  BY DEF IInv, TypeOK
<1>3. RoleInv'
  BY DEF IInv, RoleInv
<1>4. NoLostWakeup'
  <2>1. CASE h > hw
    BY <1>1, <1>2, <2>1, HandlersStep
  <2>2. CASE ~(h > hw)
    BY <2>2, SleepersStay DEF IInv
  <2> QED BY <2>1, <2>2
<1> QED BY <1>1, <1>2, <1>3, <1>4, PartitionStep, HandlersStep DEF IInv

-----------------------------------------------------------------------------
(* The handlers.                                                           *)

\* What a handler may do by itself: it keeps its offset or ends, cuts batches that
\* are visible, and goes to sleep only when it has seen all there is.
LEMMA OneHandlerMoves ==
  ASSUME IInv, NEW s \in Stream, NEW h \in Handler,
         handler' = [handler EXCEPT ![s] = h],
         after' \in SUBSET Stream,
         UNCHANGED <<partVars, clientVars, conn, breaks>>,
         h.pc # "idle" => handler[s].pc # "idle" /\ h.offset = handler[s].offset,
         h.pc = "park" => hw <= h.offset,
         h.pc \in {"log", "send"} => h.offset < h.upto /\ h.upto <= hw,
         h.pc = "send" => h.upto <= leo,
         h.pc = "sleep" => handler[s].pc = "sleep" \/ hw <= h.offset
  PROVE  IInv'
<1> USE DEF partVars, clientVars
<1>0. handler \in [Stream -> Handler] /\ hw \in Nat
  BY DEF IInv, TypeOK
<1>1. handler'[s] = h /\ \A t \in Stream \ {s} : handler'[t] = handler[t]
  BY <1>0
<1>2. TypeOK'
  <2>1. handler' \in [Stream -> Handler]
    BY <1>0
  <2> QED BY <2>1 DEF IInv, TypeOK
<1>3. RoleInv' /\ OnlyVisibleSent'
  BY DEF IInv, RoleInv, OnlyVisibleSent
<1>4. HandlerInv'
  BY <1>1 DEF IInv, HandlerInv
<1>5. NoLostWakeup'
  <2> SUFFICES ASSUME NEW t \in Stream, handler'[t].pc = "sleep", hw > handler'[t].offset
               PROVE  \E p \in Producer : produce[p] = "wake"
    BY DEF NoLostWakeup
  <2>1. handler[t].pc = "sleep" /\ hw > handler[t].offset
    <3>1. CASE t = s
      <4>1. h.offset \in Nat
        BY HandlerFields
      <4> QED BY <1>0, <1>1, <3>1, <4>1
    <3>2. CASE t # s
      BY <1>1, <3>2
    <3> QED BY <3>1, <3>2
  <2> QED BY <2>1 DEF IInv, NoLostWakeup
<1>6. StreamInOrder'
  <2> SUFFICES ASSUME stream # NoStream, handler'[stream].pc # "idle"
               PROVE  handler[stream].pc # "idle" /\ handler'[stream].offset = handler[stream].offset
    BY DEF IInv, StreamInOrder
  <2>1. stream \in Stream
    BY DEF IInv, TypeOK
  <2> QED BY <1>1, <2>1
<1> QED BY <1>2, <1>3, <1>4, <1>5, <1>6 DEF IInv

LEMMA HandlerReadStep ==
  ASSUME IInv, NEW s \in Stream, HandlerRead(s)
  PROVE  IInv'
<1> USE DEF HandlerRead
<1>0. handler[s] \in Handler /\ hw \in Nat /\ handler \in [Stream -> Handler]
  BY DEF IInv, TypeOK
<1>1. handler[s].offset \in Nat
  BY <1>0, HandlerFields
<1>2. after' \in SUBSET Stream
  BY DEF IInv, TypeOK, EnterWait
<1>3. CASE handler[s].offset >= hw
  <2> DEFINE h == [handler[s] EXCEPT !.pc = "lock"]
  <2>1. h \in Handler /\ h.pc = "lock" /\ h.offset = handler[s].offset
    BY <1>0 DEF Handler
  <2>2. handler' = [handler EXCEPT ![s] = h]
    BY <1>0, <1>3
  <2> HIDE DEF h
  <2> QED BY <1>2, <2>1, <2>2, OneHandlerMoves, Zenon
<1>4. CASE ~(handler[s].offset >= hw)
  <2> DEFINE h == [handler[s] EXCEPT !.pc = "log", !.upto = hw]
  <2>1. h \in Handler /\ h.pc = "log" /\ h.offset = handler[s].offset /\ h.upto = hw
    BY <1>0, Zenon DEF Handler
  <2>2. handler' = [handler EXCEPT ![s] = h]
    BY <1>0, <1>4, Zenon
  <2>3. handler[s].offset < hw
    BY <1>0, <1>1, <1>4
  <2> HIDE DEF h
  <2>4. /\ h.pc # "idle" => handler[s].pc # "idle" /\ h.offset = handler[s].offset
        /\ h.pc \notin {"park", "send", "sleep"}
        /\ h.offset < h.upto /\ h.upto <= hw
    BY <1>0, <2>1, <2>3
  <2>5. UNCHANGED <<partVars, clientVars, conn, breaks>>
    OBVIOUS
  <2> QED BY <1>2, <2>1, <2>2, <2>4, <2>5, OneHandlerMoves, Zenon
<1> QED BY <1>3, <1>4

\* A batch ends within the log and below the snapshot of hw.
LEMMA BatchEndBounds ==
  ASSUME NEW h \in Handler, leo \in Nat
  PROVE  BatchEnd(h) \in Nat /\ BatchEnd(h) <= leo /\ BatchEnd(h) <= h.upto
BY FetchAssumption, HandlerFields DEF BatchEnd, LowerOf

LEMMA HandlerLogStep ==
  ASSUME IInv, NEW s \in Stream, HandlerLog(s)
  PROVE  IInv'
<1> USE DEF HandlerLog
<1>0. handler[s] \in Handler /\ leo \in Nat /\ hw \in Nat /\ handler \in [Stream -> Handler]
  BY DEF IInv, TypeOK
<1>1. NoHandler \in Handler /\ NoHandler.pc = "idle"
  BY DEF NoHandler, Handler
<1>2. after' \in SUBSET Stream
  BY DEF IInv, TypeOK, EnterWait
<1>3. CASE handler' = [handler EXCEPT ![s] = NoHandler]
  BY <1>1, <1>2, <1>3, OneHandlerMoves, Zenon
<1>4. CASE handler' = [handler EXCEPT ![s].pc = "lock"]
  <2> DEFINE h == [handler[s] EXCEPT !.pc = "lock"]
  <2>1. h \in Handler /\ h.pc = "lock" /\ h.offset = handler[s].offset
    BY <1>0 DEF Handler
  <2>2. handler' = [handler EXCEPT ![s] = h]
    BY <1>0, <1>4
  <2> HIDE DEF h
  <2> QED BY <1>2, <2>1, <2>2, OneHandlerMoves, Zenon
<1>5. CASE /\ BatchEnd(handler[s]) > handler[s].offset
           /\ handler' = [handler EXCEPT ![s].pc = "send", ![s].upto = BatchEnd(handler[s])]
  <2> DEFINE end == BatchEnd(handler[s])
             h == [handler[s] EXCEPT !.pc = "send", !.upto = end]
  <2>1. end \in Nat /\ end <= leo /\ end <= handler[s].upto
    BY <1>0, BatchEndBounds
  <2>2. h \in Handler /\ h.pc = "send" /\ h.offset = handler[s].offset /\ h.upto = end
    BY <1>0, <2>1, Zenon DEF Handler
  <2>3. handler' = [handler EXCEPT ![s] = h]
    BY <1>0, <1>5, Zenon
  <2>4. handler[s].offset < end /\ end <= hw
    <3>1. handler[s].upto <= hw
      BY DEF IInv, HandlerInv
    <3>2. handler[s].offset \in Nat /\ handler[s].upto \in Nat
      BY <1>0, HandlerFields
    <3> HIDE DEF end
    <3> QED BY <1>0, <2>1, <3>1, <3>2, <1>5 DEF end
  <2> HIDE DEF h, end
  <2> QED BY <1>0, <1>2, <2>1, <2>2, <2>3, <2>4, OneHandlerMoves, Zenon
<1> QED BY <1>3, <1>4, <1>5

LEMMA HandlerLockStep ==
  ASSUME IInv, NEW s \in Stream, HandlerLock(s)
  PROVE  IInv'
<1> USE DEF HandlerLock
<1>0. /\ handler[s] \in Handler /\ handler \in [Stream -> Handler]
      /\ after' \in SUBSET Stream
  BY DEF IInv, TypeOK
<1>1. NoHandler \in Handler /\ NoHandler.pc = "idle"
  BY DEF NoHandler, Handler
<1>2. CASE handler' = [handler EXCEPT ![s] = NoHandler]
  BY <1>0, <1>1, <1>2, OneHandlerMoves, Zenon
<1>3. CASE hw <= handler[s].offset /\ handler' = [handler EXCEPT ![s].pc = "park"]
  <2> DEFINE h == [handler[s] EXCEPT !.pc = "park"]
  <2>1. h \in Handler /\ h.pc = "park" /\ h.offset = handler[s].offset
    BY <1>0 DEF Handler
  <2>2. handler' = [handler EXCEPT ![s] = h]
    BY <1>0, <1>3
  <2> HIDE DEF h
  <2> QED BY <1>0, <1>3, <2>1, <2>2, OneHandlerMoves, Zenon
<1>4. CASE handler' = [handler EXCEPT ![s].pc = "read"]
  <2> DEFINE h == [handler[s] EXCEPT !.pc = "read"]
  <2>1. h \in Handler /\ h.pc = "read" /\ h.offset = handler[s].offset
    BY <1>0 DEF Handler
  <2>2. handler' = [handler EXCEPT ![s] = h]
    BY <1>0, <1>4
  <2> HIDE DEF h
  <2> QED BY <1>0, <2>1, <2>2, OneHandlerMoves, Zenon
<1> QED BY <1>2, <1>3, <1>4

LEMMA HandlerParkStep ==
  ASSUME IInv, NEW s \in Stream, HandlerPark(s)
  PROVE  IInv'
<1> USE DEF HandlerPark
<1>0. /\ handler[s] \in Handler /\ handler \in [Stream -> Handler]
      /\ after' \in SUBSET Stream
  BY DEF IInv, TypeOK
<1> DEFINE h == [handler[s] EXCEPT !.pc = "sleep"]
<1>1. h \in Handler /\ h.pc = "sleep" /\ h.offset = handler[s].offset
  BY <1>0 DEF Handler
<1>2. handler' = [handler EXCEPT ![s] = h]
  BY <1>0
<1>3. hw <= handler[s].offset
  BY DEF IInv, HandlerInv
<1> HIDE DEF h
<1> QED BY <1>0, <1>1, <1>2, <1>3, OneHandlerMoves, Zenon

LEMMA CancelStep ==
  ASSUME IInv, NEW s \in Stream, Cancel(s)
  PROVE  IInv'
<1> USE DEF Cancel
<1>0. /\ handler[s] \in Handler /\ handler \in [Stream -> Handler]
      /\ after' \in SUBSET Stream
  BY DEF IInv, TypeOK
<1> DEFINE h == [handler[s] EXCEPT !.cancelled = TRUE]
<1>1. /\ h \in Handler /\ h.pc = handler[s].pc
      /\ h.offset = handler[s].offset /\ h.upto = handler[s].upto
  BY <1>0, Zenon DEF Handler
<1>2. handler' = [handler EXCEPT ![s] = h]
  BY <1>0
<1> HIDE DEF h
<1>3. /\ h.pc = "park" => hw <= h.offset
      /\ h.pc \in {"log", "send"} => h.offset < h.upto /\ h.upto <= hw
      /\ h.pc = "send" => h.upto <= leo
  BY <1>1 DEF IInv, HandlerInv
<1>4. UNCHANGED <<partVars, clientVars, conn, breaks>> /\ handler[s].pc # "idle"
  OBVIOUS
<1>5. h.pc = "sleep" => handler[s].pc = "sleep" \/ hw <= h.offset
  BY <1>1
<1> HIDE DEF Cancel
<1> QED BY <1>0, <1>1, <1>2, <1>3, <1>4, <1>5, OneHandlerMoves, Zenon

LEMMA AfterFuncStep ==
  ASSUME IInv, NEW s \in Stream, AfterFunc(s)
  PROVE  IInv'
<1> USE DEF AfterFunc, partVars, clientVars
<1>1. TypeOK'
  <2>1. handler' \in [Stream -> Handler]
    BY BroadcastWakes DEF IInv, TypeOK
  <2> QED BY <2>1 DEF IInv, TypeOK
<1>2. leo' >= leo /\ hw' >= hw /\ hw' = hw
  BY DEF IInv, TypeOK
<1>3. RoleInv'
  BY DEF IInv, RoleInv
<1> QED BY <1>1, <1>2, <1>3, PartitionStep, HandlersStep DEF IInv

\* A record behind those under way: it is visible, and it is the next.
LEMMA HandlerSendStep ==
  ASSUME IInv, NEW s \in Stream, HandlerSend(s)
  PROVE  IInv'
<1> DEFINE h == handler[s]
<1>0. /\ h \in Handler /\ handler \in [Stream -> Handler] /\ after' \in SUBSET Stream
      /\ hw \in Nat /\ leo \in Nat /\ next \in Nat
      /\ conn \in [Stream -> Conn] /\ conn[s].sent \in Seq(Nat)
  BY DEF IInv, TypeOK, HandlerSend, Conn
<1>1. h.offset \in Nat /\ h.upto \in Nat
  BY <1>0, HandlerFields
<1>2. h.offset < h.upto /\ h.upto <= hw /\ h.upto <= leo
  BY DEF IInv, HandlerInv, HandlerSend
<1>3. CASE h.cancelled
  <2>1. NoHandler \in Handler /\ NoHandler.pc = "idle"
    BY DEF NoHandler, Handler
  <2> QED BY <1>0, <1>3, <2>1, OneHandlerMoves DEF HandlerSend
<1>4. CASE ~h.cancelled
  <2> DEFINE pc == IF h.offset + 1 = h.upto THEN "read" ELSE "send"
             g == [h EXCEPT !.offset = h.offset + 1, !.pc = pc]
  <2>1. g \in Handler /\ g.offset = h.offset + 1 /\ g.upto = h.upto /\ g.pc = pc
    <3>1. h.offset + 1 \in Nat /\ pc \in {"read", "send"}
      BY <1>1
    <3> HIDE DEF pc, h
    <3> QED BY <1>0, <3>1, Zenon DEF Handler
  <2>2. handler' = [handler EXCEPT ![s] = g]
    BY <1>0, <1>4, Zenon DEF HandlerSend
  <2>3. UNCHANGED <<partVars, after, clientVars, breaks>>
    BY DEF HandlerSend
  <2>4. conn' = IF conn[s].broken THEN conn
                ELSE [conn EXCEPT ![s].sent = Append(@, h.offset)]
    BY <1>4 DEF HandlerSend
  <2> HIDE DEF g
  <2> USE DEF partVars, clientVars
  <2>5. handler'[s] = g /\ \A t \in Stream \ {s} : handler'[t] = handler[t]
    BY <1>0, <2>2
  <2>6. /\ conn' \in [Stream -> Conn]
        /\ \A t \in Stream : conn'[t].broken = conn[t].broken
        /\ \A t \in Stream \ {s} : conn'[t].sent = conn[t].sent
        /\ conn'[s].sent = IF conn[s].broken THEN conn[s].sent
                           ELSE Append(conn[s].sent, h.offset)
    <3>1. CASE conn[s].broken
      BY <1>0, <2>4, <3>1
    <3>2. CASE ~conn[s].broken
      <4> DEFINE q == Append(conn[s].sent, h.offset)
                 c == [conn[s] EXCEPT !.sent = q]
      <4>1. q \in Seq(Nat)
        BY <1>0, <1>1
      <4>2. conn' = [conn EXCEPT ![s] = c]
        BY <2>4, <3>2
      <4> HIDE DEF q
      <4>3. c \in Conn /\ c.sent = q /\ c.broken = conn[s].broken
        BY <1>0, <4>1 DEF Conn
      <4> HIDE DEF c
      <4> QED BY <1>0, <3>2, <4>2, <4>3 DEF q
    <3> QED BY <3>1, <3>2
  <2>7. TypeOK'
    <3>1. handler' \in [Stream -> Handler]
      BY <1>0, <2>1, <2>2
    <3> QED BY <2>3, <2>6, <3>1 DEF IInv, TypeOK
  <2>8. RoleInv'
    BY <2>3 DEF IInv, RoleInv
  <2>9. HandlerInv'
    <3>1. /\ g.pc # "park"
          /\ g.pc \in {"log", "send"} => g.offset < g.upto /\ g.upto <= hw
          /\ g.pc = "send" => g.upto <= leo
      BY <1>0, <1>1, <1>2, <2>1
    <3> QED BY <2>3, <2>5, <3>1 DEF IInv, HandlerInv
  <2>10. NoLostWakeup'
    <3>1. g.pc # "sleep"
      BY <2>1
    <3> QED BY <2>3, <2>5, <3>1 DEF IInv, NoLostWakeup
  <2>11. /\ Len(Append(conn[s].sent, h.offset)) = Len(conn[s].sent) + 1
         /\ Len(conn[s].sent) \in Nat
         /\ \A i \in 1 .. Len(conn[s].sent) : Append(conn[s].sent, h.offset)[i] = conn[s].sent[i]
         /\ Append(conn[s].sent, h.offset)[Len(conn[s].sent) + 1] = h.offset
    BY <1>0, <1>1
  <2>12. OnlyVisibleSent'
    <3> SUFFICES ASSUME NEW t \in Stream, NEW i \in DOMAIN conn'[t].sent
                 PROVE  conn'[t].sent[i] < hw /\ conn'[t].sent[i] < leo
      BY <2>3 DEF OnlyVisibleSent
    <3>1. CASE t # s \/ conn[s].broken
      BY <2>6, <3>1 DEF IInv, OnlyVisibleSent
    <3>2. CASE t = s /\ ~conn[s].broken
      <4>1. DOMAIN conn'[t].sent = 1 .. Len(conn[s].sent) + 1
        BY <1>0, <1>1, <2>6, <2>11, <3>2
      <4>2. DOMAIN conn[s].sent = 1 .. Len(conn[s].sent)
        BY <1>0
      <4>3. CASE i \in 1 .. Len(conn[s].sent)
        BY <2>6, <2>11, <3>2, <4>2, <4>3 DEF IInv, OnlyVisibleSent
      <4>4. CASE i = Len(conn[s].sent) + 1
        BY <1>0, <1>1, <1>2, <2>6, <2>11, <3>2, <4>4
      <4> QED BY <2>11, <4>1, <4>3, <4>4
    <3> QED BY <3>1, <3>2
  <2>13. StreamInOrder'
    <3> SUFFICES ASSUME stream # NoStream
                 PROVE  /\ \A i \in 1 .. Len(conn'[stream].sent) :
                             conn'[stream].sent[i] = next + i - 1
                        /\ handler'[stream].pc # "idle" /\ ~conn'[stream].broken =>
                             handler'[stream].offset = next + Len(conn'[stream].sent)
      BY <2>3 DEF StreamInOrder
    <3>1. stream \in Stream
      BY DEF IInv, TypeOK
    <3>2. CASE stream # s \/ conn[s].broken
      BY <2>5, <2>6, <3>1, <3>2 DEF IInv, StreamInOrder
    <3>3. CASE stream = s /\ ~conn[s].broken
      <4>1. h.offset = next + Len(conn[s].sent)
        BY <3>3 DEF IInv, StreamInOrder, HandlerSend
      <4>2. conn'[s].sent = Append(conn[s].sent, h.offset)
        BY <2>6, <3>3
      <4>3. ASSUME NEW i \in 1 .. Len(conn[s].sent) + 1
            PROVE  conn'[s].sent[i] = next + i - 1
        <5>1. CASE i \in 1 .. Len(conn[s].sent)
          BY <2>11, <3>3, <4>2, <5>1 DEF IInv, StreamInOrder
        <5>2. CASE i = Len(conn[s].sent) + 1
          BY <1>0, <2>11, <4>1, <4>2, <5>2
        <5> QED BY <2>11, <5>1, <5>2
      <4>4. handler'[s].offset = next + Len(conn'[s].sent)
        BY <1>0, <2>1, <2>5, <2>11, <4>1, <4>2
      <4> QED BY <2>11, <3>3, <4>2, <4>3, <4>4
    <3> QED BY <3>2, <3>3
  <2> QED BY <2>7, <2>8, <2>9, <2>10, <2>12, <2>13 DEF IInv
<1> QED BY <1>3, <1>4

-----------------------------------------------------------------------------
(* The consumer and its connection.                                        *)

LEMMA connectStep ==
  ASSUME IInv, NEW s \in Stream, connect(s)
  PROVE  IInv'
<1> USE DEF connect, partVars
<1> DEFINE h == [NoHandler EXCEPT !.pc = "read", !.offset = next]
           c == [sent |-> <<>>, broken |-> FALSE]
<1>0. /\ handler \in [Stream -> Handler] /\ conn \in [Stream -> Conn] /\ next \in Nat
      /\ stream' = s /\ s # NoStream
  BY FetchAssumption DEF IInv, TypeOK
<1>1. h \in Handler /\ h.pc = "read" /\ h.offset = next
  BY <1>0, Zenon DEF Handler, NoHandler
<1>2. c \in Conn /\ c.sent = <<>> /\ Len(c.sent) = 0
  BY DEF Conn
<1> HIDE DEF h, c
<1>3. handler' = [handler EXCEPT ![s] = h] /\ conn' = [conn EXCEPT ![s] = c]
  BY DEF h, c
<1>4. /\ handler' \in [Stream -> Handler] /\ handler'[s] = h
      /\ \A t \in Stream \ {s} : handler'[t] = handler[t]
  BY <1>0, <1>1, <1>3
<1>5. /\ conn' \in [Stream -> Conn] /\ conn'[s] = c
      /\ \A t \in Stream \ {s} : conn'[t] = conn[t]
  BY <1>0, <1>2, <1>3, Zenon
<1>6. TypeOK'
  BY <1>4, <1>5 DEF IInv, TypeOK
<1>7. RoleInv'
  BY DEF IInv, RoleInv
<1>8. HandlerInv' /\ NoLostWakeup'
  BY <1>1, <1>4 DEF IInv, HandlerInv, NoLostWakeup
<1>9. OnlyVisibleSent'
  <2>1. DOMAIN c.sent = {}
    BY <1>2
  <2> QED BY <1>5, <2>1 DEF IInv, OnlyVisibleSent
<1>10. StreamInOrder'
  BY <1>0, <1>1, <1>2, <1>4, <1>5 DEF StreamInOrder
<1> QED BY <1>6, <1>7, <1>8, <1>9, <1>10 DEF IInv

\* What the consumer and the network do to a connection: they take records from
\* it or cut it, and leave the partition and the handlers alone.
LEMMA ConnStep ==
  ASSUME IInv, TypeOK', UNCHANGED <<partVars, handler>>,
         \A t \in Stream : \A i \in DOMAIN conn'[t].sent :
           \E j \in DOMAIN conn[t].sent : conn'[t].sent[i] = conn[t].sent[j],
         StreamInOrder'
  PROVE  IInv'
<1> USE DEF partVars
<1>1. RoleInv' /\ HandlerInv' /\ NoLostWakeup'
  BY DEF IInv, RoleInv, HandlerInv, NoLostWakeup
<1>2. OnlyVisibleSent'
  BY DEF IInv, OnlyVisibleSent
<1> QED BY <1>1, <1>2 DEF IInv

LEMMA RecvStep ==
  ASSUME IInv, Recv
  PROVE  IInv' /\ got' = Append(got, next)
<1> USE DEF Recv, serverVars
<1> DEFINE q == conn[stream].sent
           c == [conn[stream] EXCEPT !.sent = Tail(q)]
<1>0. /\ stream \in Stream /\ q \in Seq(Nat) /\ q # <<>> /\ next \in Nat
      /\ conn \in [Stream -> Conn] /\ conn[stream] \in Conn /\ got \in Seq(Nat)
  BY DEF IInv, TypeOK, Conn
<1>1. /\ Len(q) \in Nat /\ Len(q) >= 1 /\ Head(q) = q[1] /\ Head(q) \in Nat
      /\ Tail(q) \in Seq(Nat) /\ Len(Tail(q)) = Len(q) - 1
      /\ \A i \in 1 .. Len(q) - 1 : Tail(q)[i] = q[i + 1]
  <2> HIDE DEF q
  <2> QED BY <1>0, NonEmptySeq
<1>2. /\ \A i \in 1 .. Len(q) : q[i] = next + i - 1
      /\ handler[stream].pc # "idle" /\ ~conn[stream].broken =>
           handler[stream].offset = next + Len(q)
  BY DEF IInv, StreamInOrder
<1>3. Head(q) = next
  <2>1. q[1] = next + 1 - 1
    BY <1>1, <1>2
  <2> QED BY <1>0, <1>1, <2>1
<1>4. next' = next + 1 /\ got' = Append(got, next)
  BY <1>3
<1>5. conn' = [conn EXCEPT ![stream] = c]
  OBVIOUS
<1>6. c \in Conn /\ c.sent = Tail(q) /\ c.broken = conn[stream].broken
  BY <1>0, <1>1, Zenon DEF Conn
<1> HIDE DEF c
<1>7. /\ conn' \in [Stream -> Conn] /\ conn'[stream] = c
      /\ \A t \in Stream \ {stream} : conn'[t] = conn[t]
  BY <1>0, <1>5, <1>6, Zenon
<1>8. TypeOK'
  <2>1. next' \in Nat /\ got' \in Seq(Nat)
    BY <1>0, <1>4
  <2> QED BY <1>7, <2>1 DEF IInv, TypeOK, partVars
<1>9. \A t \in Stream : \A i \in DOMAIN conn'[t].sent :
        \E j \in DOMAIN conn[t].sent : conn'[t].sent[i] = conn[t].sent[j]
  <2> SUFFICES ASSUME NEW i \in DOMAIN Tail(q)
               PROVE  \E j \in DOMAIN q : Tail(q)[i] = q[j]
    BY <1>6, <1>7
  <2>1. i \in 1 .. Len(q) - 1 /\ i + 1 \in DOMAIN q
    BY <1>0, <1>1
  <2> QED BY <1>1, <2>1
<1>10. StreamInOrder'
  <2> HIDE DEF q
  <2>1. \A i \in 1 .. Len(q) - 1 : Tail(q)[i] = next + 1 + i - 1
    <3> SUFFICES ASSUME NEW i \in 1 .. Len(q) - 1
                 PROVE  q[i + 1] = next + 1 + i - 1
      BY <1>1
    <3>1. q[i + 1] = next + (i + 1) - 1
      BY <1>1, <1>2
    <3> QED BY <1>0, <1>1, <3>1
  <2>2. handler[stream].pc # "idle" /\ ~c.broken =>
          handler[stream].offset = next + 1 + (Len(q) - 1)
    BY <1>0, <1>1, <1>2, <1>6
  <2> QED BY <1>1, <1>4, <1>6, <1>7, <2>1, <2>2, Zenon DEF StreamInOrder
<1> QED BY <1>4, <1>8, <1>9, <1>10, ConnStep

LEMMA BreakStep ==
  ASSUME IInv, NEW n \in 0 .. MaxLen, Break(n)
  PROVE  IInv'
<1> USE DEF Break, serverVars, clientVars
<1> DEFINE q == conn[stream].sent
           r == SubSeq(q, 1, n)
           c == [sent |-> r, broken |-> TRUE]
<1>0. /\ stream \in Stream /\ q \in Seq(Nat) /\ n \in 0 .. Len(q) /\ Len(q) \in Nat
      /\ conn \in [Stream -> Conn] /\ DOMAIN q = 1 .. Len(q)
  BY DEF IInv, TypeOK, Conn
<1>1. r \in Seq(Nat) /\ Len(r) = n /\ \A i \in 1 .. n : r[i] = q[i]
  <2> HIDE DEF q
  <2>1. \A i \in 1 .. n : q[i] \in Nat
    BY <1>0
  <2> QED BY <1>0, <2>1
<1> HIDE DEF r
<1>2. c \in Conn /\ c.sent = r /\ c.broken = TRUE
  BY <1>1 DEF Conn
<1>3. conn' = [conn EXCEPT ![stream] = c]
  BY DEF r
<1> HIDE DEF c
<1>4. /\ conn' \in [Stream -> Conn] /\ conn'[stream] = c
      /\ \A t \in Stream \ {stream} : conn'[t] = conn[t]
  BY <1>0, <1>2, <1>3, Zenon
<1>5. TypeOK'
  <2>1. breaks' \in 0 .. MaxBreaks
    BY FetchAssumption DEF IInv, TypeOK
  <2> QED BY <1>4, <2>1 DEF IInv, TypeOK, partVars
<1>6. \A t \in Stream : \A i \in DOMAIN conn'[t].sent :
        \E j \in DOMAIN conn[t].sent : conn'[t].sent[i] = conn[t].sent[j]
  <2> SUFFICES ASSUME NEW i \in DOMAIN r
               PROVE  \E j \in DOMAIN q : r[i] = q[j]
    BY <1>2, <1>4
  <2>1. i \in 1 .. n /\ i \in DOMAIN q
    BY <1>0, <1>1
  <2> QED BY <1>1, <2>1
<1>7. StreamInOrder'
  <2>1. \A i \in 1 .. Len(q) : q[i] = next + i - 1
    BY DEF IInv, StreamInOrder
  <2> HIDE DEF q
  <2>2. \A i \in 1 .. n : r[i] = next + i - 1
    BY <1>0, <1>1, <2>1
  <2> QED BY <1>1, <1>2, <1>4, <2>2 DEF StreamInOrder
<1> QED BY <1>5, <1>6, <1>7, ConnStep

LEMMA ClientEndsStep ==
  ASSUME IInv, ConnectFails \/ RecvError \/ Stop
  PROVE  IInv'
<1> USE DEF serverVars
<1>1. CASE ConnectFails
  <2>1. TypeOK'
    <3>1. breaks' \in 0 .. MaxBreaks
      BY <1>1, FetchAssumption DEF ConnectFails, IInv, TypeOK
    <3> QED BY <1>1, <3>1, Zenon DEF ConnectFails, IInv, TypeOK, partVars, clientVars
  <2>2. StreamInOrder'
    BY <1>1 DEF ConnectFails, IInv, StreamInOrder
  <2> QED BY <1>1, <2>1, <2>2, ConnStep DEF ConnectFails
<1>2. CASE RecvError
  <2>1. TypeOK'
    BY <1>2 DEF RecvError, IInv, TypeOK, partVars
  <2>2. StreamInOrder'
    BY <1>2 DEF RecvError, StreamInOrder
  <2> QED BY <1>2, <2>1, <2>2, ConnStep DEF RecvError
<1>3. CASE Stop
  <2> DEFINE c == [sent |-> <<>>, broken |-> TRUE]
  <2>1. c \in Conn /\ DOMAIN c.sent = {}
    BY DEF Conn
  <2>2. stream' = NoStream /\ UNCHANGED <<partVars, handler, after, next, got, breaks>>
        /\ running' = FALSE
    BY <1>3 DEF Stop
  <2>3. conn' = conn \/ conn' = [conn EXCEPT ![stream] = c]
    BY <1>3 DEF Stop
  <2> HIDE DEF c
  <2>4. conn \in [Stream -> Conn]
    BY DEF IInv, TypeOK
  <2>5. conn' \in [Stream -> Conn] /\ \A t \in Stream : conn'[t] = conn[t] \/ conn'[t] = c
    BY <2>1, <2>3, <2>4
  <2>6. TypeOK'
    BY <2>2, <2>5, Zenon DEF IInv, TypeOK, partVars
  <2>7. \A t \in Stream : \A i \in DOMAIN conn'[t].sent :
          \E j \in DOMAIN conn[t].sent : conn'[t].sent[i] = conn[t].sent[j]
    BY <2>1, <2>5
  <2>8. StreamInOrder'
    BY <2>2 DEF StreamInOrder
  <2> QED BY <2>2, <2>6, <2>7, <2>8, ConnStep
<1> QED BY <1>1, <1>2, <1>3

-----------------------------------------------------------------------------
(* The theorems.                                                           *)

LEMMA IInvInit == Init => IInv
<1> SUFFICES ASSUME Init PROVE IInv
  OBVIOUS
<1> USE DEF Init
<1>1. NoHandler \in Handler /\ NoHandler.pc = "idle"
  BY DEF NoHandler, Handler
<1>2. [sent |-> <<>>, broken |-> FALSE] \in Conn
  BY DEF Conn
<1>3. TypeOK
  <2>1. handler \in [Stream -> Handler] /\ conn \in [Stream -> Conn]
    BY <1>1, <1>2
  <2>2. next \in Nat /\ got \in Seq(Nat)
    BY FetchAssumption
  <2>3. leo \in 0 .. MaxLen /\ hw \in 0 .. MaxLen /\ breaks \in 0 .. MaxBreaks
    BY FetchAssumption
  <2> QED BY <2>1, <2>2, <2>3, Zenon DEF TypeOK
<1>4. RoleInv
  BY DEF RoleInv
<1>5. HandlerInv /\ NoLostWakeup
  BY <1>1 DEF HandlerInv, NoLostWakeup
<1>6. OnlyVisibleSent /\ StreamInOrder
  BY DEF OnlyVisibleSent, StreamInOrder
<1> QED BY <1>3, <1>4, <1>5, <1>6, Zenon DEF IInv

LEMMA IInvNext == IInv /\ [Next]_vars => IInv'
<1> SUFFICES ASSUME IInv, [Next]_vars PROVE IInv'
  OBVIOUS
<1>1. CASE UNCHANGED vars
  BY <1>1 DEF vars, partVars, serverVars, clientVars, IInv, TypeOK, RoleInv, HandlerInv,
              OnlyVisibleSent, NoLostWakeup, StreamInOrder
<1>2. CASE \E p \in Producer : ProduceAppend(p) \/ ProduceVisible(p) \/ ProduceWake(p)
  BY <1>2, ProduceAppendStep, ProduceVisibleStep, ProduceWakeStep
<1>3. CASE \E h \in 0 .. MaxLen : AdvanceHW(h) \/ ReplicaHW(h)
  BY <1>3, AdvanceHWStep, ReplicaHWStep
<1>4. CASE ReplicaAppend \/ ReplicaWake
  BY <1>4, ReplicaAppendStep, ReplicaWakeStep
<1>5. CASE \E s \in Stream : HandlerStep(s)
  BY <1>5, HandlerReadStep, HandlerLogStep, HandlerSendStep, HandlerLockStep,
     HandlerParkStep DEF HandlerStep
<1>6. CASE \E s \in Stream : Cancel(s) \/ AfterFunc(s) \/ connect(s)
  BY <1>6, CancelStep, AfterFuncStep, connectStep
<1>7. CASE Recv \/ ConnectFails \/ RecvError \/ Stop
  BY <1>7, RecvStep, ClientEndsStep
<1>8. CASE \E n \in 0 .. MaxLen : Break(n)
  BY <1>8, BreakStep
<1> QED BY <1>1, <1>2, <1>3, <1>4, <1>5, <1>6, <1>7, <1>8 DEF Next, PollStep

LEMMA IInvariant == Spec => []IInv
BY IInvInit, IInvNext, PTL DEF Spec

\* Every variable keeps its type.
THEOREM TypeCorrect == Spec => []TypeOK
BY IInvariant, PTL DEF IInv

\* However many producers and handlers there are, no broadcast that makes a record
\* visible is missed by a handler that goes to sleep (partition.go:340-346, 484-492).
THEOREM NoLostWakeupAlways == Spec => []NoLostWakeup
BY IInvariant, PTL DEF IInv

\* For every batch size, nothing is sent that is not in the log and below the
\* watermark (partition.go:360-385).
THEOREM OnlyVisibleSentAlways == Spec => []OnlyVisibleSent
BY IInvariant, PTL DEF IInv

\* For any number of broken streams, Poll returns the record at nextOffset and no
\* other (consumer.go:222-261).
THEOREM DeliveredInOrderAlways == Spec => DeliveredInOrder
<1>1. IInv /\ [Next]_vars => [got' # got => got' = Append(got, next)]_vars
  <2> SUFFICES ASSUME IInv, Next, got' # got PROVE Recv
    BY RecvStep
  <2> USE DEF partVars, serverVars, clientVars
  <2>1. ASSUME NEW p \in Producer
        PROVE  ~(ProduceAppend(p) \/ ProduceVisible(p) \/ ProduceWake(p))
    BY DEF ProduceAppend, ProduceVisible, ProduceWake
  <2>2. ASSUME NEW h \in 0 .. MaxLen
        PROVE  ~(AdvanceHW(h) \/ ReplicaHW(h) \/ Break(h))
    BY DEF AdvanceHW, ReplicaHW, Break
  <2>3. ~(ReplicaAppend \/ ReplicaWake \/ ConnectFails \/ RecvError \/ Stop)
    BY DEF ReplicaAppend, ReplicaWake, ConnectFails, RecvError, Stop
  <2>4. ASSUME NEW s \in Stream
        PROVE  ~(HandlerStep(s) \/ Cancel(s) \/ AfterFunc(s) \/ connect(s))
    BY DEF HandlerStep, HandlerRead, HandlerLog, HandlerSend, HandlerLock, HandlerPark,
           Cancel, AfterFunc, connect
  <2> QED BY <2>1, <2>2, <2>3, <2>4 DEF Next, PollStep
<1> QED BY <1>1, IInvariant, PTL DEF Spec, DeliveredInOrder
=============================================================================
