--------------------------- MODULE RoutingProofs ---------------------------
(***************************************************************************)
(* For any number of brokers, partitions, handlers of CreateTopic and      *)
(* goroutines that route, and whatever commits, logs and brokers fail: the *)
(* metadata in use are indexed by partition, and a record is acknowledged  *)
(* only by a broker that the committed metadata named for its partition.   *)
(*                                                                         *)
(* GetMetadata sorts what is known and says nothing of gaps, so the        *)
(* induction is about the Raft log: a partition is committed only after    *)
(* all smaller ones (Dense), which holds because a handler that is to      *)
(* commit a partition has seen the smaller ones committed (CallerInv), and *)
(* promotions are of known partitions.  Every prefix of the log then knows *)
(* the partitions 0 .. k - 1 for some k (KnownIs).                         *)
(***************************************************************************)
EXTENDS Routing, FiniteSetTheorems, WellFoundedInduction, TLAPS

\* The log has each partition only after all smaller ones.
Dense(l) ==
  \A i \in DOMAIN l, q \in Partitions :
    q < l[i].partition => \E k \in 1 .. i - 1 : l[k].partition = q

\* The log has the partitions below n.
Has(l, n) == \A q \in Partitions : q < n => \E k \in DOMAIN l : l[k].partition = q

CallerInv(l, r) ==
  /\ r.pc = "idle" => r.next = 0
  /\ r.pc = "commit" => r.next < NumPartitions /\ Has(l, r.next)

\* Metadata that are indexed by partition, and were committed.
Named(l, e) == \E i \in DOMAIN l : l[i].partition = e.partition /\ l[i].primary = e.primary
Sound(l, parts) == \A i \in DOMAIN parts : parts[i].partition = i - 1 /\ Named(l, parts[i])

WorkerInv(l, r) ==
  /\ Sound(l, r.parts)
  /\ r.pc \in {"store", "produce", "evict"} => r.parts # <<>>

CoordOK ==
  /\ topics \in BOOLEAN
  /\ rlog \in Seq(Entry) /\ applied \in 0 .. Len(rlog)
  /\ caller \in [Caller -> CallerState]
  /\ Dense(rlog)
  /\ \A c \in Caller : CallerInv(rlog, caller[c])

BrokerOK ==
  /\ calls \in SUBSET AssignRole
  /\ up \in [Broker -> BOOLEAN]
  /\ open \in [Broker -> [Partitions -> {"no", "Leader", "Follower"}]]
  /\ epoch \in [Broker -> [Partitions -> Nat]]
  /\ disk \in [Broker -> SUBSET Partitions]
  /\ \A b \in Broker, p \in Partitions : open[b][p] # "no" <=> up[b] /\ p \in disk[b]

ClientOK ==
  /\ metaCache \in Seq(PartitionInfo) /\ Sound(rlog, metaCache)
  /\ worker \in [Worker -> WorkerState]
  /\ \A w \in Worker : WorkerInv(rlog, worker[w])

BoundsOK == promotions \in 0 .. MaxPromotions /\ faults \in 0 .. MaxFaults

RInv == CoordOK /\ BrokerOK /\ ClientOK /\ BoundsOK

-----------------------------------------------------------------------------
(* The metadata.                                                           *)

\* A non-empty set of naturals has a least element.
LEMMA LeastNat ==
  ASSUME NEW T \in SUBSET Nat, T # {}
  PROVE  \E x \in T : \A y \in T : x <= y
<1> DEFINE R == OpToRel(<, Nat)
<1>1. IsWellFoundedOn(R, Nat)
  BY NatLessThanWellFounded, Zenon
<1>2. PICK x \in T : \A y \in T : ~ (<<y, x>> \in R)
  <2> HIDE DEF R
  <2> QED BY <1>1, WFMin, Zenon
<1>3. \A y \in T : ~(y < x)
  BY <1>2, Zenon DEF OpToRel
<1> QED BY <1>3

\* The last command for a partition.
Last(l, n, p, i) == l[i].partition = p /\ \A k \in i + 1 .. n : l[k].partition # p

LEMMA LastIndex ==
  ASSUME NEW n \in Nat, NEW l, NEW p, NEW j \in 1 .. n, l[j].partition = p
  PROVE  \E i \in 1 .. n : Last(l, n, p, i)
<1> DEFINE T == {n - i : i \in {k \in 1 .. n : l[k].partition = p}}
<1>1. T \in SUBSET Nat /\ n - j \in T
  OBVIOUS
<1>2. PICK x \in T : \A y \in T : x <= y
  BY <1>1, LeastNat, Zenon
<1>3. PICK i \in 1 .. n : x = n - i /\ l[i].partition = p
  OBVIOUS
<1>4. ASSUME NEW k \in i + 1 .. n, l[k].partition = p PROVE FALSE
  <2>1. k \in 1 .. n /\ n - k \in T
    BY <1>4
  <2>2. n - i <= n - k
    BY <1>2, <1>3, <2>1, Zenon
  <2> QED
    BY <1>3, <2>1, <2>2
<1> QED
  BY <1>3, <1>4 DEF Last

\* The state of a known partition is that of a committed command for it.
LEMMA StateNamed ==
  ASSUME rlog \in Seq(Entry), NEW n \in 0 .. Len(rlog), NEW p \in Known(n)
  PROVE  /\ State(n, p) \in Entry
         /\ Named(rlog, [partition |-> p, primary |-> Primary(n, p)])
<1> DEFINE x == CHOOSE i \in 1 .. n : Last(rlog, n, p, i)
<1>1. Len(rlog) \in Nat /\ n \in Nat /\ n <= Len(rlog)
  OBVIOUS
<1>2. PICK j \in 1 .. n : rlog[j].partition = p
  BY DEF Known
<1>3. \E i \in 1 .. n : Last(rlog, n, p, i)
  BY <1>1, <1>2, LastIndex
<1>4. x \in 1 .. n /\ rlog[x].partition = p
  BY <1>3 DEF Last
<1>5. State(n, p) = rlog[x]
  BY DEF State, Last
<1> HIDE DEF x
<1>6. x \in DOMAIN rlog /\ rlog[x] \in Entry
  BY <1>1, <1>4
<1>7. Primary(n, p) = rlog[x].primary
  BY <1>5 DEF Primary
<1> QED
  BY <1>4, <1>5, <1>6, <1>7 DEF Named

\* What a prefix of the log knows has no gaps.
LEMMA KnownIs ==
  ASSUME rlog \in Seq(Entry), Dense(rlog), NEW n \in 0 .. Len(rlog)
  PROVE  \E k \in 0 .. NumPartitions : Known(n) = 0 .. k - 1
<1> DEFINE T == {q \in Nat : q \notin Known(n)}
<1>1. NumPartitions \in Nat /\ Len(rlog) \in Nat /\ n \in Nat
  BY RoutingAssumption
<1>2. ASSUME NEW i \in 1 .. n PROVE i \in DOMAIN rlog /\ rlog[i].partition \in Partitions
  <2>1. i \in DOMAIN rlog /\ rlog[i] \in Entry
    BY <1>1
  <2> QED
    BY <2>1 DEF Entry
<1>3. Known(n) \in SUBSET Partitions
  BY <1>2 DEF Known
<1>4. NumPartitions \in T
  BY <1>1, <1>3 DEF Partitions
<1>5. PICK k \in T : \A y \in T : k <= y
  BY <1>4, LeastNat, Zenon
<1>6. k \in Nat /\ k \notin Known(n) /\ k <= NumPartitions
  BY <1>4, <1>5
<1>7. ASSUME NEW q \in 0 .. k - 1 PROVE q \in Known(n)
  BY <1>5, <1>6
<1>8. ASSUME NEW q \in Known(n) PROVE q \in 0 .. k - 1
  <2>1. PICK i \in 1 .. n : rlog[i].partition = q
    BY DEF Known
  <2>2. q \in Nat /\ q < NumPartitions
    BY <1>1, <1>3 DEF Partitions
  <2>3. CASE q < k
    BY <1>6, <2>2, <2>3
  <2>4. CASE k < q
    <3>1. k \in Partitions /\ k < rlog[i].partition
      BY <1>1, <1>6, <2>1, <2>2, <2>4 DEF Partitions
    <3>2. PICK m \in 1 .. i - 1 : rlog[m].partition = k
      BY <1>2, <3>1 DEF Dense
    <3>3. m \in 1 .. n
      BY <1>1
    <3>4. k \in Known(n)
      BY <3>2, <3>3 DEF Known
    <3> QED
      BY <1>6, <3>4
  <2> QED
    BY <1>6, <2>2, <2>3, <2>4
<1>9. Known(n) = 0 .. k - 1
  BY <1>7, <1>8, Zenon
<1> QED
  BY <1>1, <1>6, <1>9

\* The i-th of them is partition i - 1.
LEMMA NthInterval ==
  ASSUME NEW k \in Nat, NEW i \in 1 .. k
  PROVE  Nth(0 .. k - 1, i) = i - 1
<1> DEFINE K == 0 .. k - 1
           C(n) == {j \in K : j <= n}
<1>1. ASSUME NEW n \in K PROVE Cardinality(C(n)) = n + 1
  <2>1. C(n) = 0 .. n
    OBVIOUS
  <2>2. Cardinality(0 .. n) = n + 1
    <3>1. n \in Int /\ n - 0 + 1 = n + 1 /\ 0 <= n
      OBVIOUS
    <3>2. Cardinality(0 .. n) = n - 0 + 1
      BY <3>1, FS_Interval
    <3> QED
      BY <3>1, <3>2
  <2> QED
    BY <2>1, <2>2, Zenon
<1> HIDE DEF C
<1>2. i - 1 \in K /\ Cardinality(C(i - 1)) = i
  BY <1>1
<1>3. \A n \in K : Cardinality(C(n)) = i => n = i - 1
  BY <1>1
<1>4. (CHOOSE n \in K : Cardinality(C(n)) = i) = i - 1
  BY <1>2, <1>3
<1> QED
  BY <1>4 DEF Nth, C

\* The answer of GetMetadata.
LEMMA GetTopicSound ==
  ASSUME CoordOK, applied > 0
  PROVE  /\ GetTopic(applied) \in Seq(PartitionInfo) /\ GetTopic(applied) # <<>>
         /\ Sound(rlog, GetTopic(applied))
<1>1. rlog \in Seq(Entry) /\ applied \in 0 .. Len(rlog) /\ Dense(rlog)
  BY DEF CoordOK
<1>2. PICK k \in 0 .. NumPartitions : Known(applied) = 0 .. k - 1
  BY <1>1, KnownIs
<1>3. NumPartitions \in Nat /\ k \in Nat /\ Len(rlog) \in Nat
  BY <1>1, RoutingAssumption
<1>4. Cardinality(0 .. k - 1) = k
  <2>1. CASE k = 0
    <3>1. 0 .. k - 1 = {}
      BY <2>1
    <3> QED
      BY <2>1, <3>1, FS_EmptySet
  <2>2. CASE k > 0
    <3>1. 0 \in Int /\ k - 1 \in Int /\ 0 <= k - 1 /\ (k - 1) - 0 + 1 = k
      BY <1>3, <2>2
    <3>2. Cardinality(0 .. k - 1) = (k - 1) - 0 + 1
      BY <3>1, FS_Interval
    <3> QED
      BY <3>1, <3>2
  <2> QED
    BY <1>3, <2>1, <2>2
<1>5. k > 0
  <2>1. 1 \in 1 .. applied
    BY <1>1, <1>3
  <2>2. rlog[1].partition \in Known(applied)
    BY <2>1 DEF Known
  <2> QED
    BY <1>2, <1>3, <2>2
<1> DEFINE e(p) == [partition |-> p, primary |-> Primary(applied, p)]
           g == GetTopic(applied)
<1>6. g = [i \in 1 .. k |-> e(Nth(0 .. k - 1, i))]
  BY <1>2, <1>4 DEF GetTopic
<1>7. ASSUME NEW i \in 1 .. k
      PROVE  g[i] = e(i - 1) /\ Named(rlog, e(i - 1)) /\ e(i - 1).partition = i - 1
  <2>1. Nth(0 .. k - 1, i) = i - 1
    BY <1>3, NthInterval
  <2>2. g[i] = e(i - 1)
    BY <1>6, <2>1, Zenon
  <2>3. i - 1 \in Known(applied)
    BY <1>2, <1>3
  <2>4. Named(rlog, e(i - 1))
    BY <1>1, <2>3, StateNamed
  <2> QED
    BY <2>2, <2>4
<1>8. DOMAIN g = 1 .. k
  BY <1>6
<1> HIDE DEF g, e
<1>9. Sound(rlog, g)
  BY <1>7, <1>8 DEF Sound
<1>10. \A i \in 1 .. k : g[i] \in PartitionInfo
  <2> TAKE i \in 1 .. k
  <2>1. g[i] = [partition |-> i - 1, primary |-> Primary(applied, i - 1)]
    BY <1>7 DEF e
  <2>2. PICK m \in DOMAIN rlog : rlog[m].partition = i - 1 /\ rlog[m].primary = Primary(applied, i - 1)
    BY <1>7, Zenon DEF Named, e
  <2>3. rlog[m] \in Entry
    BY <1>1
  <2> QED
    BY <2>1, <2>2, <2>3 DEF Entry, PartitionInfo
<1>11. g \in Seq(PartitionInfo) /\ Len(g) = k
  <2>1. g = [i \in 1 .. k |-> g[i]]
    <3>1. g = [i \in DOMAIN g |-> g[i]]
      BY <1>6, Zenon DEF g
    <3> QED
      BY <1>8, <3>1
  <2> QED
    BY <1>3, <1>8, <1>10, <2>1
<1>12. g # <<>>
  BY <1>5, <1>11
<1> QED
  BY <1>9, <1>11, <1>12 DEF g

\* The broker that a partition is assigned to.
LEMMA AssignmentTyped ==
  ASSUME NEW p \in Nat
  PROVE  Assignment(p) \in Broker
<1> DEFINE n == Len(Order)
<1>1. Order \in Seq(Broker) /\ Broker = {Order[i] : i \in DOMAIN Order} /\ Broker # {}
  BY RoutingAssumption
<1>2. n \in Nat /\ n > 0 /\ DOMAIN Order = 1 .. n
  BY <1>1
<1> HIDE DEF n
<1>3. p % n \in 0 .. n - 1
  BY <1>2
<1>4. (p % n) + 1 \in DOMAIN Order
  BY <1>2, <1>3
<1> QED
  BY <1>1, <1>4 DEF Assignment, n

\* A command is appended for a partition whose smaller ones the log has.
LEMMA LogGrows ==
  ASSUME NEW l \in Seq(Entry), Dense(l), NEW e \in Entry, Has(l, e.partition)
  PROVE  LET a == Append(l, e) IN
         /\ a \in Seq(Entry) /\ Len(a) = Len(l) + 1 /\ Dense(a)
         /\ \A n : Has(l, n) => Has(a, n)
         /\ Has(a, e.partition + 1)
         /\ \A parts : Sound(l, parts) => Sound(a, parts)
<1> DEFINE a == Append(l, e)
           n == Len(l)
<1>1. /\ n \in Nat /\ a \in Seq(Entry) /\ Len(a) = n + 1
      /\ DOMAIN l = 1 .. n /\ DOMAIN a = 1 .. n + 1
      /\ a[n + 1] = e /\ \A i \in 1 .. n : a[i] = l[i]
  OBVIOUS
<1>2. \A i \in 1 .. n : i \in 1 .. n + 1
  BY <1>1
<1>3. n + 1 \in 1 .. n + 1 /\ e.partition \in Int
  BY <1>1 DEF Entry, Partitions
<1> HIDE DEF a, n
<1>4. Dense(a)
  <2> SUFFICES ASSUME NEW i \in 1 .. n + 1, NEW q \in Partitions, q < a[i].partition
               PROVE  \E k \in 1 .. i - 1 : a[k].partition = q
    BY <1>1 DEF Dense
  <2>1. CASE i \in 1 .. n
    <3>1. q < l[i].partition
      BY <1>1, <2>1
    <3>2. PICK k \in 1 .. i - 1 : l[k].partition = q
      BY <1>1, <2>1, <3>1 DEF Dense
    <3>3. k \in 1 .. n
      BY <1>1, <2>1
    <3> QED
      BY <1>1, <3>2, <3>3
  <2>2. CASE i = n + 1
    <3>1. q < e.partition
      BY <1>1, <2>2
    <3>2. PICK k \in 1 .. n : l[k].partition = q
      BY <1>1, <3>1 DEF Has
    <3>3. k \in 1 .. i - 1
      BY <1>1, <2>2
    <3> QED
      BY <1>1, <3>2, <3>3
  <2> QED
    BY <1>1, <2>1, <2>2
<1>5. \A m : Has(l, m) => Has(a, m)
  BY <1>1, <1>2 DEF Has
<1>6. Has(a, e.partition + 1)
  <2> SUFFICES ASSUME NEW q \in Partitions, q < e.partition + 1
               PROVE  \E k \in 1 .. n + 1 : a[k].partition = q
    BY <1>1 DEF Has
  <2>1. q < e.partition \/ q = e.partition
    BY <1>3 DEF Partitions
  <2>2. CASE q < e.partition
    BY <1>1, <1>2, <2>2 DEF Has
  <2>3. CASE q = e.partition
    BY <1>1, <1>3, <2>3
  <2> QED
    BY <2>1, <2>2, <2>3
<1>7. \A x : Named(l, x) => Named(a, x)
  BY <1>1, <1>2 DEF Named
<1>8. \A parts : Sound(l, parts) => Sound(a, parts)
  BY <1>7 DEF Sound
<1>9. /\ a \in Seq(Entry) /\ Len(a) = Len(l) + 1
  BY <1>1 DEF n
<1> QED
  BY <1>4, <1>5, <1>6, <1>8, <1>9, Zenon DEF a

-----------------------------------------------------------------------------
(* What a step leaves alone.                                               *)

LEMMA CoordStays ==
  ASSUME CoordOK, UNCHANGED <<topics, rlog, applied, caller>>
  PROVE  CoordOK'
  BY DEF CoordOK

LEMMA BrokersStay ==
  ASSUME BrokerOK, UNCHANGED <<calls, up, open, epoch, disk>>
  PROVE  BrokerOK'
  BY DEF BrokerOK

LEMMA ClientStays ==
  ASSUME ClientOK, UNCHANGED <<rlog, metaCache, worker>>
  PROVE  ClientOK'
  BY DEF ClientOK

LEMMA BoundsStay ==
  ASSUME BoundsOK, UNCHANGED <<promotions, faults>>
  PROVE  BoundsOK'
  BY DEF BoundsOK

\* One more fault or promotion, within the bound.
LEMMA FaultCounted ==
  ASSUME BoundsOK, faults < MaxFaults, faults' = faults + 1, UNCHANGED promotions
  PROVE  BoundsOK'
  BY RoutingAssumption DEF BoundsOK

LEMMA PromotionCounted ==
  ASSUME BoundsOK, promotions < MaxPromotions, promotions' = promotions + 1, UNCHANGED faults
  PROVE  BoundsOK'
  BY RoutingAssumption DEF BoundsOK

\* The log grows and the clients do nothing.
LEMMA ClientGrows ==
  ASSUME ClientOK, NEW e \in Entry, rlog \in Seq(Entry), Dense(rlog), Has(rlog, e.partition),
         rlog' = Append(rlog, e), UNCHANGED <<metaCache, worker>>
  PROVE  ClientOK'
<1>1. \A parts : Sound(rlog, parts) => Sound(rlog', parts)
  BY LogGrows
<1>2. \A w \in Worker : WorkerInv(rlog, worker[w]) => WorkerInv(rlog', worker[w])
  BY <1>1 DEF WorkerInv
<1> QED
  BY <1>1, <1>2 DEF ClientOK

-----------------------------------------------------------------------------
(* The steps of CreateTopic.                                               *)

\* The fields of a handler's state.
LEMMA CallerFields ==
  ASSUME CoordOK, NEW c \in Caller
  PROVE  /\ caller[c] \in CallerState /\ CallerInv(rlog, caller[c])
         /\ caller[c].next \in 0 .. NumPartitions /\ caller[c].todo \in SUBSET Broker
         /\ caller[c].pc \in {"idle", "commit", "init", "backups", "lead", "follow",
                              "ok", "exists", "error"}
<1>1. caller[c] \in CallerState /\ CallerInv(rlog, caller[c])
  BY DEF CoordOK
<1> QED
  BY <1>1 DEF CallerState

\* What changing its place makes of it.
LEMMA CallerIs ==
  ASSUME NEW r \in CallerState, NEW v
  PROVE  [r EXCEPT !.pc = v] = [pc |-> v, next |-> r.next, todo |-> r.todo]
<1>1. r = [pc |-> r.pc, next |-> r.next, todo |-> r.todo]
  BY DEF CallerState
<1> QED
  BY <1>1

\* A handler moves; the log may grow.
LEMMA CallerMoves ==
  ASSUME CoordOK, NEW c \in Caller, NEW x \in CallerState, caller' = [caller EXCEPT ![c] = x],
         CallerInv(rlog', x), rlog' \in Seq(Entry), Dense(rlog'), Len(rlog') >= Len(rlog),
         \A n : Has(rlog, n) => Has(rlog', n), topics' \in BOOLEAN, UNCHANGED applied
  PROVE  CoordOK'
<1>1. caller \in [Caller -> CallerState] /\ applied \in 0 .. Len(rlog) /\ rlog \in Seq(Entry)
  BY DEF CoordOK
<1>2. caller' \in [Caller -> CallerState] /\ \A k \in Caller : caller'[k] = IF k = c THEN x ELSE caller[k]
  BY <1>1
<1>3. applied' \in 0 .. Len(rlog')
  <2>1. Len(rlog) \in Nat /\ Len(rlog') \in Nat
    BY <1>1
  <2> QED
    BY <1>1, <2>1
<1>4. ASSUME NEW k \in Caller PROVE CallerInv(rlog', caller'[k])
  <2>1. CallerInv(rlog, caller[k])
    BY DEF CoordOK
  <2>2. CallerInv(rlog', caller[k])
    BY <2>1 DEF CallerInv
  <2> QED
    BY <1>2, <2>2
<1> QED
  BY <1>2, <1>3, <1>4 DEF CoordOK

\* A handler moves and commits nothing.
LEMMA CallerGoesOn ==
  ASSUME CoordOK, NEW c \in Caller, NEW x \in CallerState, caller' = [caller EXCEPT ![c] = x],
         CallerInv(rlog, x), topics' \in BOOLEAN, UNCHANGED <<rlog, applied>>
  PROVE  CoordOK'
<1>1. rlog' \in Seq(Entry) /\ Dense(rlog')
  BY DEF CoordOK
<1>2. Len(rlog') >= Len(rlog)
  BY <1>1
<1>3. CallerInv(rlog', x) /\ \A n : Has(rlog, n) => Has(rlog', n)
  OBVIOUS
<1> QED
  BY <1>1, <1>2, <1>3, CallerMoves, Zenon

\* To another place of CreateTopic.
LEMMA CallerPc ==
  ASSUME CoordOK, NEW c \in Caller, NEW pc \in {"follow", "ok", "exists", "error"},
         caller' = [caller EXCEPT ![c].pc = pc], UNCHANGED <<rlog, applied>>, topics' \in BOOLEAN
  PROVE  CoordOK'
<1> DEFINE r == caller[c]
           x == [r EXCEPT !.pc = pc]
<1>1. r \in CallerState /\ r.next \in 0 .. NumPartitions /\ r.todo \in SUBSET Broker
  BY CallerFields
<1>2. caller' = [caller EXCEPT ![c] = x]
  BY Zenon
<1> HIDE DEF r
<1>3. x = [pc |-> pc, next |-> r.next, todo |-> r.todo]
  BY <1>1, CallerIs
<1> HIDE DEF x
<1>4. x \in CallerState /\ CallerInv(rlog, x)
  BY <1>1, <1>3 DEF CallerState, CallerInv
<1> QED
  BY <1>2, <1>4, CallerGoesOn, Zenon

\* CreateTopic enters the topic, and starts at partition 0.
LEMMA CreateTopicStep ==
  ASSUME RInv, NEW c \in Caller, CreateTopic(c)
  PROVE  RInv'
<1>1. UNCHANGED <<rlog, applied, calls, up, open, epoch, disk, metaCache, worker, promotions, faults>>
  BY DEF CreateTopic, brokerVars, clientVars, bounds
<1>2. CoordOK /\ BrokerOK /\ ClientOK /\ BoundsOK
  BY DEF RInv
<1>3. topics' \in BOOLEAN
  BY DEF CreateTopic
<1>4. CASE topics
  <2>1. caller' = [caller EXCEPT ![c].pc = "exists"]
    BY <1>4 DEF CreateTopic
  <2>2. CoordOK'
    BY <1>1, <1>2, <1>3, <2>1, CallerPc, Zenon
  <2> QED
    BY <1>1, <1>2, <2>2, BrokersStay, ClientStays, BoundsStay DEF RInv
<1>5. CASE ~topics
  <2> DEFINE r == caller[c]
             x == [r EXCEPT !.pc = "commit"]
  <2>1. /\ r \in CallerState /\ r.next \in 0 .. NumPartitions /\ r.todo \in SUBSET Broker
        /\ CallerInv(rlog, r) /\ r.pc = "idle"
    BY <1>2, CallerFields DEF CreateTopic
  <2>2. caller' = [caller EXCEPT ![c] = x]
    BY <1>5, Zenon DEF CreateTopic
  <2> HIDE DEF r
  <2>3. x = [pc |-> "commit", next |-> r.next, todo |-> r.todo] /\ r.next = 0
    BY <2>1, CallerIs DEF CallerInv
  <2> HIDE DEF x
  <2>4. x \in CallerState
    BY <2>1, <2>3 DEF CallerState
  <2>5. CallerInv(rlog, x)
    BY <2>3, RoutingAssumption DEF CallerInv, Has, Partitions
  <2>6. CoordOK'
    BY <1>1, <1>2, <1>3, <2>2, <2>4, <2>5, CallerGoesOn, Zenon
  <2> QED
    BY <1>1, <1>2, <2>6, BrokersStay, ClientStays, BoundsStay DEF RInv
<1> QED
  BY <1>4, <1>5

\* The command that a handler is to commit.
LEMMA NextEntry ==
  ASSUME CoordOK, NEW c \in Caller, caller[c].pc = "commit"
  PROVE  /\ CmdAssign(caller[c].next) \in Entry
         /\ CmdAssign(caller[c].next).partition = caller[c].next
         /\ Has(rlog, caller[c].next)
         /\ rlog \in Seq(Entry) /\ Dense(rlog)
<1>1. CallerInv(rlog, caller[c]) /\ caller[c].next \in 0 .. NumPartitions
  BY CallerFields
<1>2. caller[c].next \in Partitions /\ caller[c].next \in Nat
  BY <1>1, RoutingAssumption DEF CallerInv, Partitions
<1>3. Assignment(caller[c].next) \in Broker
  BY <1>2, AssignmentTyped
<1>4. /\ CmdAssign(caller[c].next) \in Entry
      /\ CmdAssign(caller[c].next).partition = caller[c].next
  BY <1>2, <1>3 DEF Entry, CmdAssign
<1> QED
  BY <1>1, <1>4 DEF CallerInv, CoordOK

\* The next partition is committed.
LEMMA CommitAssignStep ==
  ASSUME RInv, NEW c \in Caller, CommitAssign(c)
  PROVE  RInv'
<1> DEFINE r == caller[c]
           e == CmdAssign(r.next)
           y == [pc |-> r.pc, next |-> r.next + 1, todo |-> r.todo]
           x == IF r.next + 1 < NumPartitions THEN y
                ELSE [pc |-> "init", next |-> NumPartitions, todo |-> Broker]
<1>1. /\ UNCHANGED <<topics, applied, calls, up, open, epoch, disk, metaCache, worker, promotions, faults>>
      /\ rlog' = Append(rlog, e) /\ r.pc = "commit"
  BY DEF CommitAssign, brokerVars, clientVars, bounds
<1>2. CoordOK /\ BrokerOK /\ ClientOK /\ BoundsOK
  BY DEF RInv
<1>3. caller' = [caller EXCEPT ![c] = x]
  BY DEF CommitAssign
<1>4. /\ e \in Entry /\ e.partition = r.next
      /\ Has(rlog, r.next) /\ rlog \in Seq(Entry) /\ Dense(rlog)
  BY <1>1, <1>2, NextEntry
<1>5. r \in CallerState /\ r.next \in 0 .. NumPartitions /\ r.todo \in SUBSET Broker
  BY <1>2, CallerFields
<1>6. NumPartitions \in Nat /\ e.partition = r.next
  BY <1>4, RoutingAssumption
<1> HIDE DEF e, r
<1>7. /\ rlog' \in Seq(Entry) /\ Len(rlog') = Len(rlog) + 1 /\ Dense(rlog')
      /\ \A n : Has(rlog, n) => Has(rlog', n)
      /\ Has(rlog', r.next + 1)
  BY <1>1, <1>4, <1>6, LogGrows
<1>8. x \in CallerState /\ CallerInv(rlog', x)
  <2>1. CASE r.next + 1 < NumPartitions
    <3>1. x = y
      BY <2>1
    <3>2. y = [pc |-> r.pc, next |-> r.next + 1, todo |-> r.todo]
      OBVIOUS
    <3> HIDE DEF x, y
    <3>3. x \in CallerState
      BY <1>1, <1>5, <1>6, <2>1, <3>1, <3>2 DEF CallerState
    <3> QED
      BY <1>1, <1>7, <2>1, <3>1, <3>2, <3>3 DEF CallerInv
  <2>2. CASE ~(r.next + 1 < NumPartitions)
    <3>1. x = [pc |-> "init", next |-> NumPartitions, todo |-> Broker]
      BY <2>2
    <3> HIDE DEF x
    <3> QED
      BY <1>6, <3>1 DEF CallerState, CallerInv
  <2> QED
    BY <2>1, <2>2
<1> HIDE DEF x, y
<1>9. Len(rlog') >= Len(rlog) /\ topics' \in BOOLEAN
  BY <1>1, <1>2, <1>4, <1>7 DEF CoordOK
<1>10. CoordOK'
  BY <1>1, <1>2, <1>3, <1>7, <1>8, <1>9, CallerMoves, Zenon
<1>11. ClientOK'
  BY <1>1, <1>2, <1>4, <1>6, ClientGrows
<1> QED
  BY <1>1, <1>2, <1>10, <1>11, BrokersStay, BoundsStay DEF RInv

\* A commit fails, and may be found in the log all the same.
LEMMA CommitFailsStep ==
  ASSUME RInv, NEW c \in Caller, NEW late \in BOOLEAN, CommitFails(c, late)
  PROVE  RInv'
<1> DEFINE r == caller[c]
           e == CmdAssign(r.next)
           x == [r EXCEPT !.pc = "error"]
<1>1. /\ UNCHANGED <<topics, applied, calls, up, open, epoch, disk, metaCache, worker, promotions>>
      /\ r.pc = "commit" /\ faults < MaxFaults /\ faults' = faults + 1
  BY DEF CommitFails, brokerVars, clientVars
<1>2. CoordOK /\ BrokerOK /\ ClientOK /\ BoundsOK
  BY DEF RInv
<1>3. caller' = [caller EXCEPT ![c].pc = "error"]
  BY Zenon DEF CommitFails
<1>4. BoundsOK' /\ BrokerOK'
  BY <1>1, <1>2, FaultCounted, BrokersStay
<1>5. CASE UNCHANGED rlog
  <2>1. CoordOK'
    BY <1>1, <1>2, <1>3, <1>5, CallerPc, Zenon DEF CoordOK
  <2> QED
    BY <1>1, <1>2, <1>4, <1>5, <2>1, ClientStays DEF RInv
<1>6. CASE rlog' = Append(rlog, e)
  <2>1. /\ e \in Entry /\ e.partition = r.next
        /\ Has(rlog, r.next) /\ rlog \in Seq(Entry) /\ Dense(rlog)
    BY <1>1, <1>2, NextEntry
  <2>2. r \in CallerState /\ r.next \in 0 .. NumPartitions /\ r.todo \in SUBSET Broker
    BY <1>2, CallerFields
  <2>3. caller' = [caller EXCEPT ![c] = x] /\ e.partition = r.next
    BY <1>3, <2>1, Zenon
  <2> HIDE DEF e, r
  <2>4. /\ rlog' \in Seq(Entry) /\ Len(rlog') = Len(rlog) + 1 /\ Dense(rlog')
        /\ \A n : Has(rlog, n) => Has(rlog', n)
    BY <1>6, <2>1, <2>3, LogGrows
  <2>5. x = [pc |-> "error", next |-> r.next, todo |-> r.todo]
    BY <2>2, CallerIs
  <2> HIDE DEF x
  <2>6. x \in CallerState /\ CallerInv(rlog', x)
    BY <2>2, <2>5 DEF CallerState, CallerInv
  <2>7. Len(rlog') >= Len(rlog) /\ topics' \in BOOLEAN
    BY <1>1, <1>2, <2>1, <2>4 DEF CoordOK
  <2>8. CoordOK'
    BY <1>1, <1>2, <2>3, <2>4, <2>6, <2>7, CallerMoves, Zenon
  <2>9. ClientOK'
    BY <1>1, <1>2, <1>6, <2>1, <2>3, ClientGrows
  <2> QED
    BY <1>4, <2>8, <2>9 DEF RInv
<1> QED
  BY <1>5, <1>6 DEF CommitFails

\* A broker creates partitions it is told of and does not have.
LEMMA InitPartitionsStep ==
  ASSUME RInv, NEW c \in Caller, NEW b \in Broker, NEW stop \in 0 .. NumPartitions,
         InitPartitions(c, b, stop)
  PROVE  RInv'
<1> DEFINE r == caller[c]
           made == IF up[b] THEN {p \in InitFor(b, r.pc = "backups") : p < stop} \ disk[b] ELSE {}
           y1 == [pc |-> r.pc, next |-> r.next, todo |-> r.todo \ {b}]
           y2 == [pc |-> "backups", next |-> r.next, todo |-> Broker]
           y3 == [pc |-> "lead", next |-> r.next, todo |-> {}]
           x == IF r.todo # {b} THEN y1 ELSE IF r.pc = "init" THEN y2 ELSE y3
           f == [p \in Partitions |-> IF p \in made THEN "Leader" ELSE open[b][p]]
<1>1. /\ UNCHANGED <<topics, rlog, applied, calls, up, epoch, metaCache, worker, promotions>>
      /\ r.pc \in {"init", "backups"}
      /\ (UNCHANGED faults \/ (faults < MaxFaults /\ faults' = faults + 1))
  BY DEF InitPartitions, clientVars
<1>2. CoordOK /\ BrokerOK /\ ClientOK /\ BoundsOK
  BY DEF RInv
<1>3. open' = [open EXCEPT ![b] = f] /\ disk' = [disk EXCEPT ![b] = disk[b] \cup made]
  BY Zenon DEF InitPartitions
<1>4. caller' = [caller EXCEPT ![c] = x]
  BY DEF InitPartitions
<1>5. BoundsOK'
  BY <1>1, <1>2, BoundsStay, FaultCounted
<1>6. ClientOK'
  BY <1>1, <1>2, ClientStays
<1>7. CoordOK'
  <2>1. r \in CallerState /\ r.next \in 0 .. NumPartitions /\ r.todo \in SUBSET Broker
    BY <1>2, CallerFields
  <2> HIDE DEF r
  <2>5. y1 \in CallerState /\ CallerInv(rlog, y1)
    BY <1>1, <2>1 DEF CallerState, CallerInv
  <2>6. y2 \in CallerState /\ CallerInv(rlog, y2)
    BY <1>1, <2>1 DEF CallerState, CallerInv
  <2>7. y3 \in CallerState /\ CallerInv(rlog, y3)
    BY <1>1, <2>1 DEF CallerState, CallerInv
  <2> HIDE DEF y1, y2, y3
  <2>8. x \in CallerState /\ CallerInv(rlog, x)
    BY <2>5, <2>6, <2>7, Zenon
  <2> HIDE DEF x
  <2>9. topics' \in BOOLEAN
    BY <1>1, <1>2 DEF CoordOK
  <2> QED
    BY <1>1, <1>2, <1>4, <2>8, <2>9, CallerGoesOn, Zenon
<1>8. BrokerOK'
  <2>1. /\ up \in [Broker -> BOOLEAN] /\ disk \in [Broker -> SUBSET Partitions]
        /\ open \in [Broker -> [Partitions -> {"no", "Leader", "Follower"}]]
        /\ \A a \in Broker, p \in Partitions : open[a][p] # "no" <=> up[a] /\ p \in disk[a]
    BY <1>2 DEF BrokerOK
  <2>2. made \in SUBSET Partitions /\ (made # {} => up[b])
    BY DEF InitFor
  <2> HIDE DEF made
  <2>3. f \in [Partitions -> {"no", "Leader", "Follower"}]
    BY <2>1
  <2>4. \A p \in Partitions : f[p] # "no" <=> up[b] /\ p \in disk[b] \cup made
    <3> TAKE p \in Partitions
    <3>1. f[p] = IF p \in made THEN "Leader" ELSE open[b][p]
      OBVIOUS
    <3> HIDE DEF f
    <3> QED
      BY <2>1, <2>2, <3>1
  <2> HIDE DEF f
  <2>5. /\ open' \in [Broker -> [Partitions -> {"no", "Leader", "Follower"}]]
        /\ disk' \in [Broker -> SUBSET Partitions]
    BY <1>3, <2>1, <2>2, <2>3
  <2>6. \A a \in Broker : /\ open'[a] = IF a = b THEN f ELSE open[a]
                          /\ disk'[a] = IF a = b THEN disk[b] \cup made ELSE disk[a]
    BY <1>3, <2>1
  <2>7. \A a \in Broker, p \in Partitions : open'[a][p] # "no" <=> up[a] /\ p \in disk'[a]
    BY <2>1, <2>4, <2>6
  <2>8. calls' \in SUBSET AssignRole /\ up' = up /\ epoch' \in [Broker -> [Partitions -> Nat]]
    BY <1>1, <1>2 DEF BrokerOK
  <2> QED
    BY <2>1, <2>5, <2>7, <2>8 DEF BrokerOK
<1> QED
  BY <1>5, <1>6, <1>7, <1>8 DEF RInv

-----------------------------------------------------------------------------
(* The steps of brokers, and the roles they are given.                     *)

\* Calls have their types.
LEMMA CallsSent ==
  ASSUME BrokerOK, NEW ms \in SUBSET AssignRole, Send(ms), UNCHANGED <<up, open, epoch, disk>>
  PROVE  BrokerOK'
<1>1. calls' \in SUBSET AssignRole
  BY DEF BrokerOK, Send
<1> QED
  BY <1>1 DEF BrokerOK

LEMMA RoleCallsTyped ==
  ASSUME NEW p \in Partitions, NEW e \in Nat
  PROVE  /\ \A primary \in Broker : LeaderCalls(p, primary, e) \in SUBSET AssignRole
         /\ \A primary, alive : alive \in SUBSET Broker =>
              FollowerCalls(p, primary, e, alive) \in SUBSET AssignRole
<1>1. \A b \in Broker, role \in {"Leader", "Follower"} :
        [to |-> b, partition |-> p, role |-> role, epoch |-> e] \in AssignRole
  BY DEF AssignRole
<1>2. \A primary \in Broker : LeaderCalls(p, primary, e) \in SUBSET AssignRole
  BY <1>1, Zenon DEF LeaderCalls
<1>3. \A primary, alive : alive \in SUBSET Broker =>
        FollowerCalls(p, primary, e, alive) \in SUBSET AssignRole
  BY <1>1, Zenon DEF FollowerCalls
<1> QED
  BY <1>2, <1>3

\* A handler sends the roles.
LEMMA AssignRolesStep ==
  ASSUME RInv, NEW c \in Caller, NEW alive \in SUBSET Broker,
         assignLeaderRoles(c) \/ assignFollowerRoles(c, alive)
  PROVE  RInv'
<1>1. UNCHANGED <<topics, rlog, applied, up, open, epoch, disk, metaCache, worker, promotions>>
  BY DEF assignLeaderRoles, assignFollowerRoles, clientVars, bounds
<1>2. CoordOK /\ BrokerOK /\ ClientOK /\ BoundsOK
  BY DEF RInv
<1>3. \E pc \in {"follow", "ok", "exists", "error"} : caller' = [caller EXCEPT ![c].pc = pc]
  BY DEF assignLeaderRoles, assignFollowerRoles
<1>4. CoordOK'
  <2>1. topics' \in BOOLEAN
    BY <1>1, <1>2 DEF CoordOK
  <2> QED
    BY <1>1, <1>2, <1>3, <2>1, CallerPc, Zenon
<1> DEFINE lead == UNION {LeaderCalls(p, Assignment(p), 1) : p \in Partitions}
           follow == UNION {FollowerCalls(p, Assignment(p), 1, alive) : p \in Partitions}
<1>5. Send(lead) \/ Send(follow)
  BY DEF assignLeaderRoles, assignFollowerRoles
<1>6. ASSUME NEW p \in Partitions
      PROVE  /\ LeaderCalls(p, Assignment(p), 1) \in SUBSET AssignRole
             /\ FollowerCalls(p, Assignment(p), 1, alive) \in SUBSET AssignRole
  <2>1. p \in Nat
    BY RoutingAssumption DEF Partitions
  <2> QED
    BY <2>1, AssignmentTyped, RoleCallsTyped
<1>7. lead \in SUBSET AssignRole /\ follow \in SUBSET AssignRole
  BY <1>6
<1> HIDE DEF lead, follow
<1>8. BrokerOK'
  BY <1>1, <1>2, <1>5, <1>7, CallsSent
<1>9. BoundsOK'
  <2>1. UNCHANGED faults \/ (faults < MaxFaults /\ faults' = faults + 1)
    BY DEF assignLeaderRoles, assignFollowerRoles, bounds
  <2> QED
    BY <1>1, <1>2, <2>1, BoundsStay, FaultCounted
<1> QED
  BY <1>1, <1>2, <1>4, <1>8, <1>9, ClientStays DEF RInv

\* A call is executed: a partition that is open stays open.
LEMMA DeliverStep ==
  ASSUME RInv, NEW m \in calls, Deliver(m)
  PROVE  RInv'
<1>1. /\ UNCHANGED <<topics, rlog, applied, caller, up, disk, metaCache, worker, promotions, faults>>
      /\ calls' = calls \ {m}
  BY DEF Deliver, coordVars, clientVars, bounds
<1>2. CoordOK /\ BrokerOK /\ ClientOK /\ BoundsOK
  BY DEF RInv
<1>3. m \in AssignRole /\ calls' \in SUBSET AssignRole
  BY <1>1, <1>2 DEF BrokerOK
<1>4. m.to \in Broker /\ m.partition \in Partitions /\ m.role \in {"Leader", "Follower"} /\ m.epoch \in Nat
  BY <1>3 DEF AssignRole
<1>5. /\ up \in [Broker -> BOOLEAN] /\ disk \in [Broker -> SUBSET Partitions]
      /\ open \in [Broker -> [Partitions -> {"no", "Leader", "Follower"}]]
      /\ epoch \in [Broker -> [Partitions -> Nat]]
      /\ \A a \in Broker, p \in Partitions : open[a][p] # "no" <=> up[a] /\ p \in disk[a]
  BY <1>2 DEF BrokerOK
<1>6. CASE getPartition(m.to, m.partition) /\ m.epoch >= epoch[m.to][m.partition]
  <2>1. /\ open' = [open EXCEPT ![m.to] = [open[m.to] EXCEPT ![m.partition] = m.role]]
        /\ epoch' = [epoch EXCEPT ![m.to] = [epoch[m.to] EXCEPT ![m.partition] = m.epoch]]
    BY <1>6 DEF Deliver
  <2>2. /\ open' \in [Broker -> [Partitions -> {"no", "Leader", "Follower"}]]
        /\ epoch' \in [Broker -> [Partitions -> Nat]]
    BY <1>4, <1>5, <2>1
  <2>3. \A a \in Broker, p \in Partitions :
          open'[a][p] = IF a = m.to /\ p = m.partition THEN m.role ELSE open[a][p]
    BY <1>4, <1>5, <2>1
  <2>4. open[m.to][m.partition] # "no" /\ m.role # "no"
    BY <1>4, <1>6 DEF getPartition
  <2>5. \A a \in Broker, p \in Partitions : open'[a][p] # "no" <=> up[a] /\ p \in disk[a]
    BY <1>5, <2>3, <2>4
  <2>6. BrokerOK'
    BY <1>1, <1>3, <1>5, <2>2, <2>5 DEF BrokerOK
  <2> QED
    BY <1>1, <1>2, <2>6, CoordStays, ClientStays, BoundsStay DEF RInv
<1>7. CASE ~(getPartition(m.to, m.partition) /\ m.epoch >= epoch[m.to][m.partition])
  <2>1. open' = open /\ epoch' = epoch
    BY <1>7 DEF Deliver
  <2>2. BrokerOK'
    BY <1>1, <1>3, <1>5, <2>1 DEF BrokerOK
  <2> QED
    BY <1>1, <1>2, <2>2, CoordStays, ClientStays, BoundsStay DEF RInv
<1> QED
  BY <1>6, <1>7

\* A promotion is of a partition that the log has, and so its smaller ones.
LEMMA PromoteStep ==
  ASSUME RInv, NEW p \in Partitions, NEW b \in Broker, NEW alive \in SUBSET Broker, Promote(p, b, alive)
  PROVE  RInv'
<1> DEFINE n == State(Len(rlog), p).epoch + 1
           e == [partition |-> p, primary |-> b, epoch |-> n]
           ms == LeaderCalls(p, b, n) \cup FollowerCalls(p, b, n, alive)
<1>1. /\ UNCHANGED <<topics, applied, caller, up, open, epoch, disk, metaCache, worker, faults>>
      /\ rlog' = Append(rlog, e) /\ p \in Known(Len(rlog)) /\ Send(ms)
      /\ promotions < MaxPromotions /\ promotions' = promotions + 1
  BY DEF Promote, clientVars
<1>2. CoordOK /\ BrokerOK /\ ClientOK /\ BoundsOK
  BY DEF RInv
<1>3. n \in Nat
  <2>1. rlog \in Seq(Entry) /\ Len(rlog) \in 0 .. Len(rlog)
    BY <1>2 DEF CoordOK
  <2>2. State(Len(rlog), p) \in Entry
    BY <1>1, <2>1, StateNamed, Zenon
  <2> QED
    BY <2>2 DEF Entry
<1> HIDE DEF n
<1>4. ms \in SUBSET AssignRole
  BY <1>3, RoleCallsTyped
<1> HIDE DEF ms
<1>5. BrokerOK'
  BY <1>1, <1>2, <1>4, CallsSent
<1>6. e \in Entry /\ e.partition = p
  BY <1>3 DEF Entry
<1>7. rlog \in Seq(Entry) /\ Dense(rlog) /\ topics \in BOOLEAN /\ applied \in 0 .. Len(rlog)
      /\ caller \in [Caller -> CallerState] /\ \A c \in Caller : CallerInv(rlog, caller[c])
  BY <1>2 DEF CoordOK
<1> HIDE DEF e
<1>8. Has(rlog, p)
  <2>1. PICK i \in 1 .. Len(rlog) : rlog[i].partition = p
    BY <1>1 DEF Known
  <2>2. i \in DOMAIN rlog /\ i \in Nat /\ Len(rlog) \in Nat /\ DOMAIN rlog = 1 .. Len(rlog)
    BY <1>7
  <2> SUFFICES ASSUME NEW q \in Partitions, q < p PROVE \E k \in DOMAIN rlog : rlog[k].partition = q
    BY DEF Has
  <2>3. PICK k \in 1 .. i - 1 : rlog[k].partition = q
    BY <1>7, <2>1, <2>2 DEF Dense
  <2>4. k \in DOMAIN rlog
    BY <2>2
  <2> QED
    BY <2>3, <2>4
<1>9. /\ rlog' \in Seq(Entry) /\ Len(rlog') = Len(rlog) + 1 /\ Dense(rlog')
      /\ \A k : Has(rlog, k) => Has(rlog', k)
  BY <1>1, <1>6, <1>7, <1>8, LogGrows
<1>10. \A c \in Caller : CallerInv(rlog', caller[c])
  BY <1>7, <1>9 DEF CallerInv
<1>11. applied \in 0 .. Len(rlog')
  <2>1. Len(rlog) \in Nat
    BY <1>7
  <2> QED
    BY <1>7, <1>9, <2>1
<1>12. CoordOK'
  BY <1>1, <1>7, <1>9, <1>10, <1>11 DEF CoordOK
<1>13. ClientOK'
  BY <1>1, <1>2, <1>6, <1>7, <1>8, ClientGrows
<1>14. BoundsOK'
  BY <1>1, <1>2, PromotionCounted
<1> QED
  BY <1>5, <1>12, <1>13, <1>14 DEF RInv

\* A broker crashes, and opens what it has on disk when it is back.
LEMMA CrashStep ==
  ASSUME RInv, NEW b \in Broker, Crash(b) \/ restore(b)
  PROVE  RInv'
<1> DEFINE closed == [p \in Partitions |-> "no"]
           opened == [p \in Partitions |-> IF p \in disk[b] THEN "Leader" ELSE "no"]
<1>1. UNCHANGED <<topics, rlog, applied, caller, disk, metaCache, worker, promotions>>
  BY DEF Crash, restore, coordVars, clientVars, bounds
<1>2. CoordOK /\ BrokerOK /\ ClientOK /\ BoundsOK
  BY DEF RInv
<1>3. /\ up \in [Broker -> BOOLEAN] /\ disk \in [Broker -> SUBSET Partitions]
      /\ open \in [Broker -> [Partitions -> {"no", "Leader", "Follower"}]]
      /\ calls \in SUBSET AssignRole
      /\ \A a \in Broker, p \in Partitions : open[a][p] # "no" <=> up[a] /\ p \in disk[a]
  BY <1>2 DEF BrokerOK
<1>4. calls' \in SUBSET AssignRole /\ epoch' \in [Broker -> [Partitions -> Nat]]
  <2>1. epoch \in [Broker -> [Partitions -> Nat]]
    BY <1>2 DEF BrokerOK
  <2>2. calls' \in SUBSET AssignRole
    BY <1>3 DEF Crash, restore
  <2>3. epoch' = [epoch EXCEPT ![b] = [p \in Partitions |-> 0]] \/ epoch' = epoch
    BY Zenon DEF Crash, restore
  <2>4. epoch' \in [Broker -> [Partitions -> Nat]]
    BY <2>1, <2>3
  <2> QED
    BY <2>2, <2>4
<1>5. BoundsOK'
  BY <1>1, <1>2, FaultCounted, BoundsStay DEF Crash, restore, bounds
<1>6. \/ up' = [up EXCEPT ![b] = FALSE] /\ open' = [open EXCEPT ![b] = closed]
      \/ up' = [up EXCEPT ![b] = TRUE] /\ open' = [open EXCEPT ![b] = opened]
  BY Zenon DEF Crash, restore
<1>7. /\ closed \in [Partitions -> {"no", "Leader", "Follower"}] /\ \A p \in Partitions : closed[p] = "no"
  OBVIOUS
<1>8. /\ opened \in [Partitions -> {"no", "Leader", "Follower"}]
      /\ \A p \in Partitions : opened[p] # "no" <=> p \in disk[b]
  OBVIOUS
<1> HIDE DEF closed, opened
<1>9. BrokerOK'
  <2>1. CASE up' = [up EXCEPT ![b] = FALSE] /\ open' = [open EXCEPT ![b] = closed]
    <3>1. /\ up' \in [Broker -> BOOLEAN]
          /\ open' \in [Broker -> [Partitions -> {"no", "Leader", "Follower"}]]
      BY <1>3, <1>7, <2>1
    <3>2. \A a \in Broker : /\ up'[a] = IF a = b THEN FALSE ELSE up[a]
                            /\ open'[a] = IF a = b THEN closed ELSE open[a]
      BY <1>3, <2>1
    <3>3. \A a \in Broker, p \in Partitions : open'[a][p] # "no" <=> up'[a] /\ p \in disk[a]
      <4> TAKE a \in Broker, p \in Partitions
      <4>1. CASE a = b
        <5>1. open'[a][p] = closed[p] /\ up'[a] = FALSE
          BY <3>2, <4>1, Zenon
        <5> QED
          BY <1>7, <4>1, <5>1
      <4>2. CASE a # b
        <5>1. open'[a][p] = open[a][p] /\ up'[a] = up[a]
          BY <3>2, <4>2, Zenon
        <5> QED
          BY <1>3, <5>1
      <4> QED
        BY <4>1, <4>2
    <3> QED
      BY <1>1, <1>3, <1>4, <3>1, <3>3 DEF BrokerOK
  <2>2. CASE up' = [up EXCEPT ![b] = TRUE] /\ open' = [open EXCEPT ![b] = opened]
    <3>1. /\ up' \in [Broker -> BOOLEAN]
          /\ open' \in [Broker -> [Partitions -> {"no", "Leader", "Follower"}]]
      BY <1>3, <1>8, <2>2
    <3>2. \A a \in Broker : /\ up'[a] = IF a = b THEN TRUE ELSE up[a]
                            /\ open'[a] = IF a = b THEN opened ELSE open[a]
      BY <1>3, <2>2
    <3>3. \A a \in Broker, p \in Partitions : open'[a][p] # "no" <=> up'[a] /\ p \in disk[a]
      <4> TAKE a \in Broker, p \in Partitions
      <4>1. CASE a = b
        <5>1. open'[a][p] = opened[p] /\ up'[a] = TRUE
          BY <3>2, <4>1, Zenon
        <5> QED
          BY <1>8, <4>1, <5>1
      <4>2. CASE a # b
        <5>1. open'[a][p] = open[a][p] /\ up'[a] = up[a]
          BY <3>2, <4>2, Zenon
        <5> QED
          BY <1>3, <5>1
      <4> QED
        BY <4>1, <4>2
    <3> QED
      BY <1>1, <1>3, <1>4, <3>1, <3>3 DEF BrokerOK
  <2> QED
    BY <1>6, <2>1, <2>2
<1> QED
  BY <1>1, <1>2, <1>5, <1>9, CoordStays, ClientStays DEF RInv

\* A broker that returned is sent the role of a follower.
LEMMA RejoinStep ==
  ASSUME RInv, NEW b \in Broker, NEW alive \in SUBSET Broker, rejoinReturningBroker(b, alive)
  PROVE  RInv'
<1> DEFINE ms == UNION {FollowerCalls(p, Primary(Len(rlog), p), 0, alive) :
                          p \in {q \in Known(Len(rlog)) : Primary(Len(rlog), q) # b}}
<1>1. /\ UNCHANGED <<topics, rlog, applied, caller, up, open, epoch, disk, metaCache, worker,
                     promotions, faults>>
      /\ Send(ms)
  BY DEF rejoinReturningBroker, coordVars, clientVars, bounds
<1>2. CoordOK /\ BrokerOK /\ ClientOK /\ BoundsOK
  BY DEF RInv
<1>3. Known(Len(rlog)) \in SUBSET Partitions
  <2>1. rlog \in Seq(Entry)
    BY <1>2 DEF CoordOK
  <2>2. \A i \in 1 .. Len(rlog) : rlog[i] \in Entry
    BY <2>1
  <2> QED
    BY <2>2 DEF Known, Entry
<1>4. \A p \in Known(Len(rlog)) :
        FollowerCalls(p, Primary(Len(rlog), p), 0, alive) \in SUBSET AssignRole
  BY <1>3, RoleCallsTyped
<1>5. ms \in SUBSET AssignRole
  BY <1>4
<1> HIDE DEF ms
<1>6. BrokerOK'
  BY <1>1, <1>2, <1>5, CallsSent
<1> QED
  BY <1>1, <1>2, <1>6, CoordStays, ClientStays, BoundsStay DEF RInv

\* The coordinator that is asked applies a command.
LEMMA ApplyEntryStep ==
  ASSUME RInv, ApplyEntry
  PROVE  RInv'
<1>1. /\ UNCHANGED <<topics, rlog, caller, calls, up, open, epoch, disk, metaCache, worker,
                     promotions, faults>>
      /\ applied < Len(rlog) /\ applied' = applied + 1
  BY DEF ApplyEntry, brokerVars, clientVars, bounds
<1>2. CoordOK /\ BrokerOK /\ ClientOK /\ BoundsOK
  BY DEF RInv
<1>3. applied' \in 0 .. Len(rlog)
  <2>1. applied \in 0 .. Len(rlog) /\ Len(rlog) \in Nat
    BY <1>2 DEF CoordOK
  <2> QED
    BY <1>1, <2>1
<1>4. CoordOK'
  BY <1>1, <1>2, <1>3 DEF CoordOK
<1> QED
  BY <1>1, <1>2, <1>4, BrokersStay, ClientStays, BoundsStay DEF RInv

-----------------------------------------------------------------------------
(* The steps of the goroutines.                                            *)

LEMMA WorkerFields ==
  ASSUME ClientOK, NEW w \in Worker
  PROVE  /\ worker[w] = [pc |-> worker[w].pc, parts |-> worker[w].parts]
         /\ worker[w].parts \in Seq(PartitionInfo) /\ WorkerInv(rlog, worker[w])
<1>1. worker[w] \in WorkerState /\ WorkerInv(rlog, worker[w])
  BY DEF ClientOK
<1> QED
  BY <1>1 DEF WorkerState

\* A goroutine moves, with metadata that are sound.
LEMMA WorkerMoves ==
  ASSUME ClientOK, NEW w \in Worker, NEW x \in WorkerState, worker' = [worker EXCEPT ![w] = x],
         WorkerInv(rlog, x), metaCache' \in Seq(PartitionInfo), Sound(rlog, metaCache'),
         UNCHANGED rlog
  PROVE  ClientOK'
<1>1. worker \in [Worker -> WorkerState] /\ \A k \in Worker : WorkerInv(rlog, worker[k])
  BY DEF ClientOK
<1>2. worker' \in [Worker -> WorkerState] /\ \A k \in Worker : worker'[k] = IF k = w THEN x ELSE worker[k]
  BY <1>1
<1>3. \A k \in Worker : WorkerInv(rlog', worker'[k])
  BY <1>1, <1>2
<1> QED
  BY <1>2, <1>3 DEF ClientOK

\* A goroutine with no metadata.
LEMMA WorkerWithout ==
  ASSUME NEW pc \in {"idle", "fetch", "ok"}
  PROVE  [pc |-> pc, parts |-> <<>>] \in WorkerState /\ WorkerInv(rlog, [pc |-> pc, parts |-> <<>>])
  BY DEF WorkerState, WorkerInv, Sound

\* One with metadata.
LEMMA WorkerWith ==
  ASSUME NEW pc \in {"store", "produce", "evict"}, NEW parts \in Seq(PartitionInfo), parts # <<>>,
         Sound(rlog, parts)
  PROVE  [pc |-> pc, parts |-> parts] \in WorkerState /\ WorkerInv(rlog, [pc |-> pc, parts |-> parts])
  BY DEF WorkerState, WorkerInv

\* To another place of Route.
LEMMA WorkerPc ==
  ASSUME ClientOK, NEW w \in Worker, NEW pc \in {"produce", "evict"},
         worker[w].pc \in {"store", "produce"}
  PROVE  LET x == [worker[w] EXCEPT !.pc = pc] IN x \in WorkerState /\ WorkerInv(rlog, x)
<1> DEFINE r == worker[w]
           x == [r EXCEPT !.pc = pc]
<1>1. r = [pc |-> r.pc, parts |-> r.parts] /\ r.parts \in Seq(PartitionInfo) /\ WorkerInv(rlog, r)
  BY WorkerFields
<1>2. r.parts # <<>> /\ Sound(rlog, r.parts)
  BY <1>1 DEF WorkerInv
<1> HIDE DEF r
<1>3. x = [pc |-> pc, parts |-> r.parts]
  BY <1>1
<1> HIDE DEF x
<1>4. x \in WorkerState /\ WorkerInv(rlog, x)
  BY <1>1, <1>2, <1>3, WorkerWith
<1> QED
  BY <1>4 DEF x, r

\* The element of the metadata that is used exists, and is that of the partition.
LEMMA ChosenIndex ==
  ASSUME ClientOK, NEW w \in Worker, worker[w].pc = "produce"
  PROVE  /\ Chosen(w) \in Partitions
         /\ Named(rlog, [partition |-> Chosen(w), primary |-> Owner(w)])
<1> DEFINE s == worker[w].parts
           n == Len(s)
           h == Hash[w]
           p == Chosen(w)
<1>1. s \in Seq(PartitionInfo) /\ s # <<>> /\ Sound(rlog, s)
  BY WorkerFields, Zenon DEF WorkerInv
<1>2. n \in Nat /\ n > 0 /\ DOMAIN s = 1 .. n
  BY <1>1
<1>3. h \in Nat
  BY RoutingAssumption
<1>4. p = IF n <= 1 THEN 0 ELSE h % n
  BY DEF Chosen, partitionForKey
<1> HIDE DEF h, n, p
<1>5. p \in 0 .. n - 1
  BY <1>2, <1>3, <1>4
<1>6. p + 1 \in DOMAIN s /\ (p + 1) - 1 = p
  BY <1>2, <1>5
<1>7. s[p + 1].partition = p /\ Named(rlog, s[p + 1]) /\ s[p + 1] \in PartitionInfo
  BY <1>1, <1>6 DEF Sound
<1>8. Owner(w) = s[p + 1].primary
  BY DEF Owner, p
<1> HIDE DEF s
<1>9. p \in Partitions /\ s[p + 1] = [partition |-> p, primary |-> Owner(w)]
  BY <1>7, <1>8 DEF PartitionInfo
<1> QED
  BY <1>7, <1>9 DEF p

\* Every step of a goroutine.
LEMMA WorkerStepInv ==
  ASSUME RInv, NEW w \in Worker, WorkerStep(w)
  PROVE  RInv'
<1>1. UNCHANGED <<topics, rlog, applied, caller, calls, up, open, epoch, disk, promotions, faults>>
  BY DEF WorkerStep, Route, GetMetadata, StoreMetadata, Produce, Evict, coordVars, brokerVars, bounds
<1>2. CoordOK /\ BrokerOK /\ ClientOK /\ BoundsOK
  BY DEF RInv
<1>3. metaCache \in Seq(PartitionInfo) /\ Sound(rlog, metaCache)
  BY <1>2 DEF ClientOK
<1> DEFINE without(pc) == [pc |-> pc, parts |-> <<>>]
           with(pc, parts) == [pc |-> pc, parts |-> parts]
<1>4. \A pc \in {"idle", "fetch", "ok"} : without(pc) \in WorkerState /\ WorkerInv(rlog, without(pc))
  BY WorkerWithout
<1>5. CASE Route(w)
  <2>1. UNCHANGED metaCache
    BY <1>5 DEF Route
  <2>2. \/ worker' = [worker EXCEPT ![w] = with("produce", metaCache)] /\ metaCache # <<>>
        \/ worker' = [worker EXCEPT ![w] = without("fetch")]
    BY <1>5, Zenon DEF Route
  <2>3. metaCache # <<>> =>
          with("produce", metaCache) \in WorkerState /\ WorkerInv(rlog, with("produce", metaCache))
    BY <1>3, WorkerWith
  <2> HIDE DEF without, with
  <2>4. \E x \in WorkerState : worker' = [worker EXCEPT ![w] = x] /\ WorkerInv(rlog, x)
    BY <1>4, <2>2, <2>3, Zenon
  <2>5. ClientOK'
    BY <1>1, <1>2, <1>3, <2>1, <2>4, WorkerMoves, Zenon
  <2> QED
    BY <1>1, <1>2, <2>5, CoordStays, BrokersStay, BoundsStay DEF RInv
<1>6. CASE GetMetadata(w)
  <2> DEFINE g == GetTopic(applied)
  <2>1. UNCHANGED metaCache
    BY <1>6 DEF GetMetadata
  <2>2. \/ worker' = [worker EXCEPT ![w] = without("idle")]
        \/ worker' = [worker EXCEPT ![w] = with("store", g)] /\ applied # 0
    BY <1>6, Zenon DEF GetMetadata, Idle
  <2>3. applied # 0 => with("store", g) \in WorkerState /\ WorkerInv(rlog, with("store", g))
    <3> HAVE applied # 0
    <3>1. applied > 0
      BY <1>2 DEF CoordOK
    <3>2. g \in Seq(PartitionInfo) /\ g # <<>> /\ Sound(rlog, g)
      BY <1>2, <3>1, GetTopicSound
    <3> HIDE DEF g
    <3> QED
      BY <3>2, WorkerWith
  <2> HIDE DEF without, with, g
  <2>4. \E x \in WorkerState : worker' = [worker EXCEPT ![w] = x] /\ WorkerInv(rlog, x)
    BY <1>4, <2>2, <2>3, Zenon
  <2>5. ClientOK'
    BY <1>1, <1>2, <1>3, <2>1, <2>4, WorkerMoves, Zenon
  <2> QED
    BY <1>1, <1>2, <2>5, CoordStays, BrokersStay, BoundsStay DEF RInv
<1>7. CASE StoreMetadata(w)
  <2> DEFINE x == [worker[w] EXCEPT !.pc = "produce"]
  <2>1. metaCache' = worker[w].parts /\ worker[w].pc = "store"
    BY <1>7 DEF StoreMetadata
  <2>2. worker' = [worker EXCEPT ![w] = x]
    BY <1>7, Zenon DEF StoreMetadata
  <2>3. x \in WorkerState /\ WorkerInv(rlog, x)
    BY <1>2, <2>1, WorkerPc, Zenon
  <2> HIDE DEF x
  <2>4. metaCache' \in Seq(PartitionInfo) /\ Sound(rlog, metaCache')
    BY <1>2, <2>1, WorkerFields, Zenon DEF WorkerInv
  <2>5. ClientOK'
    BY <1>1, <1>2, <1>3, <2>1, <2>2, <2>3, <2>4, WorkerMoves, Zenon
  <2> QED
    BY <1>1, <1>2, <2>5, CoordStays, BrokersStay, BoundsStay DEF RInv
<1>8. CASE Produce(w)
  <2> DEFINE x == [worker[w] EXCEPT !.pc = "evict"]
  <2>1. UNCHANGED metaCache /\ worker[w].pc = "produce"
    BY <1>8 DEF Produce
  <2>2. \/ worker' = [worker EXCEPT ![w] = x]
        \/ worker' = [worker EXCEPT ![w] = without("idle")]
        \/ worker' = [worker EXCEPT ![w] = without("ok")]
    BY <1>8, Zenon DEF Produce, Idle
  <2>3. x \in WorkerState /\ WorkerInv(rlog, x)
    BY <1>2, <2>1, WorkerPc, Zenon
  <2> HIDE DEF x, without
  <2>4. \E y \in WorkerState : worker' = [worker EXCEPT ![w] = y] /\ WorkerInv(rlog, y)
    BY <1>4, <2>2, <2>3, Zenon
  <2>5. ClientOK'
    BY <1>1, <1>2, <1>3, <2>1, <2>4, WorkerMoves, Zenon
  <2> QED
    BY <1>1, <1>2, <2>5, CoordStays, BrokersStay, BoundsStay DEF RInv
<1>9. CASE Evict(w)
  <2>1. metaCache' = <<>> /\ worker' = [worker EXCEPT ![w] = without("idle")]
    BY <1>9, Zenon DEF Evict, Idle
  <2>2. metaCache' \in Seq(PartitionInfo) /\ Sound(rlog, metaCache')
    BY <2>1 DEF Sound
  <2> HIDE DEF without
  <2>3. \E y \in WorkerState : worker' = [worker EXCEPT ![w] = y] /\ WorkerInv(rlog, y)
    BY <1>4, <2>1, Zenon
  <2>4. ClientOK'
    BY <1>1, <1>2, <1>3, <2>1, <2>2, <2>3, WorkerMoves, Zenon
  <2> QED
    BY <1>1, <1>2, <2>4, CoordStays, BrokersStay, BoundsStay DEF RInv
<1> QED
  BY <1>5, <1>6, <1>7, <1>8, <1>9 DEF WorkerStep

-----------------------------------------------------------------------------
(* The invariant.                                                          *)

LEMMA InitInv == Init => RInv
<1> SUFFICES ASSUME Init PROVE RInv
  OBVIOUS
<1>1. CoordOK
  <2>1. topics \in BOOLEAN /\ rlog = <<>> /\ applied = 0
    BY Zenon DEF Init
  <2>2. rlog \in Seq(Entry) /\ applied \in 0 .. Len(rlog) /\ Dense(rlog)
    BY <2>1 DEF Dense
  <2>3. ASSUME NEW c \in Caller PROVE caller[c] \in CallerState /\ CallerInv(rlog, caller[c])
    <3>1. caller[c] = [pc |-> "idle", next |-> 0, todo |-> {}]
      BY DEF Init
    <3>2. 0 \in 0 .. NumPartitions
      BY RoutingAssumption
    <3> QED
      BY <3>1, <3>2 DEF CallerState, CallerInv
  <2>4. caller \in [Caller -> CallerState]
    BY <2>3 DEF Init
  <2> QED
    BY <2>1, <2>2, <2>3, <2>4 DEF CoordOK
<1>2. BrokerOK
  <2>1. /\ calls = {} /\ up \in [Broker -> BOOLEAN]
        /\ open \in [Broker -> [Partitions -> {"no", "Leader", "Follower"}]]
        /\ epoch \in [Broker -> [Partitions -> Nat]]
        /\ disk \in [Broker -> SUBSET Partitions]
    BY DEF Init
  <2>2. \A b \in Broker, p \in Partitions : open[b][p] = "no" /\ disk[b] = {}
    BY DEF Init
  <2> QED
    BY <2>1, <2>2 DEF BrokerOK
<1>3. ClientOK
  <2>1. metaCache = <<>>
    BY DEF Init
  <2>2. metaCache \in Seq(PartitionInfo) /\ Sound(rlog, metaCache)
    BY <2>1 DEF Sound
  <2>3. \A w \in Worker : worker[w] \in WorkerState /\ WorkerInv(rlog, worker[w])
    BY WorkerWithout DEF Init, Idle
  <2>4. worker \in [Worker -> WorkerState]
    BY <2>3 DEF Init
  <2> QED
    BY <2>1, <2>2, <2>3, <2>4 DEF ClientOK
<1>4. BoundsOK
  BY RoutingAssumption DEF Init, BoundsOK
<1> QED
  BY <1>1, <1>2, <1>3, <1>4 DEF RInv

LEMMA StepPreserves ==
  ASSUME RInv, [Next]_vars
  PROVE  RInv'
<1>1. CASE UNCHANGED vars
  <2>1. /\ UNCHANGED <<topics, rlog, applied, caller>> /\ UNCHANGED <<calls, up, open, epoch, disk>>
        /\ UNCHANGED <<rlog, metaCache, worker>> /\ UNCHANGED <<promotions, faults>>
    BY <1>1 DEF vars, coordVars, brokerVars, clientVars, bounds
  <2> QED
    BY <2>1, CoordStays, BrokersStay, ClientStays, BoundsStay DEF RInv
<1>2. CASE ApplyEntry
  BY <1>2, ApplyEntryStep
<1>3. ASSUME NEW c \in Caller, CreateTopic(c) PROVE RInv'
  BY <1>3, CreateTopicStep
<1>4. ASSUME NEW c \in Caller, NEW b \in Broker, NEW stop \in 0 .. NumPartitions, InitPartitions(c, b, stop)
      PROVE  RInv'
  BY <1>4, InitPartitionsStep
<1>5. NumPartitions \in 0 .. NumPartitions /\ \A stop \in Partitions : stop \in 0 .. NumPartitions
  BY RoutingAssumption DEF Partitions
<1>6. ASSUME NEW c \in Caller, CreateStep(c) PROVE RInv'
  BY <1>4, <1>5, <1>6, CommitAssignStep, AssignRolesStep DEF CreateStep
<1>7. ASSUME NEW c \in Caller, NEW late \in BOOLEAN, CommitFails(c, late) PROVE RInv'
  BY <1>7, CommitFailsStep
<1>8. ASSUME NEW m \in calls, Deliver(m) PROVE RInv'
  BY <1>8, DeliverStep
<1>9. ASSUME NEW p \in Partitions, NEW b \in Broker, NEW alive \in SUBSET Broker, Promote(p, b, alive)
      PROVE  RInv'
  BY <1>9, PromoteStep
<1>10. ASSUME NEW b \in Broker, Crash(b) \/ restore(b) PROVE RInv'
  BY <1>10, CrashStep
<1>11. ASSUME NEW b \in Broker, NEW alive \in SUBSET Broker, rejoinReturningBroker(b, alive)
       PROVE  RInv'
  BY <1>11, RejoinStep
<1>12. ASSUME NEW w \in Worker, WorkerStep(w) PROVE RInv'
  BY <1>12, WorkerStepInv
<1> QED
  BY <1>1, <1>2, <1>3, <1>4, <1>5, <1>6, <1>7, <1>8, <1>9, <1>10, <1>11, <1>12 DEF Next

LEMMA Invariance == Spec => []RInv
<1>1. RInv /\ [Next]_vars => RInv'
  BY StepPreserves
<1> QED
  BY <1>1, InitInv, PTL DEF Spec

-----------------------------------------------------------------------------
(* Theorems.                                                               *)

\* Every variable keeps its type; a broker that is up has open exactly the
\* partitions it has on disk (broker.go:85-104).
THEOREM TypeCorrect == Spec => []TypeOK
<1>1. RInv => TypeOK
  <2> SUFFICES ASSUME RInv PROVE TypeOK
    OBVIOUS
  <2>1. /\ up \in [Broker -> BOOLEAN] /\ disk \in [Broker -> SUBSET Partitions]
        /\ \A b \in Broker, p \in Partitions : open[b][p] # "no" <=> up[b] /\ p \in disk[b]
    BY DEF RInv, BrokerOK
  <2>2. ASSUME NEW b \in Broker
        PROVE  {p \in Partitions : open[b][p] # "no"} = IF up[b] THEN disk[b] ELSE {}
    <3> DEFINE A == {p \in Partitions : open[b][p] # "no"}
               B == IF up[b] THEN disk[b] ELSE {}
    <3>1. \A p : p \in A <=> p \in B
      BY <2>1
    <3> HIDE DEF A, B
    <3>2. A = B
      BY <3>1
    <3> QED
      BY <3>2 DEF A, B
  <2> QED
    BY <2>2 DEF RInv, CoordOK, BrokerOK, ClientOK, BoundsOK, TypeOK
<1> QED
  BY <1>1, Invariance, PTL

\* Whatever commits fail, and however far the coordinator that is asked has applied
\* them, the metadata in use are indexed by partition (producer.go:110-111).
THEOREM MetadataIndexedAlways == Spec => []MetadataIndexed
<1>1. RInv => MetadataIndexed
  BY DEF RInv, ClientOK, WorkerInv, Sound, MetadataIndexed
<1> QED
  BY <1>1, Invariance, PTL

\* A record is acknowledged only by a broker that a committed command named as the
\* primary of its partition (producer.go:104-135, coordinator.go:268-289).
THEOREM AckedByNamedPrimaryAlways == Spec => AckedByNamedPrimary
<1> DEFINE A == \A w \in Worker : worker[w].pc = "produce" /\ worker'[w].pc = "ok" =>
                  \E i \in DOMAIN rlog : rlog[i].partition = Chosen(w) /\ rlog[i].primary = Owner(w)
<1>1. RInv => A
  BY ChosenIndex DEF RInv, Named
<1>2. RInv /\ [Next]_vars => [A]_vars
  BY <1>1
<1> HIDE DEF A
<1>3. Spec => [][A]_vars
  BY <1>2, Invariance, PTL DEF Spec
<1> QED
  BY <1>3 DEF AckedByNamedPrimary, A
=============================================================================
