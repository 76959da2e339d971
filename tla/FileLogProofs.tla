--------------------------- MODULE FileLogProofs ---------------------------
(***************************************************************************)
(* Proofs about FileLog for every payload set and every bound.             *)
(***************************************************************************)
EXTENDS FileLog, SequenceTheorems, WellFoundedInduction, TLAPS

-----------------------------------------------------------------------------
(* Facts about naturals and logs.                                          *)

\* A non-empty set of naturals has a least element: the scan of rebuildIndex has a
\* first chunk at which it stops.
LEMMA LeastNat ==
  ASSUME NEW T \in SUBSET Nat, T # {}
  PROVE  \E x \in T : \A y \in T : x <= y
<1> DEFINE R == OpToRel(<, Nat)
<1>1. IsWellFoundedOn(R, Nat)
  BY NatLessThanWellFounded, Zenon
<1>2. PICK x \in T : \A y \in T : ~ (<<y, x>> \in R)
  <2> HIDE DEF R
  <2> QED BY <1>1, WFMin, Zenon
<1>3. \A y \in T : ~(y < x)
  BY <1>2, Zenon DEF OpToRel
<1> QED BY <1>3

\* What is in front of a cut stays.
LEMMA CutKeeps ==
  ASSUME NEW S, NEW s \in Seq(S), NEW k \in 1 .. Len(s), NEW j \in 1 .. Len(s), j < k
  PROVE  SubSeq(s, 1, k - 1)[j] = s[j]
  OBVIOUS

\* A log is the prefix of another when it is as long at most and agrees with
\* it at every position: prefixes are compared message by message.
LEMMA PrefixByElements ==
  ASSUME NEW S, NEW a \in Seq(S), NEW b \in Seq(S), Len(a) <= Len(b),
         \A i \in 1 .. Len(a) : a[i] = b[i]
  PROVE  a = SubSeq(b, 1, Len(a))
<1> DEFINE c == SubSeq(b, 1, Len(a))
<1>1. Len(a) \in Nat /\ Len(b) \in Nat
  OBVIOUS
<1>2. \A i \in 1 .. Len(a) : b[i] \in S
  BY <1>1
<1>3. c \in Seq(S) /\ Len(c) = Len(a) /\ \A i \in 1 .. Len(a) : c[i] = b[i]
  BY <1>1, <1>2, SubSeqProperties
<1> HIDE DEF c
<1>4. a = c
  BY <1>3, SeqEqual
<1> QED BY <1>4 DEF c

-----------------------------------------------------------------------------
(* The scan.                                                               *)

\* rebuildIndex stops at the first torn chunk, or behind the last chunk.
LEMMA FirstTornIs ==
  ASSUME NEW f \in Seq(Chunk)
  PROVE  /\ FirstTorn(f) \in 1 .. Len(f) + 1
         /\ \A i \in 1 .. FirstTorn(f) - 1 : f[i].kind # "torn"
         /\ FirstTorn(f) <= Len(f) => f[FirstTorn(f)].kind = "torn"
<1> DEFINE T == {i \in 1 .. Len(f) : f[i].kind = "torn"}
           Stops(k) == /\ \A i \in 1 .. k - 1 : f[i].kind # "torn"
                       /\ k <= Len(f) => f[k].kind = "torn"
<1>1. \E k \in 1 .. Len(f) + 1 : Stops(k)
  <2>1. CASE T = {}
    <3>1. Stops(Len(f) + 1)
      BY <2>1
    <3> QED BY <3>1
  <2>2. CASE T # {}
    <3>1. PICK k \in T : \A y \in T : k <= y
      <4>1. T \in SUBSET Nat
        OBVIOUS
      <4> HIDE DEF T
      <4> QED BY <2>2, <4>1, LeastNat
    <3>2. Stops(k) /\ k \in 1 .. Len(f) + 1
      BY <3>1
    <3> QED BY <3>2
  <2> QED BY <2>1, <2>2
<1> QED BY <1>1, Zenon DEF FirstTorn

\* The part of the file in front of the first torn chunk.
LEMMA CleanScanIs ==
  ASSUME NEW f \in Seq(Chunk)
  PROVE  /\ CleanScan(f) \in Seq(Chunk)
         /\ Len(CleanScan(f)) = FirstTorn(f) - 1
         /\ \A i \in 1 .. Len(CleanScan(f)) :
              CleanScan(f)[i] = f[i] /\ f[i].kind # "torn"
<1> DEFINE n == FirstTorn(f) - 1
<1>1. n \in 0 .. Len(f) /\ \A i \in 1 .. n : f[i].kind # "torn"
  BY FirstTornIs
<1>2. \A i \in 1 .. n : f[i] \in Chunk
  BY <1>1
<1> HIDE DEF n
<1>3. /\ SubSeq(f, 1, n) \in Seq(Chunk)
      /\ Len(SubSeq(f, 1, n)) = n
      /\ \A i \in 1 .. n : SubSeq(f, 1, n)[i] = f[i]
  BY <1>1, <1>2, SubSeqProperties
<1>4. CleanScan(f) = SubSeq(f, 1, n) /\ n = FirstTorn(f) - 1
  BY DEF CleanScan, n
<1> QED BY <1>1, <1>3, <1>4

\* Every file the scan can leave is made of chunks, none of them torn.
LEMMA ScanOutcomesWhole ==
  ASSUME NEW f \in Seq(Chunk), NEW g \in ScanOutcomes(f)
  PROVE  /\ g \in Seq(Chunk)
         /\ \A i \in 1 .. Len(g) : g[i].kind # "torn"
<1>1. CASE g = CleanScan(f)
  BY <1>1, CleanScanIs
<1>2. CASE g \in Misparsed(f)
  <2> DEFINE k == FirstTorn(f)
             c == Parsed(f[k])
             rest(h) == [i \in 1 .. Len(h) |-> Parsed(f[h[i]])]
             Behind == UNION {[1 .. n -> k + 2 .. Len(f)] : n \in 0 .. Len(f) - k - 1}
  <2>1. PICK h \in Behind : g = CleanScan(f) \o <<c>> \o rest(h)
    BY <1>2, Zenon DEF Misparsed
  <2>2. PICK n \in 0 .. Len(f) - k - 1 : h \in [1 .. n -> k + 2 .. Len(f)]
    BY <2>1
  <2>3. /\ Len(f) \in Nat /\ k \in 1 .. Len(f) /\ n \in Nat /\ Len(h) = n
        /\ \A i \in 1 .. n : h[i] \in 1 .. Len(f)
    <3>1. Len(f) \in Nat /\ k \in 1 .. Len(f) + 1
      BY FirstTornIs
    <3> HIDE DEF k
    <3>2. k \in 1 .. Len(f) /\ n \in Nat
      BY <2>2, <3>1
    <3> QED BY <2>2, <3>1, <3>2
  <2>4. ASSUME NEW i \in 1 .. Len(f) PROVE Parsed(f[i]) \in Chunk /\ Parsed(f[i]).kind # "torn"
    <3>1. f[i] \in Chunk
      OBVIOUS
    <3> QED BY <3>1 DEF Chunk, Parsed
  <2> DEFINE a == CleanScan(f)
             b == rest(h)
  <2>5. a \in Seq(Chunk) /\ \A i \in 1 .. Len(a) : a[i].kind # "torn"
    BY CleanScanIs
  <2>6. b \in Seq(Chunk) /\ \A i \in 1 .. Len(b) : b[i].kind # "torn"
    <3>1. \A i \in 1 .. n : Parsed(f[h[i]]) \in Chunk /\ Parsed(f[h[i]]).kind # "torn"
      BY <2>3, <2>4
    <3> QED BY <2>3, <3>1
  <2>11. c \in Chunk /\ c.kind # "torn"
    BY <2>3, <2>4
  <2> HIDE DEF a, b, c
  <2>7. <<c>> \in Seq(Chunk) /\ Len(<<c>>) = 1 /\ <<c>>[1] = c
    BY <2>11
  <2> DEFINE d == a \o <<c>>
  <2>8. d \in Seq(Chunk) /\ \A i \in 1 .. Len(d) : d[i].kind # "torn"
    <3>1. /\ d \in Seq(Chunk)
          /\ Len(d) = Len(a) + 1
          /\ \A i \in 1 .. Len(a) + 1 :
               d[i] = IF i <= Len(a) THEN a[i] ELSE <<c>>[i - Len(a)]
      BY <2>5, <2>7, ConcatProperties
    <3> QED BY <3>1, <2>5, <2>7, <2>11
  <2> HIDE DEF d
  <2>9. /\ d \o b \in Seq(Chunk)
        /\ Len(d \o b) = Len(d) + Len(b)
        /\ \A i \in 1 .. Len(d) + Len(b) :
             (d \o b)[i] = IF i <= Len(d) THEN d[i] ELSE b[i - Len(d)]
    BY <2>6, <2>8, ConcatProperties
  <2>10. g = d \o b
    BY <2>1 DEF a, b, c, d
  <2> QED BY <2>6, <2>8, <2>9, <2>10
<1> QED BY <1>1, <1>2 DEF ScanOutcomes

-----------------------------------------------------------------------------
(* Type correctness, and what the index holds whatever fails.              *)

\* The index names chunks in file order, none of them cut off.
IndexSound ==
  /\ \A i \in 1 .. Len(index) :
        index[i] \in 1 .. Len(file) /\ file[index[i]].kind # "torn"
  /\ \A i, j \in 1 .. Len(index) : i < j => index[i] < index[j]

\* The strengthening that makes TypeOK and IndexSound inductive: while a record is
\* being written its chunk is the last one, it has the next offset, and no index
\* entry names it.
WritePosition ==
  /\ pc \in {"body", "index"} =>
       /\ Len(file) > 0 /\ \A i \in 1 .. Len(index) : index[i] < Len(file)
       /\ file[Len(file)].msg.offset = Len(index)
  /\ pc = "index" => file[Len(file)].kind = "record"

IndexInv == TypeOK /\ IndexSound /\ WritePosition

\* An append, whichever entry point started it, keeps IndexInv when it writes
\* the length of its record.
LEMMA WriteLengthIndexInv ==
  ASSUME IndexInv, NEW m \in Message, m.offset = Len(index), WriteLength(m)
  PROVE  IndexInv'
<1> USE DEF IndexInv, TypeOK
<1> DEFINE c == [kind |-> "torn", msg |-> m]
<1>1. c \in Chunk
  BY DEF Chunk
<1> HIDE DEF c
<1>2. /\ file' \in Seq(Chunk)
      /\ Len(file') = Len(file) + 1
      /\ \A i \in 1 .. Len(file) : file'[i] = file[i]
  BY <1>1, AppendProperties DEF WriteLength, c
<1>3. TypeOK'
  BY <1>2 DEF WriteLength
<1>4. IndexSound'
  BY <1>2 DEF WriteLength, IndexSound
<1>5. WritePosition'
  BY <1>2 DEF WriteLength, IndexSound, WritePosition
<1> QED BY <1>3, <1>4, <1>5

\* Every step of the log keeps IndexInv.
LEMMA NextIndexInv == IndexInv /\ [Next]_vars => IndexInv'
<1> SUFFICES ASSUME IndexInv, [Next]_vars PROVE IndexInv'
  OBVIOUS
<1> USE DEF IndexInv, TypeOK
<1>1. CASE NewFileLog
  <2>1. /\ file' \in Seq(Chunk)
        /\ \A i \in 1 .. Len(file') : file'[i].kind # "torn"
    BY <1>1, ScanOutcomesWhole DEF NewFileLog, rebuildIndex
  <2>2. /\ index' \in Seq(Nat)
        /\ Len(index') = Len(file')
        /\ \A i \in 1 .. Len(index') : index'[i] = i
    BY <1>1, <2>1 DEF NewFileLog, rebuildIndex
  <2>3. TypeOK'
    BY <1>1, <2>1, <2>2 DEF NewFileLog
  <2>4. IndexSound'
    BY <2>1, <2>2 DEF IndexSound
  <2> QED BY <1>1, <2>3, <2>4 DEF NewFileLog, WritePosition
<1>2. ASSUME NEW v \in Value, FileAppend(v) PROVE IndexInv'
  <2>1. [offset |-> Len(index), val |-> v] \in Message
    BY DEF Message
  <2> QED BY <1>2, <2>1, WriteLengthIndexInv DEF FileAppend
<1>3. ASSUME NEW m \in [offset : 0 .. MaxLen, val : Value], FileAppendReplica(m)
      PROVE  IndexInv'
  <2>1. m \in Message
    BY MaxLenAssumption DEF Message
  <2> QED BY <1>3, <2>1, WriteLengthIndexInv DEF FileAppendReplica, ReplicaFits
<1>4. CASE WriteBody
  <2> DEFINE c == [file[Len(file)] EXCEPT !.kind = "record"]
  <2>1. Len(file) \in 1 .. Len(file) /\ file[Len(file)] \in Chunk
    BY <1>4 DEF WriteBody, WritePosition
  <2>2. c \in Chunk /\ c.kind = "record"
    BY <2>1, Zenon DEF Chunk
  <2>3. file' = [file EXCEPT ![Len(file)] = c]
    BY <1>4 DEF WriteBody
  <2> HIDE DEF c
  <2>4. /\ file' \in Seq(Chunk)
        /\ Len(file') = Len(file)
        /\ \A i \in 1 .. Len(file) : file'[i] = IF i = Len(file) THEN c ELSE file[i]
    BY <2>1, <2>2, <2>3, ExceptSeq
  <2>5. TypeOK'
    BY <1>4, <2>4 DEF WriteBody
  <2>6. IndexSound'
    BY <1>4, <2>4, <2>2 DEF WriteBody, IndexSound
  <2>7. WritePosition'
    BY <1>4, <2>1, <2>2, <2>4 DEF WriteBody, WritePosition
  <2> QED BY <2>5, <2>6, <2>7
<1>5. CASE WriteFails
  BY <1>5 DEF WriteFails, IndexSound, WritePosition
<1>6. CASE ExtendIndex
  <2>1. /\ Len(file) \in Nat /\ Len(file) > 0
        /\ file[Len(file)] \in Chunk
        /\ file[Len(file)].kind = "record"
        /\ \A i \in 1 .. Len(index) : index[i] < Len(file)
    BY <1>6 DEF ExtendIndex, WritePosition
  <2>2. /\ index' \in Seq(Nat)
        /\ Len(index') = Len(index) + 1
        /\ \A i \in 1 .. Len(index) : index'[i] = index[i]
        /\ index'[Len(index) + 1] = Len(file)
    BY <1>6, <2>1, AppendProperties DEF ExtendIndex
  <2>3. TypeOK'
    BY <1>6, <2>1, <2>2 DEF ExtendIndex, Chunk
  <2>4. IndexSound'
    BY <1>6, <2>1, <2>2 DEF ExtendIndex, IndexSound
  <2> QED BY <1>6, <2>3, <2>4 DEF ExtendIndex, WritePosition
<1>7. ASSUME NEW offset \in 0 .. Len(index), FileTruncateTo(offset) PROVE IndexInv'
  <2>1. /\ index' \in Seq(Nat)
        /\ Len(index') = offset
        /\ \A i \in 1 .. offset : index'[i] = index[i]
    <3>1. \A i \in 1 .. offset : index[i] \in Nat
      OBVIOUS
    <3> QED BY <1>7, <3>1, SubSeqProperties DEF FileTruncateTo
  <2>2. CASE offset < Len(index)
    <3> DEFINE n == index[offset + 1] - 1
    <3>1. n \in 0 .. Len(file) /\ \A i \in 1 .. offset : index[i] \in 1 .. n
      <4>1. Len(index) \in Nat /\ Len(file) \in Nat /\ offset + 1 \in 1 .. Len(index)
        BY <2>2
      <4>2. index[offset + 1] \in 1 .. Len(file)
        BY <4>1 DEF IndexSound
      <4>3. ASSUME NEW i \in 1 .. offset PROVE index[i] \in 1 .. n
        <5>1. i \in 1 .. Len(index) /\ i < offset + 1
          BY <4>1
        <5>2. index[i] \in 1 .. Len(file) /\ index[i] < index[offset + 1]
          BY <4>1, <5>1 DEF IndexSound
        <5> QED BY <4>1, <4>2, <5>2
      <4> QED BY <4>1, <4>2, <4>3
    <3>2. file' = SubSeq(file, 1, n)
      BY <1>7, <2>2 DEF FileTruncateTo
    <3> HIDE DEF n
    <3>3. \A i \in 1 .. n : file[i] \in Chunk
      BY <3>1
    <3>4. /\ file' \in Seq(Chunk)
          /\ Len(file') = n
          /\ \A i \in 1 .. n : file'[i] = file[i]
      BY <3>1, <3>2, <3>3, SubSeqProperties
    <3>5. TypeOK'
      BY <1>7, <2>1, <3>4 DEF FileTruncateTo
    <3>6. IndexSound'
      <4>1. ASSUME NEW i \in 1 .. offset
            PROVE  index'[i] \in 1 .. Len(file') /\ file'[index'[i]].kind # "torn"
        <5>1. i \in 1 .. Len(index) /\ index'[i] = index[i] /\ index[i] \in 1 .. n
          BY <2>1, <3>1
        <5>2. file'[index[i]] = file[index[i]] /\ Len(file') = n
          BY <3>4, <5>1
        <5> QED BY <5>1, <5>2 DEF IndexSound
      <4>2. ASSUME NEW i \in 1 .. offset, NEW j \in 1 .. offset, i < j
            PROVE  index'[i] < index'[j]
        <5>1. i \in 1 .. Len(index) /\ j \in 1 .. Len(index)
          OBVIOUS
        <5>2. index[i] < index[j]
          BY <4>2, <5>1 DEF IndexSound
        <5> QED BY <2>1, <5>2
      <4> QED BY <2>1, <4>1, <4>2, Zenon DEF IndexSound
    <3> QED BY <1>7, <3>5, <3>6 DEF FileTruncateTo, WritePosition
  <2>3. CASE offset = Len(index)
    <3>1. file' = file
      BY <1>7, <2>3 DEF FileTruncateTo
    <3>2. TypeOK'
      BY <1>7, <2>1, <3>1 DEF FileTruncateTo
    <3>3. IndexSound'
      BY <2>1, <2>3, <3>1 DEF IndexSound
    <3> QED BY <1>7, <3>2, <3>3 DEF FileTruncateTo, WritePosition
  <2> QED BY <2>2, <2>3
<1>8. CASE CrashOrClose
  <2>1. index' \in Seq(Nat) /\ Len(index') = 0
    BY <1>8 DEF CrashOrClose
  <2> QED BY <1>8, <2>1 DEF CrashOrClose, IndexSound, WritePosition
<1>9. CASE UNCHANGED vars
  BY <1>9 DEF vars, IndexSound, WritePosition
<1> QED BY <1>1, <1>2, <1>3, <1>4, <1>5, <1>6, <1>7, <1>8, <1>9 DEF Next

\* IndexInv holds in every reachable state of the log.
LEMMA IndexInvariant == Spec => []IndexInv
<1>1. Init => IndexInv
  <2> SUFFICES ASSUME Init PROVE IndexInv
    OBVIOUS
  <2>1. file \in Seq(Chunk) /\ index \in Seq(Nat) /\ Len(index) = 0
    BY EmptySeq DEF Init
  <2>2. TypeOK
    BY <2>1, Zenon DEF Init, TypeOK
  <2> QED BY <2>1, <2>2 DEF Init, IndexInv, IndexSound, WritePosition
<1> QED BY <1>1, NextIndexInv, PTL DEF Spec

\* The variables of the log keep their types through every operation, crash
\* and recovery of FileLog.
THEOREM TypeCorrect == Spec => []TypeOK
BY IndexInvariant, PTL DEF IndexInv

-----------------------------------------------------------------------------
(* What a restart finds.                                                   *)

\* The strengthening behind AckedSurvive.  As long as nothing was appended
\* behind the remains of a failed write, chunk i holds the message with offset
\* i - 1, only the last chunk can be torn, index entry i names chunk i, the
\* file is longer than the index by exactly the record being written or the
\* remains, and every acknowledged message lies whole at its position, behind
\* which the record being written comes.
Recoverable ==
  /\ \A i \in 1 .. Len(file) : file[i].msg.offset = i - 1
  /\ \A i \in 1 .. Len(file) - 1 : file[i].kind # "torn"
  /\ \A i \in 1 .. Len(index) : index[i] = i
  /\ pc = "idle" /\ remains = "none" => Len(file) = Len(index)
  /\ pc = "idle" /\ remains = "last" =>
       Len(file) = Len(index) + 1 /\ file[Len(file)].kind = "torn"
  /\ pc \in {"body", "index"} => remains = "none" /\ Len(file) = Len(index) + 1
  /\ pc = "body" => file[Len(file)].kind = "torn"
  /\ \A m \in acked :
       /\ m.offset + 1 \in 1 .. Len(file)
       /\ file[m.offset + 1].msg = m /\ file[m.offset + 1].kind # "torn"
       /\ pc = "index" => m.offset < Len(index)

RecoverInv == remains # "inside" => Recoverable

\* In a file whose last chunk only may be torn the scan has one outcome, which
\* drops that chunk if it is torn and nothing else.
LEMMA ScanOfTornTail ==
  ASSUME NEW f \in Seq(Chunk), \A i \in 1 .. Len(f) - 1 : f[i].kind # "torn"
  PROVE  /\ ScanOutcomes(f) = {CleanScan(f)}
         /\ FirstTorn(f) >= Len(f)
         /\ Len(f) > 0 /\ f[Len(f)].kind = "torn" => FirstTorn(f) = Len(f)
         /\ Len(f) > 0 /\ f[Len(f)].kind # "torn" => FirstTorn(f) = Len(f) + 1
<1>1. /\ Len(f) \in Nat
      /\ FirstTorn(f) \in 1 .. Len(f) + 1
      /\ \A i \in 1 .. FirstTorn(f) - 1 : f[i].kind # "torn"
      /\ FirstTorn(f) <= Len(f) => f[FirstTorn(f)].kind = "torn"
  BY FirstTornIs
<1>2. FirstTorn(f) >= Len(f)
  BY <1>1
<1>3. Len(f) > 0 /\ f[Len(f)].kind = "torn" => FirstTorn(f) = Len(f)
  BY <1>1, <1>2
<1>4. Len(f) > 0 /\ f[Len(f)].kind # "torn" => FirstTorn(f) = Len(f) + 1
  BY <1>1, <1>2
<1>5. 0 .. Len(f) - FirstTorn(f) - 1 = {}
  BY <1>1, <1>2
<1>6. Misparsed(f) = {}
  BY <1>5, Zenon DEF Misparsed
<1> QED BY <1>2, <1>3, <1>4, <1>6 DEF ScanOutcomes

\* Writing a length prefix, when nothing is left over from a failed write.
LEMMA WriteLengthRecoverInv ==
  ASSUME IndexInv, RecoverInv, NEW m \in Message, m.offset = Len(index),
         WriteLength(m)
  PROVE  RecoverInv'
<1> SUFFICES ASSUME remains' # "inside" PROVE Recoverable'
  BY DEF RecoverInv
<1> DEFINE c == [kind |-> "torn", msg |-> m]
<1>1. c \in Chunk /\ c.kind = "torn" /\ c.msg = m
  BY DEF Chunk
<1>2. file' = Append(file, c) /\ file \in Seq(Chunk) /\ index \in Seq(Nat)
  BY DEF WriteLength, IndexInv, TypeOK
<1> HIDE DEF c
<1>3. /\ Len(file') = Len(file) + 1 /\ Len(file) \in Nat /\ Len(index) \in Nat
      /\ \A i \in 1 .. Len(file) : file'[i] = file[i]
      /\ file'[Len(file) + 1] = c
  BY <1>1, <1>2, AppendProperties
<1>4. /\ pc = "idle" /\ pc' = "body" /\ index' = index /\ acked' = acked
      /\ remains = "none" /\ remains' = "none"
  BY DEF WriteLength, IndexInv, TypeOK
<1>5. Recoverable /\ Len(file) = Len(index)
  BY <1>4 DEF RecoverInv, Recoverable
<1>6. \A i \in 1 .. Len(file) : file[i].kind # "torn"
  BY <1>5, <1>3 DEF Recoverable, IndexInv, IndexSound
<1>7. /\ \A i \in 1 .. Len(file') : file'[i].msg.offset = i - 1
      /\ \A i \in 1 .. Len(file') - 1 : file'[i].kind # "torn"
      /\ \A i \in 1 .. Len(index') : index'[i] = i
  <2>1. /\ \A i \in 1 .. Len(file) : file[i].msg.offset = i - 1
        /\ \A i \in 1 .. Len(index) : index[i] = i
    BY <1>5 DEF Recoverable
  <2>2. ASSUME NEW i \in 1 .. Len(file') PROVE file'[i].msg.offset = i - 1
    <3>1. CASE i \in 1 .. Len(file)
      BY <1>3, <2>1, <3>1
    <3>2. CASE i = Len(file) + 1
      BY <1>1, <1>3, <1>5, <3>2
    <3> QED BY <1>3, <3>1, <3>2
  <2>3. \A i \in 1 .. Len(file') - 1 : file'[i].kind # "torn"
    BY <1>3, <1>6
  <2> QED BY <1>4, <2>1, <2>2, <2>3
<1>8. \A k \in acked :
        /\ k.offset + 1 \in 1 .. Len(file')
        /\ file'[k.offset + 1].msg = k /\ file'[k.offset + 1].kind # "torn"
  BY <1>3, <1>5 DEF Recoverable
<1> QED BY <1>1, <1>3, <1>4, <1>5, <1>7, <1>8 DEF Recoverable

\* Every step of the log keeps RecoverInv.
LEMMA NextRecoverInv == IndexInv /\ RecoverInv /\ [Next]_vars => RecoverInv'
<1> SUFFICES ASSUME IndexInv, RecoverInv, [Next]_vars PROVE RecoverInv'
  OBVIOUS
<1>0. /\ file \in Seq(Chunk) /\ index \in Seq(Nat) /\ Len(file) \in Nat
      /\ Len(index) \in Nat /\ acked \subseteq Message
  BY DEF IndexInv, TypeOK
<1>1. ASSUME NewFileLog, remains' # "inside" PROVE Recoverable'
  <2>1. Recoverable /\ pc = "down" /\ pc' = "idle" /\ acked' = acked
    BY <1>1 DEF NewFileLog, RecoverInv
  <2>2. /\ ScanOutcomes(file) = {CleanScan(file)}
        /\ FirstTorn(file) >= Len(file)
        /\ Len(file) > 0 /\ file[Len(file)].kind # "torn" =>
             FirstTorn(file) = Len(file) + 1
    BY <1>0, <2>1, ScanOfTornTail DEF Recoverable
  <2>3. file' = CleanScan(file)
    BY <1>1, <2>2 DEF NewFileLog, rebuildIndex
  <2>4. /\ file' \in Seq(Chunk)
        /\ Len(file') = FirstTorn(file) - 1 /\ FirstTorn(file) \in 1 .. Len(file) + 1
        /\ \A i \in 1 .. Len(file') : file'[i] = file[i] /\ file[i].kind # "torn"
    <3>1. FirstTorn(file) \in 1 .. Len(file) + 1
      BY <1>0, FirstTornIs
    <3> QED BY <1>0, <2>3, <3>1, CleanScanIs, Zenon
  <2>5. Len(index') = Len(file') /\ \A i \in 1 .. Len(index') : index'[i] = i
    BY <1>1, <2>4 DEF NewFileLog, rebuildIndex
  <2>6. ASSUME NEW m \in acked
        PROVE  /\ m.offset + 1 \in 1 .. Len(file')
               /\ file'[m.offset + 1].msg = m /\ file'[m.offset + 1].kind # "torn"
    <3>1. /\ m.offset + 1 \in 1 .. Len(file)
          /\ file[m.offset + 1].msg = m /\ file[m.offset + 1].kind # "torn"
      BY <2>1 DEF Recoverable
    <3>2. m.offset + 1 \in 1 .. Len(file')
      BY <1>0, <2>2, <2>4, <3>1, FirstTornIs
    <3> QED BY <2>4, <3>1, <3>2
  <2>7. remains' = "none"
    BY <1>1 DEF NewFileLog, IndexInv, TypeOK
  <2>8. \A i \in 1 .. Len(file') : file'[i].msg.offset = i - 1
    BY <1>0, <2>1, <2>4 DEF Recoverable
  <2>9. \A i \in 1 .. Len(file') - 1 : file'[i].kind # "torn"
    BY <2>4
  <2> QED BY <2>1, <2>5, <2>6, <2>7, <2>8, <2>9 DEF Recoverable
<1>2. ASSUME NEW v \in Value, FileAppend(v) PROVE RecoverInv'
  <2> DEFINE m == [offset |-> Len(index), val |-> v]
  <2>1. m \in Message /\ m.offset = Len(index)
    BY <1>0 DEF Message
  <2>2. WriteLength(m)
    BY <1>2 DEF FileAppend
  <2> QED BY <2>1, <2>2, WriteLengthRecoverInv
<1>3. ASSUME NEW m \in [offset : 0 .. MaxLen, val : Value], FileAppendReplica(m)
      PROVE  RecoverInv'
  <2>1. m \in Message
    BY MaxLenAssumption DEF Message
  <2> QED BY <1>3, <2>1, WriteLengthRecoverInv DEF FileAppendReplica, ReplicaFits
<1>4. ASSUME WriteBody, remains' # "inside" PROVE Recoverable'
  <2>1. Recoverable /\ pc = "body" /\ pc' = "index" /\ remains = "none"
    BY <1>4 DEF WriteBody, RecoverInv, Recoverable
  <2>2. /\ index' = index /\ acked' = acked /\ remains' = remains
        /\ Len(file) = Len(index) + 1 /\ file[Len(file)].kind = "torn"
    BY <1>4, <2>1 DEF WriteBody, Recoverable
  <2> DEFINE c == [file[Len(file)] EXCEPT !.kind = "record"]
  <2>3. Len(file) \in 1 .. Len(file) /\ file[Len(file)] \in Chunk
    BY <1>0, <2>2
  <2>4. c \in Chunk /\ c.kind = "record" /\ c.msg = file[Len(file)].msg
    BY <2>3, Zenon DEF Chunk
  <2>5. file' = [file EXCEPT ![Len(file)] = c]
    BY <1>4 DEF WriteBody
  <2> HIDE DEF c
  <2>6. /\ Len(file') = Len(file)
        /\ \A i \in 1 .. Len(file) : file'[i] = IF i = Len(file) THEN c ELSE file[i]
    BY <1>0, <2>3, <2>4, <2>5, ExceptSeq
  <2>7. ASSUME NEW m \in acked
        PROVE  /\ m.offset + 1 \in 1 .. Len(file') /\ m.offset < Len(index')
               /\ file'[m.offset + 1].msg = m /\ file'[m.offset + 1].kind # "torn"
    <3>1. /\ m.offset + 1 \in 1 .. Len(file)
          /\ file[m.offset + 1].msg = m /\ file[m.offset + 1].kind # "torn"
      BY <2>1 DEF Recoverable
    <3>2. m.offset + 1 # Len(file)
      BY <2>2, <3>1
    <3>3. m.offset \in Nat
      BY <1>0 DEF Message
    <3>4. file'[m.offset + 1] = file[m.offset + 1]
      BY <2>6, <3>1, <3>2
    <3> QED BY <1>0, <2>2, <2>6, <3>1, <3>2, <3>3, <3>4
  <2>8. /\ \A i \in 1 .. Len(file') : file'[i].msg.offset = i - 1
        /\ \A i \in 1 .. Len(file') - 1 : file'[i].kind # "torn"
    <3>1. /\ \A i \in 1 .. Len(file) : file[i].msg.offset = i - 1
          /\ \A i \in 1 .. Len(file) - 1 : file[i].kind # "torn"
      BY <2>1 DEF Recoverable
    <3>2. ASSUME NEW i \in 1 .. Len(file) PROVE file'[i].msg = file[i].msg
      BY <2>4, <2>6
    <3>3. ASSUME NEW i \in 1 .. Len(file) - 1 PROVE file'[i] = file[i]
      BY <1>0, <2>6
    <3> QED BY <1>0, <2>6, <3>1, <3>2, <3>3
  <2> QED BY <2>1, <2>2, <2>6, <2>7, <2>8 DEF Recoverable
<1>5. ASSUME WriteFails, remains' # "inside" PROVE Recoverable'
  <2>1. Recoverable /\ pc = "body" /\ pc' = "idle" /\ remains' = "last"
    BY <1>5 DEF WriteFails, RecoverInv, IndexInv, TypeOK, Recoverable
  <2>2. file' = file /\ index' = index /\ acked' = acked
    BY <1>5 DEF WriteFails
  <2> QED BY <2>1, <2>2 DEF Recoverable
<1>6. ASSUME ExtendIndex, remains' # "inside" PROVE Recoverable'
  <2> DEFINE last == file[Len(file)]
  <2>1. Recoverable /\ pc = "index" /\ pc' = "idle" /\ remains = "none"
    BY <1>6 DEF ExtendIndex, RecoverInv, Recoverable
  <2>2. /\ file' = file /\ remains' = remains /\ index' = Append(index, Len(file))
        /\ acked' = acked \cup {last.msg}
    BY <1>6 DEF ExtendIndex
  <2>3. /\ Len(file) = Len(index) + 1 /\ last.kind # "torn"
        /\ last.msg.offset = Len(file) - 1 /\ last \in Chunk
    BY <1>0, <2>1 DEF Recoverable, IndexInv, WritePosition
  <2>4. /\ Len(index') = Len(index) + 1
        /\ \A i \in 1 .. Len(index) : index'[i] = index[i]
        /\ index'[Len(index) + 1] = Len(file)
    BY <1>0, <2>2, AppendProperties
  <2>5. ASSUME NEW m \in acked'
        PROVE  /\ m.offset + 1 \in 1 .. Len(file)
               /\ file[m.offset + 1].msg = m /\ file[m.offset + 1].kind # "torn"
    <3>1. CASE m \in acked
      BY <2>1, <3>1 DEF Recoverable
    <3>2. CASE m = last.msg
      <4>1. m.offset + 1 = Len(file) /\ Len(file) \in 1 .. Len(file)
        BY <1>0, <2>3, <3>2
      <4> QED BY <2>3, <3>2, <4>1
    <3> QED BY <1>6, <3>1, <3>2 DEF ExtendIndex
  <2>6. \A i \in 1 .. Len(index') : index'[i] = i
    <3>1. \A i \in 1 .. Len(index) : index[i] = i
      BY <2>1 DEF Recoverable
    <3> QED BY <1>0, <2>3, <2>4, <3>1
  <2> HIDE DEF last
  <2> QED BY <2>1, <2>2, <2>3, <2>4, <2>5, <2>6, Zenon DEF Recoverable
<1>7. ASSUME NEW offset \in 0 .. Len(index), FileTruncateTo(offset), remains' # "inside"
      PROVE  Recoverable'
  <2>1. Recoverable /\ pc = "idle" /\ pc' = "idle" /\ remains # "inside"
    BY <1>7 DEF FileTruncateTo, RecoverInv
  <2>2. /\ Len(index') = offset
        /\ \A i \in 1 .. offset : index'[i] = i
    <3>1. \A i \in 1 .. offset : index[i] \in Nat /\ index[i] = i
      BY <1>0, <2>1 DEF Recoverable
    <3> QED BY <1>0, <1>7, <3>1, SubSeqProperties DEF FileTruncateTo
  <2>3. acked' = {m \in acked : m.offset < offset}
    BY <1>7 DEF FileTruncateTo
  <2>4. CASE offset < Len(index)
    <3>1. index[offset + 1] = offset + 1 /\ offset <= Len(file)
      <4>1. offset + 1 \in 1 .. Len(index)
        BY <1>0, <2>4
      <4>2. index[offset + 1] = offset + 1
        BY <2>1, <4>1 DEF Recoverable
      <4>3. index[offset + 1] \in 1 .. Len(file)
        BY <4>1 DEF IndexInv, IndexSound
      <4> QED BY <1>0, <4>2, <4>3
    <3>2. file' = SubSeq(file, 1, offset)
      BY <1>7, <2>4, <3>1 DEF FileTruncateTo
    <3>3. /\ Len(file') = offset
          /\ \A i \in 1 .. offset : file'[i] = file[i]
      <4>1. \A i \in 1 .. offset : file[i] \in Chunk
        BY <1>0, <3>1
      <4> QED BY <1>0, <3>1, <3>2, <4>1, SubSeqProperties
    <3>4. remains' = "none"
      BY <1>7, <2>1, <2>4 DEF FileTruncateTo, IndexInv, TypeOK
    <3>5. \A i \in 1 .. offset : file'[i].msg.offset = i - 1 /\ file'[i].kind # "torn"
      <4>1. ASSUME NEW i \in 1 .. offset PROVE file[i].msg.offset = i - 1 /\ file[i].kind # "torn"
        <5>1. i \in 1 .. Len(index) /\ i \in 1 .. Len(file)
          BY <1>0, <2>4, <3>1
        <5>2. index[i] = i /\ file[i].msg.offset = i - 1
          BY <2>1, <5>1 DEF Recoverable
        <5> QED BY <5>1, <5>2 DEF IndexInv, IndexSound
      <4> QED BY <3>3, <4>1
    <3>6. ASSUME NEW m \in acked'
          PROVE  /\ m.offset + 1 \in 1 .. Len(file')
                 /\ file'[m.offset + 1].msg = m /\ file'[m.offset + 1].kind # "torn"
      <4>1. m \in acked /\ m.offset < offset /\ m.offset \in Nat
        BY <1>0, <2>3 DEF Message
      <4>2. m.offset + 1 \in 1 .. offset
        BY <4>1
      <4>3. file[m.offset + 1].msg = m
        BY <2>1, <4>1 DEF Recoverable
      <4> QED BY <3>3, <3>5, <4>2, <4>3
    <3>7. \A i \in 1 .. Len(file') - 1 : file'[i].kind # "torn"
      BY <3>3, <3>5
    <3> QED BY <2>1, <2>2, <3>3, <3>4, <3>5, <3>6, <3>7 DEF Recoverable
  <2>5. CASE offset = Len(index)
    <3>1. file' = file /\ remains' = remains
      BY <1>7, <2>5 DEF FileTruncateTo
    <3> QED BY <2>1, <2>2, <2>3, <2>5, <3>1 DEF Recoverable
  <2> QED BY <1>0, <2>4, <2>5
<1>8. ASSUME CrashOrClose, remains' # "inside" PROVE Recoverable'
  <2>1. Len(index') = 0 /\ pc' = "down"
    BY <1>8 DEF CrashOrClose
  <2>2. Recoverable /\ file' = file /\ acked' = acked
    BY <1>8 DEF CrashOrClose, RecoverInv
  <2> QED BY <2>1, <2>2 DEF Recoverable
<1>9. CASE UNCHANGED vars
  BY <1>9 DEF vars, RecoverInv, Recoverable
<1> QED BY <1>1, <1>2, <1>3, <1>4, <1>5, <1>6, <1>7, <1>8, <1>9 DEF Next, RecoverInv

\* RecoverInv holds in every reachable state of the log.
LEMMA RecoverInvariant == Spec => [](IndexInv /\ RecoverInv)
<1>1. Init => RecoverInv
  BY DEF Init, RecoverInv, Recoverable
<1> QED BY <1>1, IndexInvariant, NextRecoverInv, PTL DEF Spec

\* While nothing was appended behind remains, the open log has what was acknowledged.
LEMMA RecoverableReadable ==
  IndexInv /\ RecoverInv /\ remains # "inside" => AckedReadable
<1> SUFFICES ASSUME IndexInv, RecoverInv, remains # "inside", pc # "down", NEW m \in acked
             PROVE  m.offset < Len(index) /\ Contents[m.offset + 1] = m
  BY DEF AckedReadable
<1>1. /\ Recoverable /\ m.offset \in Nat /\ Len(index) \in Nat /\ Len(file) \in Nat
      /\ pc \in {"idle", "body", "index"} /\ remains \in {"none", "last"}
  BY DEF RecoverInv, IndexInv, TypeOK, Message
<1>2. /\ m.offset + 1 \in 1 .. Len(file)
      /\ file[m.offset + 1].msg = m /\ file[m.offset + 1].kind # "torn"
      /\ pc = "index" => m.offset < Len(index)
  BY <1>1 DEF Recoverable
<1>3. m.offset < Len(index)
  BY <1>1, <1>2 DEF Recoverable
<1>4. index[m.offset + 1] = m.offset + 1
  BY <1>1, <1>3 DEF Recoverable
<1> QED BY <1>1, <1>2, <1>3, <1>4 DEF Contents

-----------------------------------------------------------------------------
(* What a failed write does until the log is opened again.                 *)

\* Bytes that are no record come into the file by a scan behind remains only.
NoGarbage == misread \/ \A i \in 1 .. Len(file) : file[i].kind # "garbage"

\* A restart without records behind remains finds what it found before.
LEMMA CleanRestart ==
  ASSUME IndexInv, RecoverInv, NewFileLog, ~misread'
  PROVE  /\ ~misread /\ remains' # "inside"
         /\ Len(file') <= Len(file)
         /\ \A i \in 1 .. Len(file') : file'[i] = file[i]
<1>1. ~misread /\ remains # "inside" /\ remains' # "inside"
  BY Zenon DEF NewFileLog
<1>2. Recoverable /\ file \in Seq(Chunk) /\ Len(file) \in Nat
  BY <1>1 DEF RecoverInv, IndexInv, TypeOK
<1>3. ScanOutcomes(file) = {CleanScan(file)}
  BY <1>2, ScanOfTornTail, Zenon DEF Recoverable
<1>4. file' = CleanScan(file)
  BY <1>3 DEF NewFileLog, rebuildIndex
<1>5. FirstTorn(file) \in 1 .. Len(file) + 1
  BY <1>2, FirstTornIs
<1> QED BY <1>1, <1>2, <1>4, <1>5, CleanScanIs

\* Every step keeps NoGarbage.
LEMMA NextNoGarbage ==
  IndexInv /\ IndexInv' /\ RecoverInv /\ NoGarbage /\ [Next]_vars => NoGarbage'
<1> SUFFICES ASSUME IndexInv, IndexInv', RecoverInv, NoGarbage, [Next]_vars, ~misread'
             PROVE  \A i \in 1 .. Len(file') : file'[i].kind # "garbage"
  BY DEF NoGarbage
<1>0. file \in Seq(Chunk) /\ Len(file) \in Nat /\ Len(index) \in Nat
  BY DEF IndexInv, TypeOK
<1>1. CASE NewFileLog
  BY <1>0, <1>1, CleanRestart DEF NoGarbage
<1>2. ASSUME NEW m, WriteLength(m) PROVE \A i \in 1 .. Len(file') : file'[i].kind # "garbage"
  <2> DEFINE c == [kind |-> "torn", msg |-> m]
  <2>1. file' = Append(file, c) /\ c.kind # "garbage" /\ ~misread
    BY <1>2 DEF WriteLength
  <2> HIDE DEF c
  <2>2. /\ Len(file') = Len(file) + 1 /\ file'[Len(file) + 1] = c
        /\ \A i \in 1 .. Len(file) : file'[i] = file[i]
    BY <1>0, <2>1
  <2> QED BY <1>0, <2>1, <2>2 DEF NoGarbage
<1>3. CASE WriteBody
  <2> DEFINE c == [file[Len(file)] EXCEPT !.kind = "record"]
  <2>1. /\ Len(file) \in 1 .. Len(file) /\ file[Len(file)] \in Chunk
        /\ file' = [file EXCEPT ![Len(file)] = c] /\ ~misread
    BY <1>0, <1>3 DEF WriteBody, IndexInv, WritePosition
  <2>2. c.kind = "record"
    BY <2>1, Zenon DEF Chunk
  <2> HIDE DEF c
  <2>3. /\ Len(file') = Len(file)
        /\ \A i \in 1 .. Len(file) : file'[i] = IF i = Len(file) THEN c ELSE file[i]
    BY <1>0, <2>1
  <2> QED BY <2>1, <2>2, <2>3, Zenon DEF NoGarbage
<1>4. ASSUME NEW offset \in 0 .. Len(index), FileTruncateTo(offset)
      PROVE  \A i \in 1 .. Len(file') : file'[i].kind # "garbage"
  <2>1. ~misread
    BY <1>4 DEF FileTruncateTo
  <2>2. CASE offset < Len(index)
    <3>1. offset + 1 \in 1 .. Len(index)
      BY <1>0, <2>2
    <3>2. index[offset + 1] \in 1 .. Len(file)
      BY <3>1 DEF IndexInv, IndexSound
    <3>3. file' = SubSeq(file, 1, index[offset + 1] - 1)
      BY <1>4, <2>2, Zenon DEF FileTruncateTo
    <3>4. Len(file') <= Len(file) /\ \A i \in 1 .. Len(file') : file'[i] = file[i]
      BY <1>0, <3>2, <3>3
    <3>5. Len(file') \in Nat
      BY <1>0, <3>2, <3>3
    <3> QED BY <1>0, <2>1, <3>4, <3>5 DEF NoGarbage
  <2>3. CASE offset = Len(index)
    BY <1>0, <1>4, <2>1, <2>3 DEF FileTruncateTo, NoGarbage
  <2> QED BY <1>0, <2>2, <2>3
<1>5. CASE WriteFails \/ ExtendIndex \/ CrashOrClose \/ UNCHANGED vars
  BY <1>5 DEF WriteFails, ExtendIndex, CrashOrClose, vars, NoGarbage
<1> QED BY <1>1, <1>2, <1>3, <1>4, <1>5, Zenon DEF Next, FileAppend, FileAppendReplica

\* The index names whole records in file order, however many writes have failed and
\* processes have crashed, until FileLog.rebuildIndex has scanned a file with records
\* behind the remains of a failed write.
THEOREM IndexNamesWholeRecordsAlways == Spec => []IndexNamesWholeRecords
<1>1. Init => NoGarbage
  BY DEF Init, NoGarbage
<1>2. IndexInv /\ NoGarbage => IndexNamesWholeRecords
  <2> SUFFICES ASSUME IndexInv, NoGarbage PROVE IndexNamesWholeRecords
    OBVIOUS
  <2>1. ASSUME NEW i \in 1 .. Len(index), ~misread PROVE file[index[i]].kind = "record"
    <3>1. /\ index[i] \in 1 .. Len(file) /\ file[index[i]].kind # "torn"
          /\ file[index[i]].kind # "garbage"
      BY <2>1 DEF IndexInv, IndexSound, NoGarbage
    <3>2. file[index[i]] \in Chunk
      BY <3>1 DEF IndexInv, TypeOK
    <3> QED BY <3>1, <3>2 DEF Chunk
  <2> QED BY <2>1, Zenon DEF IndexInv, IndexSound, IndexNamesWholeRecords
<1> QED BY <1>1, <1>2, RecoverInvariant, NextNoGarbage, PTL DEF Spec

\* An append, a failed write or a truncation leaves what was acknowledged where the
\* index finds it, remains of earlier writes or not.
LEMMA NextAckedSurvive ==
  IndexInv /\ IndexInv' /\ RecoverInv /\ RecoverInv' /\ AckedSurvive /\ [Next]_vars
    => AckedSurvive'
<1> SUFFICES ASSUME IndexInv, IndexInv', RecoverInv, RecoverInv', AckedSurvive,
                    [Next]_vars, ~misread', pc' # "down"
             PROVE  AckedReadable'
  BY DEF AckedSurvive, AckedReadable
<1>0. /\ file \in Seq(Chunk) /\ Len(file) \in Nat /\ index \in Seq(Nat)
      /\ Len(index) \in Nat /\ acked \subseteq Message
  BY DEF IndexInv, TypeOK
<1>1. CASE NewFileLog
  <2>1. remains' # "inside"
    BY <1>1, CleanRestart
  <2>2. (IndexInv /\ RecoverInv /\ remains # "inside" => AckedReadable)'
    BY RecoverableReadable, PTL
  <2> QED BY <2>1, <2>2
<1>2. ASSUME ~NewFileLog, ~CrashOrClose, [Next]_vars PROVE pc # "down" /\ ~misread
  <2>1. pc # "down"
    BY <1>2, Zenon DEF Next, FileAppend, FileAppendReplica, WriteLength, WriteBody, WriteFails,
                ExtendIndex, FileTruncateTo, vars
  <2>2. ~misread
    BY <1>2, Zenon DEF Next, FileAppend, FileAppendReplica, WriteLength, WriteBody,
                       WriteFails, ExtendIndex, FileTruncateTo, vars
  <2> QED BY <2>1, <2>2
<1>3. CASE CrashOrClose
  BY <1>3 DEF CrashOrClose
<1> DEFINE At(m) == m.offset < Len(index) /\ file[index[m.offset + 1]].msg = m
<1>4. ASSUME pc # "down", ~misread, NEW m \in acked
      PROVE  /\ m.offset \in Nat /\ m.offset + 1 \in 1 .. Len(index) /\ At(m)
             /\ index[m.offset + 1] \in 1 .. Len(file)
  <2>1. m.offset \in Nat /\ m.offset < Len(index) /\ Contents[m.offset + 1] = m
    BY <1>0, <1>4 DEF AckedSurvive, AckedReadable, Message
  <2>2. m.offset + 1 \in 1 .. Len(index)
    BY <1>0, <2>1
  <2> QED BY <2>1, <2>2 DEF Contents, IndexInv, IndexSound
<1>5. ASSUME NEW m \in acked', m.offset + 1 \in 1 .. Len(index'),
             file'[index'[m.offset + 1]].msg = m
      PROVE  m.offset < Len(index') /\ Contents'[m.offset + 1] = m
  <2>1. m.offset \in Nat /\ Len(index') \in Nat
    BY DEF IndexInv, TypeOK, Message
  <2> QED BY <1>5, <2>1 DEF Contents
<1>6. ASSUME ~NewFileLog, ~CrashOrClose, ~ExtendIndex, acked' \subseteq acked,
             \A m \in acked' : m.offset < Len(index'),
             Len(index') <= Len(index), \A i \in 1 .. Len(index') : index'[i] = index[i],
             \A i \in 1 .. Len(index') : file'[index[i]].msg = file[index[i]].msg
      PROVE  AckedReadable'
  <2>1. pc # "down" /\ ~misread
    BY <1>2, <1>6
  <2>2. ASSUME NEW m \in acked'
        PROVE  m.offset < Len(index') /\ Contents'[m.offset + 1] = m
    <3>1. m \in acked /\ m.offset \in Nat /\ At(m) /\ m.offset < Len(index')
      BY <1>4, <1>6, <2>1
    <3>2. m.offset + 1 \in 1 .. Len(index')
      <4>1. Len(index') \in Nat
        BY DEF IndexInv, TypeOK
      <4> QED BY <3>1, <4>1
    <3>3. file'[index'[m.offset + 1]].msg = m
      BY <1>6, <3>1, <3>2
    <3> QED BY <1>5, <3>2, <3>3
  <2> QED BY <2>2 DEF AckedReadable
<1>7. ASSUME NEW m, WriteLength(m) PROVE AckedReadable'
  <2>1. /\ index' = index /\ acked' = acked /\ ~NewFileLog /\ ~CrashOrClose /\ ~ExtendIndex
        /\ \A i \in 1 .. Len(file) : file'[i] = file[i]
    BY <1>0, <1>7 DEF WriteLength, NewFileLog, CrashOrClose, ExtendIndex
  <2>2. \A i \in 1 .. Len(index) : index[i] \in 1 .. Len(file)
    BY DEF IndexInv, IndexSound
  <2>3. \A k \in acked : k.offset < Len(index)
    BY <1>2, <1>4, <2>1
  <2> QED BY <1>0, <1>6, <2>1, <2>2, <2>3
<1>8. CASE WriteBody
  <2>1. /\ index' = index /\ acked' = acked /\ ~NewFileLog /\ ~CrashOrClose /\ ~ExtendIndex
    BY <1>8 DEF WriteBody, NewFileLog, CrashOrClose, ExtendIndex
  <2>2. ASSUME NEW i \in 1 .. Len(index) PROVE file'[index[i]].msg = file[index[i]].msg
    <3>1. index[i] \in 1 .. Len(file) /\ index[i] < Len(file)
      BY <1>8 DEF IndexInv, IndexSound, WritePosition, WriteBody
    <3> QED BY <1>0, <1>8, <3>1 DEF WriteBody
  <2>3. \A k \in acked : k.offset < Len(index)
    BY <1>2, <1>4, <2>1
  <2> QED BY <1>0, <1>6, <2>1, <2>2, <2>3
<1>9. CASE WriteFails \/ UNCHANGED vars
  <2>1. /\ index' = index /\ acked' = acked /\ file' = file
        /\ (~NewFileLog /\ ~CrashOrClose /\ ~ExtendIndex) \/ UNCHANGED vars
    BY <1>9 DEF WriteFails, vars, NewFileLog, CrashOrClose, ExtendIndex
  <2>2. ASSUME UNCHANGED vars PROVE AckedReadable'
    BY <2>2 DEF vars, AckedSurvive, AckedReadable, Contents
  <2>3. ASSUME ~NewFileLog, ~CrashOrClose, ~ExtendIndex PROVE AckedReadable'
    <3>1. \A k \in acked : k.offset < Len(index)
      BY <1>2, <1>4, <2>3
    <3> QED BY <1>0, <1>6, <2>1, <2>3, <3>1
  <2> QED BY <1>9, <2>1, <2>2, <2>3 DEF WriteFails
<1>10. CASE ExtendIndex
  <2> DEFINE last == file[Len(file)]
  <2>1. /\ file' = file /\ acked' = acked \cup {last.msg} /\ index' = Append(index, Len(file))
        /\ last.msg.offset = Len(index) /\ pc # "down" /\ ~misread
    BY <1>10 DEF ExtendIndex, IndexInv, WritePosition
  <2>2. /\ Len(index') = Len(index) + 1 /\ index'[Len(index) + 1] = Len(file)
        /\ \A i \in 1 .. Len(index) : index'[i] = index[i]
    BY <1>0, <2>1
  <2>3. ASSUME NEW m \in acked'
        PROVE  m.offset < Len(index') /\ Contents'[m.offset + 1] = m
    <3>1. CASE m \in acked
      <4>1. m.offset + 1 \in 1 .. Len(index) /\ file[index[m.offset + 1]].msg = m
        BY <1>4, <2>1, <3>1
      <4> QED BY <1>0, <1>5, <2>1, <2>2, <4>1
    <3>2. CASE m = last.msg
      <4>1. m.offset + 1 \in 1 .. Len(index') /\ index'[m.offset + 1] = Len(file)
        <5>1. m.offset = Len(index)
          BY <2>1, <3>2
        <5> QED BY <1>0, <2>2, <5>1
      <4> QED BY <1>5, <2>1, <3>2, <4>1
    <3> QED BY <2>1, <3>1, <3>2
  <2> QED BY <2>3 DEF AckedReadable
<1>11. ASSUME NEW offset \in 0 .. Len(index), FileTruncateTo(offset) PROVE AckedReadable'
  <2>1. /\ acked' = {m \in acked : m.offset < offset} /\ index' = SubSeq(index, 1, offset)
        /\ ~NewFileLog /\ ~CrashOrClose /\ ~ExtendIndex
    BY <1>11 DEF FileTruncateTo, NewFileLog, CrashOrClose, ExtendIndex
  <2>2. Len(index') = offset /\ \A i \in 1 .. offset : index'[i] = index[i]
    BY <1>0, <2>1
  <2>3. ASSUME NEW i \in 1 .. offset PROVE file'[index[i]] = file[index[i]]
    <3>1. CASE offset < Len(index)
      <4>1. i \in 1 .. Len(index) /\ offset + 1 \in 1 .. Len(index) /\ i < offset + 1
        BY <1>0, <3>1
      <4>2. /\ index[i] \in 1 .. Len(file) /\ index[offset + 1] \in 1 .. Len(file)
            /\ index[i] < index[offset + 1]
        BY <4>1, Zenon DEF IndexInv, IndexSound
      <4>3. file' = SubSeq(file, 1, index[offset + 1] - 1)
        BY <1>11, <3>1, Zenon DEF FileTruncateTo
      <4> QED BY <1>0, <4>2, <4>3, CutKeeps, Zenon
    <3>2. CASE offset = Len(index)
      BY <1>11, <3>2 DEF FileTruncateTo
    <3> QED BY <1>0, <3>1, <3>2
  <2> QED BY <1>0, <1>6, <2>1, <2>2, <2>3
<1> QED BY <1>1, <1>3, <1>7, <1>8, <1>9, <1>10, <1>11, Zenon DEF Next, FileAppend, FileAppendReplica

\* No crash between two writes of Append or AppendReplica, no failed write and no
\* restart loses or moves a message whose append was acknowledged, for any number of
\* messages, until the log is opened with records behind the remains of a failed write.
THEOREM AckedSurviveAlways == Spec => []AckedSurvive
<1>1. Init => AckedSurvive
  BY DEF Init, AckedSurvive, AckedReadable
<1> QED BY <1>1, RecoverInvariant, NextAckedSurvive, PTL DEF Spec

-----------------------------------------------------------------------------
(* The persistent log implements the in-memory log.                        *)

\* How many messages the log shows: those the index names while it is open,
\* those in front of the first torn chunk while it is not.
Shown == IF pc = "down" THEN FirstTorn(file) - 1 ELSE Len(index)

\* The view is made of the messages of the first chunks of the file.
ViewOfFile ==
  /\ Shown \in 0 .. Len(file)
  /\ View \in Seq(Message)
  /\ Len(View) = Shown
  /\ \A i \in 1 .. Shown : View[i] = file[i].msg

\* While the log is recoverable, it shows the messages of its first chunks.
LEMMA ViewIs == IndexInv /\ Recoverable => ViewOfFile
<1> SUFFICES ASSUME IndexInv, Recoverable PROVE ViewOfFile
  OBVIOUS
<1>1. /\ file \in Seq(Chunk) /\ index \in Seq(Nat)
      /\ Len(file) \in Nat /\ Len(index) \in Nat
  BY DEF IndexInv, TypeOK
<1>2. Shown \in 0 .. Len(file)
  <2>1. CASE pc = "down"
    <3>1. FirstTorn(file) \in 1 .. Len(file) + 1
      BY <1>1, FirstTornIs
    <3> QED BY <1>1, <2>1, <3>1 DEF Shown
  <2>2. CASE pc # "down"
    <3>1. \A i \in 1 .. Len(index) : index[i] = i /\ index[i] \in 1 .. Len(file)
      BY DEF Recoverable, IndexInv, IndexSound
    <3> QED BY <1>1, <2>2, <3>1 DEF Shown
  <2> QED BY <2>1, <2>2
<1>3. View = [i \in 1 .. Shown |-> file[i].msg]
  <2>1. CASE pc = "down"
    <3> DEFINE c == CleanScan(file)
    <3>1. Len(c) = Shown /\ \A i \in 1 .. Len(c) : c[i] = file[i]
      BY <1>1, <2>1, CleanScanIs DEF Shown
    <3>2. View = [i \in 1 .. Len(c) |-> c[i].msg]
      BY <2>1 DEF View
    <3> HIDE DEF c
    <3> QED BY <3>1, <3>2
  <2>2. CASE pc # "down"
    <3>1. \A i \in 1 .. Len(index) : index[i] = i
      BY DEF Recoverable
    <3> QED BY <2>2, <3>1 DEF View, Contents, Shown
  <2> QED BY <2>1, <2>2
<1>4. \A i \in 1 .. Shown : file[i].msg \in Message
  <2>1. \A i \in 1 .. Shown : file[i] \in Chunk
    BY <1>1, <1>2
  <2> QED BY <2>1 DEF Chunk
<1> QED BY <1>1, <1>2, <1>3, <1>4 DEF ViewOfFile

\* What a step does to the view when it keeps the log recoverable: chunks the
\* log showed and still shows hold the same messages.
LEMMA ShownStep ==
  ASSUME ViewOfFile, ViewOfFile', IndexInv', Recoverable',
         NEW n \in Nat, n = Shown',
         \A i \in 1 .. n : i <= Shown => file'[i].msg = file[i].msg
  PROVE  /\ n = Shown => View' = View
         /\ n <= Shown => Abstract!MemTruncateTo(n)
         /\ n = Shown + 1 => \E m \in [offset : 0 .. Len(View), val : Value] :
                               Abstract!MemAppendReplica(m)
<1>1. /\ Shown \in 0 .. Len(file) /\ View \in Seq(Message) /\ Len(View) = Shown
      /\ \A i \in 1 .. Shown : View[i] = file[i].msg
  BY DEF ViewOfFile
<1>2. /\ n \in 0 .. Len(file') /\ View' \in Seq(Message) /\ Len(View') = n
      /\ \A i \in 1 .. n : View'[i] = file'[i].msg
  BY DEF ViewOfFile
<1>3. \A i \in 1 .. n : i <= Shown => View'[i] = View[i]
  BY <1>1, <1>2
<1>4. ASSUME n = Shown PROVE View' = View
  BY <1>1, <1>2, <1>3, <1>4, SeqEqual
<1>5. ASSUME n <= Shown PROVE Abstract!MemTruncateTo(n)
  <2>1. View' = SubSeq(View, 1, Len(View'))
    BY <1>1, <1>2, <1>3, <1>5, PrefixByElements
  <2> QED BY <1>1, <1>2, <1>5, <2>1 DEF Abstract!MemTruncateTo, TruncatedTo, Abstract!TruncatedTo
<1>6. ASSUME n = Shown + 1
      PROVE  \E m \in [offset : 0 .. Len(View), val : Value] : Abstract!MemAppendReplica(m)
  <2> DEFINE m == file'[n].msg
             w == Append(View, m)
  <2>1. m \in Message /\ m.offset = Len(View)
    <3>1. n \in 1 .. Len(file') /\ file' \in Seq(Chunk)
      BY <1>1, <1>2, <1>6 DEF IndexInv, TypeOK
    <3>2. file'[n] \in Chunk
      BY <3>1
    <3>3. m.offset = n - 1
      BY <3>1 DEF Recoverable
    <3> QED BY <1>1, <1>6, <3>2, <3>3 DEF Chunk
  <2>2. View'[n] = m
    BY <1>2, <1>1, <1>6
  <2> HIDE DEF m
  <2>3. /\ w \in Seq(Message) /\ Len(w) = Len(View) + 1 /\ w[Len(View) + 1] = m
        /\ \A i \in 1 .. Len(View) : w[i] = View[i]
    BY <1>1, <2>1, AppendProperties
  <2> HIDE DEF w
  <2>4. View' = w
    BY <1>1, <1>2, <1>3, <1>6, <2>2, <2>3, SeqEqual
  <2>5. m \in [offset : 0 .. Len(View), val : Value]
    BY <1>1, <2>1 DEF Message
  <2>6. Abstract!MemAppendReplica(m)
    BY <2>1, <2>4 DEF w, Abstract!MemAppendReplica, Abstract!ReplicaFits
  <2> QED BY <2>5, <2>6
<1> QED BY <1>4, <1>5, <1>6

\* Every step maps to a step of MemLog or to a stutter.
LEMMA NextImplements ==
  ASSUME IndexInv, IndexInv', RecoverInv, RecoverInv', Next, remains' # "inside"
  PROVE  Abstract!Next \/ View' = View
<1>1. Recoverable /\ Recoverable'
  <2>1. remains # "inside"
    BY Zenon DEF Next, NewFileLog, FileAppend, FileAppendReplica, WriteLength, WriteBody,
           WriteFails, ExtendIndex, FileTruncateTo, CrashOrClose
  <2> QED BY <2>1 DEF RecoverInv
<1>0. ViewOfFile /\ ViewOfFile'
  <2>1. (IndexInv /\ Recoverable => ViewOfFile)'
    BY ViewIs, PTL
  <2> QED BY <1>1, <2>1, ViewIs
<1>2. /\ file \in Seq(Chunk) /\ index \in Seq(Nat)
      /\ Len(file) \in Nat /\ Len(index) \in Nat
      /\ pc \in {"down", "idle", "body", "index"}
      /\ remains \in {"none", "last", "inside"} /\ Shown' \in Nat
      /\ Shown \in 0 .. Len(file)
  BY <1>0 DEF ViewOfFile, IndexInv, TypeOK
<1> DEFINE Kept == \A i \in 1 .. Shown' : i <= Shown => file'[i].msg = file[i].msg
<1>3. ASSUME Kept, Shown' = Shown PROVE View' = View
  BY <1>0, <1>1, <1>2, <1>3, ShownStep
<1>4. ASSUME Kept, Shown' = Shown + 1 PROVE Abstract!Next
  <2>1. \E m \in [offset : 0 .. Len(View), val : Value] : Abstract!MemAppendReplica(m)
    BY <1>0, <1>1, <1>2, <1>4, ShownStep
  <2> QED BY <2>1 DEF Abstract!Next
<1>5. ASSUME Kept, Shown' <= Shown PROVE Abstract!Next
  <2>1. Abstract!MemTruncateTo(Shown')
    BY <1>0, <1>1, <1>2, <1>5, ShownStep
  <2>2. Len(View) = Shown
    BY <1>0 DEF ViewOfFile
  <2>3. Shown' \in 0 .. Len(View)
    BY <1>2, <1>5, <2>2
  <2> QED BY <2>1, <2>3, Zenon DEF Abstract!Next
<1>6. CASE NewFileLog
  <2>1. /\ ScanOutcomes(file) = {CleanScan(file)}
    BY <1>1, <1>2, ScanOfTornTail, Zenon DEF Recoverable
  <2>2. file' = CleanScan(file) /\ pc = "down" /\ pc' = "idle"
    BY <1>6, <2>1 DEF NewFileLog, rebuildIndex
  <2>3. Len(file') = Shown /\ \A i \in 1 .. Shown : file'[i] = file[i]
    BY <1>2, <2>2, CleanScanIs DEF Shown
  <2>4. Shown' = Shown
    BY <1>2, <1>6, <2>2, <2>3 DEF Shown, NewFileLog, rebuildIndex
  <2> QED BY <1>3, <2>3, <2>4
<1>7. ASSUME NEW m, WriteLength(m) PROVE View' = View
  <2>1. Shown' = Shown
    BY <1>7 DEF WriteLength, Shown
  <2>2. \A i \in 1 .. Len(file) : file'[i] = file[i]
    BY <1>2, <1>7 DEF WriteLength
  <2>3. Kept
    BY <1>2, <2>1, <2>2
  <2> QED BY <1>3, <2>1, <2>3
<1>8. CASE WriteBody
  <2>1. Shown' = Shown /\ Shown < Len(file)
    BY <1>1, <1>2, <1>8 DEF WriteBody, Shown, Recoverable
  <2>2. \A i \in 1 .. Len(file) - 1 : file'[i] = file[i]
    BY <1>2, <1>8 DEF WriteBody
  <2>3. Kept
    BY <1>2, <2>1, <2>2
  <2> QED BY <1>3, <2>1, <2>3
<1>9. CASE WriteFails
  BY <1>3, <1>9 DEF WriteFails, Shown
<1>10. CASE ExtendIndex
  <2>1. Shown' = Shown + 1 /\ file' = file
    BY <1>2, <1>10 DEF ExtendIndex, Shown
  <2> QED BY <1>4, <2>1
<1>11. ASSUME NEW offset \in 0 .. Len(index), FileTruncateTo(offset) PROVE Abstract!Next
  <2>1. Shown' = offset /\ Shown = Len(index)
    BY <1>2, <1>11 DEF FileTruncateTo, Shown
  <2>2. CASE offset < Len(index)
    <3>1. index[offset + 1] = offset + 1
      BY <1>1, <1>2, <2>2 DEF Recoverable
    <3>2. file' = SubSeq(file, 1, offset)
      BY <1>11, <2>2, <3>1 DEF FileTruncateTo
    <3>3. \A i \in 1 .. offset : file'[i] = file[i]
      BY <1>2, <2>1, <3>2
    <3>4. Kept
      BY <2>1, <3>3
    <3> QED BY <1>2, <1>5, <2>1, <3>4
  <2>3. CASE offset = Len(index)
    <3>1. file' = file
      BY <1>11, <2>3 DEF FileTruncateTo
    <3> QED BY <1>2, <1>5, <2>1, <3>1
  <2> QED BY <1>2, <2>2, <2>3
<1>12. CASE CrashOrClose
  <2>1. file' = file /\ pc # "down" /\ pc' = "down" /\ remains' = remains
    BY <1>12 DEF CrashOrClose
  <2>2. Shown' = FirstTorn(file) - 1 /\ Shown = Len(index)
    BY <2>1 DEF Shown
  <2>3. /\ FirstTorn(file) \in 1 .. Len(file) + 1
        /\ FirstTorn(file) >= Len(file)
        /\ Len(file) > 0 /\ file[Len(file)].kind = "torn" => FirstTorn(file) = Len(file)
        /\ Len(file) > 0 /\ file[Len(file)].kind # "torn" => FirstTorn(file) = Len(file) + 1
    BY <1>1, <1>2, ScanOfTornTail, FirstTornIs DEF Recoverable
  <2>4. \A i \in 1 .. Len(index) : index[i] = i /\ file[index[i]].kind # "torn"
    BY <1>1 DEF Recoverable, IndexInv, IndexSound
  <2>5. CASE pc = "idle" /\ remains = "none"
    <3>1. Len(file) = Len(index)
      BY <1>1, <2>5 DEF Recoverable
    <3>2. Len(file) > 0 => file[Len(file)].kind # "torn"
      BY <1>2, <2>4, <3>1
    <3>3. FirstTorn(file) = Len(file) + 1
      BY <1>2, <2>3, <3>2
    <3> QED BY <1>2, <1>3, <2>1, <2>2, <3>1, <3>3
  <2>6. CASE (pc = "idle" /\ remains = "last") \/ pc = "body"
    <3>1. Len(file) = Len(index) + 1 /\ file[Len(file)].kind = "torn"
      BY <1>1, <2>6 DEF Recoverable
    <3> QED BY <1>2, <1>3, <2>1, <2>2, <2>3, <3>1
  <2>7. CASE pc = "index"
    <3>1. Len(file) = Len(index) + 1 /\ file[Len(file)].kind = "record"
      BY <1>1, <2>7 DEF Recoverable, IndexInv, WritePosition
    <3>2. Shown' = Shown + 1
      BY <1>2, <2>2, <2>3, <3>1
    <3> QED BY <1>4, <2>1, <3>2
  <2> QED BY <1>2, <2>1, <2>5, <2>6, <2>7
<1> QED BY <1>6, <1>7, <1>8, <1>9, <1>10, <1>11, <1>12, Zenon
        DEF Next, FileAppend, FileAppendReplica

\* FileLog implements MemLog: seen through the index, or through the scan that
\* the next NewFileLog will make, every write, failure, crash, restart and
\* truncation appends one message at the next offset, truncates, or changes
\* nothing, until a record is appended behind the remains of another.
THEOREM FileLogImplementsMemLog == Spec => ImplementsMemLog
<1>1. Init => Abstract!Init
  <2> SUFFICES ASSUME Init PROVE View = << >>
    BY DEF Abstract!Init
  <2>1. file = << >> /\ pc = "down" /\ file \in Seq(Chunk)
    BY EmptySeq DEF Init
  <2>2. Len(CleanScan(file)) = 0
    <3>1. FirstTorn(file) \in 1 .. Len(file) + 1 /\ Len(file) = 0
      BY <2>1, FirstTornIs, Zenon
    <3>2. Len(CleanScan(file)) = FirstTorn(file) - 1
      BY <2>1, CleanScanIs, Zenon
    <3> QED BY <3>1, <3>2
  <2> QED BY <2>1, <2>2 DEF View
<1>2. ASSUME IndexInv /\ RecoverInv, (IndexInv /\ RecoverInv)', [Next]_vars
      PROVE  [remains' = "inside" \/ [Abstract!Next]_View]_vars
  <2>1. CASE Next
    BY <1>2, <2>1, NextImplements
  <2>2. CASE UNCHANGED vars
    BY <2>2
  <2> QED BY <1>2, <2>1, <2>2
<1> QED BY <1>1, <1>2, RecoverInvariant, PTL DEF Spec, ImplementsMemLog
=============================================================================
