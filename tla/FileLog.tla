------------------------------ MODULE FileLog ------------------------------
(***************************************************************************)
(* The persistent partition log of src/internal/log/file_log.go.           *)
(*                                                                         *)
(* The segment file is a sequence of chunks, one for every record whose    *)
(* write was started: "record" when all of its bytes are there, "torn"     *)
(* when only a part of the length prefix or of the body is, "garbage" for  *)
(* bytes that a scan took for a record although no Append wrote them as    *)
(* one.  A byte position of the code is the number of a chunk here.        *)
(*                                                                         *)
(* Every operation holds FileLog.mu, so operations do not interleave; what *)
(* can happen between the two writes of an append is a crash of the        *)
(* process or a write that fails.  pc says where the one writer is.        *)
(***************************************************************************)
EXTENDS Log, FiniteSets

CONSTANTS
  Value,    \* message payloads
  MaxLen    \* bound: chunks the segment file may hold

ASSUME MaxLenAssumption == MaxLen \in Nat

VARIABLES
  file,     \* the segment file, a sequence of chunks
  index,    \* FileLog.index: index[i] is the position of the i-th message
  pc,       \* "down": no process has the log open; "idle"; "body": length
            \* prefix written; "index": body written, index not updated
  acked,    \* history: messages whose append returned without an error
  remains,  \* history: what a failed write left is nowhere ("none"), at the end
            \* of the file ("last"), or has records behind it ("inside")
  misread   \* history: the log was opened with remains inside

vars == <<file, index, pc, acked, remains, misread>>

Message == [offset : Nat, val : Value]
Chunk   == [kind : {"record", "torn", "garbage"}, msg : Message]

TypeOK ==
  /\ file \in Seq(Chunk)
  /\ index \in Seq(Nat)
  /\ pc \in {"down", "idle", "body", "index"}
  /\ acked \subseteq Message
  /\ remains \in {"none", "last", "inside"}
  /\ misread \in BOOLEAN

-----------------------------------------------------------------------------
(* NewFileLog and rebuildIndex.                                            *)

\* Where the scan from position 1 first meets a chunk it cannot parse.
FirstTorn(f) ==
  CHOOSE k \in 1 .. Len(f) + 1 :
    /\ \A i \in 1 .. k - 1 : f[i].kind # "torn"
    /\ k <= Len(f) => f[k].kind = "torn"

CleanScan(f) == SubSeq(f, 1, FirstTorn(f) - 1)

\* A chunk at which the scan has read a length that does not end behind the file.
Parsed(c) == IF c.kind = "torn" THEN [c EXCEPT !.kind = "garbage"] ELSE c

\* Once past the first remains, the scan can read lengths at the chunks h[1], h[2], ...
\* Behind a record is the next chunk, or the end of what can be parsed.  Remains take
\* the bytes of one or more chunks behind them for their body.
Heads(f, h) ==
  \A i \in 1 .. Len(h) :
    IF f[h[i]].kind = "torn"
    THEN IF i < Len(h) THEN h[i + 1] > h[i] + 1 ELSE h[i] < Len(f)
    ELSE IF i < Len(h) THEN h[i + 1] = h[i] + 1
                       ELSE h[i] = Len(f) \/ f[h[i] + 1].kind = "torn"

\* The scan takes the first remains for a record, and goes on somewhere behind the
\* chunk that follows them.
Misparsed(f) ==
  LET first == FirstTorn(f)
      Behind == UNION {[1 .. n -> first + 2 .. Len(f)] : n \in 0 .. Len(f) - first - 1}
  IN  {CleanScan(f) \o <<Parsed(f[first])>> \o [i \in 1 .. Len(h) |-> Parsed(f[h[i]])]
         : h \in {g \in Behind : Heads(f, g)}}

\* Mutant: the scan indexes a truncated trailing record.
ScanKeepsTorn(f) == {f}

\* What the scan can leave.  Remains at the end of the file always end the
\* scan; in the middle they end it when the length read exceeds the file.
ScanOutcomes(f) == {CleanScan(f)} \cup Misparsed(f)

\* Mutant: the scan drops the remains but does not cut the file back.
rebuildIndexNoTruncate ==
  /\ file' = file
  /\ index' = [i \in 1 .. Len(CleanScan(file)) |-> i]

rebuildIndex ==
  /\ file' \in ScanOutcomes(file)
  /\ index' = [i \in 1 .. Len(file') |-> i]

NewFileLog ==
  /\ pc = "down"
  /\ rebuildIndex
  /\ pc' = "idle"
  /\ remains' = IF remains = "last" THEN "none" ELSE remains
  /\ misread' = (misread \/ remains = "inside")
  /\ UNCHANGED acked

-----------------------------------------------------------------------------
(* Append and AppendReplica: seek to the end, write the length, write the  *)
(* body, extend the index.                                                 *)

WriteLength(m) ==
  /\ pc = "idle"
  /\ Len(file) < MaxLen
  /\ file' = Append(file, [kind |-> "torn", msg |-> m])
  /\ remains' = IF remains = "last" THEN "inside" ELSE remains
  /\ pc' = "body"
  /\ UNCHANGED <<index, acked, misread>>

\* Mutant: the offset is that of the last message.
FileAppendOffByOne(v) == WriteLength([offset |-> Len(index) - 1, val |-> v])

FileAppend(v) == WriteLength([offset |-> Len(index), val |-> v])

\* Mutant: AppendReplica takes any offset.
FileAppendReplicaUnchecked(m) == WriteLength(m)

FileAppendReplica(m) ==
  /\ ReplicaFits(index, m)
  /\ WriteLength(m)

WriteBody ==
  /\ pc = "body"
  /\ file' = [file EXCEPT ![Len(file)].kind = "record"]
  /\ pc' = "index"
  /\ UNCHANGED <<index, acked, remains, misread>>

\* Either write returns an error: the bytes written so far stay in the file.
WriteFails ==
  /\ pc = "body"
  /\ pc' = "idle"
  /\ remains' = IF remains = "none" THEN "last" ELSE remains
  /\ UNCHANGED <<file, index, acked, misread>>

\* The index gets the position that was the end of the file, and the caller
\* its answer.
ExtendIndex ==
  /\ pc = "index"
  /\ index' = Append(index, Len(file))
  /\ acked' = acked \cup {file[Len(file)].msg}
  /\ pc' = "idle"
  /\ UNCHANGED <<file, remains, misread>>

-----------------------------------------------------------------------------
(* TruncateTo, and the end of the process: Close, or a crash at any point. *)

FileTruncateTo(offset) ==
  /\ pc = "idle"
  /\ offset \in 0 .. Len(index)
  /\ file' = IF offset < Len(index) THEN SubSeq(file, 1, index[offset + 1] - 1)
                                    ELSE file
  /\ index' = SubSeq(index, 1, offset)
  /\ acked' = {m \in acked : m.offset < offset}
  /\ remains' = IF remains = "last" /\ offset < Len(index) THEN "none" ELSE remains
  /\ UNCHANGED <<pc, misread>>

CrashOrClose ==
  /\ pc # "down"
  /\ pc' = "down"
  /\ index' = << >>
  /\ UNCHANGED <<file, acked, remains, misread>>

-----------------------------------------------------------------------------
Init ==
  /\ file = << >>
  /\ index = << >>
  /\ pc = "down"
  /\ acked = {}
  /\ remains = "none"
  /\ misread = FALSE

Next ==
  \/ NewFileLog
  \/ \E v \in Value : FileAppend(v)
  \/ \E m \in [offset : 0 .. MaxLen, val : Value] : FileAppendReplica(m)
  \/ WriteBody
  \/ WriteFails
  \/ ExtendIndex
  \/ \E offset \in 0 .. Len(index) : FileTruncateTo(offset)
  \/ CrashOrClose

Spec == Init /\ [][Next]_vars

-----------------------------------------------------------------------------
(* Properties.                                                             *)

\* FileLog.Read and readAt: the messages the index leads to.
Contents == [i \in 1 .. Len(index) |-> file[index[i]].msg]

\* The index names chunks in file order that have as many bytes as their length says,
\* and they are the records that were written: neither a crash nor a failed write
\* makes readAt decode anything else, until the log is opened again with records
\* behind the remains of a failed write (file_log.go:58-88, 190-213).
IndexNamesWholeRecords ==
  /\ \A i \in 1 .. Len(index) :
        /\ index[i] \in 1 .. Len(file)
        /\ file[index[i]].kind # "torn"
        /\ misread \/ file[index[i]].kind = "record"
  /\ \A i, j \in 1 .. Len(index) : i < j => index[i] < index[j]

\* An acknowledged message is readable at its offset whenever the log is open.
AckedReadable ==
  pc # "down" =>
    \A m \in acked : m.offset < Len(index) /\ Contents[m.offset + 1] = m

\* No crash between any two writes, no failed write and no restart loses or moves an
\* acknowledged message, and what is appended behind the remains of a failed write
\* is readable, until the log is opened again with such records: then only are
\* messages lost (file_log.go:30-32, 58-88, 91-124).
AckedSurvive == misread \/ AckedReadable

\* The log a reader of the code sees: through the index when it is open, what
\* the next NewFileLog will find when it is not.
View ==
  IF pc = "down"
  THEN [i \in 1 .. Len(CleanScan(file)) |-> CleanScan(file)[i].msg]
  ELSE Contents

Abstract == INSTANCE MemLog WITH msgs <- View

\* The persistent log implements the in-memory one: every step, the crash and
\* the recovery included, appends one message at the next offset, truncates, or
\* changes nothing, until a record is appended behind the remains of another.
ImplementsMemLog ==
  Abstract!Init /\ [][remains' = "inside" \/ [Abstract!Next]_View]_vars

=============================================================================
