-------------------------------- MODULE Log --------------------------------
(***************************************************************************)
(* The message log of one partition as a value: the operations of the      *)
(* interface log.Log (src/internal/log/log.go) on a sequence of messages.  *)
(* Offsets start at 0, so the message with offset o is element o+1.        *)
(***************************************************************************)
EXTENDS Integers, Sequences

\* Log.LogEndOffset and Log.Len: the offset the next message will get.
LogEndOffset(l) == Len(l)

\* Log.Append: the log assigns the offset.
AppendTo(l, v) == Append(l, [offset |-> Len(l), val |-> v])

\* Log.AppendReplica: the message carries its offset, which must be the next.
ReplicaFits(l, m) == m.offset = Len(l)

\* Log.Read: an offset past the end is an error, one at the end reads nothing.
ReadInRange(l, offset) == offset \in 0 .. Len(l)
ReadEnd(l, offset, max) ==
  IF offset + max > Len(l) THEN Len(l) ELSE offset + max

\* Log.TruncateTo: discards the messages at offset and after it.
TruncatedTo(l, offset) == SubSeq(l, 1, offset)
=============================================================================
