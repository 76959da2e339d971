------------------------------- MODULE MemLog -------------------------------
(***************************************************************************)
(* The promise of a partition log, which is also what MemLog of            *)
(* src/internal/log/log.go does: a sequence of messages, each carrying its *)
(* own position as its offset, that grows by one message at a time and     *)
(* shrinks only by truncation.  Each operation runs under MemLog.mu, so    *)
(* each is one step; Read, Len and LogEndOffset change nothing.            *)
(***************************************************************************)
EXTENDS Log

CONSTANT Value

VARIABLE msgs

Message == [offset : Nat, val : Value]

Init == msgs = << >>

MemAppend(v) == msgs' = AppendTo(msgs, v)

MemAppendReplica(m) ==
  /\ ReplicaFits(msgs, m)
  /\ msgs' = Append(msgs, m)

MemTruncateTo(offset) ==
  /\ offset \in 0 .. Len(msgs)
  /\ msgs' = TruncatedTo(msgs, offset)

Next ==
  \/ \E v \in Value : MemAppend(v)
  \/ \E m \in [offset : 0 .. Len(msgs), val : Value] : MemAppendReplica(m)
  \/ \E offset \in 0 .. Len(msgs) : MemTruncateTo(offset)

Spec == Init /\ [][Next]_msgs

=============================================================================
