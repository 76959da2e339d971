------------------------------- MODULE Groups -------------------------------
(***************************************************************************)
(* Consumer groups on one topic: JoinGroup, CommitOffsets and GetMetadata  *)
(* of the coordinator (src/internal/coordinator/coordinator.go), reached   *)
(* through the broker's coordinatorProxy (src/internal/broker/broker.go),  *)
(* the Consumer in group mode (src/internal/consumer/consumer.go), and the *)
(* program that drives it (runConsumeGroup of src/cmd/cli/main.go).        *)
(*                                                                         *)
(* The coordinator computes the assignment of all members when one of them *)
(* joins; the others learn of it when they join again, which they do       *)
(* between two polls when the rebalance interval has passed.  Members      *)
(* never leave a group.                                                    *)
(***************************************************************************)
EXTENDS Lists

CONSTANTS
  Member,         \* member IDs; numbers, for sort.Strings orders them
  NumPartitions,  \* partitions of the topic
  MaxLen,         \* bound: records of a partition
  MaxFails        \* bound: calls that fail, programs that stop or start again

ASSUME GroupsAssumption ==
  /\ Member \subseteq Nat /\ IsFiniteSet(Member)
  /\ NumPartitions \in Nat \ {0}
  /\ MaxLen \in Nat /\ MaxFails \in Nat

Partitions == 0 .. NumPartitions - 1

VARIABLES
  meta,     \* partitions of the topic that CreateTopic has committed, from 0 on
  len,      \* len[p]: visible records of p
  group,    \* coordinator.groups of the group: the members
  offsets,  \* coordinator.offsets of the group
  member,   \* member[m]: the program of m and its Consumer
  seen,     \* history: the offsets of p that some member was given
  fails

vars == <<meta, len, group, offsets, member, seen, fails>>

\* A program joins ("new", "joined" when JoinGroup has answered), polls ("poll"),
\* joins again ("rejoined"), chooses a reader ("choose"), waits for a record
\* ("recv"), has one ("got"), and ends ("stopped").
\*   answer, of   the last answer of JoinGroup, and the group it was computed for
\*   readers      Consumer.readers
\*   view         the group for which readers was last brought up to date
\*   idx, cur     nextIdx modulo the number of readers, and the reader that waits;
\*                no reader (0) in single-partition mode
\*   single       Consumer.nextOffset, used in single-partition mode
Reader == [partition : Partitions, next : Nat]
MemberState == [pc : {"new", "joined", "poll", "rejoined", "choose", "recv", "got", "stopped"},
                answer : Seq(Partitions), of : SUBSET Member, readers : Seq(Reader),
                view : SUBSET Member, idx : Nat, cur : Nat, single : Nat]

TypeOK ==
  /\ meta \in 0 .. NumPartitions
  /\ len \in [Partitions -> 0 .. MaxLen]
  /\ group \in SUBSET Member
  /\ offsets \in [Partitions -> 0 .. MaxLen]
  /\ member \in [Member -> MemberState]
  /\ \A m \in Member : member[m].cur \in 0 .. Len(member[m].readers)
  /\ seen \in [Partitions -> SUBSET (0 .. MaxLen - 1)]
  /\ fails \in 0 .. MaxFails

-----------------------------------------------------------------------------
(* The assignment.                                                         *)

min32(a, b) == IF a < b THEN a ELSE b

\* Mutant: the extra partitions are not counted in the start of a range.
partitionRangeOverlap(i, k, total) ==
  LET start == i * (total \div k)
      count == total \div k + (IF i < total % k THEN 1 ELSE 0)
  IN  [j \in 1 .. count |-> start + j - 1]

\* The i-th member of k has a range of the partitions; the first ones have one more
\* when they cannot all have the same.
partitionRange(i, k, total) ==
  LET base  == total \div k
      extra == total % k
      start == i * base + min32(i, extra)
      count == base + (IF i < extra THEN 1 ELSE 0)
  IN  [j \in 1 .. count |-> start + j - 1]

\* The index of m among the sorted members.
sortedKeys(g, m) == Cardinality({n \in g : n < m})

Assigned(g, m) == partitionRange(sortedKeys(g, m), Cardinality(g), NumPartitions)

In(p, s) == \E i \in DOMAIN s : s[i] = p

Holds(m, p) == \E i \in DOMAIN member[m].readers : member[m].readers[i].partition = p

-----------------------------------------------------------------------------
(* The topic.                                                              *)

\* CreateTopic commits the next partition; all of them are known to JoinGroup.
CommitPartition ==
  /\ meta < NumPartitions
  /\ meta' = meta + 1
  /\ UNCHANGED <<len, group, offsets, member, seen, fails>>

\* The brokers are told of the partitions after the last commit.
Produce(p) ==
  /\ meta = NumPartitions /\ len[p] < MaxLen
  /\ len' = [len EXCEPT ![p] = @ + 1]
  /\ UNCHANGED <<meta, group, offsets, member, seen, fails>>

-----------------------------------------------------------------------------
(* Joining, and joining again.                                             *)

Started == [pc |-> "new", answer |-> <<>>, of |-> {}, readers |-> <<>>, view |-> {},
            idx |-> 0, cur |-> 0, single |-> 0]

\* The first call, and those of Poll when the interval has passed; a member that was
\* given no partition makes no more.
CallsJoinGroup(m) ==
  \/ member[m].pc = "new"
  \/ member[m].pc = "poll" /\ member[m].readers # <<>>

\* The coordinator adds the member and answers with its range.
JoinGroup(m) ==
  /\ CallsJoinGroup(m)
  /\ group' = group \cup {m}
  /\ member' = [member EXCEPT ![m].answer = Assigned(group', m), ![m].of = group',
                  ![m].pc = IF @ = "new" THEN "joined" ELSE "rejoined"]
  /\ UNCHANGED <<meta, len, offsets, seen, fails>>

\* The call fails, or its answer is lost: the program ends if it was its first, and
\* polls on if it was not.
JoinGroupFails(m, reached) ==
  /\ CallsJoinGroup(m)
  /\ fails < MaxFails /\ fails' = fails + 1
  /\ group' = IF reached THEN group \cup {m} ELSE group
  /\ member' = [member EXCEPT ![m].pc = IF @ = "new" THEN "stopped" ELSE "choose"]
  /\ UNCHANGED <<meta, len, offsets, seen>>

\* Mutant: the first record is left out.
NewReaderLate(p) == [partition |-> p, next |-> 1]

\* A reader starts at offset 0, whatever was committed.
NewReader(p) == [partition |-> p, next |-> 0]

\* The answer is taken: the readers are those of the group it was computed for.
Taken(r, pc, readers, idx) ==
  [pc |-> pc, answer |-> <<>>, of |-> {}, readers |-> readers, view |-> r.of,
   idx |-> idx, cur |-> r.cur, single |-> r.single]

\* GetMetadata after the first JoinGroup: a partition it does not know ends the
\* program, whose member stays in the group.
OpenReaders(m) ==
  LET parts == member[m].answer IN
  /\ member[m].pc = "joined"
  /\ member' = [member EXCEPT ![m] =
       IF meta > 0 /\ \A i \in DOMAIN parts : parts[i] < meta
       THEN Taken(@, "poll", [i \in DOMAIN parts |-> NewReader(parts[i])], 0)
       ELSE [Started EXCEPT !.pc = "stopped"]]
  /\ UNCHANGED <<meta, len, group, offsets, seen, fails>>

\* Mutant: only the number of partitions is compared.
SameAssignmentCount(m) == Len(member[m].answer) = Len(member[m].readers)

\* The readers are those of the answer already.
SameAssignment(m) ==
  /\ Len(member[m].answer) = Len(member[m].readers)
  /\ \A i \in DOMAIN member[m].readers : In(member[m].readers[i].partition, member[m].answer)

\* The reader of p that m has keeps its offset.
ReaderOf(m, p) ==
  IF Holds(m, p)
  THEN CHOOSE r \in {member[m].readers[i] : i \in DOMAIN member[m].readers} : r.partition = p
  ELSE NewReader(p)

\* tryRebalance: nothing to do, or GetMetadata and the new readers.  Partitions that
\* the metadata do not have are left out.
tryRebalance(m) ==
  LET parts == Kept(member[m].answer, {p \in Partitions : Holds(m, p) \/ p < meta}) IN
  /\ member[m].pc = "rejoined"
  /\ member' = [member EXCEPT ![m] =
       IF SameAssignment(m) THEN Taken(@, "choose", @.readers, @.idx)
       ELSE Taken(@, "choose", [i \in DOMAIN parts |-> ReaderOf(m, parts[i])], 0)]
  /\ UNCHANGED <<meta, len, group, offsets, seen, fails>>

\* GetMetadata fails: the first join ends the program, tryRebalance has no effect.
GetMetadataFails(m) ==
  /\ \/ member[m].pc = "joined"
     \/ member[m].pc = "rejoined" /\ ~SameAssignment(m)
  /\ fails < MaxFails /\ fails' = fails + 1
  /\ member' = [member EXCEPT ![m].answer = <<>>, ![m].of = {},
                  ![m].pc = IF @ = "joined" THEN "stopped" ELSE "choose"]
  /\ UNCHANGED <<meta, len, group, offsets, seen>>

-----------------------------------------------------------------------------
(* Polling.                                                                *)

\* A program that waits for a record of its reader cur.
Waits(r, cur, idx) == [r EXCEPT !.pc = "recv", !.cur = cur, !.idx = idx]

\* Mutant: the index of the next reader does not wrap around.
PollUnwrapped(m) ==
  LET n == Len(member[m].readers) IN
  /\ member[m].pc \in {"poll", "choose"}
  /\ member' = [member EXCEPT ![m] =
       IF n > 0 THEN Waits(@, @.idx + 1, @.idx + 1)
       ELSE IF @.pc = "poll" THEN Waits(@, 0, @.idx)
       ELSE [Started EXCEPT !.pc = "stopped"]]
  /\ UNCHANGED <<meta, len, group, offsets, seen, fails>>

\* Poll takes the next reader and waits for a record of its partition; without
\* readers it reads partition 0 as a consumer without a group, for good, unless it
\* lost them in this very call, which is an error.
Poll(m) ==
  LET n == Len(member[m].readers) IN
  /\ member[m].pc \in {"poll", "choose"}
  /\ member' = [member EXCEPT ![m] =
       IF n > 0 THEN Waits(@, @.idx + 1, (@.idx + 1) % n)
       ELSE IF @.pc = "poll" THEN Waits(@, 0, @.idx)
       ELSE [Started EXCEPT !.pc = "stopped"]]
  /\ UNCHANGED <<meta, len, group, offsets, seen, fails>>

\* The partition whose record m waits for, and the offset.
CurPartition(m) == IF member[m].cur = 0 THEN 0 ELSE member[m].readers[member[m].cur].partition
CurOffset(m) == IF member[m].cur = 0 THEN member[m].single
                ELSE member[m].readers[member[m].cur].next

\* The reader, or the consumer without readers, is past its record.
Advanced(r) ==
  IF r.cur = 0 THEN [r EXCEPT !.pc = "got", !.single = r.single + 1]
  ELSE [r EXCEPT !.pc = "got", !.cur = 0, !.readers = [r.readers EXCEPT ![r.cur].next = @ + 1]]

Recv(m) ==
  /\ member[m].pc = "recv" /\ CurOffset(m) < len[CurPartition(m)]
  /\ seen' = [seen EXCEPT ![CurPartition(m)] = @ \cup {CurOffset(m)}]
  /\ member' = [member EXCEPT ![m] = Advanced(@)]
  /\ UNCHANGED <<meta, len, group, offsets, fails>>

\* Mutant: the record that is being waited for is committed too.
CommittedAhead(m) ==
  [p \in Partitions |-> IF Holds(m, p) THEN min32(ReaderOf(m, p).next + 1, MaxLen)
                                       ELSE offsets[p]]

\* CommitOffsets sends the next offsets of all readers; the coordinator overwrites
\* what it has.
Committed(m) ==
  [p \in Partitions |-> IF Holds(m, p) THEN ReaderOf(m, p).next ELSE offsets[p]]

\* Every commit-every records, the offsets are committed; an error is ignored.
CommitOffsets(m, commit) ==
  /\ member[m].pc = "got"
  /\ offsets' = IF commit THEN Committed(m) ELSE offsets
  /\ member' = [member EXCEPT ![m].pc = "poll"]
  /\ UNCHANGED <<meta, len, group, seen, fails>>

\* The program is interrupted while it polls, and commits if it commits at all; or
\* the stream returns an error that is not transient.
Stop(m, commit) ==
  /\ member[m].pc \in {"poll", "recv"}
  /\ fails < MaxFails /\ fails' = fails + 1
  /\ offsets' = IF commit THEN Committed(m) ELSE offsets
  /\ member' = [member EXCEPT ![m] = [Started EXCEPT !.pc = "stopped"]]
  /\ UNCHANGED <<meta, len, group, seen>>

\* The program is started again, with the same member ID.
Restart(m) ==
  /\ member[m].pc = "stopped"
  /\ fails < MaxFails /\ fails' = fails + 1
  /\ member' = [member EXCEPT ![m] = Started]
  /\ UNCHANGED <<meta, len, group, offsets, seen>>

-----------------------------------------------------------------------------
Init ==
  /\ meta = 0
  /\ len = [p \in Partitions |-> 0]
  /\ group = {}
  /\ offsets = [p \in Partitions |-> 0]
  /\ member = [m \in Member |-> Started]
  /\ seen = [p \in Partitions |-> {}]
  /\ fails = 0

\* What a program does by itself; the interval may have passed, or not.
MemberStep(m) ==
  \/ OpenReaders(m)
  \/ tryRebalance(m)
  \/ Poll(m)
  \/ Recv(m)
  \/ \E commit \in BOOLEAN : CommitOffsets(m, commit)

Next ==
  \/ CommitPartition
  \/ \E p \in Partitions : Produce(p)
  \/ \E m \in Member : JoinGroup(m)
  \/ \E m \in Member, reached \in BOOLEAN : JoinGroupFails(m, reached)
  \/ \E m \in Member : GetMetadataFails(m)
  \/ \E m \in Member : MemberStep(m)
  \/ \E m \in Member, commit \in BOOLEAN : Stop(m, commit)
  \/ \E m \in Member : Restart(m)

Spec == Init /\ [][Next]_vars

\* The programs run.  Nothing makes them join, or join again.
Fairness == \A m \in Member : WF_vars(MemberStep(m))

FairSpec == Spec /\ Fairness

-----------------------------------------------------------------------------
(* Properties.                                                             *)

\* The ranges of the members of the group hold every partition once, and none has
\* more than one more than another (coordinator.go:343-348, 620-634).
RangesPartitionTopic ==
  /\ \A p \in Partitions : group # {} => \E m \in group : In(p, Assigned(group, m))
  /\ \A m, n \in group :
       /\ m # n => \A i \in DOMAIN Assigned(group, m) :
                     ~In(Assigned(group, m)[i], Assigned(group, n))
       /\ Len(Assigned(group, m)) <= Len(Assigned(group, n)) + 1

\* m reads p: it has a reader of p, or it was given no partition and reads partition 0
\* like a consumer without a group.
Reads(m, p) ==
  \/ Holds(m, p)
  \/ p = 0 /\ member[m].readers = <<>> /\ member[m].pc \in {"poll", "recv", "got"}

\* Two members that have brought their readers up to date with the same group never
\* have readers of the same partition, although one of them may have done so long ago
\* and every call between may have failed; and they never read the same partition but
\* partition 0, and that only when the group has more members than the topic has
\* partitions (consumer.go:126-205, 210-222, coordinator.go:323-350).
SettledMembersDisjoint ==
  \A m, n \in Member : m # n /\ member[m].view = member[n].view =>
    \A p \in Partitions :
      /\ ~(Holds(m, p) /\ Holds(n, p))
      /\ Reads(m, p) /\ Reads(n, p) => p = 0 /\ Cardinality(member[m].view) > NumPartitions

\* "Each member ends up with a disjoint partition slice" (tests.md:90).  A member that
\* is given no partition reads partition 0 beside its owner (MCGroupsIdle).
DisjointSlices ==
  \A m, n \in Member : m # n /\ member[m].view = member[n].view =>
    \A p \in Partitions : ~(Reads(m, p) /\ Reads(n, p))

\* What is committed was delivered: every record below the offset committed for a
\* partition was given to some member, though the offsets come from members that
\* have lost the partition and may go back (consumer.go:264-279,
\* coordinator.go:353-361).
CommittedWasDelivered ==
  \A p \in Partitions : \A o \in 0 .. offsets[p] - 1 : o \in seen[p]

\* The member that the last assignment gives p to.
Owns(m, p) == m \in group /\ In(p, Assigned(group, m))

\* m waits for a record that is not there.
Blocked(m) == member[m].pc = "recv" /\ CurOffset(m) >= len[CurPartition(m)]

\* A record is delivered, unless the owner of its partition is not running, or it
\* waits for a record of another partition (consumer.go:207-221, 326-366).
DeliveredUnlessStuck ==
  \A p \in Partitions, o \in 0 .. MaxLen - 1 :
    \/ []<>(len[p] <= o)
    \/ <>(o \in seen[p])
    \/ []<>(~\E m \in Member : Owns(m, p) /\ member[m].pc \notin {"new", "stopped"}
                              /\ ~(Blocked(m) /\ CurPartition(m) # p))

\* "Poll blocks until the next message is available" (consumer.go:207): a member
\* that polls is given a record if there is one in a partition it reads.
PollReturnsAvailable ==
  \A m \in Member :
    (member[m].pc = "recv" /\ \E i \in DOMAIN member[m].readers :
       member[m].readers[i].next < len[member[m].readers[i].partition])
    ~> member[m].pc # "recv"

=============================================================================
