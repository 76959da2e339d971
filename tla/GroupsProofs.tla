---------------------------- MODULE GroupsProofs ----------------------------
(***************************************************************************)
(* Consumer groups of any number of members and partitions: the ranges     *)
(* hold every partition once, members that are up to date with the same    *)
(* group share no partition but partition 0, and that only when some were  *)
(* given none, and what is committed was delivered.                        *)
(*                                                                         *)
(* Ranges of consecutive members are adjacent (RangeStart), so two of them *)
(* do not overlap and a partition is in the range before the first that    *)
(* starts behind it.  The indexes of the members of a finite group are the *)
(* numbers below its size (IndexOnto), so each range belongs to a member.  *)
(*                                                                         *)
(* Of a member it is known (MemberInv) that its readers are of its range   *)
(* in the group it was last brought up to date with, which an answer that  *)
(* was not taken yet does not change, and that everything before the       *)
(* offset of a reader was delivered, by whichever member had the partition.*)
(***************************************************************************)
EXTENDS Groups, FiniteSetTheorems, WellFoundedInduction, TLAPS

\* Where the range of the i-th of k members starts.
RangeStart(i, k, total) == i * (total \div k) + min32(i, total % k)

\* The quotient and the remainder of the division in partitionRange.
LEMMA Division ==
  ASSUME NEW k \in Nat \ {0}, NEW total \in Nat
  PROVE  /\ total \div k \in Nat
         /\ total % k \in 0 .. k - 1
         /\ total = k * (total \div k) + (total % k)
  OBVIOUS

\* Multiplication by a natural number is monotone.
LEMMA TimesMonotone ==
  ASSUME NEW i \in Nat, NEW j \in Nat, i < j, NEW b \in Nat
  PROVE  i * b + b <= j * b
<1> DEFINE d == j - i - 1
<1>1. d \in Nat /\ j = i + 1 + d
  OBVIOUS
<1> HIDE DEF d
<1>2. j * b = i * b + b + d * b
  BY <1>1
<1>3. d * b \in Nat /\ i * b \in Nat
  BY <1>1
<1> QED
  BY <1>2, <1>3

\* A range ends where the next one starts, the first starts at 0, the last ends with
\* the topic, and ranges differ in length by one at most.
LEMMA RangesAdjacent ==
  ASSUME NEW k \in Nat \ {0}, NEW total \in Nat
  PROVE  /\ RangeStart(0, k, total) = 0
         /\ RangeStart(k, k, total) = total
         /\ \A i \in 0 .. k : RangeStart(i, k, total) \in Nat
         /\ \A i, j \in 0 .. k - 1 :
              i < j => RangeStart(i + 1, k, total) <= RangeStart(j, k, total)
         /\ \A i, j \in 0 .. k - 1 :
              Len(partitionRange(i, k, total)) <= Len(partitionRange(j, k, total)) + 1
         /\ \A i \in 0 .. k - 1 : \A p :
              In(p, partitionRange(i, k, total))
              <=> p \in RangeStart(i, k, total) .. RangeStart(i + 1, k, total) - 1
         /\ \A i \in 0 .. k - 1 : partitionRange(i, k, total) \in Seq(0 .. total - 1)
<1> DEFINE b == total \div k
           e == total % k
<1>1. b \in Nat /\ e \in 0 .. k - 1 /\ total = k * b + e
  BY Division, Zenon
<1>2. \A i : RangeStart(i, k, total) = i * b + min32(i, e)
  BY DEF RangeStart
<1>3. \A i : partitionRange(i, k, total)
             = [j \in 1 .. (b + (IF i < e THEN 1 ELSE 0)) |-> (i * b + min32(i, e)) + j - 1]
  BY DEF partitionRange
<1> HIDE DEF b, e
<1>4. \A i \in Nat : i * b \in Nat /\ (i + 1) * b = i * b + b
  BY <1>1
<1>5. RangeStart(0, k, total) = 0
  BY <1>1, <1>2 DEF min32
<1>6. RangeStart(k, k, total) = total
  BY <1>1, <1>2 DEF min32
<1>7. \A i \in 0 .. k : RangeStart(i, k, total) \in Nat
  BY <1>1, <1>2, <1>4 DEF min32
<1>8. ASSUME NEW i \in 0 .. k - 1, NEW j \in 0 .. k - 1, i < j
      PROVE  RangeStart(i + 1, k, total) <= RangeStart(j, k, total)
  <2>1. i * b + b <= j * b /\ i * b \in Nat /\ j * b \in Nat
    BY <1>1, <1>4, <1>8, TimesMonotone
  <2>2. RangeStart(i + 1, k, total) = i * b + b + min32(i + 1, e)
    BY <1>2, <1>4
  <2>3. min32(i + 1, e) <= min32(j, e) /\ min32(i + 1, e) \in Nat /\ min32(j, e) \in Nat
    BY <1>1, <1>8 DEF min32
  <2> QED
    BY <1>1, <1>2, <2>1, <2>2, <2>3
<1>9. \A i \in 0 .. k - 1 :
        /\ partitionRange(i, k, total) \in Seq(Int)
        /\ Len(partitionRange(i, k, total)) = b + (IF i < e THEN 1 ELSE 0)
  <2> TAKE i \in 0 .. k - 1
  <2> DEFINE c == b + (IF i < e THEN 1 ELSE 0)
             s == i * b + min32(i, e)
  <2>1. c \in Nat /\ s \in Int
    BY <1>1, <1>4 DEF min32
  <2> HIDE DEF s
  <2>2. partitionRange(i, k, total) = [j \in 1 .. c |-> s + j - 1]
    BY <1>3 DEF s
  <2> HIDE DEF c
  <2>3. partitionRange(i, k, total) \in Seq(Int) /\ Len(partitionRange(i, k, total)) = c
    BY <2>1, <2>2
  <2> QED
    BY <2>3 DEF c
<1>10. ASSUME NEW i \in 0 .. k - 1, NEW p
       PROVE  In(p, partitionRange(i, k, total))
              <=> p \in RangeStart(i, k, total) .. RangeStart(i + 1, k, total) - 1
  <2> DEFINE c == b + (IF i < e THEN 1 ELSE 0)
             s == RangeStart(i, k, total)
  <2>1. c \in Nat /\ s \in Nat
    BY <1>1, <1>7
  <2>2. RangeStart(i + 1, k, total) = s + c
    <3>1. RangeStart(i + 1, k, total) = i * b + b + min32(i + 1, e) /\ i * b \in Nat
      BY <1>2, <1>4
    <3>2. s = i * b + min32(i, e)
      BY <1>2
    <3>3. /\ min32(i + 1, e) = min32(i, e) + (IF i < e THEN 1 ELSE 0)
          /\ min32(i, e) \in Nat
      BY <1>1 DEF min32
    <3> QED
      BY <1>1, <3>1, <3>2, <3>3
  <2>3. partitionRange(i, k, total) = [j \in 1 .. c |-> s + j - 1]
    BY <1>2, <1>3
  <2> HIDE DEF c, s
  <2>4. In(p, partitionRange(i, k, total)) <=> \E j \in 1 .. c : s + j - 1 = p
    BY <2>3 DEF In
  <2>5. (\E j \in 1 .. c : s + j - 1 = p) <=> p \in s .. s + c - 1
    <3>1. ASSUME p \in s .. s + c - 1 PROVE \E j \in 1 .. c : s + j - 1 = p
      <4>1. p - s + 1 \in 1 .. c /\ s + (p - s + 1) - 1 = p
        BY <2>1, <3>1
      <4> QED
        BY <4>1
    <3> QED
      BY <2>1, <3>1
  <2>6. p \in s .. s + c - 1 <=> p \in s .. RangeStart(i + 1, k, total) - 1
    BY <2>1, <2>2
  <2> QED
    BY <2>4, <2>5, <2>6 DEF s
<1>11. \A i, j \in 0 .. k - 1 :
         Len(partitionRange(i, k, total)) <= Len(partitionRange(j, k, total)) + 1
  <2> TAKE i, j \in 0 .. k - 1
  <2>1. \A n \in {i, j} : Len(partitionRange(n, k, total)) \in {b, b + 1}
    BY <1>1, <1>9
  <2> QED
    BY <1>1, <2>1
<1>12. ASSUME NEW i \in 0 .. k - 1 PROVE partitionRange(i, k, total) \in Seq(0 .. total - 1)
  <2> DEFINE s == partitionRange(i, k, total)
  <2>1. RangeStart(i + 1, k, total) <= total
    <3>1. i * b + b <= k * b /\ i * b \in Nat /\ k * b \in Nat
      BY <1>1, <1>4, TimesMonotone
    <3>2. RangeStart(i + 1, k, total) = i * b + b + min32(i + 1, e)
      BY <1>2, <1>4
    <3>3. min32(i + 1, e) <= e /\ min32(i + 1, e) \in Nat
      BY <1>1 DEF min32
    <3> QED
      BY <1>1, <3>1, <3>2, <3>3
  <2>2. s \in Seq(Int)
    BY <1>9
  <2>3. RangeStart(i, k, total) \in Nat /\ RangeStart(i + 1, k, total) \in Nat
    BY <1>7
  <2>4. ASSUME NEW j \in DOMAIN s PROVE s[j] \in 0 .. total - 1
    <3>1. In(s[j], s)
      BY DEF In
    <3>2. s[j] \in RangeStart(i, k, total) .. RangeStart(i + 1, k, total) - 1
      BY <1>10, <3>1
    <3> QED
      BY <2>1, <2>3, <3>2
  <2> HIDE DEF s
  <2>5. s \in Seq(0 .. total - 1)
    BY <2>2, <2>4
  <2> QED
    BY <2>5 DEF s
<1> QED
  BY <1>5, <1>6, <1>7, <1>8, <1>10, <1>11, <1>12

\* Every partition is in some range.
LEMMA RangesCover ==
  ASSUME NEW k \in Nat \ {0}, NEW total \in Nat, NEW p \in 0 .. total - 1
  PROVE  \E i \in 0 .. k - 1 : In(p, partitionRange(i, k, total))
<1> DEFINE S == {j \in 0 .. k : p < RangeStart(j, k, total)}
<1>1. S \in SUBSET Nat /\ k \in S
  BY RangesAdjacent
<1>2. PICK j \in S : \A n \in S : j <= n
  <2> DEFINE R == OpToRel(<, Nat)
  <2>1. IsWellFoundedOn(R, Nat)
    BY Zenon, NatLessThanWellFounded
  <2>2. \A n, m \in Nat : n < m => <<n, m>> \in R
    BY DEF OpToRel
  <2> HIDE DEF R, S
  <2>3. PICK j \in S : \A n \in S : <<n, j>> \notin R
    BY <1>1, <2>1, WFMin, Zenon
  <2>4. ASSUME NEW n \in S PROVE j <= n
    <3>1. j \in Nat /\ n \in Nat /\ ~(n < j)
      BY <1>1, <2>2, <2>3, Zenon
    <3> QED
      BY <3>1
  <2> QED
    BY <2>4
<1>3. j # 0
  BY <1>2, RangesAdjacent
<1>4. j - 1 \in 0 .. k - 1 /\ j - 1 \notin S /\ j - 1 + 1 = j
  BY <1>2, <1>3
<1>5. RangeStart(j - 1, k, total) \in Nat /\ RangeStart(j, k, total) \in Nat
  BY <1>2, <1>4, RangesAdjacent
<1>6. p \in RangeStart(j - 1, k, total) .. RangeStart(j, k, total) - 1
  BY <1>2, <1>4, <1>5
<1>7. In(p, partitionRange(j - 1, k, total))
  BY <1>4, <1>6, RangesAdjacent
<1> QED
  BY <1>4, <1>7

-----------------------------------------------------------------------------
\* The indexes of the sorted members are below their number, and differ.
LEMMA IndexInjective ==
  ASSUME NEW g \in SUBSET Nat, IsFiniteSet(g)
  PROVE  /\ \A m \in g : sortedKeys(g, m) \in 0 .. Cardinality(g) - 1
         /\ \A m, n \in g : m # n => sortedKeys(g, m) # sortedKeys(g, n)
<1> DEFINE Below(m) == {n \in g : n < m}
<1>1. \A m \in g : /\ IsFiniteSet(Below(m)) /\ Cardinality(Below(m)) \in Nat
                   /\ Below(m) \in SUBSET g /\ Below(m) # g
  <2> TAKE m \in g
  <2>1. Below(m) \in SUBSET g /\ m \notin Below(m)
    OBVIOUS
  <2> HIDE DEF Below
  <2>2. IsFiniteSet(Below(m))
    BY <2>1, FS_Subset
  <2> QED
    BY <2>1, <2>2, FS_CardinalityType
<1>2. \A m, n \in g : m < n => Below(m) \in SUBSET Below(n) /\ Below(m) # Below(n)
  <2> SUFFICES ASSUME NEW m \in g, NEW n \in g, m < n
               PROVE  Below(m) \in SUBSET Below(n) /\ Below(m) # Below(n)
    OBVIOUS
  <2>1. m \in Below(n) /\ m \notin Below(m)
    OBVIOUS
  <2>2. ASSUME NEW x \in Below(m) PROVE x \in Below(n)
    OBVIOUS
  <2> QED
    BY <2>1, <2>2, Zenon
<1>3. \A m : sortedKeys(g, m) = Cardinality(Below(m))
  BY DEF sortedKeys
<1> HIDE DEF Below
<1>4. Cardinality(g) \in Nat
  BY FS_CardinalityType
<1>5. ASSUME NEW m \in g PROVE sortedKeys(g, m) \in 0 .. Cardinality(g) - 1
  <2>1. Cardinality(Below(m)) <= Cardinality(g) /\ Cardinality(g) # Cardinality(Below(m))
    BY <1>1, FS_Subset
  <2> QED
    BY <1>1, <1>3, <1>4, <2>1
<1>6. ASSUME NEW m \in g, NEW n \in g, m < n
      PROVE  sortedKeys(g, m) # sortedKeys(g, n)
  <2>1. Cardinality(Below(n)) # Cardinality(Below(m))
    BY <1>1, <1>2, <1>6, FS_Subset
  <2> QED
    BY <1>3, <2>1
<1>7. \A m, n \in g : m # n => m < n \/ n < m
  OBVIOUS
<1> QED
  BY <1>5, <1>6, <1>7

\* Every number below the size of a group is the index of a member.
LEMMA IndexOnto ==
  ASSUME NEW g \in SUBSET Nat, IsFiniteSet(g), NEW i \in 0 .. Cardinality(g) - 1
  PROVE  \E m \in g : sortedKeys(g, m) = i
<1> DEFINE k == Cardinality(g)
           f == [m \in g |-> sortedKeys(g, m)]
<1>1. k \in Nat /\ IsFiniteSet(0 .. k - 1) /\ Cardinality(0 .. k - 1) = k
  <2>1. k \in Nat
    BY FS_CardinalityType
  <2> HIDE DEF k
  <2>2. 0 \in Int /\ k - 1 \in Int
    BY <2>1
  <2>3. /\ IsFiniteSet(0 .. k - 1)
        /\ Cardinality(0 .. k - 1) = IF 0 > k - 1 THEN 0 ELSE k - 1 - 0 + 1
    BY <2>2, FS_Interval
  <2> QED
    BY <2>1, <2>3
<1>2. f \in Injection(g, 0 .. k - 1)
  BY IndexInjective DEF Injection, IsInjective
<1>3. f \in Surjection(g, 0 .. k - 1)
  <2> HIDE DEF f
  <2> QED
    BY <1>1, <1>2, FS_Injection
<1>4. \E m \in g : f[m] = i
  BY <1>3, Zenon DEF Surjection
<1> QED
  BY <1>4

-----------------------------------------------------------------------------
\* The ranges of any finite group hold every partition once.
LEMMA AssignedPartitionsTopic ==
  ASSUME NEW g \in SUBSET Member
  PROVE  /\ \A p \in Partitions : g # {} => \E m \in g : In(p, Assigned(g, m))
         /\ \A m, n \in g :
              /\ m # n => \A i \in DOMAIN Assigned(g, m) :
                            ~In(Assigned(g, m)[i], Assigned(g, n))
              /\ Len(Assigned(g, m)) <= Len(Assigned(g, n)) + 1
<1> DEFINE k == Cardinality(g)
           total == NumPartitions
<1>1. g \in SUBSET Nat /\ IsFiniteSet(g) /\ total \in Nat
  BY GroupsAssumption, FS_Subset, Zenon
<1>2. SUFFICES ASSUME g # {}
      PROVE  /\ \A p \in Partitions : \E m \in g : In(p, Assigned(g, m))
             /\ \A m, n \in g :
                  /\ m # n => \A i \in DOMAIN Assigned(g, m) :
                                ~In(Assigned(g, m)[i], Assigned(g, n))
                  /\ Len(Assigned(g, m)) <= Len(Assigned(g, n)) + 1
  OBVIOUS
<1>3. k \in Nat \ {0}
  BY <1>1, <1>2, FS_CardinalityType, FS_EmptySet
<1>4. \A m : Assigned(g, m) = partitionRange(sortedKeys(g, m), k, total)
  BY DEF Assigned
<1>5. /\ \A m \in g : sortedKeys(g, m) \in 0 .. k - 1
      /\ \A m, n \in g : m # n => sortedKeys(g, m) # sortedKeys(g, n)
  BY <1>1, IndexInjective
<1>6. \A i \in 0 .. k - 1 : \E m \in g : sortedKeys(g, m) = i
  BY <1>1, IndexOnto
<1> HIDE DEF k, total
<1>7. ASSUME NEW p \in Partitions PROVE \E m \in g : In(p, Assigned(g, m))
  <2>1. p \in 0 .. total - 1
    BY DEF Partitions, total
  <2>2. PICK i \in 0 .. k - 1 : In(p, partitionRange(i, k, total))
    BY <1>1, <1>3, <2>1, RangesCover
  <2>3. PICK m \in g : sortedKeys(g, m) = i
    BY <1>6
  <2> QED
    BY <1>4, <2>2, <2>3
<1>8. ASSUME NEW i \in 0 .. k - 1, NEW j \in 0 .. k - 1, i < j, NEW p
      PROVE  ~(In(p, partitionRange(i, k, total)) /\ In(p, partitionRange(j, k, total)))
  <2>1. /\ In(p, partitionRange(i, k, total))
           => p \in RangeStart(i, k, total) .. RangeStart(i + 1, k, total) - 1
        /\ In(p, partitionRange(j, k, total))
           => p \in RangeStart(j, k, total) .. RangeStart(j + 1, k, total) - 1
    BY <1>1, <1>3, RangesAdjacent
  <2>2. RangeStart(i + 1, k, total) <= RangeStart(j, k, total)
    BY <1>1, <1>3, <1>8, RangesAdjacent
  <2>3. RangeStart(i + 1, k, total) \in Nat /\ RangeStart(j, k, total) \in Nat
    <3>1. \A n \in 0 .. k : RangeStart(n, k, total) \in Nat
      BY <1>1, <1>3, RangesAdjacent, Zenon
    <3> QED
      BY <1>3, <3>1
  <2> QED
    BY <2>1, <2>2, <2>3
<1>9. ASSUME NEW m \in g, NEW n \in g, m # n, NEW p
      PROVE  ~(In(p, Assigned(g, m)) /\ In(p, Assigned(g, n)))
  <2>1. sortedKeys(g, m) < sortedKeys(g, n) \/ sortedKeys(g, n) < sortedKeys(g, m)
    BY <1>3, <1>5, <1>9
  <2> QED
    BY <1>4, <1>5, <1>8, <2>1
<1>10. ASSUME NEW m \in g, NEW n \in g, m # n, NEW i \in DOMAIN Assigned(g, m)
       PROVE  ~In(Assigned(g, m)[i], Assigned(g, n))
  <2>1. In(Assigned(g, m)[i], Assigned(g, m))
    BY DEF In
  <2> QED
    BY <1>9, <1>10, <2>1
<1>11. \A m, n \in g : Len(Assigned(g, m)) <= Len(Assigned(g, n)) + 1
  <2>1. \A i, j \in 0 .. k - 1 :
          Len(partitionRange(i, k, total)) <= Len(partitionRange(j, k, total)) + 1
    BY <1>1, <1>3, RangesAdjacent, Zenon
  <2> QED
    BY ONLY <1>4, <1>5, <2>1
<1> QED
  BY <1>7, <1>10, <1>11

\* The elements that Kept leaves are elements of the list, and of the set.
LEMMA KeptElements ==
  ASSUME NEW S, NEW s \in Seq(S), NEW K
  PROVE  /\ Kept(s, K) \in Seq(S)
         /\ \A i \in DOMAIN Kept(s, K) : Kept(s, K)[i] \in K /\ In(Kept(s, K)[i], s)
<1> DEFINE I == {k \in DOMAIN s : s[k] \in K}
           c == Cardinality(I)
<1>1. IsFiniteSet(I) /\ I \in SUBSET Nat /\ I \in SUBSET DOMAIN s
  <2>1. DOMAIN s = 1 .. Len(s) /\ Len(s) \in Nat
    OBVIOUS
  <2>2. IsFiniteSet(DOMAIN s)
    BY <2>1, FS_Interval
  <2> QED
    BY <2>1, <2>2, FS_Subset
<1>2. c \in Nat
  BY <1>1, FS_CardinalityType
<1>3. ASSUME NEW i \in 1 .. c PROVE Nth(I, i) \in I
  <2> HIDE DEF I
  <2>1. i - 1 \in 0 .. c - 1
    BY <1>2
  <2>2. PICK n \in I : sortedKeys(I, n) = i - 1
    BY <1>1, <2>1, IndexOnto
  <2> DEFINE B == {k \in I : k < n}
             C == {k \in I : k <= n}
  <2>3. C = B \cup {n} /\ n \notin B /\ B \in SUBSET I
    <3>1. n \in Nat /\ \A k \in I : k \in Nat /\ (k <= n <=> k < n \/ k = n)
      BY <1>1
    <3>2. n \notin B /\ B \in SUBSET I
      BY <3>1
    <3>3. \A k : k \in C <=> k \in B \cup {n}
      BY <3>1, Zenon
    <3> QED
      BY <3>2, <3>3, Zenon
  <2>7. Cardinality(B) = i - 1
    BY <2>2 DEF sortedKeys
  <2> HIDE DEF B, C
  <2>4. IsFiniteSet(B)
    BY <1>1, <2>3, FS_Subset, Zenon
  <2>5. Cardinality(B \cup {n}) = Cardinality(B) + 1
    BY <2>3, <2>4, FS_AddElement, Zenon
  <2>6. Cardinality(C) = i
    BY <2>3, <2>5, <2>7
  <2> QED
    BY <2>6, Zenon DEF Nth, C
<1>4. Kept(s, K) = [i \in 1 .. c |-> s[Nth(I, i)]]
  BY DEF Kept
<1>5. \A k \in I : s[k] \in S /\ s[k] \in K /\ In(s[k], s)
  BY DEF In
<1> HIDE DEF I, c
<1>6. ASSUME NEW i \in 1 .. c PROVE Kept(s, K)[i] \in S /\ Kept(s, K)[i] \in K /\ In(Kept(s, K)[i], s)
  BY <1>3, <1>4, <1>5
<1>7. DOMAIN Kept(s, K) = 1 .. c
  BY <1>4
<1>8. Kept(s, K) \in Seq(S)
  BY <1>2, <1>3, <1>4, <1>5
<1> QED
  BY <1>6, <1>7, <1>8


\* The range of a member is a list of partitions.
LEMMA AssignedPartitions ==
  ASSUME NEW g \in SUBSET Member, NEW m \in g
  PROVE  Assigned(g, m) \in Seq(Partitions)
<1> DEFINE k == Cardinality(g)
<1>1. g \in SUBSET Nat /\ IsFiniteSet(g) /\ NumPartitions \in Nat
  BY GroupsAssumption, FS_Subset, Zenon
<1>2. k \in Nat \ {0}
  BY <1>1, FS_CardinalityType, FS_EmptySet
<1>3. sortedKeys(g, m) \in 0 .. k - 1
  BY <1>1, IndexInjective
<1> HIDE DEF k
<1>4. partitionRange(sortedKeys(g, m), k, NumPartitions) \in Seq(0 .. NumPartitions - 1)
  BY <1>1, <1>2, <1>3, RangesAdjacent, Zenon
<1> QED
  BY <1>4 DEF Assigned, Partitions, k

\* Two members of a group share no partition.
LEMMA AssignedDisjoint ==
  ASSUME NEW g \in SUBSET Member, NEW m \in g, NEW n \in g, m # n, NEW p
  PROVE  ~(In(p, Assigned(g, m)) /\ In(p, Assigned(g, n)))
<1>1. \A i \in DOMAIN Assigned(g, m) : ~In(Assigned(g, m)[i], Assigned(g, n))
  BY AssignedPartitionsTopic
<1> QED
  BY <1>1 DEF In

\* A member is given nothing only when there are more members than partitions.
LEMMA AssignedNothing ==
  ASSUME NEW g \in SUBSET Member, NEW m \in g, Assigned(g, m) = <<>>
  PROVE  Cardinality(g) > NumPartitions
<1> DEFINE k == Cardinality(g)
           i == sortedKeys(g, m)
           b == NumPartitions \div k
           c == b + (IF i < NumPartitions % k THEN 1 ELSE 0)
           f == i * b + min32(i, NumPartitions % k)
<1>1. g \in SUBSET Nat /\ IsFiniteSet(g) /\ NumPartitions \in Nat
  BY GroupsAssumption, FS_Subset, Zenon
<1>2. k \in Nat \ {0}
  BY <1>1, FS_CardinalityType, FS_EmptySet
<1>3. b \in Nat /\ NumPartitions % k \in 0 .. k - 1 /\ NumPartitions = k * b + (NumPartitions % k)
  BY <1>1, <1>2, Division, Zenon
<1>4. [j \in 1 .. c |-> f + j - 1] = <<>>
  BY DEF Assigned, partitionRange
<1> HIDE DEF f
<1>5. c \in Nat /\ c = 0
  <2>1. c \in Nat
    BY <1>3
  <2> HIDE DEF c
  <2>2. DOMAIN [j \in 1 .. c |-> f + j - 1] = 1 .. c
    OBVIOUS
  <2>3. 1 .. c = {}
    BY <1>4, <2>2
  <2> QED
    BY <2>1, <2>3
<1> HIDE DEF b, k, i
<1>6. b = 0
  BY <1>3, <1>5
<1>7. NumPartitions = NumPartitions % k
  BY <1>1, <1>2, <1>3, <1>6
<1> QED
  BY <1>1, <1>2, <1>3, <1>7 DEF k

-----------------------------------------------------------------------------
(* What is known of the members.                                           *)

\* r, the state of m when the partitions have l records of which s were delivered: a
\* reader is of m's range in the group of its last rebalance, and all the records
\* before its offset were delivered; an answer that was not taken yet is m's range.
ReaderInv(m, r, d, l, s) ==
  /\ m \in r.view /\ In(d.partition, Assigned(r.view, m))
  /\ d.next <= l[d.partition]
  /\ \A o \in 0 .. d.next - 1 : o \in s[d.partition]

\* A member that polls without readers was given no partition.
SingleInv(m, r) ==
  r.pc \in {"poll", "recv", "got"} /\ r.readers = <<>> =>
    m \in r.view /\ Assigned(r.view, m) = <<>>

MemberInv(m, r, l, s) ==
  /\ SingleInv(m, r)
  /\ r.cur <= Len(r.readers) /\ (r.pc # "recv" => r.cur = 0)
  /\ r.idx = 0 \/ r.idx < Len(r.readers)
  /\ r.pc \in {"joined", "rejoined"} => m \in r.of /\ r.answer = Assigned(r.of, m)
  /\ \A i \in DOMAIN r.readers : ReaderInv(m, r, r.readers[i], l, s)

Members == /\ member \in [Member -> MemberState]
           /\ \A m \in Member : MemberInv(m, member[m], len, seen)

Globals ==
  /\ meta \in 0 .. NumPartitions
  /\ len \in [Partitions -> 0 .. MaxLen]
  /\ group \in SUBSET Member
  /\ offsets \in [Partitions -> 0 .. MaxLen]
  /\ seen \in [Partitions -> SUBSET (0 .. MaxLen - 1)]
  /\ fails \in 0 .. MaxFails

GInv == Globals /\ Members /\ CommittedWasDelivered


\* The readers of a member.
LEMMA ReadersAre ==
  ASSUME NEW r \in MemberState, NEW i \in DOMAIN r.readers
  PROVE  /\ r.readers[i] \in Reader
         /\ r.readers[i].partition \in Partitions /\ r.readers[i].next \in Nat
<1>1. r.readers \in Seq(Reader)
  BY DEF MemberState
<1>2. r.readers[i] \in Reader
  BY <1>1
<1> QED
  BY <1>2 DEF Reader

\* The partitions, and what was delivered of them, only grow.
Grows ==
  /\ len' \in [Partitions -> 0 .. MaxLen]
  /\ \A p \in Partitions : len[p] <= len'[p] /\ seen[p] \subseteq seen'[p]

\* That is no harm to a member.
LEMMA MemberStays ==
  ASSUME GInv, Grows, NEW m \in Member, NEW r \in MemberState, MemberInv(m, r, len, seen)
  PROVE  MemberInv(m, r, len', seen')
<1>1. len \in [Partitions -> Nat] /\ len' \in [Partitions -> Nat]
  BY DEF GInv, Globals, Grows
<1>2. ASSUME NEW i \in DOMAIN r.readers PROVE ReaderInv(m, r, r.readers[i], len', seen')
  <2> DEFINE d == r.readers[i]
  <2>1. ReaderInv(m, r, d, len, seen)
    BY DEF MemberInv
  <2>2. d.partition \in Partitions /\ d.next \in Nat
    BY ReadersAre
  <2> HIDE DEF d
  <2>3. d.next <= len'[d.partition]
    BY <1>1, <2>1, <2>2 DEF ReaderInv, Grows
  <2>4. \A o \in 0 .. d.next - 1 : o \in seen'[d.partition]
    BY <2>1, <2>2 DEF ReaderInv, Grows
  <2> QED
    BY <2>1, <2>3, <2>4 DEF ReaderInv, d
<1> QED
  BY <1>2 DEF MemberInv

\* One member changes.
LEMMA MemberMoves ==
  ASSUME GInv, Grows, NEW m \in Member, NEW x \in MemberState, member' = [member EXCEPT ![m] = x],
         MemberInv(m, x, len', seen')
  PROVE  Members'
<1>1. member \in [Member -> MemberState] /\ \A k \in Member : MemberInv(k, member[k], len, seen)
  BY DEF GInv, Members
<1>2. /\ member' \in [Member -> MemberState]
      /\ \A k \in Member : member'[k] = IF k = m THEN x ELSE member[k]
  BY <1>1
<1>3. \A k \in Member : MemberInv(k, member[k], len', seen')
  BY <1>1, MemberStays
<1> QED
  BY <1>2, <1>3 DEF Members

\* One member changes, nothing is delivered or committed.
LEMMA MemberOnly ==
  ASSUME GInv, NEW m \in Member, NEW x \in MemberState, member' = [member EXCEPT ![m] = x],
         MemberInv(m, x, len, seen), UNCHANGED <<meta, len, offsets, seen>>,
         group' = group \/ group' = group \cup {m},
         fails' = fails \/ (fails < MaxFails /\ fails' = fails + 1)
  PROVE  GInv'
<1>1. Grows
  BY DEF GInv, Globals, Grows
<1>2. Members'
  BY <1>1, MemberMoves, Zenon
<1>3. group' \in SUBSET Member
  BY DEF GInv, Globals
<1>4. fails' \in 0 .. MaxFails
  BY GroupsAssumption DEF GInv, Globals
<1>5. Globals'
  BY <1>3, <1>4 DEF GInv, Globals
<1>6. CommittedWasDelivered'
  BY Zenon DEF GInv, CommittedWasDelivered
<1> QED
  BY <1>2, <1>5, <1>6 DEF GInv

\* Updates of a member, field by field.
LEMMA PcIs ==
  ASSUME NEW r \in MemberState, NEW q, NEW x, x = [r EXCEPT !.pc = q]
  PROVE  x = [pc |-> q, answer |-> r.answer, of |-> r.of, readers |-> r.readers, view |-> r.view,
              idx |-> r.idx, cur |-> r.cur, single |-> r.single]
  BY DEF MemberState

WithAnswer(r, a, g, q) == [r EXCEPT !.answer = a, !.of = g, !.pc = q]

LEMMA AnswerIs ==
  ASSUME NEW r \in MemberState, NEW a, NEW g, NEW q
  PROVE  WithAnswer(r, a, g, q)
           = [pc |-> q, answer |-> a, of |-> g, readers |-> r.readers, view |-> r.view,
              idx |-> r.idx, cur |-> r.cur, single |-> r.single]
<1> DEFINE y == [r EXCEPT !.answer = a]
           z == [y EXCEPT !.of = g]
<1>4. r = [pc |-> r.pc, answer |-> r.answer, of |-> r.of, readers |-> r.readers, view |-> r.view,
           idx |-> r.idx, cur |-> r.cur, single |-> r.single]
  BY DEF MemberState
<1>1. y = [pc |-> r.pc, answer |-> a, of |-> r.of, readers |-> r.readers, view |-> r.view,
           idx |-> r.idx, cur |-> r.cur, single |-> r.single]
  BY <1>4
<1> HIDE DEF y
<1>2. z = [pc |-> r.pc, answer |-> a, of |-> g, readers |-> r.readers, view |-> r.view,
           idx |-> r.idx, cur |-> r.cur, single |-> r.single]
  BY <1>1
<1> HIDE DEF z
<1>3. [z EXCEPT !.pc = q]
        = [pc |-> q, answer |-> a, of |-> g, readers |-> r.readers, view |-> r.view,
           idx |-> r.idx, cur |-> r.cur, single |-> r.single]
  BY <1>2
<1> QED
  BY <1>3 DEF z, y, WithAnswer

LEMMA WaitsIs ==
  ASSUME NEW r \in MemberState, NEW c, NEW i
  PROVE  Waits(r, c, i)
           = [pc |-> "recv", answer |-> r.answer, of |-> r.of, readers |-> r.readers, view |-> r.view,
              idx |-> i, cur |-> c, single |-> r.single]
<1> DEFINE y == [r EXCEPT !.pc = "recv"]
           z == [y EXCEPT !.cur = c]
<1>1. y = [pc |-> "recv", answer |-> r.answer, of |-> r.of, readers |-> r.readers, view |-> r.view,
           idx |-> r.idx, cur |-> r.cur, single |-> r.single]
  BY PcIs
<1> HIDE DEF y
<1>2. z = [pc |-> "recv", answer |-> r.answer, of |-> r.of, readers |-> r.readers, view |-> r.view,
           idx |-> r.idx, cur |-> c, single |-> r.single]
  BY <1>1
<1> HIDE DEF z
<1>3. [z EXCEPT !.idx = i]
        = [pc |-> "recv", answer |-> r.answer, of |-> r.of, readers |-> r.readers, view |-> r.view,
           idx |-> i, cur |-> c, single |-> r.single]
  BY <1>2
<1> QED
  BY <1>3 DEF z, y, Waits

\* A member that has received a record.
LEMMA AdvancedIs ==
  ASSUME NEW r \in MemberState
  PROVE  /\ r.cur = 0 => Advanced(r) =
              [pc |-> "got", answer |-> r.answer, of |-> r.of, readers |-> r.readers, view |-> r.view,
               idx |-> r.idx, cur |-> r.cur, single |-> r.single + 1]
         /\ r.cur # 0 => Advanced(r) =
              [pc |-> "got", answer |-> r.answer, of |-> r.of,
               readers |-> [r.readers EXCEPT ![r.cur].next = r.readers[r.cur].next + 1],
               view |-> r.view, idx |-> r.idx, cur |-> 0, single |-> r.single]
<1> DEFINE y == [r EXCEPT !.pc = "got"]
           u == r.single + 1
           z == [y EXCEPT !.cur = 0]
           d == [r.readers EXCEPT ![r.cur].next = r.readers[r.cur].next + 1]
<1>1. y = [pc |-> "got", answer |-> r.answer, of |-> r.of, readers |-> r.readers, view |-> r.view,
           idx |-> r.idx, cur |-> r.cur, single |-> r.single]
  BY PcIs
<1>2. r.cur = 0 => Advanced(r) = [y EXCEPT !.single = u]
  BY Zenon DEF Advanced, MemberState
<1>3. r.cur # 0 => Advanced(r) = [z EXCEPT !.readers = d]
  BY Zenon DEF Advanced, MemberState
<1> HIDE DEF y, u, d
<1>4. [y EXCEPT !.single = u]
        = [pc |-> "got", answer |-> r.answer, of |-> r.of, readers |-> r.readers, view |-> r.view,
           idx |-> r.idx, cur |-> r.cur, single |-> u]
  BY <1>1
<1>5. z = [pc |-> "got", answer |-> r.answer, of |-> r.of, readers |-> r.readers, view |-> r.view,
           idx |-> r.idx, cur |-> 0, single |-> r.single]
  BY <1>1
<1> HIDE DEF z
<1>6. [z EXCEPT !.readers = d]
        = [pc |-> "got", answer |-> r.answer, of |-> r.of, readers |-> d, view |-> r.view,
           idx |-> r.idx, cur |-> 0, single |-> r.single]
  BY <1>5
<1> QED
  BY <1>2, <1>3, <1>4, <1>6, Zenon DEF u, d

\* A program that starts or has ended.
LEMMA NoReaders ==
  ASSUME NEW m \in Member, NEW pc \in {"new", "stopped"}
  PROVE  LET x == [Started EXCEPT !.pc = pc]
         IN  x \in MemberState /\ MemberInv(m, x, len, seen)
<1> DEFINE s == Started
           x == [s EXCEPT !.pc = pc]
<1>3. s = [pc |-> "new", answer |-> <<>>, of |-> {}, readers |-> <<>>, view |-> {},
           idx |-> 0, cur |-> 0, single |-> 0]
  BY DEF Started
<1>4. s \in MemberState
  BY <1>3 DEF MemberState
<1> HIDE DEF s
<1>1. x = [pc |-> pc, answer |-> <<>>, of |-> {}, readers |-> <<>>, view |-> {},
           idx |-> 0, cur |-> 0, single |-> 0]
  <2>1. x = [pc |-> pc, answer |-> s.answer, of |-> s.of, readers |-> s.readers, view |-> s.view,
             idx |-> s.idx, cur |-> s.cur, single |-> s.single]
    BY <1>4, PcIs, Zenon
  <2> QED
    BY <1>3, <2>1
<1> HIDE DEF x
<1>2. x \in MemberState /\ MemberInv(m, x, len, seen)
  BY <1>1 DEF MemberState, MemberInv, SingleInv
<1> QED
  BY <1>2 DEF x, s

-----------------------------------------------------------------------------
(* The steps.                                                              *)

\* The answer of JoinGroup is the range of the caller.
LEMMA JoinStep ==
  ASSUME GInv, NEW m \in Member, JoinGroup(m)
  PROVE  GInv'
<1> DEFINE r == member[m]
           g == group \cup {m}
           a == Assigned(g, m)
           q == IF r.pc = "new" THEN "joined" ELSE "rejoined"
           x == WithAnswer(r, a, g, q)
<1>1. r \in MemberState /\ MemberInv(m, r, len, seen) /\ r.pc # "recv"
  BY DEF GInv, Members, JoinGroup, CallsJoinGroup
<1>2. group' = g /\ g \in SUBSET Member /\ m \in g
  BY DEF GInv, Globals, JoinGroup
<1>3. a \in Seq(Partitions)
  BY <1>2, AssignedPartitions
<1>4. member' = [member EXCEPT ![m] = x]
  BY <1>2, Zenon DEF JoinGroup, GInv, Members, WithAnswer
<1>5. q \in {"joined", "rejoined"}
  OBVIOUS
<1>6. UNCHANGED <<meta, len, offsets, seen>> /\ fails' = fails /\ group' = group \cup {m}
  BY DEF JoinGroup
<1> HIDE DEF r, q, a, g
<1>7. x = [pc |-> q, answer |-> a, of |-> g, readers |-> r.readers, view |-> r.view,
           idx |-> r.idx, cur |-> r.cur, single |-> r.single]
  BY <1>1, AnswerIs
<1> HIDE DEF x
<1>8. x \in MemberState
  BY <1>1, <1>2, <1>3, <1>5, <1>7 DEF MemberState
<1>9. MemberInv(m, x, len, seen)
  BY <1>1, <1>2, <1>5, <1>7 DEF MemberInv, SingleInv, ReaderInv, a
<1> QED
  BY <1>4, <1>6, <1>8, <1>9, MemberOnly, Zenon

\* A change of the program counter that leaves the rest of a member as it is.
LEMMA PcStep ==
  ASSUME GInv, NEW m \in Member, NEW pc \in {"stopped", "choose", "poll"}, member[m].pc # "recv",
         pc = "poll" => member[m].pc = "got"
  PROVE  LET x == [member[m] EXCEPT !.pc = pc]
         IN  x \in MemberState /\ MemberInv(m, x, len, seen)
<1> DEFINE r == member[m]
           x == [r EXCEPT !.pc = pc]
<1>1. /\ r \in MemberState /\ MemberInv(m, r, len, seen) /\ r.pc # "recv"
      /\ (pc = "poll" => r.pc = "got")
  BY DEF GInv, Members
<1> HIDE DEF r
<1>2. x = [pc |-> pc, answer |-> r.answer, of |-> r.of, readers |-> r.readers, view |-> r.view,
           idx |-> r.idx, cur |-> r.cur, single |-> r.single]
  BY <1>1 DEF MemberState
<1> HIDE DEF x
<1>3. x \in MemberState
  BY <1>1, <1>2 DEF MemberState
<1>4. MemberInv(m, x, len, seen)
  BY <1>1, <1>2 DEF MemberInv, SingleInv, ReaderInv
<1> QED
  BY <1>3, <1>4 DEF x, r

\* A call of JoinGroup that fails changes the group at most.
LEMMA JoinFailsStep ==
  ASSUME GInv, NEW m \in Member, NEW reached \in BOOLEAN, JoinGroupFails(m, reached)
  PROVE  GInv'
<1> DEFINE pc == IF member[m].pc = "new" THEN "stopped" ELSE "choose"
           x == [member[m] EXCEPT !.pc = pc]
<1>1. member[m].pc # "recv" /\ pc \in {"stopped", "choose", "poll"} /\ pc # "poll"
  BY DEF JoinGroupFails, CallsJoinGroup
<1>2. member' = [member EXCEPT ![m] = x]
  BY Zenon DEF JoinGroupFails, GInv, Members
<1>3. /\ UNCHANGED <<meta, len, offsets, seen>>
      /\ group' = group \/ group' = group \cup {m}
      /\ fails < MaxFails /\ fails' = fails + 1
  BY DEF JoinGroupFails
<1> HIDE DEF pc
<1>4. x \in MemberState /\ MemberInv(m, x, len, seen)
  BY <1>1, PcStep, Zenon
<1> HIDE DEF x
<1> QED
  BY <1>2, <1>3, <1>4, MemberOnly, Zenon

\* A reader of m is at an offset before which all records were delivered; so is a new
\* one, which starts at 0.
LEMMA ReaderOfIs ==
  ASSUME GInv, NEW m \in Member, NEW p \in Partitions
  PROVE  /\ ReaderOf(m, p) \in Reader /\ ReaderOf(m, p).partition = p
         /\ ReaderOf(m, p).next \in Nat /\ ReaderOf(m, p).next <= len[p]
         /\ \A o \in 0 .. ReaderOf(m, p).next - 1 : o \in seen[p]
<1> DEFINE r == member[m]
<1>1. r \in MemberState /\ MemberInv(m, r, len, seen) /\ len[p] \in Nat
  BY DEF GInv, Members, Globals
<1>2. CASE Holds(m, p)
  <2>1. PICK i \in DOMAIN r.readers : r.readers[i].partition = p
    BY <1>2 DEF Holds
  <2>2. ReaderOf(m, p) = CHOOSE d \in {r.readers[k] : k \in DOMAIN r.readers} : d.partition = p
    BY <1>2 DEF ReaderOf
  <2>3. \E d \in {r.readers[k] : k \in DOMAIN r.readers} : d.partition = p
    BY <2>1, Zenon
  <2>4. /\ ReaderOf(m, p) \in {r.readers[k] : k \in DOMAIN r.readers}
        /\ ReaderOf(m, p).partition = p
    BY <2>2, <2>3, Zenon
  <2>5. PICK k \in DOMAIN r.readers : ReaderOf(m, p) = r.readers[k]
    BY <2>4, Zenon
  <2>6. ReaderInv(m, r, r.readers[k], len, seen)
    BY <1>1 DEF MemberInv
  <2>7. r.readers[k] \in Reader /\ r.readers[k].next \in Nat
    BY <1>1, ReadersAre
  <2> QED
    BY <2>4, <2>5, <2>6, <2>7, Zenon DEF ReaderInv
<1>3. CASE ~Holds(m, p)
  <2>1. ReaderOf(m, p) = [partition |-> p, next |-> 0]
    BY <1>3 DEF ReaderOf, NewReader
  <2> QED
    BY <1>1, <2>1 DEF Reader
<1> QED
  BY <1>2, <1>3

\* The readers of an answer that is taken.
LEMMA TakenIs ==
  ASSUME GInv, NEW m \in Member, member[m].pc \in {"joined", "rejoined"},
         NEW pc \in {"poll", "choose"}, NEW readers \in Seq(Reader),
         NEW idx \in Nat, idx = 0 \/ idx < Len(readers),
         pc = "poll" /\ readers = <<>> => member[m].answer = <<>>,
         \A i \in DOMAIN readers :
           /\ In(readers[i].partition, member[m].answer)
           /\ readers[i].next <= len[readers[i].partition]
           /\ \A o \in 0 .. readers[i].next - 1 : o \in seen[readers[i].partition]
  PROVE  LET x == Taken(member[m], pc, readers, idx)
         IN  x \in MemberState /\ MemberInv(m, x, len, seen)
<1> DEFINE r == member[m]
           x == Taken(r, pc, readers, idx)
<1>1. r \in MemberState /\ MemberInv(m, r, len, seen) /\ r.pc \in {"joined", "rejoined"}
  BY DEF GInv, Members
<1>2. x = [pc |-> pc, answer |-> <<>>, of |-> {}, readers |-> readers, view |-> r.of,
           idx |-> idx, cur |-> r.cur, single |-> r.single]
  BY DEF Taken
<1>3. m \in r.of /\ r.answer = Assigned(r.of, m) /\ r.cur = 0 /\ r.of \in SUBSET Member /\ r.single \in Nat
  BY <1>1 DEF MemberInv, MemberState
<1>4. pc = "poll" /\ readers = <<>> => r.answer = <<>>
  OBVIOUS
<1> HIDE DEF r, x
<1>5. x \in MemberState
  BY <1>2, <1>3 DEF MemberState
<1>6. ASSUME NEW i \in DOMAIN readers PROVE ReaderInv(m, x, readers[i], len, seen)
  BY <1>2, <1>3 DEF ReaderInv, r
<1>7. Len(readers) \in Nat
  OBVIOUS
<1>8. x.pc = pc /\ x.readers = readers /\ x.cur = 0 /\ x.idx = idx /\ x.view = r.of
  BY <1>2, <1>3
<1>9. SingleInv(m, x)
  BY <1>3, <1>8, <1>4 DEF SingleInv
<1>10. MemberInv(m, x, len, seen)
  BY <1>6, <1>7, <1>8, <1>9 DEF MemberInv
<1> QED
  BY <1>5, <1>10 DEF x, r

\* The elements of a list are in it.
LEMMA ElementsIn ==
  ASSUME NEW S, NEW s \in Seq(S), NEW i \in DOMAIN s
  PROVE  s[i] \in S /\ In(s[i], s)
  BY DEF In

\* The first readers.
LEMMA OpenStep ==
  ASSUME GInv, NEW m \in Member, OpenReaders(m)
  PROVE  GInv'
<1> DEFINE r == member[m]
           parts == r.answer
           readers == [i \in DOMAIN parts |-> NewReader(parts[i])]
<1>1. r \in MemberState /\ r.pc \in {"joined", "rejoined"} /\ len \in [Partitions -> Nat]
  BY DEF GInv, Members, OpenReaders, Globals
<1>2. UNCHANGED <<meta, len, offsets, seen>> /\ group' = group /\ fails' = fails
  BY DEF OpenReaders
<1>3. CASE member' = [member EXCEPT ![m] = Taken(r, "poll", readers, 0)]
  <2> DEFINE x == Taken(r, "poll", readers, 0)
  <2>1. parts \in Seq(Partitions)
    BY <1>1 DEF MemberState
  <2> HIDE DEF parts
  <2>2. ASSUME NEW i \in DOMAIN parts
        PROVE  /\ readers[i] \in Reader /\ readers[i].partition = parts[i] /\ readers[i].next = 0
               /\ parts[i] \in Partitions /\ In(parts[i], parts)
    BY <2>1, ElementsIn DEF NewReader, Reader
  <2>3. readers \in Seq(Reader) /\ DOMAIN readers = DOMAIN parts
    BY <2>1, <2>2
  <2> HIDE DEF readers
  <2>4. ASSUME NEW i \in DOMAIN readers
        PROVE  /\ In(readers[i].partition, parts)
               /\ readers[i].next <= len[readers[i].partition]
               /\ \A o \in 0 .. readers[i].next - 1 : o \in seen[readers[i].partition]
    BY <1>1, <2>2, <2>3
  <2>5. readers = <<>> => parts = <<>>
    BY <2>1, <2>3
  <2>6. x \in MemberState /\ MemberInv(m, x, len, seen)
    BY <1>1, <2>3, <2>4, <2>5, TakenIs DEF parts
  <2>7. member' = [member EXCEPT ![m] = x]
    BY <1>3
  <2> HIDE DEF x
  <2> QED
    BY <1>2, <2>6, <2>7, MemberOnly, Zenon
<1>4. CASE member' = [member EXCEPT ![m] = [Started EXCEPT !.pc = "stopped"]]
  <2> DEFINE x == [Started EXCEPT !.pc = "stopped"]
  <2>1. x \in MemberState /\ MemberInv(m, x, len, seen)
    BY NoReaders
  <2>2. member' = [member EXCEPT ![m] = x]
    BY <1>4
  <2> HIDE DEF x
  <2> QED
    BY <1>2, <2>1, <2>2, MemberOnly, Zenon
<1> QED
  BY <1>3, <1>4, Zenon DEF OpenReaders

\* The readers after a rebalance.
LEMMA RebalanceStep ==
  ASSUME GInv, NEW m \in Member, tryRebalance(m)
  PROVE  GInv'
<1> DEFINE r == member[m]
           parts == Kept(r.answer, {p \in Partitions : Holds(m, p) \/ p < meta})
           readers == [i \in DOMAIN parts |-> ReaderOf(m, parts[i])]
<1>1. r \in MemberState /\ MemberInv(m, r, len, seen) /\ r.pc \in {"joined", "rejoined"}
  BY DEF GInv, Members, tryRebalance
<1>2. UNCHANGED <<meta, len, offsets, seen>> /\ group' = group /\ fails' = fails
  BY DEF tryRebalance
<1>3. CASE SameAssignment(m) /\ member' = [member EXCEPT ![m] = Taken(r, "choose", r.readers, r.idx)]
  <2> DEFINE x == Taken(r, "choose", r.readers, r.idx)
  <2>1. r.readers \in Seq(Reader) /\ r.idx \in Nat /\ (r.idx = 0 \/ r.idx < Len(r.readers))
    BY <1>1 DEF MemberState, MemberInv
  <2>2. ASSUME NEW i \in DOMAIN r.readers
        PROVE  /\ In(r.readers[i].partition, r.answer)
               /\ r.readers[i].next <= len[r.readers[i].partition]
               /\ \A o \in 0 .. r.readers[i].next - 1 : o \in seen[r.readers[i].partition]
    BY <1>1, <1>3 DEF MemberInv, ReaderInv, SameAssignment
  <2>3. x \in MemberState /\ MemberInv(m, x, len, seen)
    BY <1>1, <2>1, <2>2, TakenIs
  <2>4. member' = [member EXCEPT ![m] = x]
    BY <1>3
  <2> HIDE DEF x
  <2> QED
    BY <1>2, <2>3, <2>4, MemberOnly, Zenon
<1>4. CASE member' = [member EXCEPT ![m] = Taken(r, "choose", readers, 0)]
  <2> DEFINE x == Taken(r, "choose", readers, 0)
  <2>1. r.answer \in Seq(Partitions)
    BY <1>1 DEF MemberState
  <2>2. parts \in Seq(Partitions) /\ \A i \in DOMAIN parts : In(parts[i], r.answer)
    BY <2>1, KeptElements
  <2> HIDE DEF parts
  <2>3. ASSUME NEW i \in DOMAIN parts
        PROVE  /\ readers[i] \in Reader /\ In(readers[i].partition, r.answer)
               /\ readers[i].next <= len[readers[i].partition]
               /\ \A o \in 0 .. readers[i].next - 1 : o \in seen[readers[i].partition]
    <3>1. parts[i] \in Partitions /\ readers[i] = ReaderOf(m, parts[i])
      BY <2>2
    <3> QED
      BY <2>2, <3>1, ReaderOfIs
  <2>4. readers \in Seq(Reader) /\ DOMAIN readers = DOMAIN parts
    BY <2>2, <2>3
  <2> HIDE DEF readers
  <2>5. x \in MemberState /\ MemberInv(m, x, len, seen)
    BY <1>1, <2>3, <2>4, TakenIs
  <2>6. member' = [member EXCEPT ![m] = x]
    BY <1>4
  <2> HIDE DEF x
  <2> QED
    BY <1>2, <2>5, <2>6, MemberOnly, Zenon
<1> QED
  BY <1>3, <1>4, Zenon DEF tryRebalance

\* GetMetadata fails, and the answer is not taken.
LEMMA MetadataFailsStep ==
  ASSUME GInv, NEW m \in Member, GetMetadataFails(m)
  PROVE  GInv'
<1> DEFINE r == member[m]
           q == IF r.pc = "joined" THEN "stopped" ELSE "choose"
           x == WithAnswer(r, <<>>, {}, q)
<1>1. r \in MemberState /\ MemberInv(m, r, len, seen) /\ r.pc # "recv"
  BY DEF GInv, Members, GetMetadataFails
<1>2. member' = [member EXCEPT ![m] = x]
  BY Zenon DEF GetMetadataFails, GInv, Members, WithAnswer
<1>3. q \in {"stopped", "choose"}
  OBVIOUS
<1>4. /\ UNCHANGED <<meta, len, offsets, seen>> /\ group' = group
      /\ fails < MaxFails /\ fails' = fails + 1
  BY Zenon DEF GetMetadataFails
<1> HIDE DEF r, q
<1>5. x = [pc |-> q, answer |-> <<>>, of |-> {}, readers |-> r.readers, view |-> r.view,
           idx |-> r.idx, cur |-> r.cur, single |-> r.single]
  BY <1>1, AnswerIs
<1> HIDE DEF x
<1>6. x \in MemberState
  BY <1>1, <1>3, <1>5 DEF MemberState
<1>7. MemberInv(m, x, len, seen)
  BY <1>1, <1>3, <1>5 DEF MemberInv, SingleInv, ReaderInv
<1> QED
  BY <1>2, <1>4, <1>6, <1>7, MemberOnly, Zenon

\* Poll takes a reader that there is.
LEMMA PollStep ==
  ASSUME GInv, NEW m \in Member, Poll(m)
  PROVE  GInv'
<1> DEFINE r == member[m]
           n == Len(r.readers)
<1>1. r \in MemberState /\ MemberInv(m, r, len, seen) /\ r.pc \in {"poll", "choose"}
  BY DEF GInv, Members, Poll
<1>2. UNCHANGED <<meta, len, offsets, seen>> /\ group' = group /\ fails' = fails
  BY DEF Poll
<1>3. n \in Nat /\ r.idx \in Nat /\ r.cur = 0 /\ (r.idx = 0 \/ r.idx < n)
  BY <1>1 DEF MemberState, MemberInv
<1>4. ASSUME NEW c \in 0 .. n, NEW i \in Nat, i = 0 \/ i < n, r.pc = "poll" \/ n > 0,
             member' = [member EXCEPT ![m] = Waits(r, c, i)]
      PROVE  GInv'
  <2> DEFINE x == Waits(r, c, i)
  <2>1. member' = [member EXCEPT ![m] = x]
    BY <1>4
  <2> HIDE DEF r, n
  <2>2. x = [pc |-> "recv", answer |-> r.answer, of |-> r.of, readers |-> r.readers, view |-> r.view,
             idx |-> i, cur |-> c, single |-> r.single]
    BY <1>1, WaitsIs
  <2> HIDE DEF x
  <2>3. x \in MemberState
    BY <1>1, <1>3, <1>4, <2>2 DEF MemberState
  <2>4. SingleInv(m, x)
    BY <1>1, <1>4, <2>2 DEF MemberInv, SingleInv, n
  <2>5. MemberInv(m, x, len, seen)
    BY <1>1, <1>3, <1>4, <2>2, <2>4 DEF MemberInv, ReaderInv, n
  <2> QED
    BY <1>2, <2>1, <2>3, <2>5, MemberOnly, Zenon
<1>5. n > 0 => r.idx + 1 \in 0 .. n /\ (r.idx + 1) % n \in Nat /\ (r.idx + 1) % n < n
  BY <1>3
<1>6. CASE member' = [member EXCEPT ![m] = [Started EXCEPT !.pc = "stopped"]]
  <2> DEFINE x == [Started EXCEPT !.pc = "stopped"]
  <2>1. x \in MemberState /\ MemberInv(m, x, len, seen)
    BY NoReaders
  <2>2. member' = [member EXCEPT ![m] = x]
    BY <1>6
  <2> HIDE DEF x
  <2> QED
    BY <1>2, <2>1, <2>2, MemberOnly, Zenon
<1>7. \/ n > 0 /\ member' = [member EXCEPT ![m] = Waits(r, r.idx + 1, (r.idx + 1) % n)]
      \/ r.pc = "poll" /\ member' = [member EXCEPT ![m] = Waits(r, 0, r.idx)]
      \/ member' = [member EXCEPT ![m] = [Started EXCEPT !.pc = "stopped"]]
  BY Zenon DEF Poll
<1>8. 0 \in 0 .. n
  BY <1>3
<1> HIDE DEF n, r
<1> QED
  BY <1>3, <1>4, <1>5, <1>6, <1>7, <1>8

\* What is committed are offsets of readers, or was committed before.
LEMMA CommittedIs ==
  ASSUME GInv, NEW m \in Member
  PROVE  /\ Committed(m) \in [Partitions -> 0 .. MaxLen]
         /\ \A p \in Partitions : \A o \in 0 .. Committed(m)[p] - 1 : o \in seen[p]
<1>1. offsets \in [Partitions -> 0 .. MaxLen] /\ len \in [Partitions -> 0 .. MaxLen] /\ MaxLen \in Nat
  BY GroupsAssumption DEF GInv, Globals
<1>2. ASSUME NEW p \in Partitions
      PROVE  /\ Committed(m)[p] \in 0 .. MaxLen
             /\ \A o \in 0 .. Committed(m)[p] - 1 : o \in seen[p]
  <2>1. CASE Holds(m, p)
    <3>1. Committed(m)[p] = ReaderOf(m, p).next
      BY <2>1 DEF Committed
    <3>2. /\ ReaderOf(m, p).next \in Nat /\ ReaderOf(m, p).next <= len[p]
          /\ \A o \in 0 .. ReaderOf(m, p).next - 1 : o \in seen[p]
      BY ReaderOfIs
    <3> QED
      BY <1>1, <3>1, <3>2
  <2>2. CASE ~Holds(m, p)
    <3>1. Committed(m)[p] = offsets[p]
      BY <2>2 DEF Committed
    <3> QED
      BY <1>1, <3>1 DEF GInv, CommittedWasDelivered
  <2> QED
    BY <2>1, <2>2
<1>3. Committed(m) = [p \in Partitions |-> Committed(m)[p]]
  BY DEF Committed
<1> QED
  BY <1>2, <1>3

\* One member changes, and offsets are committed.
LEMMA CommitMoves ==
  ASSUME GInv, NEW m \in Member, NEW x \in MemberState, member' = [member EXCEPT ![m] = x],
         MemberInv(m, x, len, seen), UNCHANGED <<meta, len, group, seen>>,
         offsets' = offsets \/ offsets' = Committed(m),
         fails' = fails \/ (fails < MaxFails /\ fails' = fails + 1)
  PROVE  GInv'
<1>1. Grows
  BY DEF GInv, Globals, Grows
<1>2. Members'
  BY <1>1, MemberMoves, Zenon
<1>3. fails' \in 0 .. MaxFails
  BY GroupsAssumption DEF GInv, Globals
<1>4. offsets' \in [Partitions -> 0 .. MaxLen]
  BY CommittedIs DEF GInv, Globals
<1>5. Globals'
  BY <1>3, <1>4 DEF GInv, Globals
<1>6. CommittedWasDelivered'
  BY CommittedIs, Zenon DEF GInv, CommittedWasDelivered
<1> QED
  BY <1>2, <1>5, <1>6 DEF GInv

\* Offsets are committed between two polls.
LEMMA CommitStep ==
  ASSUME GInv, NEW m \in Member, NEW commit \in BOOLEAN, CommitOffsets(m, commit)
  PROVE  GInv'
<1> DEFINE x == [member[m] EXCEPT !.pc = "poll"]
<1>1. member[m].pc = "got" /\ member[m].pc # "recv"
  BY DEF CommitOffsets
<1>2. x \in MemberState /\ MemberInv(m, x, len, seen)
  BY <1>1, PcStep, Zenon
<1>3. member' = [member EXCEPT ![m] = x]
  BY Zenon DEF CommitOffsets, GInv, Members
<1>4. UNCHANGED <<meta, len, group, seen>> /\ fails' = fails
  BY DEF CommitOffsets
<1>5. offsets' = offsets \/ offsets' = Committed(m)
  BY DEF CommitOffsets
<1> HIDE DEF x
<1> QED
  BY <1>2, <1>3, <1>4, <1>5, CommitMoves, Zenon

\* The program ends.
LEMMA StopStep ==
  ASSUME GInv, NEW m \in Member, NEW commit \in BOOLEAN, Stop(m, commit)
  PROVE  GInv'
<1> DEFINE x == [Started EXCEPT !.pc = "stopped"]
<1>1. x \in MemberState /\ MemberInv(m, x, len, seen)
  BY NoReaders
<1>2. member' = [member EXCEPT ![m] = x]
  BY DEF Stop
<1>3. UNCHANGED <<meta, len, group, seen>> /\ fails < MaxFails /\ fails' = fails + 1
  BY DEF Stop
<1>4. offsets' = offsets \/ offsets' = Committed(m)
  BY DEF Stop
<1> HIDE DEF x
<1> QED
  BY <1>1, <1>2, <1>3, <1>4, CommitMoves, Zenon

\* The program starts again.
LEMMA RestartStep ==
  ASSUME GInv, NEW m \in Member, Restart(m)
  PROVE  GInv'
<1> DEFINE x == [Started EXCEPT !.pc = "new"]
<1>1. x \in MemberState /\ MemberInv(m, x, len, seen)
  BY NoReaders
<1>2. member' = [member EXCEPT ![m] = x]
  BY Zenon DEF Restart, Started
<1>3. /\ UNCHANGED <<meta, len, offsets, seen>> /\ group' = group
      /\ fails < MaxFails /\ fails' = fails + 1
  BY DEF Restart
<1> HIDE DEF x
<1> QED
  BY <1>1, <1>2, <1>3, MemberOnly, Zenon

\* A record is delivered: the reader passes it.
LEMMA RecvStep ==
  ASSUME GInv, NEW m \in Member, Recv(m)
  PROVE  GInv'
<1> DEFINE r == member[m]
           p == CurPartition(m)
           o == CurOffset(m)
           x == Advanced(r)
<1>1. r \in MemberState /\ MemberInv(m, r, len, seen) /\ r.pc = "recv"
  BY DEF GInv, Members, Recv
<1>2. /\ len \in [Partitions -> 0 .. MaxLen] /\ MaxLen \in Nat
      /\ seen \in [Partitions -> SUBSET (0 .. MaxLen - 1)]
      /\ UNCHANGED <<meta, len, group, offsets, fails>>
      /\ o < len[p] /\ seen' = [seen EXCEPT ![p] = seen[p] \cup {o}]
      /\ member' = [member EXCEPT ![m] = x]
  BY GroupsAssumption DEF GInv, Globals, Recv
<1>3. /\ r.cur = 0 => p = 0 /\ o = r.single
      /\ r.cur # 0 => p = r.readers[r.cur].partition /\ o = r.readers[r.cur].next
  BY DEF CurPartition, CurOffset
<1>4. r.cur \in Nat /\ r.single \in Nat /\ r.readers \in Seq(Reader) /\ r.cur <= Len(r.readers)
  BY <1>1 DEF MemberState, MemberInv
<1>5. r.cur # 0 => r.cur \in DOMAIN r.readers
  BY <1>4
<1> HIDE DEF p, o, x, r
<1>6. p \in Partitions /\ o \in Nat
  <2>1. 0 \in Partitions
    BY GroupsAssumption DEF Partitions
  <2> QED
    BY <1>1, <1>3, <1>4, <1>5, <2>1, ReadersAre
<1>7. \A q \in Partitions : seen'[q] = IF q = p THEN seen[p] \cup {o} ELSE seen[q]
  BY <1>2, <1>6
<1>8. Grows
  <2>1. \A q \in Partitions : len[q] <= len[q]
    BY <1>2
  <2> QED
    BY <1>2, <1>7, <2>1 DEF Grows
<1>9. seen' \in [Partitions -> SUBSET (0 .. MaxLen - 1)]
  <2>1. o \in 0 .. MaxLen - 1
    BY <1>2, <1>6
  <2> QED
    BY <1>2, <2>1, Zenon
<1>10. MemberInv(m, r, len', seen')
  BY <1>1, <1>8, MemberStays
<1>11. x \in MemberState /\ MemberInv(m, x, len', seen')
  <2>1. CASE r.cur = 0
    <3>1. x = [pc |-> "got", answer |-> r.answer, of |-> r.of, readers |-> r.readers, view |-> r.view,
               idx |-> r.idx, cur |-> r.cur, single |-> r.single + 1]
      BY <1>1, <2>1, AdvancedIs, Zenon DEF x
    <3>2. x \in MemberState
      BY <1>1, <1>4, <3>1 DEF MemberState
    <3>3. MemberInv(m, x, len', seen')
      BY <1>1, <1>10, <2>1, <3>1 DEF MemberInv, SingleInv, ReaderInv
    <3> QED
      BY <3>2, <3>3
  <2>2. CASE r.cur # 0
    <3> DEFINE s == r.readers
               c == r.cur
               n == s[c].next + 1
               d == [s EXCEPT ![c].next = n]
               e == [s[c] EXCEPT !.next = n]
    <3>1. x = [pc |-> "got", answer |-> r.answer, of |-> r.of, readers |-> d, view |-> r.view,
               idx |-> r.idx, cur |-> 0, single |-> r.single]
      BY <1>1, <2>2, AdvancedIs, Zenon DEF x
    <3>2. s \in Seq(Reader) /\ c \in DOMAIN s /\ s[c] \in Reader /\ s[c].next \in Nat
      BY <1>1, <1>4, <1>5, <2>2, ReadersAre
    <3>3. p = s[c].partition /\ o = s[c].next /\ n = o + 1
      BY <1>3, <2>2
    <3>4. d = [s EXCEPT ![c] = e]
      BY Zenon
    <3> HIDE DEF d, s, c, n
    <3>5. e = [partition |-> p, next |-> n] /\ e \in Reader
      BY <1>6, <3>2, <3>3 DEF Reader
    <3> HIDE DEF e
    <3>6. d \in Seq(Reader) /\ Len(d) = Len(s) /\ DOMAIN d = DOMAIN s
      BY <3>2, <3>4, <3>5
    <3>7. \A i \in DOMAIN d : d[i] = IF i = c THEN e ELSE s[i]
      BY <3>2, <3>4, <3>6
    <3>8. x \in MemberState
      BY <1>1, <3>1, <3>6 DEF MemberState
    <3>9. ReaderInv(m, r, s[c], len', seen')
      BY <1>10, <3>2 DEF MemberInv, s
    <3>10. ReaderInv(m, x, e, len', seen')
      <4>1. e.partition = p /\ e.next = o + 1 /\ x.view = r.view
        BY <3>1, <3>3, <3>5
      <4>2. o + 1 <= len'[p]
        BY <1>2, <1>6
      <4>3. ASSUME NEW i \in 0 .. (o + 1) - 1 PROVE i \in seen'[p]
        <5>1. i \in 0 .. o - 1 \/ i = o
          BY <1>6
        <5> QED
          BY <1>6, <1>7, <3>3, <3>9, <5>1 DEF ReaderInv
      <4> QED
        BY <3>3, <3>9, <4>1, <4>2, <4>3 DEF ReaderInv
    <3>11. \A i \in DOMAIN s : ReaderInv(m, x, s[i], len', seen')
      BY <1>10, <3>1 DEF MemberInv, ReaderInv, s
    <3>12. x.pc = "got" /\ x.cur = 0 /\ x.readers = d /\ x.idx = r.idx
      BY <3>1
    <3>13. \A i \in DOMAIN x.readers : ReaderInv(m, x, x.readers[i], len', seen')
      BY <3>6, <3>7, <3>10, <3>11, <3>12
    <3>14. Len(s) \in Nat /\ (r.idx = 0 \/ r.idx < Len(s))
      BY <1>10, <3>2 DEF MemberInv, s
    <3>15. SingleInv(m, x)
      BY <3>2, <3>6, <3>12 DEF SingleInv
    <3>16. MemberInv(m, x, len', seen')
      BY <3>6, <3>12, <3>13, <3>14, <3>15 DEF MemberInv
    <3> QED
      BY <3>8, <3>16
  <2> QED
    BY <2>1, <2>2
<1>12. Members'
  BY <1>2, <1>8, <1>11, MemberMoves, Zenon
<1>13. Globals'
  BY <1>2, <1>9 DEF GInv, Globals
<1>14. CommittedWasDelivered'
  <2> SUFFICES ASSUME NEW q \in Partitions, NEW i \in 0 .. offsets[q] - 1 PROVE i \in seen'[q]
    BY <1>2 DEF CommittedWasDelivered
  <2>1. i \in seen[q]
    BY DEF GInv, CommittedWasDelivered
  <2> QED
    BY <1>7, <2>1
<1> QED
  BY <1>12, <1>13, <1>14 DEF GInv

\* The topic is created, and records are produced.
LEMMA TopicStep ==
  ASSUME GInv, CommitPartition \/ \E p \in Partitions : Produce(p)
  PROVE  GInv'
<1>1. UNCHANGED <<group, offsets, member, seen, fails>>
  BY DEF CommitPartition, Produce
<1>2. Globals' /\ Grows
  <2>1. CASE CommitPartition
    <3>1. meta' \in 0 .. NumPartitions /\ len' = len
      BY <2>1, GroupsAssumption DEF CommitPartition, GInv, Globals
    <3> QED
      BY <1>1, <3>1 DEF GInv, Globals, Grows
  <2>2. ASSUME NEW p \in Partitions, Produce(p) PROVE Globals' /\ Grows
    <3>1. /\ meta' = meta /\ len \in [Partitions -> 0 .. MaxLen] /\ MaxLen \in Nat
          /\ len[p] < MaxLen /\ len' = [len EXCEPT ![p] = len[p] + 1]
      BY <2>2, GroupsAssumption DEF Produce, GInv, Globals
    <3>2. len' \in [Partitions -> 0 .. MaxLen] /\ \A q \in Partitions : len[q] <= len'[q]
      BY <3>1
    <3> QED
      BY <1>1, <3>1, <3>2 DEF GInv, Globals, Grows
  <2> QED
    BY <2>1, <2>2
<1>3. \A m \in Member : MemberInv(m, member[m], len', seen')
  BY <1>2, MemberStays DEF GInv, Members
<1>4. Members'
  BY <1>1, <1>3 DEF GInv, Members
<1>5. CommittedWasDelivered'
  BY <1>1, Zenon DEF GInv, CommittedWasDelivered
<1> QED
  BY <1>2, <1>4, <1>5 DEF GInv

LEMMA InitInv == Init => GInv
<1> SUFFICES ASSUME Init PROVE GInv
  OBVIOUS
<1>1. Globals
  BY GroupsAssumption DEF Init, Globals
<1>2. CommittedWasDelivered
  BY DEF Init, CommittedWasDelivered
<1>3. [Started EXCEPT !.pc = "new"] = Started
  BY DEF Started
<1>4. \A m \in Member : Started \in MemberState /\ MemberInv(m, Started, len, seen)
  <2> TAKE m \in Member
  <2> DEFINE x == [Started EXCEPT !.pc = "new"]
  <2>1. x \in MemberState /\ MemberInv(m, x, len, seen)
    BY NoReaders
  <2> HIDE DEF x
  <2> QED
    BY <1>3, <2>1, Zenon DEF x
<1>5. Members
  BY <1>4, Zenon DEF Init, Members
<1> QED
  BY <1>1, <1>2, <1>5 DEF GInv

LEMMA NextInv == GInv /\ [Next]_vars => GInv'
<1> SUFFICES ASSUME GInv, [Next]_vars PROVE GInv'
  OBVIOUS
<1>1. CASE UNCHANGED vars
  <2>1. Globals' /\ Members'
    BY <1>1 DEF vars, GInv, Globals, Members
  <2>2. CommittedWasDelivered'
    BY <1>1, Zenon DEF vars, GInv, CommittedWasDelivered
  <2> QED
    BY <2>1, <2>2 DEF GInv
<1>2. ASSUME NEW m \in Member, MemberStep(m) PROVE GInv'
  BY <1>2, OpenStep, RebalanceStep, PollStep, RecvStep, CommitStep DEF MemberStep
<1> QED
  BY <1>1, <1>2, TopicStep, JoinStep, JoinFailsStep, MetadataFailsStep, StopStep, RestartStep
     DEF Next

LEMMA Invariance == Spec => []GInv
  BY InitInv, NextInv, PTL DEF Spec

-----------------------------------------------------------------------------
(* Theorems.                                                               *)

\* Type correctness: among others, the reader a member waits for is one it has,
\* though a rebalance shortens the list (consumer.go:199-204, 210-221).
THEOREM TypeCorrect == Spec => []TypeOK
<1>1. GInv => TypeOK
  <2> SUFFICES ASSUME GInv, NEW m \in Member PROVE member[m].cur \in 0 .. Len(member[m].readers)
    BY DEF GInv, Globals, Members, TypeOK
  <2>1. member[m] \in MemberState /\ MemberInv(m, member[m], len, seen)
    BY DEF GInv, Members
  <2> QED
    BY <2>1 DEF MemberInv, MemberState
<1> QED
  BY <1>1, Invariance, PTL

\* For any number of members and partitions, and whoever joins, the ranges of the
\* group hold every partition once and differ in length by one at most
\* (coordinator.go:343-348, 620-634).
THEOREM RangesPartitionTopicAlways == Spec => []RangesPartitionTopic
<1>1. GInv => RangesPartitionTopic
  BY AssignedPartitionsTopic, Zenon DEF GInv, Globals, RangesPartitionTopic
<1> QED
  BY <1>1, Invariance, PTL

\* A reader is of a partition of the range of its member.
LEMMA HoldsAssigned ==
  ASSUME GInv, NEW k \in Member, NEW p, Holds(k, p)
  PROVE  k \in member[k].view /\ In(p, Assigned(member[k].view, k))
<1>1. PICK i \in DOMAIN member[k].readers : member[k].readers[i].partition = p
  BY DEF Holds
<1>2. ReaderInv(k, member[k], member[k].readers[i], len, seen)
  BY DEF GInv, Members, MemberInv
<1> QED
  BY <1>1, <1>2 DEF ReaderInv

\* Whatever calls fail, two members that have brought their readers up to date with
\* the same group have no readers of the same partition, and read the same one only if
\* it is partition 0 and there are more members than partitions
\* (consumer.go:126-205, 210-222, coordinator.go:323-350).
THEOREM SettledMembersDisjointAlways == Spec => []SettledMembersDisjoint
<1>1. GInv => SettledMembersDisjoint
  <2> SUFFICES ASSUME GInv, NEW m \in Member, NEW n \in Member, m # n,
                      member[m].view = member[n].view, NEW p \in Partitions
               PROVE  /\ ~(Holds(m, p) /\ Holds(n, p))
                      /\ Reads(m, p) /\ Reads(n, p) =>
                           p = 0 /\ Cardinality(member[m].view) > NumPartitions
    BY DEF SettledMembersDisjoint
  <2> DEFINE g == member[m].view
  <2>1. g \in SUBSET Member /\ g = member[n].view
    BY DEF GInv, Members, MemberState
  <2>2. ~(Holds(m, p) /\ Holds(n, p))
    <3> SUFFICES ASSUME Holds(m, p), Holds(n, p) PROVE FALSE
      OBVIOUS
    <3>1. m \in g /\ n \in g /\ In(p, Assigned(g, m)) /\ In(p, Assigned(g, n))
      BY <2>1, HoldsAssigned
    <3> HIDE DEF g
    <3> QED
      BY <2>1, <3>1, AssignedDisjoint
  <2>3. ASSUME NEW k \in {m, n}, Reads(k, p), ~Holds(k, p)
        PROVE  p = 0 /\ Cardinality(g) > NumPartitions
    <3>1. /\ p = 0 /\ member[k].readers = <<>> /\ member[k].pc \in {"poll", "recv", "got"}
          /\ MemberInv(k, member[k], len, seen) /\ member[k].view = g
      BY <2>1, <2>3 DEF Reads, GInv, Members
    <3>2. k \in g /\ Assigned(g, k) = <<>>
      BY <3>1 DEF MemberInv, SingleInv
    <3> HIDE DEF g
    <3> QED
      BY <2>1, <3>1, <3>2, AssignedNothing
  <2> QED
    BY <2>2, <2>3
<1> QED
  BY <1>1, Invariance, PTL

\* Every record below a committed offset was delivered to some member, whichever
\* members committed and in whatever order (consumer.go:264-279,
\* coordinator.go:353-361).
THEOREM CommittedWasDeliveredAlways == Spec => []CommittedWasDelivered
<1>1. GInv => CommittedWasDelivered
  BY DEF GInv
<1> QED
  BY <1>1, Invariance, PTL
=============================================================================
