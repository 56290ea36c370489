------------------------- MODULE PackedVectorsProofs -------------------------
(***************************************************************************)
(* Proofs about PackedVectors, for every vector, every number of           *)
(* partitions and every burst length: where each logical value is, that a  *)
(* packed vector holds them all, and, for slots of at least two lanes,     *)
(* that is_contiguously_packed is exact.                                   *)
(***************************************************************************)
EXTENDS PackedVectors, FiniteSetTheorems, FunctionTheorems, SequenceTheorems, WellFoundedInduction, TLAPS

-----------------------------------------------------------------------------
(* Arithmetic of partitions. *)

\* Dividing a vector: the quotient, the remainder, and what rounding up adds (planning.py).
LEMMA Division ==
  ASSUME NEW v \in Nat \ {0}, NEW p \in Nat \ {0}, p <= v
  PROVE  /\ v \div p \in Nat \ {0} /\ v % p \in 0..(p - 1)
         /\ v = p * (v \div p) + (v % p)
         /\ CeilDiv(v, p) = (v \div p) + (IF v % p = 0 THEN 0 ELSE 1)
<1> DEFINE q == v \div p
           r == v % p
<1>1. q \in Nat /\ r \in 0..(p - 1) /\ v = p * q + r
  OBVIOUS
<1>2. q # 0
  BY <1>1
<1>3. (v + p - 1) \div p = q + (IF r = 0 THEN 0 ELSE 1)
  <2>1. CASE r = 0
    <3>1. v + p - 1 = q * p + (p - 1)
      BY <1>1, <2>1
    <3>2. (q * p + (p - 1)) \div p = q
      BY <1>1
    <3>3. QED
      BY <2>1, <3>1, <3>2
  <2>2. CASE r # 0
    <3>1. v + p - 1 = (q + 1) * p + (r - 1) /\ r - 1 \in 0..(p - 1)
      BY <1>1, <2>2
    <3>2. ((q + 1) * p + (r - 1)) \div p = q + 1
      <4> DEFINE m == q + 1
                 d == r - 1
      <4>1. m \in Nat /\ d \in 0..(p - 1)
        BY <1>1, <3>1
      <4> HIDE DEF m, d
      <4>2. (m * p + d) \div p = m
        BY <4>1
      <4>3. QED
        BY <4>2 DEF m, d
    <3>3. QED
      BY <2>2, <3>1, <3>2
  <2>3. QED
    BY <2>1, <2>2
<1>4. CeilDiv(v, p) = q + (IF r = 0 THEN 0 ELSE 1)
  BY <1>3 DEF CeilDiv
<1> HIDE DEF q, r
<1>5. /\ q \in Nat \ {0} /\ r \in 0..(p - 1) /\ v = p * q + r
      /\ CeilDiv(v, p) = q + (IF r = 0 THEN 0 ELSE 1)
  BY <1>1, <1>2, <1>4
<1>6. QED
  BY <1>5 DEF q, r

\* Rounding up to whole slots: never less, a multiple of the burst, and no more than needed.
LEMMA RoundedUp ==
  ASSUME NEW v \in Nat \ {0}, NEW b \in Nat \ {0}
  PROVE  /\ CeilDiv(v, b) \in Nat \ {0}
         /\ v <= CeilDiv(v, b) * b /\ (CeilDiv(v, b) * b) % b = 0
         /\ v % b = 0 => CeilDiv(v, b) * b = v
<1>1. \A n \in Nat : (n * b) % b = 0
  OBVIOUS
<1>2. (v + b - 1) \div b \in Nat \ {0} /\ v <= ((v + b - 1) \div b) * b
  OBVIOUS
<1>3. ASSUME v % b = 0 PROVE ((v + b - 1) \div b) * b = v
  <2> DEFINE n == v \div b
  <2>1. n \in Nat /\ v = n * b
    BY <1>3
  <2> HIDE DEF n
  <2>2. (n * b + (b - 1)) \div b = n
    BY <2>1
  <2>3. v + b - 1 = n * b + (b - 1)
    BY <2>1
  <2>4. QED
    BY <2>1, <2>2, <2>3
<1>4. QED
  BY <1>1, <1>2, <1>3 DEF CeilDiv

\* The lanes of partition i are within the lanes of the first n partitions.
LEMMA LaneBelow ==
  ASSUME NEW w \in Nat, NEW n \in Nat, NEW i \in 0..(n - 1), NEW k \in 1..w
  PROVE  /\ i * w \in Nat /\ n * w \in Nat
         /\ i * w + w <= n * w /\ i * w + k \in 1..(n * w)
<1>1. i + 1 <= n /\ (i + 1) * w = i * w + w /\ i * w \in Nat /\ n * w \in Nat
  OBVIOUS
<1>2. \A x, y \in Nat : x <= y => x * w <= y * w
  OBVIOUS
<1>3. (i + 1) * w <= n * w
  BY <1>1, <1>2
<1>4. QED
  BY <1>1, <1>3

\* A lane belongs to one partition, at one position in it.
LEMMA LaneOf ==
  ASSUME NEW w \in Nat \ {0}, NEW n \in Nat, NEW j \in 1..(n * w)
  PROVE  \E i \in 0..(n - 1) : \E k \in 1..w : j = i * w + k
<1> DEFINE i == (j - 1) \div w
           k == ((j - 1) % w) + 1
<1>1. n * w \in Nat /\ j - 1 \in Nat /\ j - 1 < n * w
  OBVIOUS
<1>2. i \in Nat /\ i < n
  BY <1>1
<1>3. k \in 1..w /\ j = i * w + k
  BY <1>1
<1>4. QED
  BY <1>2, <1>3

-----------------------------------------------------------------------------
(* The lanes a partition fills. *)

Quotient(l) == l.values \div l.partitions
Remainder(l) == l.values % l.partitions

(* The logical values of the partitions before one. *)
FirstValue(l, i) ==
  i * Quotient(l)
    + (IF i < Remainder(l) THEN i ELSE Remainder(l))

\* The counts of a validated layout (CentPartitionedVectorLayout): naturals, balanced, and
\* every partition has room for its values.
LEMMA LayoutCounts ==
  ASSUME NEW l, ValidLayout(l)
  PROVE  /\ l.values \in Nat \ {0} /\ l.partitions \in Nat \ {0} /\ l.burst \in Nat \ {0}
         /\ Quotient(l) \in Nat \ {0} /\ Remainder(l) \in 0..(l.partitions - 1)
         /\ l.values = l.partitions * Quotient(l) + Remainder(l)
         /\ ValuesPerPartition(l) = Quotient(l) + (IF Remainder(l) = 0 THEN 0 ELSE 1)
         /\ PhysicalValuesPerPartition(l) \in Nat \ {0}
         /\ ValuesPerPartition(l) <= PhysicalValuesPerPartition(l)
         /\ PhysicalValuesPerPartition(l) % l.burst = 0
         /\ ValuesPerPartition(l) % l.burst = 0 =>
              PhysicalValuesPerPartition(l) = ValuesPerPartition(l)
<1>1. /\ l.values \in Nat \ {0} /\ l.partitions \in Nat \ {0} /\ l.burst \in Nat \ {0}
      /\ l.partitions <= l.values
  BY DEF ValidLayout
<1>2. /\ Quotient(l) \in Nat \ {0} /\ Remainder(l) \in 0..(l.partitions - 1)
      /\ l.values = l.partitions * Quotient(l) + Remainder(l)
      /\ ValuesPerPartition(l) = Quotient(l) + (IF Remainder(l) = 0 THEN 0 ELSE 1)
  BY <1>1, Division DEF Quotient, Remainder, ValuesPerPartition
<1>3. ValuesPerPartition(l) \in Nat \ {0}
  BY <1>2
<1>4. /\ CeilDiv(ValuesPerPartition(l), l.burst) \in Nat \ {0}
      /\ ValuesPerPartition(l) <= CeilDiv(ValuesPerPartition(l), l.burst) * l.burst
      /\ (CeilDiv(ValuesPerPartition(l), l.burst) * l.burst) % l.burst = 0
      /\ ValuesPerPartition(l) % l.burst = 0 =>
           CeilDiv(ValuesPerPartition(l), l.burst) * l.burst = ValuesPerPartition(l)
  BY <1>1, <1>3, RoundedUp
<1>5. PhysicalValuesPerPartition(l) = CeilDiv(ValuesPerPartition(l), l.burst) * l.burst
  BY DEF PhysicalValuesPerPartition, SlotsPerPartition
<1> DEFINE w == CeilDiv(ValuesPerPartition(l), l.burst) * l.burst
<1>6. w \in Nat \ {0}
  BY <1>1, <1>3, <1>4
<1> HIDE DEF w
<1>7. QED
  BY <1>1, <1>2, <1>4, <1>5, <1>6 DEF w

\* The values of one partition follow those of the partitions before it.
LEMMA PartitionCounts ==
  ASSUME NEW l, ValidLayout(l), NEW i \in 0..(l.partitions - 1)
  PROVE  /\ LogicalValues(l, i) \in Nat \ {0}
         /\ LogicalValues(l, i) = Quotient(l) + (IF i < Remainder(l) THEN 1 ELSE 0)
         /\ LogicalValues(l, i) <= PhysicalValuesPerPartition(l)
         /\ FirstValue(l, i) \in Nat /\ FirstValue(l, 0) = 0
         /\ FirstValue(l, i + 1) = FirstValue(l, i) + LogicalValues(l, i)
         /\ FirstValue(l, l.partitions) = l.values
<1> DEFINE q == Quotient(l)
           r == Remainder(l)
           p == l.partitions
<1>1. /\ p \in Nat \ {0} /\ q \in Nat \ {0} /\ r \in 0..(p - 1) /\ l.values = p * q + r
      /\ ValuesPerPartition(l) = q + (IF r = 0 THEN 0 ELSE 1)
      /\ ValuesPerPartition(l) <= PhysicalValuesPerPartition(l)
      /\ PhysicalValuesPerPartition(l) \in Nat
  BY LayoutCounts
<1>2. LogicalValues(l, i) = q + (IF i < r THEN 1 ELSE 0)
  BY DEF LogicalValues, Quotient, Remainder
<1>3. /\ FirstValue(l, i) = i * q + (IF i < r THEN i ELSE r)
      /\ FirstValue(l, i + 1) = (i + 1) * q + (IF i + 1 < r THEN i + 1 ELSE r)
      /\ FirstValue(l, 0) = 0 * q + (IF 0 < r THEN 0 ELSE r)
      /\ FirstValue(l, p) = p * q + (IF p < r THEN p ELSE r)
  BY DEF FirstValue
<1> HIDE DEF p, q, r
<1>4. i \in 0..(p - 1)
  BY DEF p
<1>5. (i + 1) * q = i * q + q /\ i * q \in Nat /\ 0 * q = 0
  BY <1>1, <1>4
<1>6. /\ LogicalValues(l, i) \in Nat \ {0}
      /\ LogicalValues(l, i) <= PhysicalValuesPerPartition(l)
  BY <1>1, <1>2, <1>4
<1>7. /\ FirstValue(l, i) \in Nat /\ FirstValue(l, 0) = 0
      /\ FirstValue(l, i + 1) = FirstValue(l, i) + LogicalValues(l, i)
  BY <1>1, <1>2, <1>3, <1>4, <1>5
<1>8. FirstValue(l, p) = l.values
  BY <1>1, <1>3
<1>9. QED
  BY <1>2, <1>6, <1>7, <1>8 DEF p, q, r

-----------------------------------------------------------------------------
(* The inductive invariant: what each lane written so far holds. *)

Layouts == {l \in {Layout(v, p, b) : v, p \in 1..MaxValues, b \in Bursts} : ValidLayout(l)}

LaneHolds(l, i, k) == IF k <= LogicalValues(l, i) THEN FirstValue(l, i) + k ELSE Pad

PackInv ==
  /\ layout \in Layouts
  /\ partition \in 0..layout.partitions
  /\ first_value = FirstValue(layout, partition)
  /\ packed \in Seq(Nat \cup {Pad})
  /\ Len(packed) = partition * PhysicalValuesPerPartition(layout)
  /\ \A i \in 0..(partition - 1) : \A k \in 1..PhysicalValuesPerPartition(layout) :
       packed[i * PhysicalValuesPerPartition(layout) + k] = LaneHolds(layout, i, k)

\* A vector to pack, before its first partition (planning.py).
LEMMA PackInitInv == PackInit => PackInv
<1> SUFFICES ASSUME PackInit PROVE PackInv
  OBVIOUS
<1>1. /\ layout \in Layouts /\ partition = 0 /\ first_value = 0 /\ packed = <<>>
  BY DEF PackInit, Layouts
<1>2. ValidLayout(layout)
  BY <1>1 DEF Layouts
<1>3. /\ layout.partitions \in Nat \ {0} /\ PhysicalValuesPerPartition(layout) \in Nat
  BY <1>2, LayoutCounts
<1>4. FirstValue(layout, 0) = 0
  <2>1. 0 \in 0..(layout.partitions - 1)
    BY <1>3
  <2>2. QED
    BY <1>2, <2>1, PartitionCounts
<1>5. QED
  BY <1>1, <1>3, <1>4 DEF PackInv

(* One turn of the loop fills the lanes of one partition.                  *)
LEMMA PackStepInv == PackInv /\ [PackPartition]_vars => PackInv'
<1> SUFFICES ASSUME PackInv, [PackPartition]_vars PROVE PackInv'
  OBVIOUS
<1>1. CASE UNCHANGED vars
  BY <1>1 DEF PackInv, vars
<1>2. CASE PackPartition
  <2> DEFINE w == PhysicalValuesPerPartition(layout)
             count == LogicalValues(layout, partition)
             values == [k \in 1..count |-> first_value + k]
             zeros == [k \in 1..(w - count) |-> Pad]
             S == Nat \cup {Pad}
  <2>1. /\ partition < layout.partitions /\ partition' = partition + 1 /\ layout' = layout
        /\ packed' = packed \o values \o zeros /\ first_value' = first_value + count
    BY <1>2 DEF PackPartition
  <2>2. ValidLayout(layout) /\ layout.partitions \in Nat \ {0} /\ w \in Nat \ {0}
    BY LayoutCounts DEF PackInv, Layouts
  <2>3. partition \in 0..(layout.partitions - 1)
    BY <2>1, <2>2 DEF PackInv
  <2>4. /\ count \in Nat \ {0} /\ count <= w /\ first_value \in Nat
        /\ FirstValue(layout, partition + 1) = first_value + count
        /\ first_value = FirstValue(layout, partition)
    BY <2>2, <2>3, PartitionCounts DEF PackInv
  <2>5. values \in Seq(S) /\ Len(values) = count
    <3>1. values \in [1..count -> S]
      BY <2>4
    <3> HIDE DEF values, count, S
    <3>2. QED
      BY <2>4, <3>1
  <2>6. zeros \in Seq(S) /\ Len(zeros) = w - count
    <3>1. zeros \in [1..(w - count) -> S] /\ w - count \in Nat
      BY <2>2, <2>4
    <3> HIDE DEF zeros, w, count, S
    <3>2. QED
      BY <3>1
  <2>7. packed \in Seq(S) /\ Len(packed) = partition * w
    BY DEF PackInv
  <2>8. /\ \A k \in 1..count : values[k] = first_value + k
        /\ \A k \in 1..(w - count) : zeros[k] = Pad
    OBVIOUS
  <2> DEFINE m == partition * w
  <2> HIDE DEF values, zeros, count, w, S
  <2>9. m \in Nat /\ (partition + 1) * w = m + w /\ Len(packed) = m
    BY <2>2, <2>3, <2>7
  <2> HIDE DEF m
  <2>10. /\ packed \o values \in Seq(S) /\ Len(packed \o values) = m + count
         /\ \A j \in 1..(m + count) : (packed \o values)[j] =
              IF j <= m THEN packed[j] ELSE values[j - m]
    BY <2>4, <2>5, <2>7, <2>9, ConcatProperties
  <2> DEFINE written == packed \o values
  <2>11. packed' = written \o zeros
    BY <2>1
  <2> HIDE DEF written
  <2>12. /\ packed' \in Seq(S) /\ Len(packed') = m + count + (w - count)
         /\ \A j \in 1..(m + count + (w - count)) : packed'[j] =
              IF j <= m + count THEN written[j] ELSE zeros[j - (m + count)]
    <3>1. written \in Seq(S) /\ Len(written) = m + count
      BY <2>10 DEF written
    <3>2. m + count + (w - count) = Len(written) + Len(zeros)
      BY <2>2, <2>4, <2>6, <2>9, <3>1
    <3>3. /\ written \o zeros \in Seq(S)
          /\ Len(written \o zeros) = Len(written) + Len(zeros)
          /\ \A j \in 1..(Len(written) + Len(zeros)) : (written \o zeros)[j] =
               IF j <= Len(written) THEN written[j] ELSE zeros[j - Len(written)]
      BY <2>6, <3>1, ConcatProperties
    <3>4. QED
      BY <2>11, <3>1, <3>2, <3>3
  <2>13. Len(packed') = (partition + 1) * w
    BY <2>2, <2>4, <2>9, <2>12
  <2>14. ASSUME NEW i \in 0..partition, NEW k \in 1..w
         PROVE  packed'[i * w + k] = LaneHolds(layout, i, k)
    <3>1. CASE i # partition
      <4>1. i \in 0..(partition - 1) /\ partition \in Nat
        BY <2>3, <3>1
      <4>2. i * w + k \in 1..m
        BY <2>2, <4>1, LaneBelow DEF m
      <4>3. packed[i * w + k] = LaneHolds(layout, i, k)
        BY <4>1 DEF PackInv, w
      <4> DEFINE j == i * w + k
      <4> HIDE DEF j
      <4>4. j \in 1..m /\ packed[j] = LaneHolds(layout, i, k)
        BY <4>2, <4>3 DEF j
      <4>5. packed'[j] = packed[j]
        <5>1. j <= m /\ j \in 1..(m + count) /\ j \in 1..(m + count + (w - count)) /\ j <= m + count
          BY <2>2, <2>4, <2>9, <4>4
        <5>2. QED
          BY <2>10, <2>12, <5>1 DEF written
      <4>6. QED
        BY <4>4, <4>5 DEF j
    <3>2. CASE i = partition /\ k <= count
      <4> DEFINE j == m + k
      <4>1. j \in 1..(m + count) /\ ~(j <= m) /\ j - m = k /\ k \in 1..count /\ j <= m + count
        BY <2>4, <2>9, <3>2
      <4> HIDE DEF j
      <4>2. packed'[j] = values[k]
        <5>1. j \in 1..(m + count + (w - count))
          BY <2>2, <2>4, <2>9, <4>1
        <5>2. QED
          BY <2>10, <2>12, <4>1, <5>1 DEF written
      <4>3. LaneHolds(layout, i, k) = first_value + k
        BY <2>4, <3>2 DEF LaneHolds, count
      <4>4. QED
        BY <2>8, <3>2, <4>1, <4>2, <4>3 DEF j, m
    <3>3. CASE i = partition /\ ~(k <= count)
      <4> DEFINE j == m + k
      <4>1. /\ j \in 1..(m + count + (w - count)) /\ ~(j <= m + count)
            /\ j - (m + count) \in 1..(w - count)
        BY <2>2, <2>4, <2>9, <3>3
      <4> HIDE DEF j
      <4>2. packed'[j] = Pad
        BY <2>8, <2>12, <4>1
      <4>3. LaneHolds(layout, i, k) = Pad
        BY <3>3 DEF LaneHolds, count
      <4>4. QED
        BY <3>3, <4>2, <4>3 DEF j, m
    <3>4. QED
      BY <3>1, <3>2, <3>3
  <2>15. partition' \in 0..layout.partitions /\ partition' - 1 = partition
    BY <2>1, <2>2, <2>3
  <2>16. first_value' = FirstValue(layout, partition')
    BY <2>1, <2>4
  <2>17. QED
    BY <2>1, <2>12, <2>13, <2>14, <2>15, <2>16 DEF PackInv, w, S
<1>3. QED
  BY <1>1, <1>2

\* The inductive invariant holds in every state of a packing.
LEMMA PackInvariant == PackSpec => []PackInv
BY PackInitInv, PackStepInv, PTL DEF PackSpec

-----------------------------------------------------------------------------
(* A packed vector. *)

\* Every partition begins at or after the end of the ones before it.
LEMMA FirstValueMonotone ==
  ASSUME NEW l, ValidLayout(l), NEW i \in 0..(l.partitions - 1), NEW j \in 0..(l.partitions - 1),
         i < j
  PROVE  FirstValue(l, i) + LogicalValues(l, i) <= FirstValue(l, j)
<1> DEFINE q == Quotient(l)
           r == Remainder(l)
<1>1. q \in Nat \ {0} /\ r \in Nat
  BY LayoutCounts
<1>2. /\ FirstValue(l, j) = j * q + (IF j < r THEN j ELSE r)
      /\ FirstValue(l, i + 1) = (i + 1) * q + (IF i + 1 < r THEN i + 1 ELSE r)
      /\ FirstValue(l, i + 1) = FirstValue(l, i) + LogicalValues(l, i)
  BY PartitionCounts DEF FirstValue
<1> HIDE DEF q, r
<1>3. i + 1 <= j /\ (i + 1) * q \in Nat /\ j * q \in Nat
  BY <1>1
<1>4. \A x, y \in Nat : x <= y => x * q <= y * q
  BY <1>1
<1>5. (i + 1) * q <= j * q
  BY <1>3, <1>4
<1>6. (IF i + 1 < r THEN i + 1 ELSE r) <= (IF j < r THEN j ELSE r)
  BY <1>1, <1>3
<1> DEFINE a == IF i + 1 < r THEN i + 1 ELSE r
           b == IF j < r THEN j ELSE r
<1>7. a \in Nat /\ b \in Nat
  BY <1>1
<1>8. QED
  BY <1>2, <1>3, <1>5, <1>6, <1>7

\* The values of each partition are among those of the vector.
LEMMA ValuesInVector ==
  ASSUME NEW l, ValidLayout(l), NEW i \in 0..(l.partitions - 1), NEW k \in 1..LogicalValues(l, i)
  PROVE  FirstValue(l, i) + k \in 1..l.values
<1>1. FirstValue(l, i) + LogicalValues(l, i) <= l.values
  <2>1. l.partitions \in Nat \ {0} /\ l.values \in Nat
    BY LayoutCounts
  <2>2. CASE i = l.partitions - 1
    <3>1. i + 1 = l.partitions
      BY <2>1, <2>2
    <3>2. FirstValue(l, i + 1) = l.values
      BY <3>1, PartitionCounts
    <3>3. QED
      BY <2>1, <3>2, PartitionCounts
  <2>3. CASE i # l.partitions - 1
    <3> DEFINE j == l.partitions - 1
    <3>1. j \in 0..(l.partitions - 1) /\ i < j
      BY <2>1, <2>3
    <3>2. j + 1 = l.partitions
      BY <2>1
    <3> HIDE DEF j
    <3>3. FirstValue(l, i) + LogicalValues(l, i) <= FirstValue(l, j)
      BY <3>1, FirstValueMonotone
    <3>4. /\ FirstValue(l, j + 1) = FirstValue(l, j) + LogicalValues(l, j)
          /\ LogicalValues(l, j) \in Nat /\ FirstValue(l, j) \in Nat
          /\ FirstValue(l, l.partitions) = l.values
      BY <3>1, PartitionCounts
    <3>5. FirstValue(l, j) <= l.values
      BY <3>2, <3>4
    <3>6. FirstValue(l, i) \in Nat /\ LogicalValues(l, i) \in Nat
      BY PartitionCounts
    <3>7. QED
      BY <2>1, <3>3, <3>4, <3>5, <3>6
  <2>4. QED
    BY <2>2, <2>3
<1>2. FirstValue(l, i) \in Nat /\ LogicalValues(l, i) \in Nat /\ l.values \in Nat
  BY PartitionCounts, LayoutCounts
<1>3. QED
  BY <1>1, <1>2

\* A set of naturals that is not empty has a least element.
LEMMA LeastNatural ==
  ASSUME NEW T, T \subseteq Nat, T # {}
  PROVE  \E m \in T : \A k \in T : m <= k
<1>1. PICK x : x \in T
  OBVIOUS
<1>2. x \in Nat
  BY <1>1
<1>3. PICK m \in T : \A k \in T : <<k, m>> \notin OpToRel(<, Nat)
  BY <1>1, <1>2, WFMin, NatLessThanWellFounded, Zenon
<1>4. \A k \in T : ~(k < m)
  BY <1>3, Zenon DEF OpToRel
<1> QED  BY <1>4

\* Every value of the vector is one of a partition's.
LEMMA ValueInPartition ==
  ASSUME NEW l, ValidLayout(l), NEW v \in 1..l.values
  PROVE  \E i \in 0..(l.partitions - 1) : \E k \in 1..LogicalValues(l, i) : v = FirstValue(l, i) + k
<1> DEFINE Begun == {n \in Nat : n \in 1..l.partitions /\ v <= FirstValue(l, n)}
<1>1. l.partitions \in Nat \ {0} /\ l.values \in Nat
  BY LayoutCounts
<1>2. l.partitions \in Begun
  <2>1. 0 \in 0..(l.partitions - 1)
    BY <1>1
  <2>2. FirstValue(l, l.partitions) = l.values
    BY <2>1, PartitionCounts
  <2>3. QED
    BY <1>1, <2>2
<1>3. PICK n \in Begun : \A m \in Begun : n <= m
  <2>1. Begun \subseteq Nat /\ Begun # {}
    BY <1>2
  <2> HIDE DEF Begun
  <2>2. QED
    BY <2>1, LeastNatural
<1> DEFINE i == n - 1
<1>4. /\ n \in 1..l.partitions /\ v <= FirstValue(l, n) /\ i \in 0..(l.partitions - 1)
      /\ i + 1 = n /\ i \notin Begun
  BY <1>1, <1>3
<1>5. FirstValue(l, i) < v
  <2>1. FirstValue(l, i) \in Nat /\ FirstValue(l, 0) = 0
    BY <1>4, PartitionCounts
  <2>2. CASE i = 0
    BY <2>1, <2>2
  <2>3. CASE i # 0
    BY <1>1, <1>4, <2>1, <2>3
  <2>4. QED
    BY <2>2, <2>3
<1> HIDE DEF i, Begun
<1>6. /\ FirstValue(l, i + 1) = FirstValue(l, i) + LogicalValues(l, i)
      /\ FirstValue(l, i) \in Nat /\ LogicalValues(l, i) \in Nat
  BY <1>4, PartitionCounts
<1>7. v - FirstValue(l, i) \in 1..LogicalValues(l, i)
  BY <1>1, <1>4, <1>5, <1>6
<1>8. v = FirstValue(l, i) + (v - FirstValue(l, i))
  BY <1>1, <1>6
<1>9. QED
  BY <1>4, <1>7, <1>8

\* After the last partition: as many lanes as the layout counts, and what each one holds.
LEMMA LanesHold ==
  ASSUME PackInv, Packed
  PROVE  /\ ValidLayout(layout) /\ layout.partitions \in Nat \ {0}
         /\ PhysicalValuesPerPartition(layout) \in Nat \ {0}
         /\ Len(packed) = layout.partitions * PhysicalValuesPerPartition(layout)
         /\ DOMAIN packed = 1..(layout.partitions * PhysicalValuesPerPartition(layout))
         /\ \A i \in 0..(layout.partitions - 1) :
              \A k \in 1..PhysicalValuesPerPartition(layout) :
                packed[i * PhysicalValuesPerPartition(layout) + k] = LaneHolds(layout, i, k)
<1>1. ValidLayout(layout) /\ partition = layout.partitions
  BY DEF PackInv, Packed, Layouts
<1>2. layout.partitions \in Nat \ {0} /\ PhysicalValuesPerPartition(layout) \in Nat \ {0}
  BY <1>1, LayoutCounts
<1>3. packed \in Seq(Nat \cup {Pad})
  BY DEF PackInv
<1>4. DOMAIN packed = 1..Len(packed)
  BY <1>3
<1>5. QED
  BY <1>1, <1>2, <1>4 DEF PackInv

\* A lane that holds a value: its partition, its position, and the value.
LEMMA ValueLane ==
  ASSUME PackInv, Packed, NEW j \in ValueLanes
  PROVE  \E i \in 0..(layout.partitions - 1) : \E k \in 1..LogicalValues(layout, i) :
           /\ j = i * PhysicalValuesPerPartition(layout) + k
           /\ k \in 1..PhysicalValuesPerPartition(layout)
           /\ packed[j] = FirstValue(layout, i) + k
<1> DEFINE w == PhysicalValuesPerPartition(layout)
<1>1. /\ ValidLayout(layout) /\ layout.partitions \in Nat \ {0} /\ w \in Nat \ {0}
      /\ DOMAIN packed = 1..(layout.partitions * w)
      /\ \A i \in 0..(layout.partitions - 1) : \A k \in 1..w :
           packed[i * w + k] = LaneHolds(layout, i, k)
  BY LanesHold
<1>2. j \in DOMAIN packed /\ packed[j] # Pad
  BY DEF ValueLanes, PaddingLanes
<1> HIDE DEF w
<1>3. PICK i \in 0..(layout.partitions - 1) : \E k \in 1..w : j = i * w + k
  <2>1. j \in 1..(layout.partitions * w) /\ layout.partitions \in Nat /\ w \in Nat \ {0}
    BY <1>1, <1>2
  <2> DEFINE n == layout.partitions
  <2> HIDE DEF n
  <2>2. j \in 1..(n * w) /\ n \in Nat
    BY <2>1 DEF n
  <2>3. \E i \in 0..(n - 1) : \E k \in 1..w : j = i * w + k
    BY <2>1, <2>2, LaneOf
  <2>4. QED
    BY <2>3 DEF n
<1>4. PICK k \in 1..w : j = i * w + k
  BY <1>3
<1>5. packed[j] = LaneHolds(layout, i, k)
  BY <1>1, <1>4
<1>6. k <= LogicalValues(layout, i) /\ packed[j] = FirstValue(layout, i) + k
  BY <1>2, <1>5 DEF LaneHolds
<1>7. k \in 1..LogicalValues(layout, i)
  BY <1>1, <1>6, PartitionCounts
<1>8. QED
  BY <1>4, <1>6, <1>7 DEF w

\* The lane of a position of a partition holds its value.
LEMMA LaneOfValue ==
  ASSUME PackInv, Packed, NEW i \in 0..(layout.partitions - 1),
         NEW k \in 1..LogicalValues(layout, i)
  PROVE  /\ i * PhysicalValuesPerPartition(layout) + k \in ValueLanes
         /\ packed[i * PhysicalValuesPerPartition(layout) + k] = FirstValue(layout, i) + k
<1> DEFINE w == PhysicalValuesPerPartition(layout)
           p == layout.partitions
<1>1. /\ ValidLayout(layout) /\ p \in Nat \ {0} /\ w \in Nat \ {0}
      /\ DOMAIN packed = 1..(p * w) /\ packed[i * w + k] = LaneHolds(layout, i, k)
      /\ k \in 1..w /\ FirstValue(layout, i) \in Nat
  <2>1. ValidLayout(layout)
    BY LanesHold
  <2>2. /\ LogicalValues(layout, i) \in Nat /\ LogicalValues(layout, i) <= w
        /\ FirstValue(layout, i) \in Nat
    BY <2>1, PartitionCounts
  <2>3. w \in Nat
    BY LanesHold
  <2>4. k \in 1..w
    BY <2>2, <2>3
  <2>5. QED
    BY <2>2, <2>4, LanesHold
<1>2. i * w + k \in 1..(p * w)
  BY <1>1, LaneBelow
<1>3. packed[i * w + k] = FirstValue(layout, i) + k
  BY <1>1 DEF LaneHolds
<1>4. FirstValue(layout, i) + k # Pad
  BY <1>1, PackingAssumption
<1>5. QED
  BY <1>1, <1>2, <1>3, <1>4 DEF ValueLanes, PaddingLanes

(***************************************************************************)
(* A packed vector holds every logical value once and in order, and zero   *)
(* in each of the lanes the layout counts as padding, for every vector,    *)
(* number of partitions and burst length (pack_zero_padded_vector).        *)
(***************************************************************************)
THEOREM NoValueLostOrRepeated == PackSpec => []PackedVectorIsWhole
<1>1. PackInv => PackedVectorIsWhole
  <2> SUFFICES ASSUME PackInv, Packed
               PROVE  /\ {packed[k] : k \in ValueLanes} = 1..layout.values
                      /\ \A j, k \in ValueLanes : j < k => packed[j] < packed[k]
                      /\ Len(packed) = PhysicalValues(layout)
                      /\ Cardinality(PaddingLanes) = PaddingValues(layout)
    BY DEF PackedVectorIsWhole
  <2> DEFINE w == PhysicalValuesPerPartition(layout)
             p == layout.partitions
             values == layout.values
  <2>1. /\ ValidLayout(layout) /\ p \in Nat \ {0} /\ w \in Nat \ {0}
        /\ Len(packed) = p * w /\ DOMAIN packed = 1..(p * w) /\ values \in Nat
    BY LanesHold, LayoutCounts
  <2>2. {packed[k] : k \in ValueLanes} = 1..values
    <3>1. ASSUME NEW j \in ValueLanes PROVE packed[j] \in 1..values
      <4>1. PICK i \in 0..(p - 1) : \E k \in 1..LogicalValues(layout, i) :
               packed[j] = FirstValue(layout, i) + k
        BY ValueLane
      <4>2. QED
        BY <2>1, <4>1, ValuesInVector
    <3>2. ASSUME NEW v \in 1..values PROVE \E j \in ValueLanes : packed[j] = v
      <4>1. PICK i \in 0..(p - 1) : \E k \in 1..LogicalValues(layout, i) :
               v = FirstValue(layout, i) + k
        BY <2>1, ValueInPartition
      <4>2. PICK k \in 1..LogicalValues(layout, i) : v = FirstValue(layout, i) + k
        BY <4>1
      <4>3. i * w + k \in ValueLanes /\ packed[i * w + k] = v
        BY <4>2, LaneOfValue
      <4>4. QED
        BY <4>3
    <3>3. QED
      BY <3>1, <3>2
  <2>3. ASSUME NEW j \in ValueLanes, NEW k \in ValueLanes, j < k
        PROVE  packed[j] < packed[k]
    <3>1a. PICK i1 \in 0..(p - 1) : \E m \in 1..LogicalValues(layout, i1) :
             j = i1 * w + m /\ m \in 1..w /\ packed[j] = FirstValue(layout, i1) + m
      BY ValueLane
    <3>1. PICK k1 \in 1..LogicalValues(layout, i1) :
            j = i1 * w + k1 /\ k1 \in 1..w /\ packed[j] = FirstValue(layout, i1) + k1
      BY <3>1a
    <3>2a. PICK i2 \in 0..(p - 1) : \E m \in 1..LogicalValues(layout, i2) :
             k = i2 * w + m /\ m \in 1..w /\ packed[k] = FirstValue(layout, i2) + m
      BY ValueLane
    <3>2. PICK k2 \in 1..LogicalValues(layout, i2) :
            k = i2 * w + k2 /\ k2 \in 1..w /\ packed[k] = FirstValue(layout, i2) + k2
      BY <3>2a
    <3>3. /\ FirstValue(layout, i1) \in Nat /\ LogicalValues(layout, i1) \in Nat
          /\ FirstValue(layout, i2) \in Nat /\ LogicalValues(layout, i2) \in Nat
          /\ i1 * w \in Nat /\ i2 * w \in Nat
      <4>1. ValidLayout(layout) /\ p \in Nat /\ w \in Nat
        BY <2>1
      <4>2. /\ FirstValue(layout, i1) \in Nat /\ LogicalValues(layout, i1) \in Nat
            /\ FirstValue(layout, i2) \in Nat /\ LogicalValues(layout, i2) \in Nat
        BY <4>1, PartitionCounts
      <4> HIDE DEF w, p
      <4>3. i1 * w \in Nat /\ i2 * w \in Nat
        BY <4>1
      <4>4. QED
        BY <4>2, <4>3
    <3>4. CASE i1 < i2
      <4>1. FirstValue(layout, i1) + LogicalValues(layout, i1) <= FirstValue(layout, i2)
        BY <2>1, <3>4, FirstValueMonotone
      <4>2. QED
        BY <3>1, <3>2, <3>3, <4>1
    <3>5. CASE i1 = i2
      <4>1. k1 < k2
        BY <3>1, <3>2, <3>3, <3>5, <2>3
      <4>2. QED
        BY <3>1, <3>2, <3>3, <3>5, <4>1
    <3>6. ~(i2 < i1)
      <4>1. SUFFICES ASSUME i2 < i1 PROVE FALSE
        OBVIOUS
      <4>2. i2 \in 0..(i1 - 1) /\ i1 \in Nat
        BY <2>1, <4>1
      <4> HIDE DEF w
      <4>3. i2 * w + k2 \in 1..(i1 * w)
        BY <2>1, <3>2, <4>2, LaneBelow
      <4> DEFINE a == i2 * w + k2
                 b == i1 * w
      <4>4. a <= b /\ j = b + k1 /\ k = a /\ b \in Nat
        BY <3>1, <3>2, <3>3, <4>3 DEF w
      <4> HIDE DEF a, b
      <4>5. QED
        BY <2>3, <3>1, <4>4
    <3>7. QED
      BY <2>1, <3>4, <3>5, <3>6
  <2>4. Len(packed) = PhysicalValues(layout)
    BY <2>1 DEF PhysicalValues
  <2>5. Cardinality(PaddingLanes) = PaddingValues(layout)
    <3> DEFINE lanes == DOMAIN packed
               f == [v \in ValueLanes |-> packed[v]]
    <3>1. p * w \in Nat
      BY <2>1
    <3>2. IsFiniteSet(lanes) /\ Cardinality(lanes) = p * w
      <4> DEFINE n == p * w
      <4>1. n \in Nat /\ lanes = 1..n
        BY <2>1, <3>1
      <4> HIDE DEF n, lanes
      <4>2. IsFiniteSet(1..n) /\ Cardinality(1..n) = n
        BY <4>1, FS_Interval
      <4>3. QED
        BY <4>1, <4>2 DEF n
    <3>3. ValueLanes \subseteq lanes /\ IsFiniteSet(ValueLanes)
      BY <3>2, FS_Subset DEF ValueLanes
    <3>4. f \in Bijection(ValueLanes, 1..values)
      <4>1. \A v \in ValueLanes : f[v] = packed[v]
        OBVIOUS
      <4>2. f \in [ValueLanes -> 1..values]
        BY <2>2
      <4>3. \A y \in 1..values : \E v \in ValueLanes : f[v] = y
        BY <2>2
      <4>4. \A a, b \in ValueLanes : f[a] = f[b] => a = b
        <5>1. \A v \in ValueLanes : packed[v] \in 1..values
          BY <2>2
        <5>2. \A v \in ValueLanes : v \in 1..(p * w)
          BY <2>1, <3>3
        <5> HIDE DEF f, values, w, p
        <5>3. values \in Nat /\ p \in Nat /\ w \in Nat
          BY <2>1
        <5>4. QED
          BY <2>3, <4>1, <5>1, <5>2, <5>3
      <4> HIDE DEF f
      <4>5. QED
        BY <4>2, <4>3, <4>4, Fun_IsBij
    <3>5. Cardinality(ValueLanes) = values
      <4>1. ExistsBijection(ValueLanes, 1..values)
        BY <3>4 DEF ExistsBijection
      <4> HIDE DEF f, values
      <4>2. Cardinality(1..values) = Cardinality(ValueLanes)
        BY <3>3, <4>1, FS_Bijection
      <4>3. Cardinality(1..values) = values
        BY <2>1, FS_Interval
      <4>4. QED
        BY <4>2, <4>3
    <3>6. PaddingLanes = lanes \ ValueLanes /\ lanes \cap ValueLanes = ValueLanes
      BY DEF ValueLanes, PaddingLanes
    <3>7. Cardinality(lanes \ ValueLanes) = Cardinality(lanes) - Cardinality(lanes \cap ValueLanes)
      BY <3>2, FS_Difference
    <3>8. PaddingValues(layout) = p * w - values
      BY DEF PaddingValues, PhysicalValues
    <3>9. QED
      BY <3>2, <3>5, <3>6, <3>7, <3>8
  <2>6. QED
    BY <2>2, <2>3, <2>4, <2>5
<1>2. QED
  BY <1>1, PackInvariant, PTL

-----------------------------------------------------------------------------
(* Contiguity. *)

\* The lanes of all the partitions have room for the vector.
LEMMA RoomForVector ==
  ASSUME NEW l, ValidLayout(l)
  PROVE  l.values <= l.partitions * PhysicalValuesPerPartition(l)
<1> DEFINE q == Quotient(l)
           r == Remainder(l)
           p == l.partitions
           w == PhysicalValuesPerPartition(l)
<1>1. /\ p \in Nat \ {0} /\ q \in Nat \ {0} /\ r \in 0..(p - 1) /\ l.values = p * q + r
      /\ w \in Nat /\ q + (IF r = 0 THEN 0 ELSE 1) <= w
  BY LayoutCounts
<1> HIDE DEF p, q, r, w
<1>2. \A x, y \in Nat : x <= y => p * x <= p * y
  BY <1>1
<1>3. p * (q + 1) = p * q + p /\ p * q \in Nat /\ p * w \in Nat
  BY <1>1
<1>4. CASE r = 0
  BY <1>1, <1>2, <1>3, <1>4 DEF p, w
<1>5. CASE r # 0
  <2>1. p * (q + 1) <= p * w
    BY <1>1, <1>2, <1>5
  <2>2. QED
    BY <1>1, <1>3, <2>1 DEF p, w
<1>6. QED
  BY <1>4, <1>5

\* One value less than a whole number of slots is not a whole number of slots.
LEMMA OneLess ==
  ASSUME NEW b \in Nat, b >= 2, NEW n \in Nat \ {0}, n % b = 0
  PROVE  (n - 1) % b # 0
<1> DEFINE m == n \div b
<1>1. m \in Nat /\ n = m * b
  OBVIOUS
<1> HIDE DEF m
<1>2. m # 0
  BY <1>1
<1> DEFINE d == m - 1
<1>3. d \in Nat /\ n - 1 = d * b + (b - 1)
  BY <1>1, <1>2
<1> HIDE DEF d
<1>4. (d * b + (b - 1)) % b = b - 1
  BY <1>3
<1>5. QED
  BY <1>3, <1>4

\* With slots of at least two lanes, is_contiguously_packed holds exactly when every partition
\* but the last fills its lanes.
LEMMA ContiguousIsFull ==
  ASSUME NEW l, ValidLayout(l), l.burst >= 2
  PROVE  ContiguouslyPacked(l) <=>
           \A i \in 0..(l.partitions - 2) : LogicalValues(l, i) = PhysicalValuesPerPartition(l)
<1> DEFINE q == Quotient(l)
           r == Remainder(l)
           b == l.burst
           v == q + (IF r = 0 THEN 0 ELSE 1)
           w == PhysicalValuesPerPartition(l)
<1>1. /\ l.partitions \in Nat \ {0} /\ q \in Nat \ {0} /\ r \in Nat /\ b \in Nat /\ b >= 2
      /\ w % b = 0 /\ (v % b = 0 => w = v)
  BY LayoutCounts
<1>2. \A i \in 0..(l.partitions - 1) : LogicalValues(l, i) = q + (IF i < r THEN 1 ELSE 0)
  BY PartitionCounts
<1> HIDE DEF q, r, b, w
<1>3. ASSUME ContiguouslyPacked(l), NEW i \in 0..(l.partitions - 2)
      PROVE  LogicalValues(l, i) = w
  <2>1. 0 \in 0..(l.partitions - 2) /\ 0 \in 0..(l.partitions - 1) /\ i \in 0..(l.partitions - 1)
    BY <1>1, <1>3
  <2>2. LogicalValues(l, 0) % b = 0 /\ LogicalValues(l, i) % b = 0
    BY <1>3, <2>1 DEF ContiguouslyPacked, b
  <2>3. LogicalValues(l, 0) = v
    BY <1>1, <1>2, <2>1
  <2>4. w = v /\ v % b = 0 /\ v \in Nat \ {0}
    BY <1>1, <2>2, <2>3
  <2>5. LogicalValues(l, i) = v \/ LogicalValues(l, i) = v - 1
    BY <1>1, <1>2, <2>1
  <2> HIDE DEF v
  <2>6. (v - 1) % b # 0
    BY <1>1, <2>4, OneLess
  <2>7. QED
    BY <2>2, <2>4, <2>5, <2>6
<1>4. ASSUME \A i \in 0..(l.partitions - 2) : LogicalValues(l, i) = w
      PROVE  ContiguouslyPacked(l)
  BY <1>1, <1>4 DEF ContiguouslyPacked, b
<1>5. QED
  BY <1>3, <1>4 DEF w

\* When every partition but the last fills its lanes, its values begin at its first lane.
LEMMA FullFromTheStart ==
  ASSUME NEW l, ValidLayout(l), NEW i \in 0..(l.partitions - 1),
         \A m \in 0..(l.partitions - 2) : LogicalValues(l, m) = PhysicalValuesPerPartition(l)
  PROVE  FirstValue(l, i) = i * PhysicalValuesPerPartition(l)
<1> DEFINE q == Quotient(l)
           r == Remainder(l)
           p == l.partitions
           w == PhysicalValuesPerPartition(l)
<1>1. /\ p \in Nat \ {0} /\ q \in Nat \ {0} /\ r \in 0..(p - 1) /\ w \in Nat
      /\ i \in 0..(p - 1)
  BY LayoutCounts
<1>2. \A m \in 0..(p - 2) : q + (IF m < r THEN 1 ELSE 0) = w
  <2>1. \A m \in 0..(p - 2) : m \in 0..(p - 1)
    BY <1>1
  <2>2. QED
    BY <2>1, PartitionCounts
<1>3. FirstValue(l, i) = i * q + (IF i < r THEN i ELSE r) /\ FirstValue(l, 0) = 0
  <2>1. 0 \in 0..(p - 1)
    BY <1>1
  <2>2. QED
    BY <2>1, PartitionCounts DEF FirstValue
<1> HIDE DEF p, q, r, w
<1>4. i * (q + 1) = i * q + i /\ 0 * w = 0 /\ i * q \in Nat
  BY <1>1
<1>5. CASE i = 0
  BY <1>3, <1>4, <1>5 DEF w
<1>6. CASE i # 0 /\ r = 0
  <2>1. 0 \in 0..(p - 2)
    BY <1>1, <1>6
  <2>2. w = q
    BY <1>1, <1>2, <1>6, <2>1
  <2>3. QED
    BY <1>1, <1>3, <1>4, <1>6, <2>2 DEF w
<1>7. CASE i # 0 /\ r # 0
  <2>1. 0 \in 0..(p - 2) /\ p - 2 \in 0..(p - 2)
    BY <1>1, <1>7
  <2>2. w = q + 1
    BY <1>1, <1>2, <1>7, <2>1
  <2>3. p - 2 < r
    BY <1>1, <1>2, <2>1, <2>2
  <2>4. r = p - 1
    BY <1>1, <2>3
  <2>5. (IF i < r THEN i ELSE r) = i
    BY <1>1, <2>4
  <2>6. QED
    BY <1>1, <1>3, <1>4, <2>2, <2>5 DEF w
<1>8. QED
  BY <1>5, <1>6, <1>7

\* When a partition before the last leaves lanes over, one that does begins at its first lane.
LEMMA FirstShortPartition ==
  ASSUME NEW l, ValidLayout(l), NEW i \in 0..(l.partitions - 2),
         LogicalValues(l, i) # PhysicalValuesPerPartition(l)
  PROVE  \E m \in 0..(l.partitions - 2) :
           /\ FirstValue(l, m) = m * PhysicalValuesPerPartition(l)
           /\ LogicalValues(l, m) < PhysicalValuesPerPartition(l)
<1> DEFINE q == Quotient(l)
           r == Remainder(l)
           p == l.partitions
           w == PhysicalValuesPerPartition(l)
<1>1. /\ p \in Nat \ {0} /\ q \in Nat \ {0} /\ r \in 0..(p - 1) /\ w \in Nat
      /\ i \in 0..(p - 2) /\ 0 \in 0..(p - 2)
  BY LayoutCounts
<1>2. \A m \in 0..(p - 2) : /\ LogicalValues(l, m) = q + (IF m < r THEN 1 ELSE 0)
                            /\ LogicalValues(l, m) <= w
  <2>1. \A m \in 0..(p - 2) : m \in 0..(p - 1)
    BY <1>1
  <2>2. QED
    BY <2>1, PartitionCounts
<1>3. FirstValue(l, r) = r * q + (IF r < r THEN r ELSE r) /\ FirstValue(l, 0) = 0
  <2>1. 0 \in 0..(p - 1)
    BY <1>1
  <2>2. QED
    BY <2>1, PartitionCounts DEF FirstValue
<1> HIDE DEF p, q, r, w
<1>4. r * (q + 1) = r * q + r /\ 0 * w = 0 /\ r * q \in Nat
  BY <1>1
<1>5. LogicalValues(l, i) # w
  BY DEF w
<1>6. CASE LogicalValues(l, 0) < w
  BY <1>1, <1>3, <1>4, <1>6 DEF w, p
<1>7. CASE ~(LogicalValues(l, 0) < w)
  <2>1. q + (IF 0 < r THEN 1 ELSE 0) = w
    BY <1>1, <1>2, <1>7
  <2>2. 0 < r /\ w = q + 1 /\ r <= i
    BY <1>1, <1>2, <1>5, <2>1
  <2>3. r \in 0..(p - 2)
    BY <1>1, <2>2
  <2>4. LogicalValues(l, r) < w
    BY <1>1, <1>2, <2>2, <2>3
  <2>5. FirstValue(l, r) = r * w
    BY <1>1, <1>3, <1>4, <2>2
  <2>6. QED
    BY <2>3, <2>4, <2>5 DEF p, w
<1>8. QED
  BY <1>6, <1>7

\* The lanes are the vector followed by padding when each of its lanes holds its own number.
LEMMA UninterruptedLanes ==
  ASSUME PackInv, Packed
  PROVE  Uninterrupted <=> \A k \in 1..layout.values : packed[k] = k
<1> DEFINE n == layout.values
<1>1. n \in Nat /\ n <= Len(packed) /\ packed \in Seq(Nat \cup {Pad})
  BY LanesHold, LayoutCounts, RoomForVector DEF PackInv
<1> HIDE DEF n
<1>2. SubSeq(packed, 1, n) = [k \in 1..n |-> packed[k]]
  <2>1. Len(packed) \in Nat
    BY <1>1
  <2>2. QED
    BY <1>1, <2>1
<1>3. SubSeq(packed, 1, n) = [k \in 1..n |-> k] <=> \A k \in 1..n : packed[k] = k
  BY <1>2
<1>4. QED
  BY <1>3 DEF Uninterrupted, n

(***************************************************************************)
(* is_contiguously_packed is exact for every vector, every number of       *)
(* partitions and every burst length of at least two lanes: it holds just  *)
(* when joining the partitions gives the vector followed only by padding.  *)
(* A slot of one lane is the case it misses: a partition that is one value *)
(* short of the widest then still ends on a whole slot.                    *)
(***************************************************************************)
THEOREM ContiguityDecided ==
  ASSUME \A b \in Bursts : b >= 2
  PROVE  PackSpec => []ContiguityIsExact
<1>1. PackInv => ContiguityIsExact
  <2> SUFFICES ASSUME PackInv, Packed
               PROVE  ContiguouslyPacked(layout) <=> Uninterrupted
    BY DEF ContiguityIsExact
  <2> DEFINE w == PhysicalValuesPerPartition(layout)
             p == layout.partitions
             n == layout.values
             Full == \A i \in 0..(p - 2) : LogicalValues(layout, i) = w
  <2>1. /\ ValidLayout(layout) /\ p \in Nat \ {0} /\ w \in Nat \ {0} /\ n \in Nat
        /\ \A i \in 0..(p - 1) : \A k \in 1..w : packed[i * w + k] = LaneHolds(layout, i, k)
    BY LanesHold, LayoutCounts
  <2>2. layout.burst >= 2
    BY DEF PackInv, Layouts, Layout
  <2>3. ContiguouslyPacked(layout) <=> Full
    BY <2>1, <2>2, ContiguousIsFull
  <2>4. ASSUME Full, NEW j \in 1..n PROVE packed[j] = j
    <3>1. PICK i \in 0..(p - 1) : \E k \in 1..LogicalValues(layout, i) :
             j = FirstValue(layout, i) + k
      BY <2>1, ValueInPartition
    <3>2. PICK k \in 1..LogicalValues(layout, i) : j = FirstValue(layout, i) + k
      BY <3>1
    <3>3. FirstValue(layout, i) = i * w
      BY <2>1, <2>4, FullFromTheStart
    <3>4. packed[i * w + k] = FirstValue(layout, i) + k
      BY <3>2, LaneOfValue
    <3>5. QED
      BY <3>2, <3>3, <3>4
  <2>5. ASSUME ~Full PROVE \E j \in 1..n : packed[j] # j
    <3>1. PICK i \in 0..(p - 2) : LogicalValues(layout, i) # w
      BY <2>5
    <3>2. PICK m \in 0..(p - 2) : FirstValue(layout, m) = m * w /\ LogicalValues(layout, m) < w
      BY <2>1, <3>1, FirstShortPartition
    <3> DEFINE count == LogicalValues(layout, m)
               lane == count + 1
    <3>3. m \in 0..(p - 1) /\ m + 1 \in 0..(p - 1) /\ m \in Nat
      BY <2>1, <3>2
    <3>4. /\ count \in Nat \ {0} /\ FirstValue(layout, m) \in Nat
          /\ FirstValue(layout, m + 1) = FirstValue(layout, m) + count
          /\ LogicalValues(layout, m + 1) \in Nat \ {0}
      BY <2>1, <3>3, PartitionCounts
    <3>5. FirstValue(layout, m + 1) + 1 \in 1..n
      <4>1. 1 \in 1..LogicalValues(layout, m + 1)
        BY <3>4
      <4>2. QED
        BY <2>1, <3>3, <4>1, ValuesInVector
    <3>6. m * w + lane \in 1..n
      <4>1. m * w + lane = FirstValue(layout, m + 1) + 1
        <5> DEFINE a == m * w
        <5>1. a = FirstValue(layout, m)
          BY <3>2
        <5> HIDE DEF a
        <5>2. a + lane = FirstValue(layout, m + 1) + 1
          BY <3>4, <5>1
        <5>3. QED
          BY <5>2 DEF a
      <4>2. QED
        BY <3>5, <4>1
    <3>7. packed[m * w + lane] = Pad
      <4>1. lane \in 1..w /\ ~(lane <= count)
        BY <2>1, <3>2, <3>4
      <4>2. packed[m * w + lane] = LaneHolds(layout, m, lane)
        BY <2>1, <3>3, <4>1
      <4>3. QED
        BY <4>1, <4>2 DEF LaneHolds
    <3>8. m * w + lane # Pad
      BY <3>6, PackingAssumption
    <3>9. QED
      BY <3>6, <3>7, <3>8
  <2>6. QED
    BY <2>3, <2>4, <2>5, UninterruptedLanes
<1>2. QED
  BY <1>1, PackInvariant, PTL
=============================================================================
