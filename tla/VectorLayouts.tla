---------------------------- MODULE VectorLayouts ----------------------------
(***************************************************************************)
(* How a vector is cut into partitions of whole Shared Buffer slots        *)
(* (lowering/planning.py): CentPartitionedVectorLayout, the baseline       *)
(* policy that chooses one, and the contents a packed vector has.          *)
(***************************************************************************)
EXTENDS Integers, SequencesExt

CeilDiv(n, d) == (n + d - 1) \div d
Lesser(a, b) == IF a <= b THEN a ELSE b

(* for i in range(n), the results one after the other. *)
Each(n, Emit(_)) == FlattenSeq([i \in 1..n |-> Emit(i - 1)])

-----------------------------------------------------------------------------

Layout(values, partitions, burst) ==
  [values |-> values, partitions |-> partitions, burst |-> burst]

(* CentPartitionedVectorLayout.__post_init__ *)
ValidLayout(l) ==
  /\ {l.values, l.partitions, l.burst} \subseteq Nat \ {0}
  /\ l.partitions <= l.values

(* plan_partitioned_vector: the least equal width, then only pieces in use. *)
PlanVector(values, maximum, burst) ==
  Layout(values, CeilDiv(values, CeilDiv(values, maximum)), burst)

ValuesPerPartition(l) == CeilDiv(l.values, l.partitions)

(* Every partition as wide as the widest. *)
LogicalValuesUnbalanced(l, partition) == ValuesPerPartition(l)

(* divmod: the first partitions take one value more. *)
LogicalValues(l, partition) ==
  l.values \div l.partitions
    + (IF partition < l.values % l.partitions THEN 1 ELSE 0)

SlotsPerPartition(l) == CeilDiv(ValuesPerPartition(l), l.burst)
SlotCount(l) == l.partitions * SlotsPerPartition(l)
PhysicalValuesPerPartition(l) == SlotsPerPartition(l) * l.burst
PhysicalValues(l) == l.partitions * PhysicalValuesPerPartition(l)
PaddingValues(l) == PhysicalValues(l) - l.values

(* The widest partition taken for all of them. *)
ContiguousAtTheStart(l) == l.partitions = 1 \/ LogicalValues(l, 0) % l.burst = 0

ContiguouslyPacked(l) ==
  \A partition \in 0..(l.partitions - 2) : LogicalValues(l, partition) % l.burst = 0
=============================================================================
