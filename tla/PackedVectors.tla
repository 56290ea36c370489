---------------------------- MODULE PackedVectors ----------------------------
(***************************************************************************)
(* pack_zero_padded_vector (lowering/planning.py), one partition at a      *)
(* time, for layouts of the baseline policy and for hand-made ones.  The   *)
(* logical values of a vector are the numbers of their positions, the zero *)
(* of a padding lane is Pad.                                               *)
(***************************************************************************)
EXTENDS VectorLayouts

CONSTANTS
  Bursts,      \* the burst lengths tried
  MaxValues,   \* bound on the logical values of a vector
  Pad

ASSUME PackingAssumption ==
  /\ Bursts \subseteq Nat \ {0}
  /\ MaxValues \in Nat \ {0}
  /\ Pad \notin Nat

VARIABLES
  layout,      \* the layout being packed
  partition,   \* the partitions written so far
  first_value, \* the logical values written so far
  packed       \* the lanes written so far

vars == <<layout, partition, first_value, packed>>

PackInit ==
  /\ layout \in {l \in {Layout(v, p, b) : v, p \in 1..MaxValues, b \in Bursts} :
                   ValidLayout(l)}
  /\ partition = 0
  /\ first_value = 0
  /\ packed = <<>>

(* One turn of the loop: the values of a partition, then its padding. *)
PackPartition ==
  /\ partition < layout.partitions
  /\ LET count   == LogicalValues(layout, partition)
         padding == PhysicalValuesPerPartition(layout) - count
     IN  /\ packed' = packed \o [k \in 1..count |-> first_value + k]
                             \o [k \in 1..padding |-> Pad]
         /\ first_value' = first_value + count
  /\ partition' = partition + 1
  /\ UNCHANGED layout

PackSpec == PackInit /\ [][PackPartition]_vars

-----------------------------------------------------------------------------

Packed == partition = layout.partitions

PaddingLanes == {k \in DOMAIN packed : packed[k] = Pad}
ValueLanes == DOMAIN packed \ PaddingLanes

(***************************************************************************)
(* A packed vector holds every logical value once and in order, and zero   *)
(* in each of the lanes the layout counts as padding: balanced partitions, *)
(* rounded up to whole slots, neither drop nor repeat a value.             *)
(***************************************************************************)
PackedVectorIsWhole ==
  Packed =>
    /\ {packed[k] : k \in ValueLanes} = 1..layout.values
    /\ \A j, k \in ValueLanes : j < k => packed[j] < packed[k]
    /\ Len(packed) = PhysicalValues(layout)
    /\ Cardinality(PaddingLanes) = PaddingValues(layout)

(* The logical vector followed only by padding. *)
Uninterrupted ==
  SubSeq(packed, 1, layout.values) = [k \in 1..layout.values |-> k]

(***************************************************************************)
(* is_contiguously_packed says what joining the partitions gives: True     *)
(* exactly when the lanes are the logical vector followed only by padding. *)
(* A GEMV reads a vector it accepts as one uninterrupted run of slots.     *)
(***************************************************************************)
ContiguityIsExact == Packed => (ContiguouslyPacked(layout) <=> Uninterrupted)
=============================================================================
