----------------------------- MODULE TensorTypes -----------------------------
(***************************************************************************)
(* TensorType (ir/types.py): shape, element type, role, named axes, which  *)
(* part of the tensor a rank holds, and the domain it lives in.            *)
(*                                                                         *)
(* An axis is the sequence of the names packed into a dimension, outermost *)
(* first.  whole is full_shape: the shape before sharding.                 *)
(***************************************************************************)
EXTENDS Integers, FiniteSets, SequencesExt, TLC

Replicate == [kind |-> "replicate", axis |-> "none"]
Partial == [kind |-> "partial", axis |-> "none"]
Shard(axis) == [kind |-> "shard", axis |-> axis]
NoPlacement == [kind |-> "none", axis |-> "none"]

IsShard(placement) == placement.kind = "shard"

TensorType ==
  [shape : Seq(Nat), dtype : STRING, role : STRING, axes : Seq(Seq(STRING)), whole : Seq(Nat),
   placement : [kind : STRING, axis : STRING], domain : STRING]

Numel(shape) == FoldLeft(LAMBDA n, dim : n * dim, 1, shape)

Rank(t) == Len(t.shape)
Annotated(t) == t.axes # <<>>

(* dim_of: the dimensions whose outermost axis it is; there must be one. *)
DimsOf(t, axis) == {d \in DOMAIN t.axes : t.axes[d][1] = axis}
DimOf(t, axis) == CHOOSE d \in DimsOf(t, axis) : TRUE

ShardedDim(t) == IF IsShard(t.placement) THEN DimOf(t, t.placement.axis) ELSE 0

(* TensorType.__post_init__ *)
ValidType(t) ==
  /\ Annotated(t) => Len(t.axes) = Rank(t)
  /\ IF IsShard(t.placement)
     THEN /\ Cardinality(DimsOf(t, t.placement.axis)) = 1
          /\ Len(t.whole) = Rank(t)
          /\ \A d \in 1..Rank(t) : d = ShardedDim(t) \/ t.shape[d] = t.whole[d]
     ELSE t.whole = t.shape

(* A computed tensor; only a sharded one remembers a whole shape. *)
Tensor(shape, dtype, axes, whole, placement) ==
  [shape |-> shape, dtype |-> dtype, role |-> "activation", axes |-> axes,
   whole |-> IF IsShard(placement) THEN whole ELSE shape,
   placement |-> placement, domain |-> "none"]

Imported(shape, dtype) == Tensor(shape, dtype, <<>>, shape, Replicate)

Activation(t) == [t EXCEPT !.role = "activation"]

(* What no operation infers: it raised. *)
NoType == [Imported(<<>>, "none") EXCEPT !.role = "none"]

Whole(ts) == \A i \in DOMAIN ts : ts[i].placement = Replicate

BothAnnotated(a, b) == Annotated(a) /\ Annotated(b)
=============================================================================
