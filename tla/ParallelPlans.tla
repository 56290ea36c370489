---------------------------- MODULE ParallelPlans ----------------------------
(***************************************************************************)
(* ParallelPlan (parallel/plan.py): which axes are split over the tp       *)
(* ranks, and which tensors are the exceptions.  A plan is written one     *)
(* statement at a time; a statement that contradicts or repeats an earlier *)
(* one is refused, which leaves no plan.                                   *)
(*                                                                         *)
(* A statement is [axis, names]: split(axis), split(axis, only = names), or *)
(* replicate(names), whose axis is "none".                                 *)
(***************************************************************************)
EXTENDS TensorTypes

EmptyPlan(tp) == [tp |-> tp, splits |-> {}, exceptions |-> <<>>, refused |-> tp < 1]

SplitRule(axis) == [axis |-> axis, names |-> <<>>]
SplitOnly(axis, names) == [axis |-> axis, names |-> names]
KeepWhole(names) == [axis |-> "none", names |-> names]

IsRule(s) == s.axis # "none" /\ s.names = <<>>

(* _add_exception for every name; a name has one exception. *)
Excepted(plan, s) ==
  IF IsInjective(s.names) /\ Range(s.names) \cap DOMAIN plan.exceptions = {}
  THEN [plan EXCEPT !.exceptions =
          [n \in Range(s.names) |-> IF s.axis = "none" THEN Replicate ELSE Shard(s.axis)] @@ @]
  ELSE [plan EXCEPT !.refused = TRUE]

(* split and replicate. *)
Stated(plan, s) ==
  IF s.axis \in plan.splits \/ (s.axis = "none" /\ s.names = <<>>)
  THEN [plan EXCEPT !.refused = TRUE]
  ELSE IF IsRule(s) THEN [plan EXCEPT !.splits = @ \cup {s.axis}]
  ELSE Excepted(plan, s)

Plan(tp, statements) ==
  FoldLeft(LAMBDA plan, s : IF plan.refused THEN plan ELSE Stated(plan, s),
           EmptyPlan(tp), statements)

-----------------------------------------------------------------------------
(* _placement_for: the exception, or what the rules split. *)

SplitDims(plan, t) == {d \in DOMAIN t.axes : t.axes[d][1] \in plan.splits}

PlacementFor(plan, name, t) ==
  IF name \in DOMAIN plan.exceptions THEN plan.exceptions[name]
  ELSE IF SplitDims(plan, t) = {} THEN Replicate
  ELSE LET d == CHOOSE e \in SplitDims(plan, t) : TRUE IN Shard(t.axes[d][1])

OneDimSplit(plan, name, t) ==
  name \in DOMAIN plan.exceptions \/ Cardinality(SplitDims(plan, t)) <= 1

(* _check_divisible: whole heads, and as many of them on every rank. *)
Divides(plan, sizes, t, axis) ==
  LET d == DimOf(t, axis)
  IN  IF Len(t.axes[d]) = 1 THEN t.shape[d] % plan.tp = 0
      ELSE /\ axis \in DOMAIN sizes
           /\ t.shape[d] % sizes[axis] = 0
           /\ sizes[axis] % plan.tp = 0

(* _shard_argument *)
Splits(plan, name, t) == plan.tp > 1 /\ IsShard(PlacementFor(plan, name, t))

CanShard(plan, sizes, name, t) ==
  /\ OneDimSplit(plan, name, t)
  /\ Splits(plan, name, t) =>
       LET axis == PlacementFor(plan, name, t).axis
       IN  Cardinality(DimsOf(t, axis)) = 1 /\ Divides(plan, sizes, t, axis)

Sharded(plan, name, t) ==
  IF ~Splits(plan, name, t) THEN t
  ELSE LET placement == PlacementFor(plan, name, t)
           dim == DimOf(t, placement.axis)
       IN  [t EXCEPT !.shape = [t.shape EXCEPT ![dim] = @ \div plan.tp],
                     !.whole = t.shape, !.placement = placement]
=============================================================================
