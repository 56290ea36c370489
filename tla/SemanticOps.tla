----------------------------- MODULE SemanticOps -----------------------------
(***************************************************************************)
(* The operations of the IR (ir/semantic/, ir/device/): what operands each *)
(* accepts and the type it infers for its result.                          *)
(*                                                                         *)
(* An operation is a record [unit, kind, attr, operands].  unit says which *)
(* device op it is: "aloi" none, the semantic op; "pim", "pnm" and "cxl"   *)
(* compute in one domain; "device" runs where its operand is.  attr is the *)
(* sequence of its attributes.  The mixture-of-experts ops and the         *)
(* attention temperature, which no device op implements, are left out.     *)
(***************************************************************************)
EXTENDS TensorTypes

Op(unit, kind, attr, operands) ==
  [unit |-> unit, kind |-> kind, attr |-> attr, operands |-> operands]

BinaryKinds == {"add", "sub", "mul", "div"}
ViewKinds == {"reshape", "split_heads", "merge_heads"}

Kinds ==
  BinaryKinds \cup ViewKinds
    \cup {"activation", "exp", "softmax", "reduce_max", "reduce_sum", "rms_norm", "broadcast",
          "copy", "transfer", "linear", "rope", "kv_update", "gqa_qk", "gqa_sv", "attention",
          "all_reduce"}

(* How many operands the class of an operation takes. *)
Arity(kind) ==
  CASE kind \in BinaryKinds \cup {"gqa_qk", "gqa_sv"} -> {2}
    [] kind \in {"rope", "kv_update"} -> {3}
    [] kind = "linear" -> {2, 3}
    [] kind = "attention" -> {3, 4}
    [] kind = "rms_norm" -> {1, 2}
    [] OTHER -> {1}

NeedsFloat == {"exp", "div"}

-----------------------------------------------------------------------------
(* Elementwise operations and reductions. *)

BinaryAccepts(a, b) ==
  /\ a.shape = b.shape
  /\ a.dtype = b.dtype
  /\ BothAnnotated(a, b) => a.axes = b.axes
  /\ a.placement = b.placement
  /\ a.placement # Partial

BinaryResult(a, b) ==
  Tensor(a.shape, a.dtype, IF BothAnnotated(a, b) THEN a.axes ELSE <<>>, a.whole, a.placement)

(* Each row is needed whole: softmax, rms_norm and reduce_max. *)
RowsWhole(x) == x.placement # Partial /\ ShardedDim(x) # Rank(x)

RmsNormAccepts(ts) ==
  /\ Rank(ts[1]) >= 1
  /\ RowsWhole(ts[1])
  /\ Len(ts) = 2 =>
       /\ Rank(ts[2]) = 1
       /\ ts[2].dtype = ts[1].dtype
       /\ ts[2].placement = Replicate
       /\ Last(ts[1].shape) = ts[2].shape[1]
       /\ BothAnnotated(ts[1], ts[2]) => ts[2].axes = <<Last(ts[1].axes)>>

(* SumOp: rows split across ranks give partial sums. *)
SumPlacement(x) == IF ShardedDim(x) = Rank(x) THEN Partial ELSE x.placement

ReducedResult(x, placement) ==
  Tensor(Front(x.shape), x.dtype, IF Annotated(x) THEN Front(x.axes) ELSE <<>>,
         Front(x.whole), placement)

BroadcastAccepts(x, size, axis) ==
  size >= 1 /\ (Annotated(x) => axis # <<>> /\ axis \notin Range(x.axes))

BroadcastResult(x, size, axis) ==
  [Activation(x) EXCEPT !.shape = Append(@, size), !.whole = Append(@, size),
                        !.axes = IF @ = <<>> THEN <<>> ELSE Append(@, axis)]

-----------------------------------------------------------------------------
(* Linear: replicated, column parallel, or row parallel. *)

LinearPlacement(x, w) ==
  CASE x.placement = Replicate /\ w.placement = Replicate -> Replicate
    [] x.placement = Replicate /\ IsShard(w.placement) /\ ShardedDim(w) = 1 -> w.placement
    [] IsShard(x.placement) /\ w.placement = x.placement
         /\ ShardedDim(x) = Rank(x) /\ ShardedDim(w) = 2 -> Partial
    [] OTHER -> NoPlacement

BiasAccepted(w, bias, placement) ==
  /\ Rank(bias) = 1
  /\ bias.dtype = w.dtype
  /\ placement # Partial
  /\ bias.placement = placement
  /\ bias.shape[1] = w.shape[1]
  /\ BothAnnotated(w, bias) => bias.axes = <<w.axes[1]>>

LinearAccepts(ts) ==
  LET x == ts[1]
      w == ts[2]
  IN  /\ x.dtype = w.dtype
      /\ Rank(x) >= 1 /\ Rank(w) = 2
      /\ LinearPlacement(x, w) # NoPlacement
      /\ Len(ts) = 3 => BiasAccepted(w, ts[3], LinearPlacement(x, w))
      /\ Last(x.shape) = w.shape[2]
      /\ BothAnnotated(x, w) => w.axes[2] = Last(x.axes)

LinearResult(x, w) ==
  Tensor(Append(Front(x.shape), w.shape[1]), x.dtype,
         IF BothAnnotated(x, w) THEN Append(Front(x.axes), w.axes[1]) ELSE <<>>,
         Append(Front(x.whole), w.whole[1]), LinearPlacement(x, w))

-----------------------------------------------------------------------------
(* Heads, rotary embedding and caches. *)

SplitAccepts(x, head) ==
  /\ Rank(x) >= 1 /\ head >= 1
  /\ Last(x.shape) % head = 0
  /\ x.placement # Partial
  /\ Annotated(x) => Len(Last(x.axes)) = 2

HeadsOf(shape, head) == Front(shape) \o <<Last(shape) \div head, head>>

SplitResult(x, head) ==
  Tensor(HeadsOf(x.shape, head), x.dtype,
         IF Annotated(x) THEN Front(x.axes) \o <<<<Last(x.axes)[1]>>, <<Last(x.axes)[2]>>>>
         ELSE <<>>,
         HeadsOf(x.whole, head), x.placement)

(* packed_axis refuses an axis that is packed already. *)
MergeAccepts(x) ==
  /\ Rank(x) >= 2
  /\ RowsWhole(x)
  /\ Annotated(x) => Len(Last(x.axes)) = 1 /\ Len(Last(Front(x.axes))) = 1

Merged(shape) == Append(Front(Front(shape)), Last(Front(shape)) * Last(shape))

MergeResult(x) ==
  Tensor(Merged(x.shape), x.dtype,
         IF Annotated(x) THEN Append(Front(Front(x.axes)), Last(Front(x.axes)) \o Last(x.axes))
         ELSE <<>>,
         Merged(x.whole), x.placement)

(* One replicated integer per token. *)
PositionsFit(positions, tokens, axes) ==
  /\ positions.dtype = "int"
  /\ positions.shape = tokens
  /\ Annotated(positions) /\ axes # <<>> => positions.axes = axes
  /\ positions.placement = Replicate

RopeAccepts(x, positions, table) ==
  /\ Rank(x) >= 2 /\ Rank(table) = 2
  /\ table.shape[2] % 2 = 0 /\ table.shape[2] <= Last(x.whole)
  /\ PositionsFit(positions, Front(Front(x.shape)),
                  IF Annotated(x) THEN Front(Front(x.axes)) ELSE <<>>)
  /\ table.placement = Replicate
  /\ RowsWhole(x)

WithoutTokens(dims) == <<dims[1], dims[3], dims[4]>>

KvUpdateAccepts(cache, new, positions) ==
  /\ Rank(cache) = 4 /\ Rank(new) = 4
  /\ cache.dtype = new.dtype
  /\ WithoutTokens(cache.shape) = WithoutTokens(new.shape)
  /\ BothAnnotated(cache, new) => WithoutTokens(cache.axes) = WithoutTokens(new.axes)
  /\ PositionsFit(positions, SubSeq(new.shape, 1, 2),
                  IF BothAnnotated(cache, new) THEN SubSeq(new.axes, 1, 2) ELSE <<>>)
  /\ cache.placement = new.placement
  /\ cache.placement # Partial
  /\ ShardedDim(cache) # 2

-----------------------------------------------------------------------------
(* Attention. *)

HeadsDim == 3

(* _check_gqa_heads, _gqa_placement: whole groups on every rank. *)
HeadsGroup(query, cache) ==
  LET Grouped(q, kv) == q[HeadsDim] \div kv[HeadsDim]
      Divides(q, kv) == kv[HeadsDim] # 0 /\ q[HeadsDim] % kv[HeadsDim] = 0
  IN  /\ Divides(query.shape, cache.shape)
      /\ Divides(query.whole, cache.whole)
      /\ Grouped(query.shape, cache.shape) = Grouped(query.whole, cache.whole)
      /\ \/ Whole(<<query, cache>>)
         \/ /\ IsShard(query.placement) /\ IsShard(cache.placement)
            /\ ShardedDim(query) = HeadsDim /\ ShardedDim(cache) = HeadsDim

(* The query's last dimension is multiplied onto this one of the cache. *)
GqaAccepts(query, cache, onto) ==
  /\ Rank(query) = 4 /\ Rank(cache) = 4
  /\ query.dtype = cache.dtype
  /\ query.shape[1] = cache.shape[1] /\ query.shape[4] = cache.shape[onto]
  /\ BothAnnotated(query, cache) =>
       query.axes[1] = cache.axes[1] /\ query.axes[4] = cache.axes[onto]
  /\ HeadsGroup(query, cache)

GqaResult(query, cache, kept) ==
  LET With(dims, last) == Append(Front(dims), last)
  IN  Tensor(With(query.shape, cache.shape[kept]), query.dtype,
             IF BothAnnotated(query, cache) THEN With(query.axes, cache.axes[kept]) ELSE <<>>,
             With(query.whole, cache.shape[kept]), query.placement)

AttentionAccepts(ts) ==
  LET q == ts[1].shape
      k == ts[2].shape
      v == ts[3].shape
  IN  /\ \A i \in 1..3 : Rank(ts[i]) = 4
      /\ \A i \in DOMAIN ts : ts[i].dtype = ts[1].dtype
      /\ k[1] = q[1] /\ v[1] = q[1]
      /\ k[2] = v[2] /\ q[2] % k[2] = 0
      /\ k[4] = q[4] /\ k[3] = v[3]
      /\ Len(ts) = 4 => ts[4].shape \in {<<q[3], k[3]>>, <<q[1], q[2], q[3], k[3]>>}
      /\ Whole(ts)

AttentionResult(q, v) ==
  LET shape == Append(Front(q.shape), v.shape[4])
  IN  Tensor(shape, q.dtype,
             IF BothAnnotated(q, v) THEN Append(Front(q.axes), v.axes[4]) ELSE <<>>,
             shape, Replicate)

-----------------------------------------------------------------------------

Accepts(kind, attr, ts) ==
  /\ kind \in NeedsFloat => ts[1].dtype # "int"
  /\ CASE kind \in BinaryKinds -> BinaryAccepts(ts[1], ts[2])
       [] kind \in {"activation", "exp"} -> ts[1].placement # Partial
       [] kind \in {"softmax", "reduce_max"} -> Rank(ts[1]) >= 1 /\ RowsWhole(ts[1])
       [] kind = "reduce_sum"  -> Rank(ts[1]) >= 1
       [] kind = "rms_norm"    -> RmsNormAccepts(ts)
       [] kind = "broadcast"   -> BroadcastAccepts(ts[1], attr[1], attr[2])
       [] kind \in {"copy", "transfer"} -> TRUE
       [] kind = "reshape"     -> Numel(attr) = Numel(ts[1].shape) /\ Whole(ts)
       [] kind = "linear"      -> LinearAccepts(ts)
       [] kind = "split_heads" -> SplitAccepts(ts[1], attr[1])
       [] kind = "merge_heads" -> MergeAccepts(ts[1])
       [] kind = "rope"        -> RopeAccepts(ts[1], ts[2], ts[3])
       [] kind = "kv_update"   -> KvUpdateAccepts(ts[1], ts[2], ts[3])
       [] kind = "gqa_qk"      -> GqaAccepts(ts[1], ts[2], 4)
       [] kind = "gqa_sv"      -> GqaAccepts(ts[1], ts[2], 2)
       [] kind = "attention"   -> AttentionAccepts(ts)
       [] kind = "all_reduce"  -> ts[1].placement = Partial

Result(kind, attr, ts) ==
  CASE kind \in BinaryKinds -> BinaryResult(ts[1], ts[2])
    [] kind \in {"activation", "exp", "softmax", "rms_norm", "copy", "rope"} ->
         Activation(ts[1])
    [] kind = "reduce_max"  -> ReducedResult(ts[1], ts[1].placement)
    [] kind = "reduce_sum"  -> ReducedResult(ts[1], SumPlacement(ts[1]))
    [] kind = "broadcast"   -> BroadcastResult(ts[1], attr[1], attr[2])
    [] kind = "reshape"     -> Imported(attr, ts[1].dtype)
    [] kind = "linear"      -> LinearResult(ts[1], ts[2])
    [] kind = "split_heads" -> SplitResult(ts[1], attr[1])
    [] kind = "merge_heads" -> MergeResult(ts[1])
    [] kind \in {"kv_update", "transfer"} -> ts[1]
    [] kind = "gqa_qk"      -> GqaResult(ts[1], ts[2], 2)
    [] kind = "gqa_sv"      -> GqaResult(ts[1], ts[2], 4)
    [] kind = "attention"   -> AttentionResult(ts[1], ts[3])
    [] kind = "all_reduce"  -> [ts[1] EXCEPT !.placement = Replicate]

-----------------------------------------------------------------------------
(* Where device operations run (ir/device/domain.py). *)

(* Operands that only say where to write may be in any domain. *)
IsIndex(op, i) == op.kind = "kv_update" /\ i = 3

UnitDomain(unit) == IF unit = "pim" THEN "pim" ELSE "pnm"

(* operand_domain *)
OperandDomain(unit, ts) == IF unit = "device" THEN ts[1].domain ELSE UnitDomain(unit)

DomainsFit(op, ts) ==
  CASE op.unit = "aloi" -> TRUE
    [] op.kind = "transfer" -> ts[1].domain \notin {"none", op.attr[1]}
    [] op.unit # "aloi" /\ op.kind # "transfer" ->
         \A i \in DOMAIN ts :
           /\ ts[i].domain # "none"
           /\ IsIndex(op, i) \/ ts[i].domain = OperandDomain(op.unit, ts)

ResultDomain(op, ts) ==
  CASE op.unit = "aloi" -> "none"
    [] op.kind = "transfer" -> op.attr[1]
    [] op.unit # "aloi" /\ op.kind # "transfer" -> OperandDomain(op.unit, ts)

Checked(t) == IF ValidType(t) THEN t ELSE NoType

(* Operation.__post_init__: the type of the result, or an error. *)
Infer(op, ts) ==
  IF NoType \notin Range(ts) /\ DomainsFit(op, ts) /\ Accepts(op.kind, op.attr, ts)
  THEN Checked([Result(op.kind, op.attr, ts) EXCEPT !.domain = ResultDomain(op, ts)])
  ELSE NoType
=============================================================================
