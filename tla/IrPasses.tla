------------------------------ MODULE IrPasses ------------------------------
(***************************************************************************)
(* The IR passes and the manager that runs them (ir/pass_manager.py,       *)
(* ir/passes/, legalize/lower.py), on one function.                        *)
(*                                                                         *)
(* A pass walks the operations of the function in order and rebuilds each  *)
(* on the values that stand for its operands now; building an operation    *)
(* infers its type anew and may refuse it.  What the pass emits in its     *)
(* place may be several operations, the last of which stands for the       *)
(* original.  The manager verifies what a pass returns, records it, and    *)
(* hands it to the next pass.                                              *)
(*                                                                         *)
(* source is one compilation: [function, names, annotations, plan, sizes,  *)
(* device, passes, data], where names are the arguments' names and data    *)
(* their elements, which only the properties look at.                      *)
(***************************************************************************)
EXTENDS DeviceLowering, ParallelPlans, TensorMeaning

CONSTANT Sources

MaxRounds == 8      \* DecomposeOps

IsOperation(op) ==
  /\ op = Op(op.unit, op.kind, op.attr, op.operands)
  /\ op.kind \in Kinds
  /\ op.operands \in Seq(Nat) /\ Len(op.operands) \in Arity(op.kind)

(* What the frontend hands over: every result has the type its operation    *)
(* infers.  That the operations are in order is left to Function.verify.    *)
FromFrontend(f) ==
  /\ f = [arguments |-> f.arguments, types |-> f.types, ops |-> f.ops, returns |-> f.returns]
  /\ f.arguments \in Nat /\ f.returns \in Seq(Nat)
  /\ f.ops \in Seq(Range(f.ops))
  /\ f.types \in Seq(TensorType)
  /\ \A v \in DOMAIN f.types : f.types[v].dtype # "none" /\ ValidType(f.types[v])
  /\ Len(f.types) = f.arguments + Len(f.ops)
  /\ \A k \in DOMAIN f.ops :
       /\ IsOperation(f.ops[k])
       /\ f.types[f.arguments + k] = Infers(f.types, f.ops[k])

ASSUME SourcesAssumption ==
  \A s \in Sources : FromFrontend(s.function) /\ s.passes \in Seq(STRING) \ {<<>>}

VARIABLES
  source,     \* the compilation
  function,   \* what the current pass reads
  at,         \* the current pass
  mode,       \* where in the pass
  next,       \* the operation the rebuild is at
  round,      \* rounds of decomposition left behind
  renamed,    \* value of function -> value of built, 0 while it has none
  built,      \* the body rebuilt so far
  moved,      \* LowerToDevice's copies: <<value, domain>> -> value
  stages,     \* the functions the manager recorded, the imported one first
  status      \* "running", "done", "refused" (an exception the code raises
              \* on purpose) or "crashed" (a KeyError)

vars == <<source, function, at, mode, next, round, renamed, built, moved, stages, status>>

Pass == source.passes[at]
Rewriting(pass) == status = "running" /\ Pass = pass

ArgumentTypes(f) == SubSeq(f.types, 1, f.arguments)
ValuesOf(f) == 1..(f.arguments + Len(f.ops))

(* Function.verify *)
Verified(f) ==
  /\ \A k \in DOMAIN f.ops : Range(f.ops[k].operands) \subseteq 1..(f.arguments + k - 1)
  /\ Range(f.returns) \subseteq ValuesOf(f)

Init ==
  /\ source \in Sources
  /\ function = source.function
  /\ at = 1 /\ mode = "import" /\ next = 1 /\ round = 0
  /\ renamed = <<>> /\ built = [types |-> <<>>, ops |-> <<>>] /\ moved = <<>>
  /\ stages = <<>> /\ status = "running"

Stop(how) ==
  /\ status' = how
  /\ UNCHANGED <<source, function, at, mode, next, round, renamed, built, moved, stages>>

-----------------------------------------------------------------------------
(* The manager.  Record is the end of PassManager.run's loop body. *)

(* The frontend's output is verified before the first pass. *)
Import ==
  /\ status = "running" /\ mode = "import"
  /\ Verified(function)
  /\ mode' = "between"
  /\ stages' = <<function>>
  /\ UNCHANGED <<source, function, at, next, round, renamed, built, moved, status>>

RefuseImport ==
  /\ status = "running" /\ mode = "import"
  /\ ~Verified(function)
  /\ Stop("refused")

Returns(f) ==
  /\ Verified(f)
  /\ function' = f
  /\ stages' = Append(stages, f)
  /\ mode' = "between"
  /\ at' = at + 1
  /\ status' = IF at = Len(source.passes) THEN "done" ELSE "running"
  /\ UNCHANGED <<source, next, round, renamed, built, moved>>

-----------------------------------------------------------------------------
(* rebuild_function *)

(* Begin: the arguments are replaced by values of these types. *)
Rebuild(types, as) ==
  /\ mode' = as
  /\ next' = 1
  /\ renamed' = [v \in ValuesOf(function) |-> IF v <= function.arguments THEN v ELSE 0]
  /\ built' = [types |-> types, ops |-> <<>>]
  /\ moved' = <<>>
  /\ UNCHANGED <<source, function, at, round, stages, status>>

Current == function.ops[next]
Defines == function.arguments + next
MoreOps == next <= Len(function.ops)

HasOperands == \A v \in Range(Current.operands) : renamed[v] # 0

(* op.with_operands(new operands) *)
Renewed == [Current EXCEPT !.operands = [i \in DOMAIN @ |-> renamed[@[i]]]]

(* A rebuild whose first emitted operation stands for the original. *)
EmitStandingForFirst(ops, copies) ==
  /\ HasOperands
  /\ Infers(built.types, Renewed) # NoType
  /\ ExtendedBy(built, ops) # Broken
  /\ built' = ExtendedBy(built, ops)
  /\ renamed' = [renamed EXCEPT ![Defines] = Len(built.types) + 1]
  /\ moved' = copies
  /\ next' = next + 1
  /\ UNCHANGED <<source, function, at, mode, round, stages, status>>

(* The operation is replaced by ops. *)
Emit(ops, copies) ==
  /\ HasOperands
  /\ Infers(built.types, Renewed) # NoType
  /\ ExtendedBy(built, ops) # Broken
  /\ built' = ExtendedBy(built, ops)
  /\ renamed' = [renamed EXCEPT ![Defines] = Len(built.types) + Len(ops)]
  /\ moved' = copies
  /\ next' = next + 1
  /\ UNCHANGED <<source, function, at, mode, round, stages, status>>

RefuseOp(ops) ==
  /\ HasOperands
  /\ Infers(built.types, Renewed) = NoType \/ ExtendedBy(built, ops) = Broken
  /\ Stop("refused")

Rebuilt ==
  [arguments |-> function.arguments, types |-> built.types, ops |-> built.ops,
   returns |-> [k \in DOMAIN function.returns |-> renamed[function.returns[k]]]]

-----------------------------------------------------------------------------
(* AnnotateRolesAndAxes *)

Annotation(a) == source.annotations[source.names[a]]

Annotate(a) ==
  [function.types[a] EXCEPT !.role = Annotation(a).role, !.axes = Annotation(a).axes]

AnnotationsFit ==
  /\ DOMAIN source.annotations = Range(source.names)
  /\ \A a \in 1..function.arguments : ValidType(Annotate(a))

BeginAnnotate ==
  /\ Rewriting("annotate") /\ mode = "between"
  /\ AnnotationsFit
  /\ Rebuild([a \in 1..function.arguments |-> Annotate(a)], "rebuild")

RefuseAnnotations ==
  /\ Rewriting("annotate") /\ mode = "between"
  /\ ~AnnotationsFit
  /\ Stop("refused")

AnnotateOp ==
  /\ Rewriting("annotate") /\ mode = "rebuild" /\ MoreOps
  /\ Emit(<<Renewed>>, moved) \/ RefuseOp(<<Renewed>>)

(* An operation whose result is left without axes is reported. *)
LosesAxes == \E k \in DOMAIN built.ops :
  Len(built.types[function.arguments + k].axes) # Rank(built.types[function.arguments + k])

EndAnnotate ==
  /\ Rewriting("annotate") /\ mode = "rebuild" /\ ~MoreOps
  /\ \/ LosesAxes /\ Stop("refused")
     \/ ~LosesAxes /\ Returns(Rebuilt)

-----------------------------------------------------------------------------
(* ApplyTensorParallel *)

NameOf(a) == source.names[a]
RankShare(a) == Sharded(source.plan, NameOf(a), function.types[a])

PlanFits ==
  /\ ~source.plan.refused
  /\ \A a \in 1..function.arguments : Len(function.types[a].axes) = Rank(function.types[a])
  /\ DOMAIN source.plan.exceptions \subseteq Range(source.names)
  /\ \A axis \in source.plan.splits :
       \E a \in 1..function.arguments :
         \E d \in DOMAIN function.types[a].axes : function.types[a].axes[d][1] = axis
  /\ \A a \in 1..function.arguments :
       /\ CanShard(source.plan, source.sizes, NameOf(a), function.types[a])
       /\ ValidType(RankShare(a))

BeginShard ==
  /\ Rewriting("shard") /\ mode = "between"
  /\ PlanFits
  /\ Rebuild([a \in 1..function.arguments |-> RankShare(a)], "rebuild")

RefusePlan ==
  /\ Rewriting("shard") /\ mode = "between"
  /\ ~PlanFits
  /\ Stop("refused")

(* _insert_all_reduce *)
WithAllReduce(op) ==
  IF Infers(built.types, op).placement = Partial
  THEN <<op, Op("aloi", "all_reduce", <<>>, <<Len(built.types) + 1>>)>>
  ELSE <<op>>

ShardOp ==
  /\ Rewriting("shard") /\ mode = "rebuild" /\ MoreOps
  /\ Emit(WithAllReduce(Renewed), moved) \/ RefuseOp(<<Renewed>>)

EndShard ==
  /\ Rewriting("shard") /\ mode = "rebuild" /\ ~MoreOps
  /\ Returns(Rebuilt)

-----------------------------------------------------------------------------
(* DecomposeOps: rounds, each of which rebuilds the whole function.  Run as  *)
(* a pass it decomposes everything; LowerToDevice runs it first, for the ops *)
(* the target has no unit for.                                               *)

Wanted(types, op) ==
  /\ Decomposable(op)
  /\ Pass = "lower" => ~HasDirect(source.device, op, OperandTypes(types, op))

Remaining == \E k \in DOMAIN function.ops : Wanted(function.types, function.ops[k])

(* _require_semantic *)
IsSemantic ==
  /\ \A a \in 1..function.arguments : function.types[a].domain = "none"
  /\ \A k \in DOMAIN function.ops : function.ops[k].unit = "aloi"

BeginRounds ==
  /\ Rewriting("decompose") \/ (Rewriting("lower") /\ IsSemantic)
  /\ mode = "between"
  /\ mode' = "rounds" /\ round' = 0
  /\ UNCHANGED <<source, function, at, next, renamed, built, moved, stages, status>>

RefuseDevice ==
  /\ Rewriting("lower") /\ mode = "between" /\ ~IsSemantic
  /\ Stop("refused")

(* The error past the last round is left out: no decomposition holds a       *)
(* decomposable op, and a model that reached the limit would deadlock there. *)
NextRound ==
  /\ status = "running" /\ mode = "rounds" /\ Remaining
  /\ round < MaxRounds
  /\ Rebuild(ArgumentTypes(function), "decomposing")

Parts(op) == IF Wanted(built.types, op) THEN Decomposed(built.types, op) ELSE <<op>>

DecomposeOp ==
  /\ status = "running" /\ mode = "decomposing" /\ MoreOps
  /\ Emit(Parts(Renewed), moved) \/ RefuseOp(Parts(Renewed))

EndRound ==
  /\ status = "running" /\ mode = "decomposing" /\ ~MoreOps
  /\ function' = Rebuilt
  /\ mode' = "rounds" /\ round' = round + 1
  /\ UNCHANGED <<source, at, next, renamed, built, moved, stages, status>>

EndDecompose ==
  /\ Rewriting("decompose") /\ mode = "rounds" /\ ~Remaining
  /\ Returns(function)

-----------------------------------------------------------------------------
(* LowerToDevice, once what has no unit is decomposed. *)

BeginLower ==
  /\ Rewriting("lower") /\ mode = "rounds" /\ ~Remaining
  /\ Rebuild([a \in 1..function.arguments |-> AtHome(function.types[a])], "rebuild")

LowerOp ==
  /\ Rewriting("lower") /\ mode = "rebuild" /\ MoreOps
  /\ \E lowerings \in {Lowerings(source.device, built, Renewed, moved)} :
       \/ /\ lowerings # {}
          /\ \E ops \in {Cheapest(built, lowerings)} :
               Emit(ops, Recorded(moved, ops, Len(built.types)))
       \/ /\ lowerings = {}
          /\ Stop("refused")

EndLower ==
  /\ Rewriting("lower") /\ mode = "rebuild" /\ ~MoreOps
  /\ mode' = "placing"
  /\ function' = Rebuilt
  /\ UNCHANGED <<source, at, next, round, renamed, built, moved, stages, status>>

(* A moved result that keeps the type of the value it is a copy of. *)
WithResultsOfOldType(f, placed) ==
  LET copied == [k \in DOMAIN placed.transfers |-> f.types[placed.transfers[k].operands[1]]]
  IN  [f EXCEPT !.types = @ \o copied, !.ops = @ \o placed.transfers,
                !.returns = placed.operands]

WithResults(f, placed) ==
  LET body == ExtendedBy([types |-> f.types, ops |-> f.ops], placed.transfers)
  IN  [f EXCEPT !.types = body.types, !.ops = body.ops, !.returns = placed.operands]

CanMove(transfers) ==
  /\ ExtendedBy([types |-> function.types, ops |-> function.ops], transfers) # Broken
  /\ \A k \in DOMAIN transfers :
       Supports(source.device, transfers[k], function.types[transfers[k].operands[1]])

PlaceResults ==
  /\ Rewriting("lower") /\ mode = "placing"
  /\ \E placed \in {PlacedResults(function, moved)} :
       \/ placed.transfers = <<>> /\ Returns(function)
       \/ /\ placed.transfers # <<>> /\ CanMove(placed.transfers)
          /\ Returns(WithResults(function, placed))
       \/ ~CanMove(placed.transfers) /\ Stop("refused")

-----------------------------------------------------------------------------
(* FuseAttention.  A chain is [qk, softmax, sv], the positions of its three  *)
(* operations.  No operation reads another result of a chain than the last.  *)

ResultOf(k) == function.arguments + k
Users(value) == {k \in DOMAIN function.ops : value \in Range(function.ops[k].operands)}

OrderPreserving(shape) == shape[2] = 1 \/ shape[3] = 1
SwapMiddle(shape) == <<shape[1], shape[3], shape[2], shape[4]>>

ReadOnlyBy(k, kind) ==
  /\ Cardinality(Users(ResultOf(k))) = 1
  /\ \A u \in Users(ResultOf(k)) : function.ops[u].kind = kind
  /\ ResultOf(k) \notin Range(function.returns)

UserOf(k) == CHOOSE u \in Users(ResultOf(k)) : TRUE

ChainAt(k) == [qk |-> k, softmax |-> UserOf(k), sv |-> UserOf(UserOf(k))]

ChainInputs(chain) ==
  Append(function.ops[chain.qk].operands, function.ops[chain.sv].operands[2])

(* _chain *)
Fusable(k) ==
  /\ function.ops[k].kind = "gqa_qk"
  /\ ReadOnlyBy(k, "softmax")
  /\ ReadOnlyBy(UserOf(k), "gqa_sv")
  /\ function.ops[ChainAt(k).sv].operands[1] = ResultOf(ChainAt(k).softmax)
  /\ \A v \in Range(ChainInputs(ChainAt(k))) \cup {ResultOf(ChainAt(k).sv)} :
       function.types[v].placement = Replicate
  /\ \A v \in Range(ChainInputs(ChainAt(k))) : OrderPreserving(function.types[v].shape)

FusableOps == {k \in DOMAIN function.ops : Fusable(k)}
Consumed == UNION {{ChainAt(k).softmax, ChainAt(k).sv} : k \in FusableOps}

BeginFuse ==
  /\ Rewriting("fuse") /\ mode = "between"
  /\ FusableOps # {}
  /\ Rebuild(ArgumentTypes(function), "rebuild")

NothingToFuse ==
  /\ Rewriting("fuse") /\ mode = "between"
  /\ FusableOps = {}
  /\ Returns(function)

Reshape(shape, operand) == Op("aloi", "reshape", shape, <<operand>>)

(* q, k_cache and v_cache reshaped to batch, head, token order, and the    *)
(* attention over them.                                                    *)
HeadsFirst(chain, inputs) ==
  LET last == Len(built.types)
      Swapped(i) == Reshape(SwapMiddle(function.types[ChainInputs(chain)[i]].shape), inputs[i])
  IN  <<Swapped(1), Swapped(2), Swapped(3),
        Op("aloi", "attention", function.ops[chain.qk].attr, <<last + 1, last + 2, last + 3>>)>>

(* A last reshape that swaps the shape of the gqa_sv result, which is      *)
(* token-first already.                                                    *)
FusedOpsSwappingOldResult(chain, inputs) ==
  Append(HeadsFirst(chain, inputs),
         Reshape(SwapMiddle(function.types[ResultOf(chain.sv)].shape), Len(built.types) + 4))

(* The attention result reshaped back to token-first order, if there is    *)
(* one: AttentionOp may refuse its operands.                               *)
FusedOps(chain, inputs) ==
  LET fused == ExtendedBy(built, HeadsFirst(chain, inputs))
  IN  IF fused = Broken THEN HeadsFirst(chain, inputs)
      ELSE Append(HeadsFirst(chain, inputs),
                  Reshape(SwapMiddle(fused.types[Len(fused.types)].shape), Len(fused.types)))

FusionOperands(chain) == [i \in 1..3 |-> renamed[ChainInputs(chain)[i]]]

FuseInto(chain, ops) ==
  /\ ExtendedBy(built, ops) # Broken
  /\ built' = ExtendedBy(built, ops)
  /\ renamed' = [renamed EXCEPT ![ResultOf(chain.sv)] = Len(built.types) + Len(ops)]
  /\ next' = next + 1
  /\ UNCHANGED <<source, function, at, mode, round, moved, stages, status>>

(* AttentionOp refuses a chain whose caches differ in their heads. *)
FuseChain ==
  /\ Rewriting("fuse") /\ mode = "rebuild" /\ MoreOps
  /\ next \in FusableOps
  /\ 0 \notin Range(FusionOperands(ChainAt(next)))
  /\ \E ops \in {FusedOps(ChainAt(next), FusionOperands(ChainAt(next)))} :
       \/ FuseInto(ChainAt(next), ops)
       \/ ExtendedBy(built, ops) = Broken /\ Stop("refused")

(* new_values[sv.v_cache] is read at the gqa_qk. *)
MissFusionOperand ==
  /\ Rewriting("fuse") /\ mode = "rebuild" /\ MoreOps
  /\ next \in FusableOps
  /\ 0 \in Range(FusionOperands(ChainAt(next)))
  /\ Stop("crashed")

SkipConsumed ==
  /\ Rewriting("fuse") /\ mode = "rebuild" /\ MoreOps
  /\ next \in Consumed
  /\ next' = next + 1
  /\ UNCHANGED <<source, function, at, mode, round, renamed, built, moved, stages, status>>

(* Nothing is refused here: a fused result has the shape and element type of *)
(* the gqa_sv it replaces and fewer axes, which no rule asks for; were an    *)
(* operation refused, the model would deadlock.                              *)
KeepOp ==
  /\ Rewriting("fuse") /\ mode = "rebuild" /\ MoreOps
  /\ next \notin FusableOps \cup Consumed
  /\ Emit(<<Renewed>>, moved)

EndFuse ==
  /\ Rewriting("fuse") /\ mode = "rebuild" /\ ~MoreOps
  /\ Returns(Rebuilt)

-----------------------------------------------------------------------------

Settled == status # "running" /\ UNCHANGED vars

Next ==
  \/ Import \/ RefuseImport
  \/ BeginAnnotate \/ RefuseAnnotations \/ AnnotateOp \/ EndAnnotate
  \/ BeginShard \/ RefusePlan \/ ShardOp \/ EndShard
  \/ BeginRounds \/ RefuseDevice \/ NextRound
  \/ DecomposeOp \/ EndRound \/ EndDecompose
  \/ BeginLower \/ LowerOp \/ EndLower \/ PlaceResults
  \/ BeginFuse \/ NothingToFuse \/ FuseChain \/ MissFusionOperand
  \/ SkipConsumed \/ KeepOp \/ EndFuse
  \/ Settled

Spec == Init /\ [][Next]_vars

-----------------------------------------------------------------------------
(* Properties. *)

BodyOK(arguments, body) ==
  /\ Len(body.types) = arguments + Len(body.ops)
  /\ NoType \notin Range(body.types)

(* The variables are of their types, and every function the manager hands   *)
(* on is in SSA form, each result having the type its operation infers from *)
(* the types of its operands (ir/pass_manager.py, PassManager.run).         *)
IrTypeOK ==
  /\ at \in 1..(Len(source.passes) + 1)
  /\ round \in 0..MaxRounds
  /\ mode \in {"import", "between", "rounds", "decomposing", "rebuild", "placing"}
  /\ status \in {"running", "done", "refused", "crashed"}
  /\ mode \in {"rebuild", "decomposing"} =>
       /\ next \in 1..(Len(function.ops) + 1)
       /\ BodyOK(function.arguments, built)
       /\ \A v \in DOMAIN renamed : renamed[v] \in 0..Len(built.types)
  /\ \A s \in DOMAIN stages :
       /\ Verified(stages[s]) /\ BodyOK(stages[s].arguments, stages[s])
       /\ \A k \in DOMAIN stages[s].ops :
            stages[s].types[stages[s].arguments + k] = Infers(stages[s].types, stages[s].ops[k])

JustRecorded == stages # <<>> /\ (status = "done" \/ (mode = "between" /\ status = "running"))

Ranks == source.plan.tp

(* However a function is annotated, sharded, decomposed, lowered or fused,  *)
(* every rank returns its share of what the imported function returns, in   *)
(* tensors of the same shape, before sharding, and element type.            *)
KeepsData(f, expected) ==
  \E returned \in {Returned(f, Ranks, source.data)} :
    \A k \in DOMAIN f.returns :
      returned[k] = Shares(f.types[f.returns[k]], Ranks, expected[k][1])

ReturnTypes(f) ==
  [k \in DOMAIN f.returns |-> LET t == f.types[f.returns[k]] IN <<t.whole, t.dtype>>]

PassesKeepMeaning ==
  JustRecorded => /\ ReturnTypes(Last(stages)) = ReturnTypes(stages[1])
                  /\ KeepsData(Last(stages), Returned(stages[1], 1, source.data))

IsLowered(f) == \E v \in 1..f.arguments : f.types[v].domain # "none"

(* A value is moved to a domain for one operation only; later ones read the *)
(* copy (the comment on _Moved in legalize/lower.py).                       *)
ValuesMoveOnce ==
  mode = "rebuild" /\ Pass = "lower" =>
    \A i, j \in DOMAIN built.ops :
      i < j /\ built.ops[i].kind = "transfer" /\ built.ops[i] = built.ops[j] =>
        \A k \in i..j : built.ops[k].kind = "transfer"

CanTransfer(op) ==
  /\ <<"device", "transfer">> \in source.device.ops
  /\ \A v \in Range(op.operands) : function.types[v].dtype \in source.device.dtypes

(* The trial that decides against decomposing an operation is kept: an      *)
(* operation found to have a device op of its own is lowered to one, unless *)
(* an operand cannot be moved (_has_direct_implementation and _lower_op).   *)
DirectOpsAreLowered ==
  status = "refused" /\ mode = "rebuild" /\ Pass = "lower" =>
    \/ ~HasDirect(source.device, Current, OperandTypes(function.types, Current))
    \/ ~CanTransfer(Current)

(* "Results are moved back to the domain of their role, so the output of    *)
(* one lowered decoder layer is where the next layer expects its input."    *)
ResultsAtHome ==
  JustRecorded /\ IsLowered(Last(stages)) =>
    \A v \in Range(Last(stages).returns) :
      Last(stages).types[v].domain = HomeDomain(Last(stages).types[v].role)

(* "Chains that cannot be converted stay as they are" (FuseAttention).      *)
FusionNeverFails == status # "crashed"
=============================================================================
