-------------------------- MODULE CompiledArtifact --------------------------
(***************************************************************************)
(* A graph compiled and run (pipeline/artifact.py): baseline_mapping plans *)
(* the storage, lower_target and emit_program produce the executable, and  *)
(* the functional simulator runs it on the logical tensors the caller      *)
(* gives.  The mapper and the simulator are the components specified in    *)
(* BaselineMapper and CentSimulator.                                       *)
(***************************************************************************)
EXTENDS TargetEmission, CentSimulator

CONSTANTS
  MappingRequests,    \* the graphs to compile
  Tensors(_),         \* host tensors for a graph: sequences of [name, values]
  None, Garbage, Unnamed

VARIABLES
  request, plan, mapping, verdict, step, live, contents,  \* MappingVerifier
  owners, sizes, expirations, free,                       \* BaselineMapper
  artifact                                                \* [status, code, inputs, outputs]

mapperVars == <<request, plan, mapping, verdict, step, live, contents,
                owners, sizes, expirations, free>>
artifactVars == <<vars, mapperVars, artifact>>

NoPlans(r) == {}
Mapper == INSTANCE BaselineMapper WITH phase <- mapping, Plans <- NoPlans

graph == request.graph

NotCompiled == [status |-> "none"]

ArtifactInit ==
  /\ Init
  /\ Mapper!MapperInit
  /\ artifact = NotCompiled

PlanStorage == Mapper!MapperNext /\ UNCHANGED <<vars, artifact>>

Checked(emitted) ==
  [status |-> IF ValidExecutable([program |-> FlattenSeq(emitted.code),
                                  inputs |-> emitted.inputs, outputs |-> emitted.outputs])
              THEN "ready" ELSE "invalid"] @@ emitted

(* lower_target, emit_program and the checks of CentProgram and            *)
(* CentExecutable.  The capacity is checked again with the workspace.      *)
Compile ==
  /\ mapping = "done"
  /\ artifact = NotCompiled
  /\ artifact' =
       IF ~StorageFits(request, plan) THEN [status |-> "too_large"]
       ELSE Checked(EmitProgram(request, plan))
  /\ UNCHANGED <<vars, mapperVars>>

LogicalTensors(given) ==
  /\ \A j, k \in DOMAIN given : given[j].name = given[k].name => j = k
  /\ {given[k].name : k \in DOMAIN given} = SeqRange(graph.inputs)
  /\ \A k \in DOMAIN given : Len(given[k].values) = graph.numel[given[k].name]

TensorNamed(given, name) ==
  given[CHOOSE k \in DOMAIN given : given[k].name = name].values

(* bind: the inputs in manifest order, padded with zeros to whole slots.   *)
Bind(given) ==
  [k \in DOMAIN graph.inputs |->
     [name |-> graph.inputs[k], values |-> Padded(TensorNamed(given, graph.inputs[k]))]]

Run(given) ==
  /\ artifact.status = "ready"
  /\ LogicalTensors(given)
  /\ ExecuteFunctionally([program |-> FlattenSeq(artifact.code), inputs |-> artifact.inputs,
                          outputs |-> artifact.outputs, values |-> Bind(given), traced |-> FALSE])
  /\ UNCHANGED <<mapperVars, artifact>>

(* execute: padding follows the tensor and is cut off by element count. *)
LogicalOutputs ==
  [k \in DOMAIN outputs |-> SubSeq(outputs[k], 1, graph.numel[graph.outputs[k]])]

ArtifactNext ==
  \/ PlanStorage
  \/ Compile
  \/ \E given \in Tensors(graph) : Run(given)
  \/ Simulator /\ UNCHANGED <<mapperVars, artifact>>

ArtifactSpec == ArtifactInit /\ [][ArtifactNext]_artifactVars

-----------------------------------------------------------------------------
(* What the operations of a graph compute, on tensors in row-major order.  *)

Dot(width, left, right) ==
  RunningSum([i \in 1..width |-> Multiply(left[i], right[i])])

Part(tensor, index, width) == SubSeq(tensor, index * width + 1, (index + 1) * width)

LinearMeaning(dims, x, w, outputWidth) ==
  LET width == LastDim(dims)
  IN  Each(DimsProduct(dims) \div width, LAMBDA batch :
        [o \in 1..outputWidth |-> Dot(width, Part(x, batch, width), Part(w, o - 1, width))])

SoftmaxMeaning(row) == [i \in DOMAIN row |-> Service("SOFTMAX", row, i)]

RmsNormMeaning(dims, x, weights) ==
  LET width == LastDim(dims)
      normal(row) ==
        LET scale == Service("RMS_SCALE", <<Dot(width, row, row)>>, 1)
        IN  [i \in 1..width |-> Multiply(Multiply(scale, row[i]), weights[i])]
  IN  Each(DimsProduct(dims) \div width, LAMBDA batch : normal(Part(x, batch, width)))

(* One output row per batch, query head and query; a group of consecutive  *)
(* query heads attends to the same key/value head.                         *)
AttentionMeaning(op, q, k, v, masks) ==
  LET qd == graph.shape[op.inputs[1]]
      kd == graph.shape[op.inputs[2]]
      valueWidth == LastDim(graph.shape[op.inputs[3]])
      row(batch, head, query) ==
        LET index == (batch * qd[2] + head) * qd[3] + query
            kvHead == batch * kd[2] + head \div (qd[2] \div kd[2])
            keys == Part(k, kvHead, kd[3] * kd[4])
            values == Part(v, kvHead, kd[3] * valueWidth)
            mask == IF Len(op.inputs) < 4 THEN <<>>
                    ELSE Part(masks, IF Len(graph.shape[op.inputs[4]]) = 2
                                     THEN query ELSE index, kd[3])
            dot(key) == Service("SCALE", <<Dot(qd[4], Part(q, index, qd[4]),
                                               Part(keys, key - 1, qd[4]))>>, 1)
            score(key) ==
              IF op.causal /\ key - 1 > op.offset + query THEN Masked
              ELSE IF mask = <<>> THEN dot(key)
              ELSE IF mask[key] = Masked THEN Masked ELSE Add(dot(key), mask[key])
            weight == SoftmaxMeaning([key \in 1..kd[3] |-> score(key)])
        IN  [c \in 1..valueWidth |->
               RunningSum([key \in 1..kd[3] |->
                             Multiply(weight[key], values[(key - 1) * valueWidth + c])])]
  IN  Each(qd[1], LAMBDA batch : Each(qd[2], LAMBDA head : Each(qd[3], LAMBDA query :
        row(batch, head, query))))

Meaning(op, env) ==
  LET arg(i) == env[op.inputs[i]]
      dims == graph.shape[op.inputs[1]]
  IN  CASE op.kind = "add"      -> [i \in DOMAIN arg(1) |-> Add(arg(1)[i], arg(2)[i])]
        [] op.kind = "multiply" -> [i \in DOMAIN arg(1) |-> Multiply(arg(1)[i], arg(2)[i])]
        [] op.kind \in RenamingKinds -> arg(1)
        [] op.kind = "activation" ->
             [i \in DOMAIN arg(1) |-> Service("ACTIVATION", <<arg(1)[i]>>, 1)]
        [] op.kind = "softmax" ->
             Each(DimsProduct(dims) \div LastDim(dims), LAMBDA r :
               SoftmaxMeaning(Part(arg(1), r, LastDim(dims))))
        [] op.kind = "rope" ->
             [i \in DOMAIN arg(1) |-> Service("ROPE", arg(1) \o arg(2) \o arg(3), i)]
        [] op.kind = "linear" -> LinearMeaning(dims, arg(1), arg(2), LastDim(graph.shape[op.name]))
        [] op.kind = "rms_norm" -> RmsNormMeaning(dims, arg(1), arg(2))
        [] op.kind = "attention" ->
             AttentionMeaning(op, arg(1), arg(2), arg(3),
                              IF Len(op.inputs) = 4 THEN arg(4) ELSE <<>>)

(* The value of every name of the graph, for the tensors of this call. *)
Meanings ==
  FoldLeft(LAMBDA env, op : (op.name :> Meaning(op, env)) @@ env,
           [v \in SeqRange(graph.inputs) |-> SubSeq(ValuesFor(v), 1, graph.numel[v])],
           graph.operations)

-----------------------------------------------------------------------------

CompletedInstructions(k) == SumOf([j \in 1..k |-> Len(artifact.code[j])])

(* The first k operations of the schedule have run, and nothing else. *)
AfterOperation(k) ==
  phase = "run" /\ status # "committing" /\ pc = 1 + CompletedInstructions(k)

Allocated == AllocateStorage(request, plan)

(***************************************************************************)
(* A compiled graph computes what the graph means: the tensors execute     *)
(* returns are those of the definitions of the operations, whatever the    *)
(* tiling, the chunking, the reuse of storage and the padding.             *)
(***************************************************************************)
OutputsAreMeanings ==
  outcome = "result" =>
    LogicalOutputs = [k \in DOMAIN graph.outputs |-> Meanings[graph.outputs[k]]]

(***************************************************************************)
(* Between two operations every value that is still needed fills its whole *)
(* storage: its own elements, and zeros in the lanes after them, so that   *)
(* commands on whole slots never bring foreign lanes into a later result.  *)
(***************************************************************************)
NeededValuesInPlace ==
  \A k \in 0..Len(graph.operations) : AfterOperation(k) =>
    \A v \in SeqRange(graph.inputs) \cup {plan.schedule[j] : j \in 1..k} :
      Needed(graph, plan.schedule, v, k + 1) =>
        Contents(memory, Region(Allocated, plan, v)) = Padded(Meanings[v])

(***************************************************************************)
(* What allocate_storage accepts, the later stages accept: the executable  *)
(* passes every validator, and no run of it ends in a fault - no bank,     *)
(* register or slot is read before it was written, the banks whose product *)
(* nobody reads included.                                                  *)
(***************************************************************************)
AcceptedGraphsRun ==
  artifact.status # "invalid" /\ outcome \in {"none", "result"}

(***************************************************************************)
(* An operation writes the storage of its result and the workspace and     *)
(* leaves every other slot of the Shared Buffer as it was.                 *)
(***************************************************************************)
SharedCells(storage) ==
  Cells(ScalarSpan(Allocated.at[storage], Lanes(Allocated.size[storage])))

RunningOperation ==
  CHOOSE k \in 1..Len(graph.operations) :
    CompletedInstructions(k - 1) < pc /\ pc <= CompletedInstructions(k)

OperationsWriteTheirOwn ==
  [][phase = "run" /\ memory' # memory =>
       \A s \in DOMAIN Allocated.at \ {Workspace(plan),
                                       StorageOf(plan, plan.schedule[RunningOperation])} :
         \A l \in SharedCells(s) : memory'[l] = memory[l]]_artifactVars
=============================================================================
