---------------------------- MODULE TargetProgram ----------------------------
(***************************************************************************)
(* From an accepted plan to named commands and addresses: lower_target and *)
(* allocate_storage (pipeline/target.py), with the workspaces of the       *)
(* commands that need one (reference_codegen.py, attention_codegen.py).    *)
(*                                                                         *)
(* A graph has, besides the fields DeviceGraphs names, shape: value ->     *)
(* dimensions; an attention operation has causal and offset.  A command    *)
(* names storage objects; an allocation maps them to slots.                *)
(***************************************************************************)
EXTENDS CentInstructions, DeviceGraphs, SequencesExt

CONSTANT MaxAccumulateSlots   \* slots of one ACC

ASSUME EmissionAssumption == MaxAccumulateSlots \in Nat \ {0}

Lesser(a, b) == IF a <= b THEN a ELSE b
Greater(a, b) == IF a >= b THEN a ELSE b

CeilDiv(n, d) == (n + d - 1) \div d

(* for i in range(n), and range(0, total, limit) with the last one shorter. *)
Each(n, Emit(_)) == FlattenSeq([i \in 1..n |-> Emit(i - 1)])

EachChunk(total, limit, Emit(_, _)) ==
  Each(CeilDiv(total, limit),
       LAMBDA i : Emit(i * limit, Lesser(limit, total - i * limit)))

-----------------------------------------------------------------------------
(* Commands (lower_target). *)

LastDim(dims) == dims[Len(dims)]
DimsProduct(dims) == FoldLeft(LAMBDA a, b : a * b, 1, dims)

RowSlots == DramColumns \div BurstLength
TileLimit == Lesser(DramColumns, GlobalBufferColumns)
TileWidth(width) == Lesser(TileLimit, Lanes(SlotsFor(width)))

LinearCommand(inputWidth, outputWidth, batches, register) ==
  [kind |-> "linear", input_width |-> inputWidth, output_width |-> outputWidth,
   batch_count |-> batches, register |-> register, tile_width |-> TileWidth(inputWidth)]

RegisterOf(p, name) ==
  p.accumulators[CHOOSE i \in DOMAIN p.accumulators :
                   p.accumulators[i].operation = name].register

AttentionCommand(r, p, op) ==
  LET q == r.graph.shape[op.inputs[1]]
      k == r.graph.shape[op.inputs[2]]
      v == r.graph.shape[op.inputs[3]]
      masked == Len(op.inputs) = 4
  IN  [kind |-> "attention", batch_count |-> q[1], query_heads |-> q[2],
       kv_heads |-> k[2], query_count |-> q[3], key_count |-> k[3],
       query_width |-> q[4], value_width |-> v[4], has_mask |-> masked,
       shared_mask |-> masked /\ Len(r.graph.shape[op.inputs[4]]) = 2,
       causal |-> op.causal, offset |-> op.offset, register |-> RegisterOf(p, op.name)]

TargetCommand(kind, source, destination, slots) ==
  [kind |-> kind, source |-> source, destination |-> destination, slot_count |-> slots]

(* The operand and result storages of a reference command. *)
Placed(command, p, op) ==
  [command |-> command, destination |-> StorageOf(p, op.name),
   operands |-> [i \in DOMAIN op.inputs |-> StorageOf(p, op.inputs[i])]]

ReferenceCommand(r, p, op) ==
  LET left  == r.graph.shape[op.inputs[1]]
      width == LastDim(left)
  IN  CASE op.kind = "linear" ->
             LinearCommand(width, LastDim(r.graph.shape[op.name]),
                           DimsProduct(left) \div width, RegisterOf(p, op.name))
        [] op.kind = "rms_norm" ->
             [kind |-> "rms_norm", width |-> width, batch_count |-> DimsProduct(left) \div width]
        [] op.kind = "attention" -> AttentionCommand(r, p, op)
        [] op.kind = "activation" ->
             [kind |-> "activation", value_count |-> r.graph.numel[op.name]]
        [] op.kind = "softmax" ->
             [kind |-> "softmax", row_count |-> DimsProduct(left) \div width, row_width |-> width]
        [] op.kind = "rope" ->
             LET heads == left[Len(left) - 1]
                 table == r.graph.shape[op.inputs[3]]
             IN  [kind |-> "rope", token_count |-> DimsProduct(left) \div (heads * width),
                  head_count |-> heads, head_dim |-> width,
                  rotary_dim |-> table[2], position_count |-> table[1]]

(* The left operand is copied to a separate destination first. *)
MovesAndArithmetic(r, p, op) ==
  LET left == StorageOf(p, op.inputs[1])
      destination == StorageOf(p, op.name)
      count == Slots(r, op.name)
      copies == IF destination = left THEN <<>>
                ELSE <<TargetCommand("COPY", left, destination, count)>>
      kind == IF op.kind = "add" THEN "ACCUMULATE" ELSE "MULTIPLY"
  IN  IF op.kind \in RenamingKinds THEN copies
      ELSE Append(copies, TargetCommand(kind, StorageOf(p, op.inputs[2]), destination, count))

LowerOperation(r, p, op) ==
  IF op.kind \in ReferenceKinds THEN <<Placed(ReferenceCommand(r, p, op), p, op)>>
  ELSE MovesAndArithmetic(r, p, op)

-----------------------------------------------------------------------------
(* Workspaces and addresses. *)

(* _attention_workspace: sizes of query, key, transposed value, scores,    *)
(* result and matrix scratch, in this order from the start.                *)
AttentionSlots(c) ==
  <<SlotsFor(c.query_width), SlotsFor(c.key_count * c.query_width),
    SlotsFor(c.value_width * c.key_count), SlotsFor(c.key_count), SlotsFor(c.value_width),
    SlotsFor(2 * Greater(TileWidth(c.query_width), TileWidth(c.key_count))
             + Lanes(SlotsFor(NumBanks)))>>

SumOf(numbers) == FoldLeft(LAMBDA a, b : a + b, 0, numbers)

AttentionWorkspace(c, start) ==
  LET at == [i \in 1..6 |-> start + SumOf(SubSeq(AttentionSlots(c), 1, i - 1))]
  IN  [query |-> at[1], key |-> at[2], value |-> at[3], scores |-> at[4],
       result |-> at[5], matrix |-> at[6]]

WorkspaceSlots(c) ==
  CASE c.kind = "linear"    -> 2 * (c.tile_width \div BurstLength) + SlotsFor(NumBanks)
    [] c.kind = "rms_norm"  -> 2 * SlotsFor(c.width) + 1
    [] c.kind = "attention" -> SumOf(AttentionSlots(c))
    [] OTHER                -> 0

RequiredWorkspace(r, p) ==
  LET needs == [i \in DOMAIN p.schedule |->
                  LET op == Operation(r.graph, p.schedule[i])
                  IN  IF op.kind \in RevisitingKinds
                      THEN WorkspaceSlots(ReferenceCommand(r, p, op)) ELSE 0]
  IN  FoldLeft(LAMBDA a, b : Greater(a, b), 0, needs)

Workspace(p) == FreshStorage("__reference_workspace", StoragesOf(p))

Reserve(allocated, storage, slots) ==
  [at |-> (storage :> allocated.next) @@ allocated.at,
   size |-> (storage :> slots) @@ allocated.size,
   next |-> allocated.next + slots]

(* allocate_storage: one interval per storage name, then the workspace. *)
AllocateStorage(r, p) ==
  LET graphStorage ==
        FoldLeft(LAMBDA a, place :
                   IF place.storage \in DOMAIN a.at THEN a
                   ELSE Reserve(a, place.storage, Slots(r, place.value)),
                 [at |-> <<>>, size |-> <<>>, next |-> 0], p.placements)
      workspace == RequiredWorkspace(r, p)
  IN  IF workspace = 0 THEN graphStorage ELSE Reserve(graphStorage, Workspace(p), workspace)

StorageFitsWithoutWorkspace(r, p) ==
  AllocateStorage(r, p).next - RequiredWorkspace(r, p) <= SharedBufferSlots

StorageFits(r, p) == AllocateStorage(r, p).next <= SharedBufferSlots
=============================================================================
