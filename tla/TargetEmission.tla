--------------------------- MODULE TargetEmission ---------------------------
(***************************************************************************)
(* The instructions of a target program: _emit_commands and emit_program   *)
(* (pipeline/target.py), the tiled matrix product, the RMS norm            *)
(* (pipeline/reference_codegen.py) and attention                           *)
(* (pipeline/attention_codegen.py).  Temporaries that travel through DRAM  *)
(* use row 0 of channel 0.                                                 *)
(***************************************************************************)
EXTENDS TargetProgram

Scratch == <<0>>

WriteBank(bank, slot, size) ==
  [op |-> "WR_SBK", channel |-> 0, bank |-> bank, row |-> 0, column |-> 0,
   slot |-> slot, size |-> size]
ReadBank(bank, slot, size) == [WriteBank(bank, slot, size) EXCEPT !.op = "RD_SBK"]

WriteGlobalBuffer(slot, size) ==
  [op |-> "WR_GB", channels |-> Scratch, column |-> 0, slot |-> slot, size |-> size]
ElementwiseMultiply(size) ==
  [op |-> "EW_MUL", channels |-> Scratch, row |-> 0, column |-> 0, size |-> size]
MacAllBanks(register, size) ==
  [op |-> "MAC_ABK", channels |-> Scratch, row |-> 0, column |-> 0, size |-> size,
   source |-> "GLOBAL_BUFFER", register |-> register]
InitializeAccumulator(register) ==
  [op |-> "INIT_ACC", channels |-> Scratch, register |-> register, value |-> Zero]
ReadAccumulator(register, slot) ==
  [op |-> "READ_ACC", channels |-> Scratch, register |-> register, destination |-> slot]

Fill(slot, count) ==
  [op |-> "FILL", destination |-> slot, count |-> count, value |-> Zero]
CopySlice(source, offset, count, destination, padded) ==
  [op |-> "COPY", source |-> source, source_offset |-> offset, count |-> count,
   destination |-> destination, destination_count |-> padded]
StoreSlice(source, count, destination, offset, total) ==
  [op |-> "STORE_SLICE", source |-> source, source_offset |-> 0, count |-> count,
   destination |-> destination, destination_offset |-> offset, destination_count |-> total]
Service1(op, source, destination, count) ==
  [op |-> op, source |-> source, destination |-> destination, count |-> count]

-----------------------------------------------------------------------------
(* Moves and arithmetic, in chunks. *)

MultiplyChunkFirstGroupOnly(left, right, size) ==
  <<WriteBank(0, left, size), WriteBank(1, right, size),
    ElementwiseMultiply(size), ReadBank(2, left, size)>>

(* _emit_multiply_chunk: EW_MUL reads both operand banks of every group. *)
MultiplyChunk(left, right, size) ==
  Each(NumBanks \div BanksPerGroup,
       LAMBDA group : <<WriteBank(group * BanksPerGroup, left, size),
                        WriteBank(group * BanksPerGroup + 1, right, size)>>)
  \o <<ElementwiseMultiply(size), ReadBank(2, left, size)>>

CopyChunk(source, destination, size) ==
  <<WriteBank(0, source, size), ReadBank(0, destination, size)>>

AccumulateChunk(source, destination, size) ==
  <<[op |-> "ACC", source |-> source, destination |-> destination, size |-> size]>>

ChunkLimit(kind) == IF kind = "ACCUMULATE" THEN MaxAccumulateSlots ELSE RowSlots

Chunk(kind, source, destination, size) ==
  CASE kind = "COPY"       -> CopyChunk(source, destination, size)
    [] kind = "MULTIPLY"   -> MultiplyChunk(destination, source, size)
    [] kind = "ACCUMULATE" -> AccumulateChunk(source, destination, size)

EmitMoveFromFirstSlot(c, at) ==
  EachChunk(c.slot_count, ChunkLimit(c.kind),
            LAMBDA offset, size : Chunk(c.kind, at[c.source], at[c.destination] + offset, size))

EmitMoveInWholeRows(c, at) ==
  EachChunk(c.slot_count, ChunkLimit(c.kind),
            LAMBDA offset, size :
              Chunk(c.kind, at[c.source] + offset, at[c.destination] + offset, ChunkLimit(c.kind)))

EmitMove(c, at) ==
  EachChunk(c.slot_count, ChunkLimit(c.kind),
            LAMBDA offset, size :
              Chunk(c.kind, at[c.source] + offset, at[c.destination] + offset, size))

-----------------------------------------------------------------------------
(* Matrix products: buffers are [source, weights, destination, workspace]. *)

WeightStage(c, buffers) == buffers.workspace + c.tile_width \div BurstLength
Readback(c, buffers) == buffers.workspace + 2 * (c.tile_width \div BurstLength)

StageWeightsOfLiveBanks(c, buffers, bank, firstOutput, live, firstInput, count) ==
  IF bank >= live THEN <<>>
  ELSE <<CopySlice(buffers.weights, (firstOutput + bank) * c.input_width + firstInput, count,
                   WeightStage(c, buffers), Lanes(SlotsFor(count))),
         WriteBank(bank, WeightStage(c, buffers), SlotsFor(count))>>

(* Banks without an output are cleared: the channel-wide MAC reads them.   *)
StageWeights(c, buffers, bank, firstOutput, live, firstInput, count) ==
  <<IF bank < live
    THEN CopySlice(buffers.weights, (firstOutput + bank) * c.input_width + firstInput, count,
                   WeightStage(c, buffers), Lanes(SlotsFor(count)))
    ELSE Fill(WeightStage(c, buffers), Lanes(SlotsFor(count))),
    WriteBank(bank, WeightStage(c, buffers), SlotsFor(count))>>

LinearTile(c, buffers, batch, firstOutput, live, firstInput, count) ==
  <<CopySlice(buffers.source, batch * c.input_width + firstInput, count,
              buffers.workspace, Lanes(SlotsFor(count))),
    WriteGlobalBuffer(buffers.workspace, SlotsFor(count))>>
  \o Each(NumBanks, LAMBDA bank :
            StageWeights(c, buffers, bank, firstOutput, live, firstInput, count))
  \o <<MacAllBanks(c.register, SlotsFor(count))>>

GroupTiles(c, buffers, batch, firstOutput, live) ==
  EachChunk(c.input_width, c.tile_width, LAMBDA firstInput, count :
    LinearTile(c, buffers, batch, firstOutput, live, firstInput, count))

GroupResult(c, buffers, batch, firstOutput, live) ==
  <<ReadAccumulator(c.register, Readback(c, buffers)),
    StoreSlice(Readback(c, buffers), live, buffers.destination,
               batch * c.output_width + firstOutput, c.batch_count * c.output_width)>>

LinearGroupKeepingAccumulator(c, buffers, batch, firstOutput, live) ==
  (IF firstOutput = 0 THEN <<InitializeAccumulator(c.register)>> ELSE <<>>)
  \o GroupTiles(c, buffers, batch, firstOutput, live)
  \o GroupResult(c, buffers, batch, firstOutput, live)

(* One output per bank; the register adds up the tiles of the input row.   *)
LinearGroup(c, buffers, batch, firstOutput, live) ==
  <<InitializeAccumulator(c.register)>>
  \o GroupTiles(c, buffers, batch, firstOutput, live)
  \o GroupResult(c, buffers, batch, firstOutput, live)

EmitLinear(c, buffers) ==
  <<Fill(buffers.destination, c.batch_count * c.output_width)>>
  \o Each(c.batch_count, LAMBDA batch :
       EachChunk(c.output_width, NumBanks, LAMBDA firstOutput, live :
         LinearGroup(c, buffers, batch, firstOutput, live)))

-----------------------------------------------------------------------------

ProductOfRows(slots, left, right) ==
  EachChunk(slots, RowSlots, LAMBDA offset, size :
    MultiplyChunk(left + offset, right + offset, size))

(* One row of _emit_rms_norm: square, sum, scale, two products, store.     *)
NormalizeRow(c, operands, destination, workspace, batch) ==
  LET slots == SlotsFor(c.width)
      work == workspace + slots
      scalar == workspace + 2 * slots
  IN  <<CopySlice(operands[1], batch * c.width, c.width, workspace, c.width),
        CopySlice(operands[1], batch * c.width, c.width, work, c.width)>>
      \o ProductOfRows(slots, work, work)
      \o <<Service1("REDUCE_SUM", work, scalar, c.width),
           Service1("RMS_SCALE", scalar, scalar, c.width),
           Service1("BROADCAST", scalar, work, c.width)>>
      \o ProductOfRows(slots, work, workspace)
      \o ProductOfRows(slots, work, operands[2])
      \o <<StoreSlice(work, c.width, destination, batch * c.width, c.width * c.batch_count)>>

EmitRmsNorm(c, operands, destination, workspace) ==
  <<Fill(destination, c.width * c.batch_count)>>
  \o Each(c.batch_count, LAMBDA batch :
       NormalizeRow(c, operands, destination, workspace, batch))

-----------------------------------------------------------------------------
(* Attention: scores of one query, softmax, weighted values. *)

ScoreMask(c, operands, query, queryIndex) ==
  [op |-> "SCORES", count |-> c.key_count, has_mask |-> c.has_mask,
   mask |-> IF c.has_mask THEN operands[4] ELSE 0,
   mask_offset |-> IF ~c.has_mask THEN 0
                   ELSE (IF c.shared_mask THEN query ELSE queryIndex) * c.key_count,
   limit |-> IF c.causal THEN c.offset + query ELSE c.key_count]

AttendQuery(c, operands, destination, local, query, queryIndex) ==
  LET total == c.batch_count * c.query_heads * c.query_count * c.value_width
      product(inputWidth, outputWidth, source, weights, result) ==
        EmitLinear(LinearCommand(inputWidth, outputWidth, 1, c.register),
                   [source |-> source, weights |-> weights, destination |-> result,
                    workspace |-> local.matrix])
  IN  <<CopySlice(operands[1], queryIndex * c.query_width, c.query_width,
                  local.query, c.query_width)>>
      \o product(c.query_width, c.key_count, local.query, local.key, local.scores)
      \o <<ScoreMask(c, operands, query, queryIndex)
             @@ [source |-> local.scores, destination |-> local.scores],
           [op |-> "SOFTMAX", source |-> local.scores, destination |-> local.scores,
            rows |-> 1, width |-> c.key_count]>>
      \o product(c.key_count, c.value_width, local.scores, local.value, local.result)
      \o <<StoreSlice(local.result, c.value_width, destination,
                      queryIndex * c.value_width, total)>>

QueryIndexByKvHead(c, batch, kvHead, groupHead, query) ==
  (batch * c.query_heads + groupHead * c.kv_heads + kvHead) * c.query_count + query

(* Consecutive query heads share a key/value head. *)
QueryIndex(c, batch, kvHead, groupHead, query) ==
  (batch * c.query_heads + kvHead * (c.query_heads \div c.kv_heads) + groupHead)
    * c.query_count + query

AttendKvHead(c, operands, destination, local, batch, kvHead) ==
  LET kvIndex == batch * c.kv_heads + kvHead
      keys == c.key_count * c.query_width
  IN  <<CopySlice(operands[2], kvIndex * keys, keys, local.key, keys),
        [op |-> "TRANSPOSE", source |-> operands[3], destination |-> local.value,
         source_offset |-> kvIndex * c.key_count * c.value_width,
         rows |-> c.key_count, columns |-> c.value_width]>>
      \o Each(c.query_heads \div c.kv_heads, LAMBDA groupHead :
           Each(c.query_count, LAMBDA query :
             AttendQuery(c, operands, destination, local, query,
                         QueryIndex(c, batch, kvHead, groupHead, query))))

EmitAttention(c, operands, destination, workspace) ==
  LET local == AttentionWorkspace(c, workspace)
  IN  <<Fill(destination, c.batch_count * c.query_heads * c.query_count * c.value_width)>>
      \o Each(c.batch_count, LAMBDA batch :
           Each(c.kv_heads, LAMBDA kvHead :
             AttendKvHead(c, operands, destination, local, batch, kvHead)))

-----------------------------------------------------------------------------

EmitService(c, operands, destination) ==
  CASE c.kind = "activation" ->
         Service1("ACTIVATION", operands[1], destination, c.value_count)
    [] c.kind = "softmax" ->
         [op |-> "SOFTMAX", source |-> operands[1], destination |-> destination,
          rows |-> c.row_count, width |-> c.row_width]
    [] c.kind = "rope" ->
         [op |-> "ROPE", source |-> operands[1], position |-> operands[2],
          table |-> operands[3], destination |-> destination, tokens |-> c.token_count,
          heads |-> c.head_count, head_dim |-> c.head_dim, rotary |-> c.rotary_dim,
          positions |-> c.position_count]

EmitReference(placed, at, workspace) ==
  LET c == placed.command
      operands == [i \in DOMAIN placed.operands |-> at[placed.operands[i]]]
      destination == at[placed.destination]
  IN  CASE c.kind = "linear" ->
             EmitLinear(c, [source |-> operands[1], weights |-> operands[2],
                            destination |-> destination, workspace |-> workspace])
        [] c.kind = "rms_norm"  -> EmitRmsNorm(c, operands, destination, workspace)
        [] c.kind = "attention" -> EmitAttention(c, operands, destination, workspace)
        [] OTHER                -> <<EmitService(c, operands, destination)>>

(* The instructions of one operation of the schedule. *)
EmitOperation(r, p, op, allocated) ==
  LET commands == LowerOperation(r, p, op)
      workspace == IF RequiredWorkspace(r, p) = 0 THEN 0 ELSE allocated.at[Workspace(p)]
  IN  FlattenSeq([k \in DOMAIN commands |->
        IF "command" \in DOMAIN commands[k]
        THEN EmitReference(commands[k], allocated.at, workspace)
        ELSE EmitMove(commands[k], allocated.at)])

(* Whole slots of a value's storage: every lane an instruction may read.   *)
Region(allocated, p, v) ==
  ScalarSpan(allocated.at[StorageOf(p, v)], Lanes(allocated.size[StorageOf(p, v)]))

EmitProgram(r, p) ==
  LET allocated == AllocateStorage(r, p)
      binding(v) == [name |-> v, span |-> Region(allocated, p, v)]
  IN  [code |-> [k \in DOMAIN p.schedule |->
                   EmitOperation(r, p, Operation(r.graph, p.schedule[k]), allocated)],
       inputs |-> [i \in DOMAIN r.graph.inputs |-> binding(r.graph.inputs[i])],
       outputs |-> [i \in DOMAIN r.graph.outputs |-> binding(r.graph.outputs[i])]]
=============================================================================
