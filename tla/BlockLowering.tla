---------------------------- MODULE BlockLowering ----------------------------
(***************************************************************************)
(* The lowerers of the block compiler (lowering/, lowering/transformer/,   *)
(* models/llama/feed_forward.py): what each adds to a program builder for  *)
(* the plan it is given, in what order, and what it checks before.         *)
(*                                                                         *)
(* A lowerer is a sequence of steps.  A step raises when its ok is false,  *)
(* and otherwise appends its batch in one call of the builder.  A span is  *)
(* a record [start, count, value] of slots and the value they should hold, *)
(* a row range a record [start, count].                                    *)
(***************************************************************************)
EXTENDS ProgramBuilder

Check(ok) == <<[ok |-> ok, batch |-> <<>>]>>
Append1(instruction) == <<[ok |-> TRUE, batch |-> <<instruction>>]>>
AppendBatch(batch) == <<[ok |-> TRUE, batch |-> batch]>>

(* _require_shared_buffer_capacity, _require_dram_row_capacity *)
SpanFits(span, slots) == slots >= 1 /\ span.count >= slots
RowsFit(range, rows) == rows >= 1 /\ range.count >= rows

(* _row_operation_sizes *)
RowSizes(values) ==
  LET bursts == CeilDiv(values, BurstLength)
      whole  == DramColumns \div BurstLength
  IN  [k \in 1..CeilDiv(bursts, whole) |-> Lesser(whole, bursts - (k - 1) * whole)]

FirstOperand == 0
SecondOperand == 1
ResultPosition == 2
ResultBanks == [k \in 1..(NumBanks \div BanksPerGroup) |->
                  (k - 1) * BanksPerGroup + ResultPosition]
Groups == TotalBanks \div BanksPerGroup

-----------------------------------------------------------------------------
(* Instructions. *)

EwMul(channels, row, size, needs, makes) ==
  [op |-> "EW_MUL", channels |-> channels, row |-> row, column |-> 0, size |-> size,
   needs |-> needs, makes |-> makes]

Mac(channels, row, column, size, register, source, needs, streams) ==
  [op |-> "MAC_ABK", channels |-> channels, row |-> row, column |-> column,
   size |-> size, register |-> register, source |-> source,
   needs |-> needs, streams |-> streams, makes |-> "sum"]

WriteBias(channels, slot, needs) ==
  [op |-> "WR_BIAS", channels |-> channels, slot |-> slot, needs |-> needs,
   makes |-> "sum"]

ReadResult(op, channels, slot, register, makes) ==
  [op |-> op, channels |-> channels, slot |-> slot, register |-> register,
   needs |-> {}, makes |-> makes]

Activate(channels, register) ==
  [op |-> "AF", channels |-> channels, register |-> register,
   needs |-> {}, makes |-> "sum"]

WriteGlobal(channels, slot, size, value) ==
  [op |-> "WR_GB", channels |-> channels, slot |-> slot, column |-> 0,
   size |-> size, needs |-> {value}, makes |-> value]

(* A result bank to the bank of the second operand, by the Global Buffer. *)
CopyResult(channels, bank, from, to, size, value) ==
  Append1([op |-> "COPY_BKGB", channels |-> channels, bank |-> bank, row |-> from,
           column |-> 0, size |-> size, needs |-> {value}, makes |-> value])
  \o
  Append1([op |-> "COPY_GBBK", channels |-> channels,
           bank |-> bank - ResultPosition + SecondOperand, row |-> to,
           column |-> 0, size |-> size, needs |-> {value}, makes |-> value])

-----------------------------------------------------------------------------
(* lowering/elementwise.py, lowering/data_movement.py *)

Accumulate(p) ==
  Append1([op |-> "ACC", size |-> SlotCount(p.layout),
           destination |-> p.destination.start, source |-> p.source.start,
           needs |-> {p.destination.value, p.source.value}, makes |-> p.makes])

TransferVector(p) ==
  Check(/\ p.layout.partitions <= Groups
        /\ RowsFit(p.rows, CeilDiv(PhysicalValuesPerPartition(p.layout), DramColumns)))
  \o
  AppendBatch(Tagged(
    BankGroupTransfer(p.op, p.layout.partitions, FirstOperand, p.rows.start,
                      PhysicalValuesPerPartition(p.layout), p.buffer.start),
    {p.buffer.value}, p.buffer.value))

-----------------------------------------------------------------------------
(* lowering/normalization.py *)

SumOfSquares(p) ==
  LET physical == PhysicalValuesPerPartition(p.layout)
      sizes    == RowSizes(physical)
      Copy(position) ==
        AppendBatch(Tagged(
          NeighborBankTransfer("WR_SBK", PhysicalValues(p.layout), position,
                               p.input_rows.start, physical, p.input.start),
          {p.input.value}, p.input.value))
  IN  Check(/\ p.layout.partitions <= TotalBanks \div 2
            /\ RowsFit(p.input_rows, Len(sizes))
            /\ SpanFits(p.partial, 1))
      \o Copy(0) \o Copy(1)
      \o Append1(WriteBias(AllChannels, p.partial.start, {}))
      \o Each(Len(sizes), LAMBDA k :
           Append1(Mac(AllChannels, p.input_rows.start + k, 0, sizes[k + 1], 0,
                       "NEXT_BANK", {p.input.value, "host"}, {})))
      \o Append1(ReadResult("RD_MAC", AllChannels, p.partial.start, 0, p.partial.value))

L2Norm(p) ==
  LET physical == PhysicalValuesPerPartition(p.layout)
      sizes    == RowSizes(physical)
      Copy(position, span) ==
        AppendBatch(Tagged(
          BankGroupTransfer("WR_SBK", p.layout.partitions, position,
                            p.work_rows.start, physical, span.start),
          {span.value}, span.value))
  IN  Check(p.layout.partitions <= Groups /\ RowsFit(p.work_rows, Len(sizes)))
      \o SumOfSquares(p)
      \o Copy(FirstOperand, p.input) \o Copy(SecondOperand, p.scale)
      \o Each(Len(sizes), LAMBDA k :
           Append1(EwMul(AllChannels, p.work_rows.start + k, sizes[k + 1],
                         {p.input.value, p.scale.value, "host"}, "scaled")))

(* What lower_rms_norm adds after the prefix it shares with L2Norm. *)
ApplyNormWeights(p) ==
  LET physical == PhysicalValuesPerPartition(p.layout)
      sizes    == RowSizes(physical)
  IN  Each(Len(sizes), LAMBDA k :
        Each(Len(ResultBanks), LAMBDA b :
          CopyResult(AllChannels, ResultBanks[b + 1], p.work_rows.start + k,
                     p.weight_rows.start + k, sizes[k + 1], "scaled"))
        \o Append1(EwMul(AllChannels, p.weight_rows.start + k, sizes[k + 1],
                         {"scaled", "host"}, p.output.value)))
      \o AppendBatch(Tagged(
           BankGroupTransfer("RD_SBK", p.layout.partitions, ResultPosition,
                             p.weight_rows.start, physical, p.output.start),
           {p.output.value}, p.output.value))

WeightRowsFit(p) ==
  RowsFit(p.weight_rows, Len(RowSizes(PhysicalValuesPerPartition(p.layout))))

(* The weight rows are checked where they are used, after the prefix. *)
RmsNormCheckedLate(p) == L2Norm(p) \o Check(WeightRowsFit(p)) \o ApplyNormWeights(p)

RmsNorm(p) == Check(WeightRowsFit(p)) \o L2Norm(p) \o ApplyNormWeights(p)

-----------------------------------------------------------------------------
(* lowering/linear.py *)

AccumulatorLimit(activated) ==
  IF activated THEN AccumulatorSlots \div 2 ELSE AccumulatorSlots

UtilizedBanks(p) == CeilDiv(p.outputs, p.per_bank)
RowsPerOutput(p) == CeilDiv(p.vector, DramColumns)

GemvChecks(p) ==
  /\ UtilizedBanks(p) <= TotalBanks
  /\ ValidChannels(p.channels)
  /\ Len(p.channels) * NumBanks >= UtilizedBanks(p)
  /\ p.is_activated => AccumulatorSlots >= 2
  /\ p.group <= AccumulatorLimit(p.is_activated)
  /\ RowsFit(p.weights, p.per_bank * RowsPerOutput(p))
  /\ SpanFits(p.output, p.per_bank)
  /\ p.is_activated => SpanFits(p.activated, p.per_bank)

WeightRow(p, output, v) == p.weights.start + output * RowsPerOutput(p) + v

(* Results that follow the registers, whichever group they are of. *)
ResultSlotOfRegister(p, first, k) == p.output.start + k

ResultSlot(p, first, k) == p.output.start + first + k

(* Row v of the input against outputs first .. first + count - 1. *)
GemvGroup(p, v, size, first, count) ==
  LET Slot(k) == ResultSlot(p, first, k)
  IN  Each(count, LAMBDA k :
        Append1(WriteBias(p.channels, Slot(k), IF v = 0 THEN {} ELSE {p.output.value})))
      \o Each(count, LAMBDA k :
           Append1(Mac(p.channels, WeightRow(p, first + k, v), 0, size, k,
                       "GLOBAL_BUFFER", {"host"}, {p.input.value})))
      \o Each(count, LAMBDA k :
           Append1(ReadResult("RD_MAC", p.channels, Slot(k), k, p.output.value)))
      \o (IF p.is_activated /\ v = RowsPerOutput(p) - 1
          THEN Each(count, LAMBDA k :
                 Append1(Activate(p.channels, k))
                 \o Append1(ReadResult("RD_AF", p.channels, p.activated.start + first + k,
                                       k, p.activated.value)))
          ELSE <<>>)

WeightGemv(p) ==
  Check(GemvChecks(p))
  \o Each(RowsPerOutput(p), LAMBDA v :
       LET size == CeilDiv(Lesser(p.vector - v * DramColumns, DramColumns), BurstLength)
       IN  Append1(WriteGlobal(p.channels,
                               p.input.start + v * (DramColumns \div BurstLength),
                               size, p.input.value))
           \o Each(CeilDiv(p.per_bank, p.group), LAMBDA g :
                GemvGroup(p, v, size, g * p.group,
                          Lesser(p.group, p.per_bank - g * p.group))))

-----------------------------------------------------------------------------
(* models/llama/feed_forward.py *)

ChunkSize(chunk) == CeilDiv(chunk.per_partition, BurstLength)

SiluTransfer(p, op, position, chunk) ==
  AppendBatch(Tagged(
    BankGroupTransfer(op, chunk.partitions, position, chunk.row, chunk.per_partition,
                      p.workspace.start),
    {}, IF op = "WR_SBK" THEN "staged" ELSE p.workspace.value))

SiluMultiply(chunk) ==
  Append1(EwMul(AllChannels, chunk.row, ChunkSize(chunk), {}, "gated"))

SiluProduct(p) ==
  LET n == Len(p.chunks)
  IN  Check(/\ \A k \in 1..n :
                 /\ p.chunks[k].partitions <= Groups
                 /\ ChunkSize(p.chunks[k]) * BurstLength <= DramColumns
                 /\ SpanFits(p.workspace, p.chunks[k].partitions * ChunkSize(p.chunks[k]))
            /\ ValidPlacement)
      \o Each(n, LAMBDA k :
           LET chunk == p.chunks[k + 1]
           IN  SiluTransfer(p, "WR_SBK", FirstOperand, chunk)
               \o SiluTransfer(p, "WR_SBK", SecondOperand, chunk)
               \o SiluMultiply(chunk)
               \o Each(Len(ResultBanks), LAMBDA b :
                    CopyResult(AllChannels, ResultBanks[b + 1], chunk.row, chunk.row,
                               ChunkSize(chunk), "gated")))
      \o Each(n, LAMBDA k : SiluTransfer(p, "WR_SBK", FirstOperand, p.chunks[k + 1]))
      \o Each(n, LAMBDA k : SiluMultiply(p.chunks[k + 1]))
      \o Each(n, LAMBDA k : SiluTransfer(p, "RD_SBK", ResultPosition, p.chunks[k + 1]))
=============================================================================
