-------------------------- MODULE CentInstructions --------------------------
(***************************************************************************)
(* The instructions the functional simulator executes: when a program may  *)
(* hold one (cent/instructions/validation.py, cent/reference.py), when the *)
(* simulator accepts it (simulator/semantics.py), what it reads, and the   *)
(* effects it proposes (simulator/kernels.py, simulator/reference.py).     *)
(*                                                                         *)
(* An instruction is a record with the field op; the other fields depend   *)
(* on op.  Channel sets are increasing sequences, as CentChannelSet keeps  *)
(* them.  Scalars are abstract: addition and multiplication are the        *)
(* numeric policy's, and Service stands for the nonlinear formulas.        *)
(***************************************************************************)
EXTENDS DeviceMemory

CONSTANTS
  Zero,             \* the stored scalar 0.0
  Masked,           \* the stored scalar -inf of a masked attention score
  Add(_, _),
  Multiply(_, _),
  Service(_, _, _), \* Service(name, operands, k): k-th result of a formula
  Rejects(_, _)     \* Rejects(op, operands): the formula or the numeric
                    \* policy raises ValueError on these operands

ASSUME ScalarAssumption ==
  /\ Zero \in Value /\ Masked \in Value
  /\ \A x, y \in Value : Add(x, y) \in Value /\ Multiply(x, y) \in Value

-----------------------------------------------------------------------------
(* Spans of instruction operands. *)

SlotLane(slot) == slot * BurstLength
SlotsFor(count) == (count + BurstLength - 1) \div BurstLength
Lanes(size) == size * BurstLength

ScalarSpan(slot, count) == Span(SharedBuffer, SlotLane(slot), count)
SlotSpan(slot, size) == ScalarSpan(slot, Lanes(size))
DramSpan(c, b, i) == Span(DramRow(c, b, i.row), i.column, Lanes(i.size))
GlobalSpan(c, i) == Span(GlobalBuffer(c), i.column, Lanes(i.size))
RegisterSpan(c, b, i) == Span(Accumulators(c, b), i.register, 1)

(* _ReferenceContext.slice: the slot of the first scalar, read from lane 0. *)
SliceSlot(slot, offset) == slot + offset \div BurstLength
SliceLane(offset) == offset % BurstLength
SliceSpan(slot, offset, count) ==
  ScalarSpan(SliceSlot(slot, offset), SliceLane(offset) + count)

(* Pairs of a channel and every step-th bank, channel-major. *)
BankCount(step) == NumBanks \div step
ChannelOf(i, step, k) == i.channels[(k - 1) \div BankCount(step) + 1]
BankOf(step, k) == ((k - 1) % BankCount(step)) * step
PairCount(i, step) == Len(i.channels) * BankCount(step)

-----------------------------------------------------------------------------
(* validate_instruction and validate_reference. *)

ValidChannels(chs) ==
  /\ chs \in Seq(Channels) /\ chs # <<>>
  /\ \A j, k \in DOMAIN chs : j < k => chs[j] < chs[k]

ValidAddress(i) ==
  /\ i.row \in Rows
  /\ i.column \in 0..(DramColumns - 1)

ValidOperation(i) ==
  /\ i.size \in Nat \ {0}
  /\ i.column + Lanes(i.size) <= DramColumns

ValidSlotSpan(slot, size) ==
  slot \in Nat /\ size \in Nat \ {0} /\ slot + size <= SharedBufferSlots

ValidGlobalSpan(i) ==
  i.column \in Nat /\ i.size \in Nat /\ i.column + Lanes(i.size) <= GlobalBufferColumns

ValidRegister(i) == i.register \in 0..(AccumulatorSlots - 1)

ValidPrefixByScalars(slot, count) ==
  slot \in Nat /\ count \in Nat \ {0} /\ slot + count \div BurstLength <= SharedBufferSlots

(* span() of validate_reference: a prefix, rounded up to whole slots. *)
ValidPrefix(slot, count) ==
  slot \in Nat /\ count \in Nat \ {0} /\ slot + SlotsFor(count) <= SharedBufferSlots

ValidSlice(slot, offset, count) ==
  offset \in Nat /\ count \in Nat \ {0} /\ ValidPrefix(slot, offset + count)

BankMoves == {"WR_SBK", "RD_SBK"}
BufferCopies == {"COPY_BKGB", "COPY_GBBK"}

(* Opcodes a program may hold and the simulator has no kernel for; the CXL *)
(* transfers are like these.                                               *)
SlotFormulas == {"EXP", "RED", "RISCV"}
ResultReads == {"RD_MAC", "RD_AF"}
Kernelless == SlotFormulas \cup ResultReads \cup {"WR_ABK", "WR_BIAS", "AF"}

RopeCount(i) == i.tokens * i.heads * i.head_dim

ValidInstruction(i) ==
  \/ /\ i.op \in BankMoves
     /\ i.channel \in Channels /\ i.bank \in Banks
     /\ ValidAddress(i) /\ ValidOperation(i) /\ ValidSlotSpan(i.slot, i.size)
  \/ /\ i.op = "WR_GB"
     /\ ValidChannels(i.channels)
     /\ ValidSlotSpan(i.slot, i.size) /\ ValidGlobalSpan(i)
  \/ /\ i.op \in BufferCopies
     /\ ValidChannels(i.channels) /\ i.bank \in Banks
     /\ ValidAddress(i) /\ ValidOperation(i) /\ ValidGlobalSpan(i)
  \/ /\ i.op = "EW_MUL"
     /\ ValidChannels(i.channels) /\ ValidAddress(i) /\ ValidOperation(i)
  \/ /\ i.op = "MAC_ABK"
     /\ i.source \in {"GLOBAL_BUFFER", "NEXT_BANK"}
     /\ ValidChannels(i.channels) /\ ValidAddress(i) /\ ValidOperation(i)
     /\ i.source = "GLOBAL_BUFFER" => ValidGlobalSpan(i)
     /\ ValidRegister(i)
  \/ /\ i.op = "WR_ABK"
     /\ i.channel \in Channels
     /\ ValidAddress(i) /\ ValidSlotSpan(i.slot, 1) /\ ValidRegister(i)
  \/ /\ i.op = "WR_BIAS"
     /\ ValidChannels(i.channels) /\ ValidSlotSpan(i.slot, 1)
  \/ /\ i.op \in ResultReads
     /\ ValidChannels(i.channels) /\ ValidSlotSpan(i.slot, 1) /\ ValidRegister(i)
  \/ /\ i.op = "AF"
     /\ ValidChannels(i.channels) /\ ValidRegister(i)
  \/ /\ i.op = "ACC" \/ i.op \in SlotFormulas
     /\ ValidSlotSpan(i.source, i.size) /\ ValidSlotSpan(i.destination, i.size)
  \/ /\ i.op = "INIT_ACC"
     /\ ValidChannels(i.channels) /\ ValidRegister(i) /\ i.value \in Value
  \/ /\ i.op = "READ_ACC"
     /\ ValidChannels(i.channels) /\ ValidRegister(i)
     /\ ValidPrefix(i.destination, PairCount(i, 1))
  \/ /\ i.op = "COPY"
     /\ ValidSlice(i.source, i.source_offset, i.count)
     /\ ValidPrefix(i.destination, i.destination_count)
     /\ i.count <= i.destination_count
  \/ /\ i.op = "STORE_SLICE"
     /\ ValidSlice(i.source, i.source_offset, i.count)
     /\ ValidPrefix(i.destination, i.destination_count)
     /\ i.destination_offset \in Nat
     /\ i.destination_offset + i.count <= i.destination_count
  \/ /\ i.op = "TRANSPOSE"
     /\ i.rows \in Nat \ {0} /\ i.columns \in Nat \ {0}
     /\ ValidSlice(i.source, i.source_offset, i.rows * i.columns)
     /\ ValidPrefix(i.destination, i.rows * i.columns)
  \/ /\ i.op = "FILL"
     /\ i.value \in Value /\ ValidPrefix(i.destination, i.count)
  \/ /\ i.op \in {"BROADCAST", "REDUCE_SUM", "RMS_SCALE", "ACTIVATION"}
     /\ i.count \in Nat \ {0}
     /\ ValidPrefix(i.source,
          IF i.op \in {"BROADCAST", "RMS_SCALE"} THEN 1 ELSE i.count)
     /\ ValidPrefix(i.destination,
          IF i.op \in {"BROADCAST", "ACTIVATION"} THEN i.count ELSE 1)
  \/ /\ i.op = "SOFTMAX"
     /\ i.rows \in Nat \ {0} /\ i.width \in Nat \ {0}
     /\ ValidPrefix(i.source, i.rows * i.width)
     /\ ValidPrefix(i.destination, i.rows * i.width)
  \/ /\ i.op = "SCORES"
     /\ ValidPrefix(i.source, i.count) /\ ValidPrefix(i.destination, i.count)
     /\ i.has_mask \in BOOLEAN /\ i.limit \in Nat
     /\ i.has_mask => ValidSlice(i.mask, i.mask_offset, i.count)
  \/ /\ i.op = "ROPE"
     /\ {i.tokens, i.heads, i.head_dim, i.positions, i.rotary} \subseteq Nat \ {0}
     /\ i.rotary % 2 = 0 /\ i.rotary <= i.head_dim
     /\ ValidPrefix(i.source, RopeCount(i))
     /\ ValidPrefix(i.destination, RopeCount(i))
     /\ ValidPrefix(i.position, i.tokens)
     /\ ValidPrefix(i.table, i.positions * i.rotary)

-----------------------------------------------------------------------------
(* preflight_program: a kernel exists, and ACC ranges do not half-overlap. *)

PartialOverlap(i) ==
  /\ i.destination < i.source + i.size
  /\ i.source < i.destination + i.size
  /\ i.destination # i.source

Supported(i) ==
  /\ i.op \notin Kernelless
  /\ ~(i.op = "ACC" /\ PartialOverlap(i))
-----------------------------------------------------------------------------
(* What a kernel reads.  Every source is read before any effect is         *)
(* proposed, so all of it must be initialized.                             *)

(* STORE_SLICE keeps the neighbours of the slice: whole slots are reread.  *)
TouchedSlots(i) == SlotsFor(SliceLane(i.destination_offset) + i.count)
TouchedSpan(i) ==
  SlotSpan(SliceSlot(i.destination, i.destination_offset), TouchedSlots(i))

BankPairs(i, step) ==
  {<<ChannelOf(i, step, k), BankOf(step, k)>> : k \in 1..PairCount(i, step)}

MacStep(i) == IF i.source = "GLOBAL_BUFFER" THEN 1 ELSE 2
MacRight(i, c, b) ==
  IF i.source = "GLOBAL_BUFFER" THEN GlobalSpan(c, i) ELSE DramSpan(c, b + 1, i)

ReadSpans(i) ==
  CASE i.op \in {"WR_SBK", "WR_GB"} -> {SlotSpan(i.slot, i.size)}
    [] i.op = "RD_SBK"    -> {DramSpan(i.channel, i.bank, i)}
    [] i.op = "COPY_BKGB" -> {DramSpan(i.channels[k], i.bank, i) : k \in DOMAIN i.channels}
    [] i.op = "COPY_GBBK" -> {GlobalSpan(i.channels[k], i) : k \in DOMAIN i.channels}
    [] i.op = "EW_MUL"    -> UNION {{DramSpan(p[1], p[2], i), DramSpan(p[1], p[2] + 1, i)}
                                      : p \in BankPairs(i, BanksPerGroup)}
    [] i.op = "MAC_ABK"   -> UNION {{DramSpan(p[1], p[2], i), MacRight(i, p[1], p[2]),
                                     RegisterSpan(p[1], p[2], i)}
                                      : p \in BankPairs(i, MacStep(i))}
    [] i.op = "ACC"       -> {SlotSpan(i.destination, i.size), SlotSpan(i.source, i.size)}
    [] i.op = "READ_ACC"  -> {RegisterSpan(p[1], p[2], i) : p \in BankPairs(i, 1)}
    [] i.op = "COPY"      -> {SliceSpan(i.source, i.source_offset, i.count)}
    [] i.op = "STORE_SLICE" -> {SliceSpan(i.source, i.source_offset, i.count), TouchedSpan(i)}
    [] i.op = "TRANSPOSE" -> {SliceSpan(i.source, i.source_offset, i.rows * i.columns)}
    [] i.op \in {"REDUCE_SUM", "ACTIVATION"} -> {ScalarSpan(i.source, i.count)}
    [] i.op \in {"BROADCAST", "RMS_SCALE"} -> {ScalarSpan(i.source, 1)}
    [] i.op = "SOFTMAX"   -> {ScalarSpan(i.source, i.rows * i.width)}
    [] i.op = "SCORES"    -> {ScalarSpan(i.source, i.count)} \cup
                             (IF i.has_mask
                              THEN {SliceSpan(i.mask, i.mask_offset, i.count)} ELSE {})
    [] i.op = "ROPE"      -> {ScalarSpan(i.source, RopeCount(i)),
                              ScalarSpan(i.position, i.tokens),
                              ScalarSpan(i.table, i.positions * i.rotary)}
    [] OTHER              -> {}

Readable(i, mem) == \A span \in ReadSpans(i) : Initialized(mem, span)

(* What the formulas work on: the sources, or the instruction's constant. *)
Operands(i, mem) ==
  IF i.op \in {"FILL", "INIT_ACC"} THEN {i.value}
  ELSE UNION {{mem[l] : l \in Cells(span)} : span \in ReadSpans(i)}

-----------------------------------------------------------------------------
(* What a kernel proposes. *)

Scalars(mem, slot, count) == Contents(mem, ScalarSpan(slot, count))

Slice(mem, slot, offset, count) ==
  [k \in 1..count |->
     Scalars(mem, SliceSlot(slot, offset), SliceLane(offset) + count)
       [SliceLane(offset) + k]]

(* _ReferenceContext.finish: pad with zeros to whole slots. *)
Padded(values) ==
  [k \in 1..Lanes(SlotsFor(Len(values))) |->
     IF k <= Len(values) THEN values[k] ELSE Zero]

MacTotal(i, mem, c, b) ==
  LET left  == Contents(mem, DramSpan(c, b, i))
      right == Contents(mem, MacRight(i, c, b))
      total[k \in 0..Lanes(i.size)] ==
        IF k = 0 THEN mem[<<Accumulators(c, b), i.register>>]
        ELSE Add(total[k - 1], Multiply(left[k], right[k]))
  IN  total[Lanes(i.size)]

RunningSum(values) ==
  LET sum[k \in 0..Len(values)] ==
        IF k = 0 THEN Zero ELSE Add(sum[k - 1], values[k])
  IN  sum[Len(values)]

Score(i, mem, k) ==
  LET score == Scalars(mem, i.source, i.count)[k]
      mask  == Slice(mem, i.mask, i.mask_offset, i.count)[k]
  IN  IF i.limit < k - 1 \/ (i.has_mask /\ mask = Masked) THEN Masked
      ELSE IF i.has_mask THEN Add(Service("SCALE", <<score>>, 1), mask)
      ELSE Service("SCALE", <<score>>, 1)

(* The scalars a Shared Buffer service computes, before padding. *)
Result(i, mem) ==
  CASE i.op = "READ_ACC"  -> [k \in 1..PairCount(i, 1) |->
         mem[<<Accumulators(ChannelOf(i, 1, k), BankOf(1, k)), i.register>>]]
    [] i.op = "COPY"      -> [k \in 1..i.destination_count |->
         IF k <= i.count THEN Slice(mem, i.source, i.source_offset, i.count)[k] ELSE Zero]
    [] i.op = "TRANSPOSE" -> [k \in 1..(i.rows * i.columns) |->
         Slice(mem, i.source, i.source_offset, i.rows * i.columns)
           [((k - 1) % i.rows) * i.columns + (k - 1) \div i.rows + 1]]
    [] i.op = "FILL"      -> [k \in 1..i.count |-> i.value]
    [] i.op = "BROADCAST" -> [k \in 1..i.count |-> Scalars(mem, i.source, 1)[1]]
    [] i.op = "REDUCE_SUM" -> <<RunningSum(Scalars(mem, i.source, i.count))>>
    [] i.op = "RMS_SCALE" -> <<Service("RMS_SCALE", Scalars(mem, i.source, 1), 1)>>
    [] i.op = "ACTIVATION" -> [k \in 1..i.count |->
         Service("ACTIVATION", <<Scalars(mem, i.source, i.count)[k]>>, 1)]
    [] i.op = "SOFTMAX"   -> [k \in 1..(i.rows * i.width) |->
         Service("SOFTMAX",
                 [j \in 1..i.width |-> Scalars(mem, i.source, i.rows * i.width)
                                         [((k - 1) \div i.width) * i.width + j]],
                 ((k - 1) % i.width) + 1)]
    [] i.op = "SCORES"    -> [k \in 1..i.count |-> Score(i, mem, k)]
    [] i.op = "ROPE"      -> [k \in 1..RopeCount(i) |->
         Service("ROPE", Scalars(mem, i.source, RopeCount(i))
                         \o Scalars(mem, i.position, i.tokens)
                         \o Scalars(mem, i.table, i.positions * i.rotary), k)]

Stored(i, mem) ==
  LET lane  == SliceLane(i.destination_offset)
      slice == Slice(mem, i.source, i.source_offset, i.count)
      kept  == Contents(mem, TouchedSpan(i))
  IN  [k \in 1..Lanes(TouchedSlots(i)) |->
         IF k - lane \in 1..i.count THEN slice[k - lane] ELSE kept[k]]

SharedEffect(slot, values) == Effect(SharedBuffer, SlotLane(slot), values)

ProposedEffects(i, mem) ==
  CASE i.op = "WR_SBK"    ->
         <<Effect(DramRow(i.channel, i.bank, i.row), i.column,
                  Contents(mem, SlotSpan(i.slot, i.size)))>>
    [] i.op = "RD_SBK"    ->
         <<SharedEffect(i.slot, Contents(mem, DramSpan(i.channel, i.bank, i)))>>
    [] i.op = "WR_GB"     -> [k \in DOMAIN i.channels |->
         Effect(GlobalBuffer(i.channels[k]), i.column,
                Contents(mem, SlotSpan(i.slot, i.size)))]
    [] i.op = "COPY_BKGB" -> [k \in DOMAIN i.channels |->
         Effect(GlobalBuffer(i.channels[k]), i.column,
                Contents(mem, DramSpan(i.channels[k], i.bank, i)))]
    [] i.op = "COPY_GBBK" -> [k \in DOMAIN i.channels |->
         Effect(DramRow(i.channels[k], i.bank, i.row), i.column,
                Contents(mem, GlobalSpan(i.channels[k], i)))]
    [] i.op = "EW_MUL"    -> [k \in 1..PairCount(i, BanksPerGroup) |->
         LET c == ChannelOf(i, BanksPerGroup, k)
             b == BankOf(BanksPerGroup, k)
         IN  Effect(DramRow(c, b + 2, i.row), i.column,
                    [j \in 1..Lanes(i.size) |->
                       Multiply(Contents(mem, DramSpan(c, b, i))[j],
                                Contents(mem, DramSpan(c, b + 1, i))[j])])]
    [] i.op = "MAC_ABK"   -> [k \in 1..PairCount(i, MacStep(i)) |->
         LET c == ChannelOf(i, MacStep(i), k)
             b == BankOf(MacStep(i), k)
         IN  Effect(Accumulators(c, b), i.register, <<MacTotal(i, mem, c, b)>>)]
    [] i.op = "ACC"       ->
         <<SharedEffect(i.destination,
             [j \in 1..Lanes(i.size) |->
                Add(Contents(mem, SlotSpan(i.destination, i.size))[j],
                    Contents(mem, SlotSpan(i.source, i.size))[j])])>>
    [] i.op = "INIT_ACC"  -> [k \in 1..PairCount(i, 1) |->
         Effect(Accumulators(ChannelOf(i, 1, k), BankOf(1, k)), i.register, <<i.value>>)]
    [] i.op = "STORE_SLICE" ->
         <<SharedEffect(SliceSlot(i.destination, i.destination_offset),
                        Padded(Stored(i, mem)))>>
    [] OTHER              -> <<SharedEffect(i.destination, Padded(Result(i, mem)))>>
=============================================================================
