-------------------------- MODULE AttentionLowering --------------------------
(***************************************************************************)
(* The attention stages of one decode step                                 *)
(* (lowering/transformer/attention.py).  Every stage plan has spec, the    *)
(* sizes and token counts; rows, the ranges query, key, key_cache, scores  *)
(* and value_cache; and buffers, the spans query, key, value, scores and   *)
(* output.                                                                 *)
(***************************************************************************)
EXTENDS BlockLowering

(***************************************************************************)
(* PartOf(value, piece) names one piece of a value: the scores of a query  *)
(* head for a row of tokens, the sum of a group of its dimensions.  The    *)
(* stages use the same slots for every piece (TODO(attention)), and only   *)
(* the names tell the pieces apart.                                        *)
(***************************************************************************)
CONSTANT PartOf(_, _)

(* TransformerAttentionSpec.__post_init__ *)
ValidSpec(s) ==
  /\ {s.hidden, s.heads, s.kv_heads, s.head, s.kv_width, s.repeat, s.length, s.max}
       \subseteq Nat \ {0}
  /\ s.hidden = s.heads * s.head
  /\ s.kv_width = s.kv_heads * s.head
  /\ s.heads = s.kv_heads * s.repeat
  /\ s.length <= s.max

Distinct(sequence) == Len(sequence) = Cardinality(Range(sequence))

(* Values of a sequence of count that row k holds, and their bursts. *)
InRow(count, k) == Lesser(DramColumns, count - k * DramColumns)
RowBursts(count, k) == CeilDiv(InRow(count, k), BurstLength)

ScoreSlots(s) == RowBursts(s.length, 0)

Holding(span, name) == [span EXCEPT !.value = name]

-----------------------------------------------------------------------------
(* lower_rotary_embedding *)

CoversWidth(l, width) ==
  /\ (l.partitions - 1) * l.per_partition < width
  /\ width <= l.partitions * l.per_partition

RotaryPart(p, part) ==
  CASE part = "query" -> [layout |-> p.query, rows |-> p.rows.query,
                          span |-> p.buffers.query, rotated |-> "rotated_query"]
    [] part = "key"   -> [layout |-> p.key, rows |-> p.rows.key,
                          span |-> p.buffers.key, rotated |-> "rotated_key"]

RotaryFits(part) ==
  /\ part.layout.partitions \in 1..Groups
  /\ SpanFits(part.span,
       part.layout.partitions * CeilDiv(part.layout.per_partition, BurstLength))
  /\ RowsFit(part.rows, Len(RowSizes(part.layout.per_partition)))

RotaryTransfer(part, op, position, needs, makes) ==
  AppendBatch(Tagged(
    BankGroupTransfer(op, part.layout.partitions, position, part.rows.start,
                      part.layout.per_partition, part.span.start), needs, makes))

RotaryMultiply(part) ==
  LET sizes == RowSizes(part.layout.per_partition)
  IN  Each(Len(sizes), LAMBDA k :
        Append1(EwMul(AllChannels, part.rows.start + k, sizes[k + 1], {}, part.rotated)))

RotaryEmbedding(p) ==
  LET query == RotaryPart(p, "query")
      key   == RotaryPart(p, "key")
      Parts(Emit(_)) == Emit(query) \o Emit(key)
  IN  Check(/\ CoversWidth(p.query, p.spec.hidden) /\ CoversWidth(p.key, p.spec.kv_width)
            /\ RotaryFits(query) /\ RotaryFits(key))
      \o Parts(LAMBDA part : RotaryTransfer(part, "WR_SBK", SecondOperand,
                                            {part.span.value}, part.span.value))
      \o Parts(RotaryMultiply)
      \o Parts(LAMBDA part : RotaryTransfer(part, "RD_SBK", ResultPosition,
                                            {part.rotated}, part.rotated))

-----------------------------------------------------------------------------
(* lower_kv_cache_update *)

ReplicaChannels(channel, offsets) ==
  [k \in DOMAIN offsets |-> channel + offsets[k]]

KvChecks(p) ==
  /\ p.sequence_index = p.spec.length - 1
  /\ p.key_bank \in 0..(TotalBanks - 1)
  /\ p.key_group >= 0 /\ p.value_sequence_row >= 0
  /\ p.key_offsets # <<>> /\ Distinct(p.key_offsets)
  /\ p.value_channels # <<>> /\ Distinct(p.value_channels)
  /\ Range(p.value_channels) \subseteq Channels
  /\ p.key_rows = CeilDiv(p.spec.kv_width, DramColumns)
  /\ p.value_rows = CeilDiv(p.spec.max, DramColumns)
  /\ p.value_dimensions = CeilDiv(p.spec.head, NumBanks)
  /\ p.value_heads = CeilDiv(p.spec.kv_heads, Len(p.value_channels))
  /\ Range(ReplicaChannels(BankChannel(p.key_bank), p.key_offsets)) \subseteq Channels
  /\ RowsFit(p.rows.key_cache, (p.key_group + 1) * p.key_rows)
  /\ RowsFit(p.rows.value_cache, p.value_heads * p.value_dimensions * p.value_rows)
  /\ SpanFits(p.buffers.key, CeilDiv(p.spec.kv_width, BurstLength))

KeyWrites(p) ==
  Each(p.key_rows, LAMBDA k :
    Each(Len(p.key_offsets), LAMBDA o :
      AppendBatch(Tagged(
        SingleBankTransfers("WR_SBK", BankChannel(p.key_bank) + p.key_offsets[o + 1],
          BankNumber(p.key_bank), p.rows.key_cache.start + p.key_group * p.key_rows + k,
          0, InRow(p.spec.kv_width, k),
          p.buffers.key.start + k * (DramColumns \div BurstLength)),
        {p.buffers.key.value}, "key"))))

(* The row, in the cache, of a head slot, a group of dimensions and a row  *)
(* of tokens.                                                              *)
ValueRow(rows_per_dimension, dimensions, head_slot, dimension, sequence_row) ==
  (head_slot * dimensions + dimension) * rows_per_dimension + sequence_row

(* The column chosen as the bank of a key is. *)
ValueColumnOfBank(token) == token % NumBanks

ValueColumn(token) == token % DramColumns

ValueWrite(p, channel, head_slot, head, dimension) ==
  [op |-> "WR_ABK", channel |-> channel,
   row |-> p.rows.value_cache.start
             + ValueRow(p.value_rows, p.value_dimensions, head_slot, dimension,
                        p.value_sequence_row),
   column |-> ValueColumn(p.sequence_index), register |-> 0,
   slot |-> p.buffers.value.start + head * p.value_dimensions + dimension,
   needs |-> {p.buffers.value.value}, makes |-> "value"]

ValueWrites(p) ==
  Each(p.value_heads, LAMBDA h :
    Each(p.value_dimensions, LAMBDA d :
      Each(Len(p.value_channels), LAMBDA c :
        LET head == c * p.value_heads + h
        IN  IF head >= p.spec.kv_heads THEN <<>>
            ELSE Append1(ValueWrite(p, p.value_channels[c + 1], h, head, d)))))

ValueSpanFits(p) == SpanFits(p.buffers.value, p.spec.kv_heads * p.value_dimensions)

KvCacheUpdate(p) ==
  Check(KvChecks(p)) \o KeyWrites(p) \o Check(ValueSpanFits(p)) \o ValueWrites(p)

-----------------------------------------------------------------------------
(* lower_score_gemv *)

HeadsPerRow(p) == DramColumns \div p.spec.head

(* The sum of the r-th query head of a key head, over a round of tokens.   *)
(* Every one of them starts from a zero the runtime has yet to supply.     *)
RawScore(p, k, h, r, g) ==
  PartOf("score", <<(k * HeadsPerRow(p) + h) * p.spec.repeat + r, g>>)

(* Each pass copies the first slice of the query to column zero; a head    *)
(* further along a key row is read, in the Global Buffer as in the row,    *)
(* from its own column on.                                                 *)
ScoreGemv(p) ==
  LET sequences == Len(p.sequence_channels)
      keyRows   == CeilDiv(p.spec.kv_width, DramColumns)
      size      == CeilDiv(p.spec.head, BurstLength)
      HeadScore(k, channels, group, r, h) ==
        Append1(WriteBias(channels, p.buffers.scores.start, {"zero"}))
        \o Append1(Mac(channels, p.rows.key_cache.start + group * keyRows + k,
                       h * p.spec.head, size, 0, "GLOBAL_BUFFER",
                       {"key", "host"}, {p.buffers.query.value}))
        \o Append1(ReadResult("RD_MAC", channels, p.buffers.scores.start, 0,
                              RawScore(p, k, h, r, group)))
  IN  Check(/\ sequences = CeilDiv(p.spec.length, TotalBanks)
            /\ HeadsPerRow(p) >= 1
            /\ {g \in 1..sequences : ~ValidChannels(p.sequence_channels[g])} = {}
            /\ RowsFit(p.rows.key_cache, sequences * keyRows)
            /\ SpanFits(p.buffers.query, size)
            /\ SpanFits(p.buffers.scores, 1))
      \o Each(keyRows, LAMBDA k :
           Each(sequences, LAMBDA g :
             LET channels == p.sequence_channels[g + 1]
             IN  Each(p.spec.repeat, LAMBDA r :
                   Append1(WriteGlobal(channels, p.buffers.query.start, size,
                                       p.buffers.query.value))
                   \o Each(Lesser(HeadsPerRow(p), p.spec.kv_heads - k * HeadsPerRow(p)),
                           LAMBDA h : HeadScore(k, channels, g, r, h)))))

-----------------------------------------------------------------------------
(* _validate_score_transfer, _lower_score_transfer, lower_softmax *)

ScoreRows(p) == CeilDiv(p.spec.length, DramColumns)
HeadsPerScoreBank(p, t) == CeilDiv(p.spec.heads, Len(t.banks))

ScoreTransferValid(p, t) ==
  /\ t.op \in BankMoves /\ t.position \in 0..2
  /\ t.offsets # <<>> /\ Distinct(t.offsets)
  /\ t.banks # <<>>
  /\ \A j, k \in DOMAIN t.banks : j < k => t.banks[j] < t.banks[k]
  /\ \A k \in DOMAIN t.banks :
       /\ t.banks[k] \in 0..(TotalBanks - 1)
       /\ t.banks[k] % BanksPerGroup = t.position
       /\ \A o \in DOMAIN t.offsets : BankChannel(t.banks[k]) + t.offsets[o] \in Channels
  /\ RowsFit(p.rows.scores, HeadsPerScoreBank(p, t) * ScoreRows(p))
  /\ SpanFits(p.buffers.scores, ScoreSlots(p.spec))

(* Scores of every head and row of tokens go by the slots of one row of    *)
(* scores.  A product is named by the row it lies in, in all banks.        *)
ScoreTransfer(p, t, needs, makes) ==
  LET perBank == HeadsPerScoreBank(p, t)
      HeadOf(h, b) == (t.banks[b + 1] \div BanksPerGroup) * perBank + h
      From(h, b) == IF t.op = "WR_SBK" THEN HeadOf(h, b) ELSE h
      Burst(k, h, s, b, o) ==
        [op |-> t.op, channel |-> BankChannel(t.banks[b + 1]) + t.offsets[o + 1],
         bank |-> BankNumber(t.banks[b + 1]),
         row |-> p.rows.scores.start + h * ScoreRows(p) + k,
         column |-> s * BurstLength, size |-> 1, slot |-> p.buffers.scores.start + s,
         needs |-> {PartOf(value, <<From(h, b), k>>) : value \in needs},
         makes |-> PartOf(makes, <<HeadOf(h, b), k>>)]
  IN  Check(ScoreTransferValid(p, t))
      \o Each(ScoreRows(p), LAMBDA k :
           Each(perBank, LAMBDA h :
             Each(RowBursts(p.spec.length, k), LAMBDA s :
               Each(Len(t.banks), LAMBDA b :
                 IF HeadOf(h, b) >= p.spec.heads
                 THEN <<>>
                 ELSE Each(Len(t.offsets), LAMBDA o : Append1(Burst(k, h, s, b, o)))))))

SoftmaxChecks(p) ==
  /\ p.passes # <<>>
  /\ RowsFit(p.rows.scores, p.heads_per_bank * ScoreRows(p))
  /\ SpanFits(p.buffers.scores, ScoreSlots(p.spec))

PassValid(p, pass) ==
  /\ ScoreTransferValid(p, pass.left)
  /\ ScoreTransferValid(p, pass.right)
  /\ ScoreTransferValid(p, pass.output)

(* What the operand banks of a row of scores hold, host where no head is. *)
RowOperands(p, h, k) ==
  {PartOf(value, <<g * p.heads_per_bank + h, k>>) :
     value \in {"scores", "scale"}, g \in 0..(Groups - 1)} \cup {"host"}

(* The right operand has yet to be staged where the left one was. *)
SoftmaxPass(p, pass) ==
  ScoreTransfer(p, pass.left, {p.buffers.scores.value}, "scores")
  \o ScoreTransfer(p, pass.right, {}, "scale")
  \o Each(p.heads_per_bank, LAMBDA h :
       Each(ScoreRows(p), LAMBDA k :
         Append1(EwMul(AllChannels, p.rows.scores.start + h * ScoreRows(p) + k,
                       RowBursts(p.spec.length, k), RowOperands(p, h, k),
                       PartOf("scaled", <<h, k>>)))))
  \o ScoreTransfer(p, pass.output, {"scaled"}, "scores")

(* Each pass is validated when its turn comes. *)
SoftmaxPassByPass(p) ==
  Check(SoftmaxChecks(p)) \o Each(Len(p.passes), LAMBDA k : SoftmaxPass(p, p.passes[k + 1]))

Softmax(p) ==
  Check(/\ SoftmaxChecks(p)
        /\ \A k \in DOMAIN p.passes : PassValid(p, p.passes[k]))
  \o Each(Len(p.passes), LAMBDA k : SoftmaxPass(p, p.passes[k + 1]))

-----------------------------------------------------------------------------
(* lower_attention_output *)

(* The scores of a head slot, its query head and a row of tokens.  All     *)
(* channels take them from the same slots; the name is for the head the    *)
(* first channel works on.                                                 *)
Weights(p, h, r, k) == PartOf("scores", <<h * p.spec.repeat + r, k>>)

(* The sum so far of a group of dimensions of a query head. *)
Weighted(h, r, d) == PartOf("weighted", <<h, r, d>>)

AttentionOutput(p) ==
  LET heads      == CeilDiv(p.spec.kv_heads, ChannelsPerBlock)
      dimensions == CeilDiv(p.spec.head, NumBanks)
      perDimension == CeilDiv(p.spec.max, DramColumns)
      Output(h, r, k, d) ==
        Append1(WriteBias(AllChannels, p.buffers.output.start,
                          {IF k = 0 THEN "zero" ELSE Weighted(h, r, d)}))
        \o Append1(Mac(AllChannels,
                       p.rows.value_cache.start
                         + ValueRow(perDimension, dimensions, h, d, k),
                       0, RowBursts(p.spec.length, k), 0, "GLOBAL_BUFFER",
                       {"value", "host"},
                       {Weights(p, h, turn, k) : turn \in 0..(p.spec.repeat - 1)}))
        \o Append1(ReadResult("RD_MAC", AllChannels, p.buffers.output.start, 0,
                              Weighted(h, r, d)))
  IN  Check(/\ RowsFit(p.rows.value_cache, heads * dimensions * perDimension)
            /\ SpanFits(p.buffers.scores, ScoreSlots(p.spec))
            /\ SpanFits(p.buffers.output, 1))
      \o Each(heads, LAMBDA h :
           Each(p.spec.repeat, LAMBDA r :
             Each(CeilDiv(p.spec.length, DramColumns), LAMBDA k :
               Append1(WriteGlobal(AllChannels, p.buffers.scores.start,
                                   RowBursts(p.spec.length, k), Weights(p, h, r, k)))
               \o Each(dimensions, LAMBDA d : Output(h, r, k, d)))))
=============================================================================
