----------------------------- MODULE LlamaStages -----------------------------
(***************************************************************************)
(* The plan of every stage of a Llama block (models/llama/planning.py),    *)
(* made of the rows of its memory and the spans of its buffer, and the     *)
(* order in which the block compiler lowers them                           *)
(* (models/llama/compiler.py).                                             *)
(***************************************************************************)
EXTENDS LlamaPlan

(* plan_weight_gemv *)
GemvPlan(weights, input, layout, output, activated, vector, outputs) ==
  LET perBank == OutputsPerBank(outputs)
      limit   == AccumulatorLimit(activated # output)
  IN  [weights |-> weights, input |-> input, layout |-> layout, output |-> output,
       activated |-> activated, is_activated |-> activated # output,
       vector |-> vector, outputs |-> outputs, per_bank |-> perBank,
       group |-> CeilDiv(perBank, CeilDiv(perBank, limit)),
       channels |-> ChannelsForMatrix(CeilDiv(outputs, perBank))]

(* CentWeightGemvPlan.__post_init__ *)
ValidGemv(p) ==
  /\ p.group <= p.per_bank
  /\ p.layout.values = p.vector
  /\ ContiguouslyPacked(p.layout)
  /\ p.is_activated =>
       \/ p.output.start + p.per_bank <= p.activated.start
       \/ p.activated.start + p.per_bank <= p.output.start

(* _create_rms_norm_plan *)
NormPlan(r, input_rows, work_rows, weight_rows, input, scale, output, partial) ==
  [layout |-> GroupLayout(r.hidden), input_rows |-> input_rows, work_rows |-> work_rows,
   weight_rows |-> weight_rows, input |-> input, scale |-> scale, output |-> output,
   partial |-> Holding(partial, "partial")]

-----------------------------------------------------------------------------
(* _create_attention_plan *)

AttentionSpec(r) ==
  [hidden |-> r.hidden, heads |-> r.heads, kv_heads |-> r.kv_heads,
   head |-> HeadSize(r), kv_width |-> KvWidth(r), repeat |-> r.heads \div r.kv_heads,
   length |-> r.length, max |-> r.max]

AttentionBuffersWith(buffer, output) ==
  [query |-> buffer.query, key |-> buffer.key, value |-> buffer.value,
   scores |-> buffer.scores, output |-> output]

(* Weighted values go where the block input still is. *)
AttentionBuffersOverInput(buffer) == AttentionBuffersWith(buffer, buffer.input)

(* The normalized vector is dead after the projections, the input is not. *)
AttentionBuffers(buffer) == AttentionBuffersWith(buffer, buffer.normalized)

AttentionPlan(r, memory, buffer) ==
  [spec |-> AttentionSpec(r), buffers |-> AttentionBuffers(buffer),
   rows |-> [query |-> RowRange(memory, "xq"), key |-> RowRange(memory, "xk"),
             key_cache |-> RowRange(memory, "cache_k"),
             scores |-> RowRange(memory, "scores"),
             value_cache |-> RowRange(memory, "cache_v")]]

ReplicaOffsets == [k \in 1..Copies |-> (k - 1) * ChannelsPerBlock]

RotaryPlan(r, attention) ==
  LET Part(values) == [partitions |-> GroupLayout(values).partitions,
                       per_partition |-> ValuesPerPartition(GroupLayout(values))]
  IN  Extended(attention, [query |-> Part(r.hidden), key |-> Part(KvWidth(r))])

(* The round of the banks a token's key is written in. *)
KeyGroupOfFirstRound(token) == 0

KeyGroup(token) == token \div TotalBanks

(* The key cycles through the banks, the value runs along the columns. *)
KvPlan(r, attention) ==
  LET token == r.length - 1
  IN  Extended(attention,
      [sequence_index |-> token, key_bank |-> token % TotalBanks,
       key_group |-> KeyGroup(token), key_rows |-> CeilDiv(KvWidth(r), DramColumns),
       key_offsets |-> ReplicaOffsets,
       value_channels |-> [k \in 1..ChannelsPerBlock |-> k - 1],
       value_rows |-> CeilDiv(r.max, DramColumns),
       value_sequence_row |-> token \div DramColumns,
       value_heads |-> CeilDiv(r.kv_heads, ChannelsPerBlock),
       value_dimensions |-> CeilDiv(HeadSize(r), NumBanks)])

(* Full channels only. *)
ActiveChannelsFull(tokens) == tokens \div NumBanks

(* Channels that hold a key, of so many tokens in a round of the banks. *)
ActiveChannels(tokens) == CeilDiv(tokens, NumBanks)

(* The channels, in every copy, that hold the g-th round of tokens. *)
SequenceChannels(r, g) ==
  LET active == ActiveChannels(Lesser(r.length - (g - 1) * TotalBanks, TotalBanks))
  IN  Each(Copies, LAMBDA copy :
        [c \in 1..active |-> copy * ChannelsPerBlock + c - 1])

ScorePlan(r, attention) ==
  Extended(attention,
    [sequence_channels |->
       [g \in 1..CeilDiv(r.length, TotalBanks) |-> SequenceChannels(r, g)]])

TransferPlan(op, position) ==
  [op |-> op, position |-> position, offsets |-> ReplicaOffsets,
   banks |-> [g \in 1..Groups |-> (g - 1) * BanksPerGroup + position]]

SoftmaxPlan(r, attention) ==
  LET pass == [left |-> TransferPlan("WR_SBK", FirstOperand),
               right |-> TransferPlan("WR_SBK", SecondOperand),
               output |-> TransferPlan("RD_SBK", ResultPosition)]
  IN  Extended(attention,
        [heads_per_bank |-> CeilDiv(r.heads, Groups), passes |-> <<pass, pass>>])

-----------------------------------------------------------------------------
(* _create_silu_product_plan *)

SiluPlan(r, memory, buffer) ==
  LET Chunk(rows, values) ==
        LET per == CeilDiv(values, Groups)
        IN  [row |-> RowRange(memory, rows).start, per_partition |-> per,
             partitions |-> CeilDiv(values, per)]
  IN  [workspace |-> Holding(buffer.ffn_product, "product"),
       chunks |-> IF r.intermediate <= ActivationCapacity
                  THEN <<Chunk("x1_sigmoid", r.intermediate)>>
                  ELSE <<Chunk("x1", ActivationCapacity),
                         Chunk("x1_sigmoid", r.intermediate - ActivationCapacity)>>]

-----------------------------------------------------------------------------
(* _create_self_attention_lowering_plan, _create_feed_forward_lowering_plan *)

Projections == {"wq", "wk", "wv", "wo", "w1", "w3", "w2"}

ProjectionPlan(r, memory, b, name) ==
  LET Gemv(input, output, vector, outputs) ==
        GemvPlan(RowRange(memory, name), input, GroupLayout(vector), output,
                 IF name = "w1" THEN b.ffn_gate_sigmoid ELSE output, vector, outputs)
  IN  CASE name = "wq" -> Gemv(b.normalized, b.query_result, r.hidden, r.hidden)
        [] name = "wk" -> Gemv(b.normalized, b.key_result, r.hidden, KvWidth(r))
        [] name = "wv" -> Gemv(b.normalized, b.value_result, r.hidden, KvWidth(r))
        [] name = "wo" -> Gemv(Holding(b.normalized, "attended"),
                               Holding(b.query_result, "combined_result"),
                               r.hidden, r.hidden)
        [] name = "w1" -> Gemv(Holding(b.normalized, "ffn_normalized"), b.ffn_gate,
                               r.hidden, r.intermediate)
        [] name = "w3" -> Gemv(Holding(b.normalized, "ffn_normalized"), b.ffn_up,
                               r.hidden, r.intermediate)
        [] name = "w2" -> Gemv(Holding(b.ffn_product, "product"),
                               Holding(b.query_result, "down_result"),
                               r.intermediate, r.hidden)

ResidualPlan(r, memory, buffer, op) ==
  [op |-> op, layout |-> GroupLayout(r.hidden), rows |-> RowRange(memory, "sa"),
   buffer |-> Holding(buffer.query, "residual")]

AccumulatePlan(r, destination, source, makes) ==
  [layout |-> GroupLayout(r.hidden), destination |-> destination, source |-> source,
   makes |-> makes]

Stages == <<"sa_norm", "wq", "wk", "wv", "rotary", "kv_update", "scores", "softmax",
            "output", "wo", "sa_residual", "store", "ffn_norm", "w1", "w3", "silu", "w2",
            "load", "ffn_residual">>

AttentionStages == {"rotary", "kv_update", "scores", "softmax", "output"}

AttentionStagePlan(r, attention, stage) ==
  CASE stage = "rotary"    -> RotaryPlan(r, attention)
    [] stage = "kv_update" ->
         [KvPlan(r, attention) EXCEPT !.buffers.key.value = "rotated_key"]
    [] stage = "scores"    ->
         [ScorePlan(r, attention) EXCEPT !.buffers.query.value = "rotated_query"]
    [] stage = "softmax"   -> SoftmaxPlan(r, attention)
    [] stage = "output"    -> attention

NormStagePlan(r, memory, b, stage) ==
  LET RangeOf(name) == RowRange(memory, name)
  IN  CASE stage = "sa_norm" ->
             NormPlan(r, RangeOf("x"), RangeOf("x_copy"), RangeOf("sa_norm"), b.input,
                      Holding(b.normalized, "scale"), b.normalized, b.value)
        [] stage = "ffn_norm" ->
             NormPlan(r, RangeOf("sa_copy"), RangeOf("sa_copy"), RangeOf("ffn_norm"),
                      Holding(b.query, "residual"), Holding(b.normalized, "ffn_scale"),
                      Holding(b.normalized, "ffn_normalized"), b.value)

PlanOfStage(r, memory, b, stage) ==
  CASE stage \in {"sa_norm", "ffn_norm"} -> NormStagePlan(r, memory, b, stage)
    [] stage \in Projections -> ProjectionPlan(r, memory, b, stage)
    [] stage \in AttentionStages ->
         AttentionStagePlan(r, AttentionPlan(r, memory, b), stage)
    [] stage = "sa_residual" ->
         AccumulatePlan(r, Holding(b.query, "combined"), b.input, "residual")
    [] stage = "store" -> ResidualPlan(r, memory, b, "WR_SBK")
    [] stage = "silu" -> SiluPlan(r, memory, b)
    [] stage = "load" -> ResidualPlan(r, memory, b, "RD_SBK")
    [] stage = "ffn_residual" ->
         AccumulatePlan(r, Holding(b.normalized, "down"),
                        Holding(b.query, "residual"), "block_output")

StagePlan(r, stage) == PlanOfStage(r, PlannedMemory(r), BufferSpans(r), stage)

PlansAreValid(r, memory, buffer) ==
  /\ MemoryEnd(memory) <= DramRows
  /\ BufferFits(buffer)
  /\ {name \in Projections : ~ValidGemv(ProjectionPlan(r, memory, buffer, name))} = {}

(* _create_compile_plan accepts the request. *)
Planned(r) ==
  /\ ValidRequest(r)
  /\ ValidContext(r)
  /\ PlansAreValid(r, PlannedMemory(r), BufferSpans(r))
  /\ ValidSpec(AttentionSpec(r))

-----------------------------------------------------------------------------
(* _lower_self_attention, _lower_feed_forward *)

Lower(stage, p) ==
  CASE stage \in {"sa_norm", "ffn_norm"} -> RmsNorm(p)
    [] stage \in Projections -> WeightGemv(p)
    [] stage = "rotary" -> RotaryEmbedding(p)
    [] stage = "kv_update" -> KvCacheUpdate(p)
    [] stage = "scores" -> ScoreGemv(p)
    [] stage = "softmax" -> Softmax(p)
    [] stage = "output" -> AttentionOutput(p)
    [] stage \in {"sa_residual", "ffn_residual"} -> Accumulate(p)
    [] stage \in {"store", "load"} -> TransferVector(p)
    [] stage = "silu" -> SiluProduct(p)
=============================================================================
