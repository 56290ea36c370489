------------------------------ MODULE LlamaPlan ------------------------------
(***************************************************************************)
(* The plan of one Llama block for one decode step                         *)
(* (models/llama/planning.py): which requests are accepted, where every    *)
(* tensor lives in the rows of the banks, where every value lives in the   *)
(* Shared Buffer, and the plan each lowerer is given.                      *)
(*                                                                         *)
(* A request is a record of hidden, heads, kv_heads and intermediate       *)
(* sizes, and the length and max of the sequence.                          *)
(***************************************************************************)
EXTENDS AttentionLowering

(* LlamaModelSpec.__post_init__ and DecodeStepSpec.__post_init__ *)
ValidRequest(r) ==
  /\ {r.hidden, r.heads, r.kv_heads, r.intermediate, r.max} \subseteq Nat \ {0}
  /\ r.hidden % r.heads = 0
  /\ r.heads % r.kv_heads = 0
  /\ r.length \in 1..r.max

HeadSize(r) == r.hidden \div r.heads
KvWidth(r) == HeadSize(r) * r.kv_heads
ActivationCapacity == ChannelsPerBlock * (NumBanks \div BanksPerGroup) * DramColumns

(* _create_context, _validate_context *)
ValidContext(r) ==
  /\ ValidPlacement
  /\ AccumulatorSlots >= 2
  /\ HeadSize(r) >= NumBanks
  /\ HeadSize(r) % NumBanks = 0
  /\ HeadSize(r) <= DramColumns
  /\ DramColumns % HeadSize(r) = 0
  /\ HeadSize(r) % BurstLength = 0
  /\ r.intermediate <= 2 * ActivationCapacity

GroupLayout(values) == PlanVector(values, Groups, BurstLength)

-----------------------------------------------------------------------------
(* DRAM rows. *)

OutputsPerBank(outputs) == CeilDiv(outputs, TotalBanks)
MatrixRows(outputs, inputs) == OutputsPerBank(outputs) * CeilDiv(inputs, DramColumns)

(* _row_counts, for caches of so many token positions. *)
RowCountsFor(r, positions) ==
  LET vector == CeilDiv(ValuesPerPartition(GroupLayout(r.hidden)), DramColumns)
      tokens == CeilDiv(positions, DramColumns)
      expanded == MatrixRows(r.intermediate, r.hidden)
  IN  [vector |-> vector,
       wq |-> MatrixRows(r.hidden, r.hidden),
       wkv |-> MatrixRows(KvWidth(r), r.hidden),
       cache_k |-> CeilDiv(positions, TotalBanks) * CeilDiv(KvWidth(r), DramColumns),
       scores |-> tokens * CeilDiv(r.heads, Groups),
       cache_v |-> tokens * CeilDiv(r.kv_heads, ChannelsPerBlock)
                          * CeilDiv(HeadSize(r), NumBanks),
       expanded |-> expanded,
       intermediate_vector |-> CeilDiv(r.intermediate, TotalBanks * DramColumns),
       ffn_vector |-> CeilDiv(r.intermediate, DramColumns * NumBanks),
       w2 |-> MatrixRows(r.hidden, r.intermediate)]


(* The whole reservation, not the tokens there are today. *)
RowCounts(r) == RowCountsFor(r, r.max)

(* The regions of a bank, in the order they are reserved. *)
RegionsOf(n) ==
  << <<"x", n.vector>>, <<"x_copy", n.vector>>, <<"sa_norm", n.vector>>,
     <<"wq", n.wq>>, <<"wk", n.wkv>>, <<"wv", n.wkv>>,
     <<"xq", n.vector>>, <<"xk", n.vector>>,
     <<"cache_k", n.cache_k>>, <<"scores", n.scores>>, <<"cache_v", n.cache_v>>,
     <<"output", n.vector>>, <<"wo", n.wq>>, <<"sa", n.vector>>,
     <<"sa_copy", n.vector>>, <<"ffn_norm", n.vector>>,
     <<"w1", n.expanded>>, <<"w3", n.expanded>>,
     <<"x1", n.intermediate_vector>>, <<"x3", n.intermediate_vector>>,
     <<"x1_sigmoid", n.intermediate_vector>>, <<"ffn_vector", n.ffn_vector>>,
     <<"w2", n.w2>>, <<"ffn", n.vector>> >>

(* _plan_memory *)
PlannedMemory(r) == RegionsOf(RowCounts(r))

(* A cursor left on the last row of a region of several rows. *)
RowCursorSharingRows(regions, k) ==
  LET cursor[j \in 0..Len(regions)] ==
        IF j = 0 THEN 0
        ELSE cursor[j - 1] + (IF regions[j][2] > 1 THEN regions[j][2] - 1 ELSE 1)
  IN  cursor[k - 1]

(* _RowAllocator: region k starts where region k - 1 ended. *)
RowCursor(regions, k) ==
  LET cursor[j \in 0..Len(regions)] ==
        IF j = 0 THEN 0 ELSE cursor[j - 1] + regions[j][2]
  IN  cursor[k - 1]

RowRange(memory, name) ==
  LET k == CHOOSE j \in DOMAIN memory : memory[j][1] = name
  IN  [start |-> RowCursor(memory, k), count |-> memory[k][2]]

MemoryEnd(memory) == RowCursor(memory, Len(memory) + 1)

-----------------------------------------------------------------------------
(* Shared Buffer slots. *)

SpanAt(start, count, value) == [start |-> start, count |-> count, value |-> value]

(* _plan_shared_buffer: attention values one after the other, the FFN      *)
(* results from slot zero on.                                              *)
BufferSpans(r) ==
  LET hidden   == SlotCount(GroupLayout(r.hidden))
      kv       == SlotCount(GroupLayout(KvWidth(r)))
      hiddenResults   == OutputsPerBank(r.hidden)
      kvResults       == OutputsPerBank(KvWidth(r))
      expandedResults == OutputsPerBank(r.intermediate)
      results  == 2 * hidden
      packed   == results + hiddenResults + 2 * kvResults
      scores   == packed + hidden + 2 * kv
  IN  [input        |-> SpanAt(0, hidden, "input"),
       normalized   |-> SpanAt(hidden, hidden, "normalized"),
       query_result |-> SpanAt(results, hiddenResults, "query_result"),
       key_result   |-> SpanAt(results + hiddenResults, kvResults, "key_result"),
       value_result |-> SpanAt(results + hiddenResults + kvResults, kvResults,
                               "value_result"),
       query        |-> SpanAt(packed, hidden, "query"),
       key          |-> SpanAt(packed + hidden, kv, "key"),
       value        |-> SpanAt(packed + hidden + kv, kv, "value"),
       scores       |-> SpanAt(scores, RowBursts(r.length, 0), "scores"),
       ffn_gate     |-> SpanAt(0, expandedResults, "ffn_gate"),
       ffn_gate_sigmoid |-> SpanAt(expandedResults, expandedResults, "ffn_gate_sigmoid"),
       ffn_up       |-> SpanAt(2 * expandedResults, expandedResults, "ffn_up"),
       ffn_product  |-> SpanAt(0, SlotCount(GroupLayout(r.intermediate)), "ffn_product")]

SpanEnd(span) == span.start + span.count
BufferFits(buffer) ==
  {n \in DOMAIN buffer : SpanEnd(buffer[n]) > SharedBufferSlots} = {}
=============================================================================
