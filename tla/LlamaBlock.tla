----------------------------- MODULE LlamaBlock -----------------------------
(***************************************************************************)
(* compile_llama_transformer_block (models/llama/compiler.py) and what its *)
(* program does to the storage it is planned into.                         *)
(*                                                                         *)
(* A request is planned, the stages are lowered one builder call at a      *)
(* time, and a finished program is executed.  Between stages the runtime   *)
(* supplies the vectors the compiler leaves to it: the block input, the    *)
(* scale of a norm, and every accumulator result packed again.             *)
(*                                                                         *)
(* holds remembers which value each Shared Buffer slot, burst of a Global  *)
(* Buffer and DRAM row holds, scores by their head and row of tokens.      *)
(* Storage the program has not written holds "host": weights, earlier      *)
(* tokens, or nothing.                                                     *)
(*                                                                         *)
(* A fault spoils one plan handed to a lowerer: a reservation one slot or  *)
(* row short, one moved past the last row, or a softmax pass reading from  *)
(* channels that do not exist.                                             *)
(***************************************************************************)
EXTENDS LlamaStages

CONSTANTS Requests,       \* requests compiled as planned
          FaultyRequests  \* requests compiled with every fault

VARIABLES request, fault, status, stage, pending, starts, program, pc, supplied, holds

vars == <<request, fault, status, stage, pending, starts, program, pc, supplied, holds>>

-----------------------------------------------------------------------------
(* Faults. *)

AttentionRows == {"query", "key", "key_cache", "scores", "value_cache"}
AttentionSpans == {"query", "key", "value", "scores", "output"}

(* The reservations of a plan no constructor ties to a layout. *)
RowsOf(name) ==
  CASE name \in {"sa_norm", "ffn_norm"} -> {"input_rows", "work_rows", "weight_rows"}
    [] name \in Projections -> {"weights"}
    [] name \in {"store", "load"} -> {"rows"}
    [] OTHER -> {}

SpansOf(name) ==
  CASE name \in {"sa_norm", "ffn_norm"} -> {"partial"}
    [] name = "w1" -> {"output", "activated"}
    [] name \in Projections -> {"output"}
    [] name = "silu" -> {"workspace"}
    [] OTHER -> {}

NoFault == [kind |-> "none", stages |-> {}]

Fault(kind, stages, part, name) ==
  [kind |-> kind, stages |-> stages, part |-> part, name |-> name]

CountIn(p, f) == IF f.part = "plan" THEN p[f.name].count ELSE p[f.part][f.name].count
PlannedCount(r, f) == CountIn(StagePlan(r, CHOOSE name \in f.stages : TRUE), f)

Faults(r) ==
  LET names  == Range(Stages)
      rows   == UNION {{Fault(k, {n}, "plan", f) : k \in {"short", "moved"}, f \in RowsOf(n)}
                         : n \in names}
      spans  == UNION {{Fault("short", {n}, "plan", f) : f \in SpansOf(n)} : n \in names}
      shared == {Fault(k, AttentionStages, "rows", f) :
                   k \in {"short", "moved"}, f \in AttentionRows}
                \cup {Fault("short", AttentionStages, "buffers", f) : f \in AttentionSpans}
  IN  {f \in rows \cup spans \cup shared : PlannedCount(r, f) >= 2}
      \cup {[kind |-> "pass", stages |-> {"softmax"}]}

Edited(place, f) ==
  IF f.kind = "short" THEN [place EXCEPT !.count = @ - 1]
  ELSE [place EXCEPT !.start = DramRows - place.count + 1]

Spoiled(p, f) ==
  CASE f.kind = "pass" ->
         [p EXCEPT !.passes[2].output.offsets = [k \in DOMAIN @ |-> @[k] + ChannelsPerBlock]]
    [] f.kind # "pass" /\ f.part = "plan" -> [p EXCEPT ![f.name] = Edited(@, f)]
    [] f.kind # "pass" /\ f.part # "plan" -> [p EXCEPT ![f.part][f.name] = Edited(@, f)]

Given(p, name, f) == IF name \in f.stages THEN Spoiled(p, f) ELSE p

(* What the lowerer of the k-th stage has to do. *)
Steps(k) == Lower(Stages[k], Given(StagePlan(request, Stages[k]), Stages[k], fault))

-----------------------------------------------------------------------------
(* What an instruction reads and writes, by slot, Global Buffer burst and  *)
(* row.                                                                    *)

SlotCells(slot, count) == {<<"slot", slot + k>> : k \in 0..(count - 1)}
RowCells(channels, banks, row) == {<<"row", c, b, row>> : c \in channels, b \in banks}

(* The bursts of the Global Buffers an operation of a size takes from a    *)
(* column on.                                                              *)
GlobalCells(channels, column, size) ==
  {<<"global", c, column \div BurstLength + k>> : c \in channels, k \in 0..(size - 1)}

Positions(positions) == {b \in Banks : b % BanksPerGroup \in positions}

SlotReads(i) ==
  CASE i.op \in {"WR_SBK", "WR_GB"} -> SlotCells(i.slot, i.size)
    [] i.op \in {"WR_ABK", "WR_BIAS"} -> SlotCells(i.slot, 1)
    [] i.op = "ACC" -> SlotCells(i.source, i.size) \cup SlotCells(i.destination, i.size)
    [] OTHER -> {}

RowReads(i) ==
  CASE i.op = "RD_SBK"    -> RowCells({i.channel}, {i.bank}, i.row)
    [] i.op = "COPY_BKGB" -> RowCells(Range(i.channels), {i.bank}, i.row)
    [] i.op = "EW_MUL"    -> RowCells(Range(i.channels),
                                      Positions({FirstOperand, SecondOperand}), i.row)
    [] i.op = "MAC_ABK"   -> RowCells(Range(i.channels), Banks, i.row)
    [] OTHER -> {}

GlobalReads(i) ==
  IF i.op = "COPY_GBBK" \/ (i.op = "MAC_ABK" /\ i.source = "GLOBAL_BUFFER")
  THEN GlobalCells(Range(i.channels), i.column, i.size) ELSE {}

Writes(i) ==
  CASE i.op = "RD_SBK" -> SlotCells(i.slot, i.size)
    [] i.op = "WR_SBK" -> RowCells({i.channel}, {i.bank}, i.row)
    [] i.op = "WR_ABK" -> RowCells({i.channel}, Banks, i.row)
    [] i.op \in {"WR_GB", "COPY_BKGB"} -> GlobalCells(Range(i.channels), i.column, i.size)
    [] i.op = "COPY_GBBK" -> RowCells(Range(i.channels), {i.bank}, i.row)
    [] i.op = "EW_MUL" -> RowCells(Range(i.channels), Positions({ResultPosition}), i.row)
    [] i.op \in ResultReads -> SlotCells(i.slot, 1)
    [] i.op = "ACC" -> SlotCells(i.destination, i.size)
    [] OTHER -> {}

SpanCells(span) == SlotCells(span.start, span.count)
PackedCells(spans) == [c \in UNION {SpanCells(s) : s \in spans} |->
                         (CHOOSE s \in spans : c \in SpanCells(s)).value]

(***************************************************************************)
(* What the runtime packs before a stage (the TODOs of the compiler):      *)
(* pairs of the span it reads and the span it writes.  A pair of one span  *)
(* twice is a value that comes from outside: so do the zeros sums start    *)
(* from (TODO(runtime)), and the scores of the first head and row, as      *)
(* nothing says where those of another would go.                           *)
(***************************************************************************)
SuppliesIn(b, name) ==
  LET Outside(span, value) == <<Holding(span, value), Holding(span, value)>>
  IN  CASE name = "sa_norm" ->
             {Outside(b.input, "input"), Outside(b.normalized, "scale")}
        [] name = "rotary" ->
             {<<b.query_result, b.query>>, <<b.key_result, b.key>>,
              <<b.value_result, b.value>>}
        [] name = "scores" -> {Outside(b.scores, "zero")}
        [] name = "softmax" -> {Outside(b.scores, PartOf("scores", <<0, 0>>))}
        [] name = "output" -> {Outside(b.normalized, "zero")}
        [] name = "wo" -> {Outside(b.normalized, "attended")}
        [] name = "sa_residual" ->
             {<<Holding(b.query_result, "combined_result"), Holding(b.query, "combined")>>}
        [] name = "ffn_norm" -> {Outside(b.normalized, "ffn_scale")}
        [] name = "w2" -> {Outside(b.ffn_product, "product")}
        [] name = "load" ->
             {<<Holding(b.query_result, "down_result"), Holding(b.normalized, "down")>>}
        [] OTHER -> {}

Supplies(r, name) == SuppliesIn(BufferSpans(r), name)

Packing(r, name) == {s \in Supplies(r, name) : s[1] # s[2]}

-----------------------------------------------------------------------------

Init ==
  /\ \/ request \in Requests /\ fault = NoFault
     \/ request \in FaultyRequests /\ fault \in Faults(request)
  /\ status = "asked"
  /\ stage = 0 /\ pending = <<>> /\ starts = <<>> /\ program = <<>>
  /\ pc = 1 /\ supplied = 0 /\ holds = << >>

(* _create_compile_plan *)
Plan ==
  /\ status = "asked"
  /\ IF Planned(request)
     THEN status' = "lowering" /\ stage' = 1 /\ starts' = <<1>> /\ pending' = Steps(1)
     ELSE status' = "rejected" /\ UNCHANGED <<stage, starts, pending>>
  /\ UNCHANGED <<request, fault, program, pc, supplied, holds>>

(* One call of the builder. *)
Extend ==
  /\ status = "lowering"
  /\ pending # <<>>
  /\ Head(pending).ok
  /\ BatchAccepted(Head(pending).batch)
  /\ program' = AppendAll(program, Head(pending).batch)
  /\ pending' = Tail(pending)
  /\ UNCHANGED <<request, fault, status, stage, starts, pc, supplied, holds>>

(* A lowerer or the builder raises: the compilation ends. *)
Refuse ==
  /\ status = "lowering"
  /\ pending # <<>>
  /\ ~(Head(pending).ok /\ BatchAccepted(Head(pending).batch))
  /\ program' = IF Head(pending).ok THEN AppendAll(program, Head(pending).batch)
                ELSE program
  /\ status' = "refused"
  /\ UNCHANGED <<request, fault, stage, pending, starts, pc, supplied, holds>>

(* The lowerer returns; after the last one the program is finished. *)
Return ==
  /\ status = "lowering"
  /\ pending = <<>>
  /\ starts' = Append(starts, Len(program) + 1)
  /\ IF stage < Len(Stages)
     THEN stage' = stage + 1 /\ pending' = Steps(stage + 1) /\ UNCHANGED status
     ELSE status' = "running" /\ UNCHANGED <<stage, pending>>
  /\ UNCHANGED <<request, fault, program, pc, supplied, holds>>

(* The runtime packs what the next stage takes. *)
Supply ==
  /\ status = "running"
  /\ supplied < Len(Stages)
  /\ pc = starts[supplied + 1]
  /\ supplied' = supplied + 1
  /\ holds' = PackedCells({s[2] : s \in Supplies(request, Stages[supplied + 1])}) @@ holds
  /\ UNCHANGED <<request, fault, status, stage, pending, starts, program, pc>>

(* The device executes the next instruction. *)
Execute ==
  /\ status = "running"
  /\ supplied > 0
  /\ pc < starts[supplied + 1]
  /\ pc' = pc + 1
  /\ holds' = [c \in Writes(program[pc]) |-> program[pc].makes] @@ holds
  /\ UNCHANGED <<request, fault, status, stage, pending, starts, program, supplied>>

Next == Plan \/ Extend \/ Refuse \/ Return \/ Supply \/ Execute

Spec == Init /\ [][Next]_vars

-----------------------------------------------------------------------------
(* Properties. *)

Held(cell) == IF cell \in DOMAIN holds THEN holds[cell] ELSE "host"
HoldOnly(cells, values) ==
  values = {} \/ {c \in cells : Held(c) \notin values} = {}

(* Where a stage of the program is being executed or about to be supplied. *)
Upcoming == status = "running" /\ pc <= Len(program)
Supplied == supplied > 0 /\ pc < starts[supplied + 1]

(* One query head, one group of dimensions and one round and row of tokens *)
(* have one score row and one sum.                                         *)
OneScore(r) ==
  /\ r.heads = 1 /\ HeadSize(r) = NumBanks
  /\ r.length <= Lesser(TotalBanks, DramColumns)

(* Where the attention keeps what it has of every head and row in the      *)
(* slots of one, each overwriting the other (the TODO(attention) and       *)
(* TODO(runtime) of lower_score_gemv and lower_attention_output).          *)
SharedByHeads(r, name) ==
  LET b == StagePlan(r, "output").buffers
  IN  CASE OneScore(r) -> {}
        [] ~OneScore(r) /\ name \in {"scores", "softmax"} -> SpanCells(b.scores)
        [] ~OneScore(r) /\ name = "output" ->
             SpanCells(b.scores) \cup SlotCells(b.output.start, 1)
        [] OTHER -> {}

SlotsInPlace ==
  Upcoming =>
    IF Supplied
    THEN HoldOnly(SlotReads(program[pc]) \ SharedByHeads(request, Stages[supplied]),
                  program[pc].needs)
    ELSE \A s \in Packing(request, Stages[supplied + 1]) :
           HoldOnly(SpanCells(s[1]), {s[1].value})


(* A lowerer that raises because a reservation is too small, or a pass is  *)
(* wrong, has added nothing to the program.  The cache update does not     *)
(* keep this.                                                              *)
RefusedLowererAddsNothing ==
  status = "refused" /\ fault.kind \in {"short", "pass"} /\ Stages[stage] # "kv_update"
    => Len(program) = starts[stage] - 1

(* A batch the builder refuses leaves the program as it was, whichever of  *)
(* its instructions was the invalid one.                                   *)
RefusedBatchAddsNothing == [][status' = "refused" => program' = program]_vars

(* From the norm of the attention to the store of its result, every slot   *)
(* read holds the value the reader is for: no reuse came too early.  The   *)
(* slots that heads and rows of tokens share are left out, unless there is *)
(* one score row and one sum for them to hold.                             *)
AttentionSlotsKept == supplied <= 12 => SlotsInPlace

(* _plan_shared_buffer: "Reserve buffer slots and reuse them only after    *)
(* earlier values are no longer needed."                                   *)
BlockSlotsKept == SlotsInPlace

(* A head that is not the first of its key row: the score stage takes its  *)
(* query slice from columns to which no WR_GB of the stage wrote one.      *)
LaterInKeyRow(i) == Stages[supplied] = "scores" /\ i.op = "MAC_ABK" /\ i.column > 0

(* Every row and Global Buffer read holds what the reader is for: weights  *)
(* and cached tokens are never overwritten, products are read in the row   *)
(* of their own head, and a Global Buffer is reloaded, as far as it is     *)
(* read, before the next vector is streamed.  What a load brings is named  *)
(* by its lowerer; whether the slots it is from held that is a matter of   *)
(* AttentionSlotsKept.  Left out are the query slices of the heads after   *)
(* the first of a key row.                                                 *)
RowsKept ==
  Upcoming /\ Supplied =>
    LET i == program[pc]
    IN  /\ HoldOnly(RowReads(i), i.needs)
        /\ ~LaterInKeyRow(i) =>
              HoldOnly(GlobalReads(i), IF i.op = "MAC_ABK" THEN i.streams ELSE i.needs)

(* What the products of a projection meet in the instructions of a span:   *)
(* the output its sum is read into, the piece of the input, the row.       *)
Meetings(p, span) ==
  LET Of(op) == {n \in span : program[n].op = op}
      Latest(op, n) == CHOOSE m \in Of(op) :
                         m < n /\ {j \in Of(op) : m < j /\ j < n} = {}
      Reader(n) == CHOOSE m \in Of("RD_MAC") :
                     /\ n < m /\ program[m].register = program[n].register
                     /\ {j \in Of("RD_MAC") : n < j /\ j < m /\
                           program[j].register = program[n].register} = {}
      Piece(n) == (program[Latest("WR_GB", n)].slot - p.input.start)
                    \div (DramColumns \div BurstLength)
  IN  [n \in Of("MAC_ABK") |->
         <<program[Reader(n)].slot - p.output.start, Piece(n), program[n].row>>]

EachRowOnce(met, p) ==
  /\ Range(met) = {<<o, v, WeightRow(p, o, v)>> :
                     o \in 0..(p.per_bank - 1), v \in 0..(RowsPerOutput(p) - 1)}
  /\ Cardinality(DOMAIN met) = p.per_bank * RowsPerOutput(p)

MeetEachRowOnce(p, span) == EachRowOnce(Meetings(p, span), p)

(* In each projection every weight row meets the piece of the input that   *)
(* belongs to it once, and its sum goes to the slot of its output.         *)
WeightRowsMeetTheirInput ==
  status = "running" /\ pc = 1 /\ supplied = 0 =>
    \A k \in {j \in DOMAIN Stages : Stages[j] \in Projections} :
      MeetEachRowOnce(StagePlan(request, Stages[k]), starts[k]..(starts[k + 1] - 1))
=============================================================================
