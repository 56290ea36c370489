------------------------------ MODULE MCPasses ------------------------------
(***************************************************************************)
(* IrPasses on small functions: both halves of a Llama block on one and    *)
(* two ranks, and functions that meet the corners of the rules.            *)
(***************************************************************************)
EXTENDS IrPasses

MCModulus == 97
MCExp(x) == (x * x * x + 5) % 97
MCDivide(a, b) == (a * (b * b + 3) + b) % 97
MCSigmoid(x) == (x * x + x + 7) % 97
MCRmsScale(s) == (s * s + 2) % 97

-----------------------------------------------------------------------------
(* Functions. *)

Arg(name, role, axes, shape) ==
  [name |-> name, role |-> role, axes |-> axes, shape |-> shape, dtype |-> "bf16"]
Index(name, role, axes, shape) == [Arg(name, role, axes, shape) EXCEPT !.dtype = "int"]

Weight(name, axes, shape) == Arg(name, "weight", axes, shape)
Input(name, axes, shape) == Arg(name, "activation", axes, shape)
Cache(name, axes, shape) == Arg(name, "kv_cache", axes, shape)

Sem(kind, attr, operands) == Op("aloi", kind, attr, operands)

FunctionOf(args, ops, returns) ==
  LET body == ExtendedBy([types |-> [a \in DOMAIN args |-> Imported(args[a].shape, args[a].dtype)],
                          ops |-> <<>>], ops)
  IN  [arguments |-> Len(args), types |-> body.types, ops |-> body.ops, returns |-> returns]

Datum(a, i) == (a * a * 37 + i * i * 13 + i * a * 7 + 11) % 97
DataOf(args) ==
  [a \in DOMAIN args |->
     Computed([i \in 1..Numel(args[a].shape) |->
                 IF args[a].dtype = "int" THEN 1 ELSE Datum(a, i)])]

Program(args, ops, returns) ==
  [args |-> args, function |-> FunctionOf(args, ops, returns)]

H == <<"hidden">>
B == <<"batch">>
T == <<"seq_len">>
C == <<"context">>
D == <<"head_dim">>
Q == <<"q_head">>
KV == <<"kv_head">>
F == <<"intermediate">>
QD == <<"q_head", "head_dim">>
KVD == <<"kv_head", "head_dim">>

(* x + o_proj(attention(rms_norm(x))), 4 query heads over 2 KV heads. *)
AttentionHalf ==
  Program(
    <<Weight("input_layernorm", <<H>>, <<4>>),
      Weight("q_proj", <<QD, H>>, <<8, 4>>), Weight("k_proj", <<KVD, H>>, <<4, 4>>),
      Weight("v_proj", <<KVD, H>>, <<4, 4>>), Weight("o_proj", <<H, QD>>, <<4, 8>>),
      Weight("cos_sin_cache", <<<<"position">>, <<"rotary_dim">>>>, <<3, 2>>),
      Input("x", <<B, T, H>>, <<1, 1, 4>>),
      Index("positions", "activation", <<B, T>>, <<1, 1>>),
      Cache("k_cache", <<B, C, KV, D>>, <<1, 3, 2, 2>>),
      Cache("v_cache", <<B, C, KV, D>>, <<1, 3, 2, 2>>)>>,
    <<Sem("rms_norm", <<>>, <<7, 1>>),        \* 11
      Sem("linear", <<>>, <<11, 2>>), Sem("split_heads", <<2>>, <<12>>),
      Sem("linear", <<>>, <<11, 3>>), Sem("split_heads", <<2>>, <<14>>),
      Sem("linear", <<>>, <<11, 4>>), Sem("split_heads", <<2>>, <<16>>),
      Sem("rope", <<>>, <<13, 8, 6>>),        \* 18
      Sem("rope", <<>>, <<15, 8, 6>>),
      Sem("kv_update", <<>>, <<9, 19, 8>>),   \* 20
      Sem("kv_update", <<>>, <<10, 17, 8>>),
      Sem("gqa_qk", <<3>>, <<18, 20>>), Sem("softmax", <<>>, <<22>>),
      Sem("gqa_sv", <<>>, <<23, 21>>),        \* 24
      Sem("merge_heads", <<>>, <<24>>), Sem("linear", <<>>, <<25, 5>>),
      Sem("add", <<>>, <<7, 26>>)>>,          \* 27
    <<27, 20, 21>>)

(* x + down_proj(silu(gate_proj(x)) * up_proj(x)). *)
MlpHalf ==
  Program(
    <<Weight("norm", <<H>>, <<4>>), Weight("gate_proj", <<F, H>>, <<4, 4>>),
      Weight("up_proj", <<F, H>>, <<4, 4>>), Weight("down_proj", <<H, F>>, <<4, 4>>),
      Input("x", <<B, T, H>>, <<1, 2, 4>>)>>,
    <<Sem("rms_norm", <<>>, <<5, 1>>), Sem("linear", <<>>, <<6, 2>>),
      Sem("linear", <<>>, <<6, 3>>), Sem("activation", <<"silu">>, <<7>>),
      Sem("mul", <<>>, <<9, 8>>), Sem("linear", <<>>, <<10, 4>>),
      Sem("add", <<>>, <<5, 11>>)>>,
    <<12>>)

RowAxes == <<T, H>>
X(shape) == Input("x", RowAxes, shape)
W == Weight("w", <<F, H>>, <<4, 4>>)

(* A sum over the rows of what a split axis may be. *)
RowSums ==
  Program(<<X(<<2, 4>>), W>>,
          <<Sem("linear", <<>>, <<1, 2>>), Sem("reduce_sum", <<>>, <<3>>),
            Sem("exp", <<>>, <<4>>)>>, <<5, 3>>)

(* The softmax of what may be split along its rows. *)
RowSoftmax ==
  Program(<<X(<<2, 4>>), W>>, <<Sem("linear", <<>>, <<1, 2>>), Sem("softmax", <<>>, <<3>>)>>, <<4>>)

(* A result that another operation had moved already, returned twice. *)
SharedResult ==
  Program(<<X(<<2, 4>>), W>>,
          <<Sem("linear", <<>>, <<1, 2>>), Sem("add", <<>>, <<3, 3>>)>>, <<4, 3>>)

(* Products of weights are returned near memory; the argument comes back. *)
WeightProducts ==
  Program(<<Weight("a", RowAxes, <<2, 2>>), Weight("b", RowAxes, <<2, 2>>), X(<<2, 2>>)>>,
          <<Sem("mul", <<>>, <<1, 2>>), Sem("mul", <<>>, <<3, 3>>), Sem("copy", <<>>, <<5>>),
            Sem("activation", <<"sigmoid">>, <<4>>), Sem("mul", <<>>, <<4, 3>>)>>,
          <<4, 6, 7, 4, 3, 1, 8>>)

WithBias ==
  Program(<<X(<<2, 4>>), W, Weight("bias", <<F>>, <<4>>)>>,
          <<Sem("linear", <<>>, <<1, 2, 3>>)>>, <<4>>)

Views ==
  Program(<<X(<<2, 2>>), Weight("w", <<F, <<"flat">>>>, <<2, 4>>)>>,
          <<Sem("reshape", <<4>>, <<1>>), Sem("linear", <<>>, <<3, 2>>),
            Sem("activation", <<"relu">>, <<4>>)>>, <<5>>)

IntSoftmax == Program(<<Index("x", "activation", RowAxes, <<2, 2>>)>>, <<Sem("softmax", <<>>, <<1>>)>>, <<2>>)

(* x is moved to the banks once, however many products read it. *)
PositionsInBanks ==
  Program(<<Input("x", <<T, Q, D>>, <<2, 1, 2>>), Index("positions", "weight", <<T>>, <<2>>),
            Weight("table", <<<<"position">>, <<"rotary_dim">>>>, <<3, 2>>)>>,
          <<Sem("rope", <<>>, <<1, 2, 3>>)>>, <<4>>)

Unavailable ==
  [Views EXCEPT !.function.returns = <<9>>]

(* Attention over caches of k and v heads; the values of v are computed     *)
(* before the scores, or (late) between them and their use.                 *)
AttentionArgs(context, kheads, vheads) ==
  <<Input("q", <<B, T, Q, D>>, <<1, 1, 4, 2>>), Cache("k", <<B, C, KV, D>>, <<1, context, kheads, 2>>),
    Cache("v", <<B, C, KV, D>>, <<1, context, vheads, 3>>)>>

Chain(context, kheads, vheads) ==
  Program(AttentionArgs(context, kheads, vheads),
          <<Sem("gqa_qk", <<3>>, <<1, 2>>), Sem("softmax", <<>>, <<4>>),
            Sem("gqa_sv", <<>>, <<5, 3>>), Sem("merge_heads", <<>>, <<6>>)>>, <<7>>)

LateValues ==
  Program(AttentionArgs(5, 1, 1),
          <<Sem("gqa_qk", <<3>>, <<1, 2>>), Sem("copy", <<>>, <<3>>), Sem("softmax", <<>>, <<4>>),
            Sem("gqa_sv", <<>>, <<6, 5>>)>>, <<7>>)

ReturnedProbs ==
  Program(AttentionArgs(5, 1, 1),
          <<Sem("gqa_qk", <<3>>, <<1, 2>>), Sem("softmax", <<>>, <<4>>),
            Sem("gqa_sv", <<>>, <<5, 3>>)>>, <<6, 5>>)

(* The second chain's queries are what the first attends to. *)
TwoChains ==
  Program(<<Input("q", <<B, T, Q, D>>, <<1, 1, 4, 2>>), Cache("k", <<B, C, KV, D>>, <<1, 3, 1, 2>>),
            Cache("v", <<B, C, KV, D>>, <<1, 3, 1, 2>>)>>,
          <<Sem("gqa_qk", <<3>>, <<1, 2>>), Sem("softmax", <<>>, <<4>>), Sem("gqa_sv", <<>>, <<5, 3>>),
            Sem("gqa_qk", <<2>>, <<6, 2>>), Sem("softmax", <<>>, <<7>>), Sem("gqa_sv", <<>>, <<8, 3>>),
            Sem("add", <<>>, <<6, 9>>)>>, <<10>>)

-----------------------------------------------------------------------------
(* Devices. *)

CentOps ==
  ({"pim"} \X Implemented.pim) \cup ({"pnm"} \X (Implemented.pnm \ {"softmax"}))
    \cup {<<"cxl", "all_reduce">>, <<"device", "transfer">>, <<"device", "copy">>,
          <<"device", "broadcast">>}

(* examples/cent/cent.yaml *)
Cent == [ops |-> CentOps, dtypes |-> {"bf16"}, pim_activations |-> {"sigmoid"},
         pnm_activations |-> {"sigmoid"}, bias |-> FALSE]

(* A softmax unit, SiLU in the banks only, products in the banks only. *)
SoftmaxUnit ==
  [Cent EXCEPT !.ops = (@ \cup {<<"pnm", "softmax">>}) \ {<<"pnm", "mul">>},
               !.pim_activations = {"silu"}, !.pnm_activations = {}, !.bias = TRUE]

(* SiLU near memory only, whose products are near memory too. *)
NearMemory ==
  [Cent EXCEPT !.ops = @ \ {<<"pim", "mul">>}, !.pim_activations = {"relu"}]

Unmovable == [Cent EXCEPT !.ops = @ \ {<<"device", "transfer">>}]
IntToo == [Cent EXCEPT !.dtypes = {"bf16", "int"}]

Devices == {Cent, SoftmaxUnit, NearMemory}

-----------------------------------------------------------------------------
(* Compilations. *)

NamesOf(p) == [a \in DOMAIN p.args |-> p.args[a].name]
AnnotationsOf(p) ==
  [n \in Range(NamesOf(p)) |->
     LET a == CHOOSE i \in DOMAIN p.args : p.args[i].name = n
     IN  [role |-> p.args[a].role, axes |-> p.args[a].axes]]

Sizes == [q_head |-> 4, kv_head |-> 2]

Compile(p, plan, device, passes) ==
  [function |-> p.function, names |-> NamesOf(p), annotations |-> AnnotationsOf(p),
   plan |-> plan, sizes |-> Sizes, device |-> device, passes |-> passes,
   data |-> DataOf(p.args)]

Whole1 == Plan(1, <<>>)
Megatron(tp) == Plan(tp, <<SplitRule("q_head"), SplitRule("kv_head")>>)
SplitMlp(tp) == Plan(tp, <<SplitRule("intermediate")>>)

ToDevice == <<"annotate", "shard", "lower">>
ToParts == <<"annotate", "decompose", "shard">>
Lower == <<"annotate", "lower">>

LlamaSources ==
  {Compile(AttentionHalf, Megatron(tp), device, ToDevice) : tp \in 1..2, device \in Devices}
    \cup {Compile(MlpHalf, SplitMlp(tp), device, ToDevice) : tp \in 1..2, device \in Devices}
    \cup {Compile(p, Megatron(2), Cent, ToParts) : p \in {AttentionHalf}}
    \cup {Compile(MlpHalf, SplitMlp(2), Cent, ToParts)}

(* The plan, exceptions and sizes that a function does not fit. *)
PlanSources ==
  {Compile(AttentionHalf, plan, Cent, ToDevice) : plan \in
     {Megatron(4), Plan(2, <<SplitRule("q_head")>>), Plan(2, <<SplitRule("head_dim")>>),
      Plan(2, <<SplitRule("nowhere")>>), Plan(2, <<KeepWhole(<<"nothing">>)>>),
      Plan(2, <<SplitRule("q_head"), SplitOnly("q_head", <<"q_proj">>)>>),
      Plan(2, <<SplitRule("q_head"), SplitRule("hidden"), KeepWhole(<<"x", "x">>)>>),
      Plan(2, <<SplitRule("q_head"), SplitRule("hidden")>>),
      Plan(2, <<SplitOnly("hidden", <<"x">>), KeepWhole(<<"q_proj">>)>>)}}
    \cup {[Compile(AttentionHalf, Megatron(2), Cent, ToDevice) EXCEPT !.sizes = [q_head |-> 4]],
          [Compile(MlpHalf, Whole1, Cent, ToDevice) EXCEPT !.annotations =
             [@ EXCEPT !["x"] = [role |-> "activation", axes |-> <<H>>]]],
          [Compile(MlpHalf, Whole1, Cent, ToDevice) EXCEPT !.annotations =
             [@ EXCEPT !["gate_proj"] = [role |-> "weight", axes |-> <<H, F>>]]],
          [Compile(MlpHalf, Whole1, Cent, ToDevice) EXCEPT !.annotations =
             [@ EXCEPT !["x"] = [role |-> "activation", axes |-> <<>>]]],
          [Compile(MlpHalf, Whole1, Cent, ToDevice) EXCEPT !.names[5] = "y"],
          Compile(MlpHalf, Whole1, Cent, <<"shard">>),
          Compile(MlpHalf, Whole1, Cent, <<"lower", "lower">>),
          Compile(MlpHalf, Plan(2, <<SplitRule("intermediate"), KeepWhole(<<"up_proj">>)>>),
                  Cent, ToDevice)}

CornerSources ==
  {Compile(p, SplitMlp(tp), device, ToDevice) :
     p \in {RowSums, RowSoftmax, SharedResult, WithBias}, tp \in 1..2, device \in {Cent, SoftmaxUnit}}
    \cup {Compile(p, Whole1, device, Lower) :
            p \in {WeightProducts}, device \in Devices \cup {Unmovable}}
    \cup {Compile(RowSums, SplitMlp(2), Cent, ToParts)}
    \cup {Compile(PositionsInBanks, Whole1, device, Lower) : device \in {Cent, IntToo}}
    \cup {Compile(Views, Whole1, device, <<"lower">>) : device \in {Cent, NearMemory}}
    \cup {Compile(IntSoftmax, Whole1, Cent, <<"decompose">>), Compile(Views, Whole1, Cent, Lower),
          Compile(Unavailable, Whole1, Cent, Lower)}

FusionSources ==
  {Compile(p, Whole1, Cent, <<"fuse">>) :
     p \in {Chain(5, 1, 1), Chain(5, 2, 2), Chain(1, 2, 2), Chain(1, 1, 2), LateValues,
            ReturnedProbs, TwoChains}}
    \cup {Compile(TwoChains, Plan(2, <<SplitRule("batch")>>), Cent, <<"annotate", "fuse">>)}

MCSources == LlamaSources \cup PlanSources \cup CornerSources \cup FusionSources
=============================================================================
