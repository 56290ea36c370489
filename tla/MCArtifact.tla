----------------------------- MODULE MCArtifact -----------------------------
(***************************************************************************)
(* CompiledArtifact on a channel of eight banks with two-lane bursts, DRAM *)
(* rows of two slots and a Global Buffer of one: odd widths, several input *)
(* tiles, two output groups, two bank groups, copies, products and sums in *)
(* several chunks, grouped query heads, shared and full masks.  Scalars    *)
(* are the integers modulo seven and the masked score.                     *)
(***************************************************************************)
EXTENDS CompiledArtifact

MCMasked == 7
MCValue == 0..7
MCAdd(x, y) == IF MCMasked \in {x, y} THEN MCMasked ELSE (x + y) % 7
MCMultiply(x, y) == IF MCMasked \in {x, y} THEN MCMasked ELSE (x * y) % 7

Unmasked(row) == SelectSeq(row, LAMBDA x : x # MCMasked)

(* No formula maps zero to zero: padding would show in a result. *)
MCService(name, row, k) ==
  CASE name = "SOFTMAX"    -> IF row[k] = MCMasked THEN 0
                              ELSE (3 * row[k] + 1 + SumOf(Unmasked(row))) % 7
    [] name = "SCALE"      -> (2 * row[1] + 1) % 7
    [] name = "RMS_SCALE"  -> (row[1] + 3) % 7
    [] name = "ACTIVATION" -> (row[1] * row[1] + 2) % 7
    [] name = "ROPE"       -> (2 * row[k] + row[(k % Len(row)) + 1] + k) % 7
MCRejects(op, operands) == FALSE

-----------------------------------------------------------------------------

Op1(name, kind, ins) == [name |-> name, kind |-> kind, inputs |-> ins]
Attention(name, ins, causal, offset) ==
  Op1(name, "attention", ins) @@ [causal |-> causal, offset |-> offset]

GraphOf(ins, ops, outs, dims) ==
  [inputs |-> ins, operations |-> ops, outputs |-> outs, shape |-> dims,
   numel |-> [v \in DOMAIN dims |-> DimsProduct(dims[v])]]

(* Three tiles of input, nine outputs on eight banks, two rows. *)
Matrix ==
  GraphOf(<<"x", "w">>, <<Op1("p", "linear", <<"x", "w">>), Op1("q", "activation", <<"p">>)>>,
          <<"q">>, ("x" :> <<2, 5>>) @@ ("w" :> <<9, 5>>) @@ ("p" :> <<2, 9>>) @@ ("q" :> <<2, 9>>))

(* Seven scalars in four slots: chunks of two slots, sums of three and one. *)
Elementwise ==
  GraphOf(<<"x", "y">>,
          <<Op1("p", "add", <<"x", "y">>), Op1("q", "multiply", <<"p", "y">>),
            Op1("r", "reshape", <<"q">>), Op1("s", "add", <<"r", "q">>)>>, <<"s", "x", "q">>,
          [v \in {"x", "y", "p", "q", "s"} |-> <<7>>] @@ ("r" :> <<7, 1>>))

(* Two rows of five scalars: three slots in chunks of two. *)
Norm ==
  GraphOf(<<"x", "s">>,
          <<Op1("p", "rms_norm", <<"x", "s">>), Op1("q", "copy", <<"p">>),
            Op1("r", "add", <<"p", "q">>)>>, <<"r">>,
          [v \in {"x", "p", "q", "r"} |-> <<2, 5>>] @@ ("s" :> <<5>>))

RowWise ==
  GraphOf(<<"x", "position", "table">>,
          <<Op1("p", "softmax", <<"x">>), Op1("q", "rope", <<"p", "position", "table">>),
            Op1("r", "multiply", <<"q", "q">>)>>, <<"r">>,
          [v \in {"x", "p", "q", "r"} |-> <<1, 1, 3>>] @@ ("position" :> <<1>>)
          @@ ("table" :> <<2, 2>>))

(* Four query heads over two key/value heads, a mask of its own per row. *)
Grouped ==
  GraphOf(<<"q", "k", "v", "m">>, <<Attention("o", <<"q", "k", "v", "m">>, FALSE, 0)>>, <<"o">>,
          ("q" :> <<1, 4, 1, 3>>) @@ ("k" :> <<1, 2, 2, 3>>) @@ ("v" :> <<1, 2, 2, 1>>)
          @@ ("m" :> <<1, 4, 1, 2>>) @@ ("o" :> <<1, 4, 1, 1>>))

(* Two queries from position one on over three keys, one mask for all. *)
Causal ==
  GraphOf(<<"q", "k", "v", "m">>, <<Attention("o", <<"q", "k", "v", "m">>, TRUE, 0)>>, <<"o">>,
          ("q" :> <<1, 1, 2, 2>>) @@ ("k" :> <<1, 1, 3, 2>>) @@ ("v" :> <<1, 1, 3, 2>>)
          @@ ("m" :> <<2, 3>>) @@ ("o" :> <<1, 1, 2, 2>>))

(* Two batches without a mask. *)
Batched ==
  GraphOf(<<"q", "k", "v">>, <<Attention("o", <<"q", "k", "v">>, TRUE, 1)>>, <<"o">>,
          [v \in {"q", "k", "v", "o"} |-> <<2, 1, 1, 2>>] @@ ("k" :> <<2, 1, 2, 2>>)
          @@ ("v" :> <<2, 1, 2, 2>>))

(* The tensors fit, the workspace of the product does not. *)
Tight ==
  GraphOf(<<"x", "w">>, <<Op1("p", "linear", <<"x", "w">>)>>, <<"p">>,
          ("x" :> <<7, 4>>) @@ ("w" :> <<6, 4>>) @@ ("p" :> <<7, 6>>))

MCGraphs == {Matrix, Elementwise, Norm, RowWise, Grouped, Causal, Batched, Tight}

MCRequests ==
  {[graph |-> g, constraints |-> <<>>,
    target |-> [burst |-> BurstLength, slots |-> SharedBufferSlots,
                registers |-> AccumulatorSlots, reference |-> TRUE]] : g \in MCGraphs}

(* Distinct scalars; masks hide the second key of the first row. *)
Tensor(g, v, seed) ==
  [name |-> v,
   values |-> [i \in 1..g.numel[v] |->
                 IF v = "m" /\ i = 2 THEN MCMasked ELSE (i * i + 3 * i * seed + seed) % 7]]

InOrder(g, seed) == [i \in DOMAIN g.inputs |-> Tensor(g, g.inputs[i], seed + i)]

(* Two sets of tensors, one given in reverse order, and one incomplete. *)
MCTensors(g) ==
  {InOrder(g, 1), Reverse(InOrder(g, 2)), Tail(InOrder(g, 1))}
=============================================================================
