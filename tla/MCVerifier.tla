----------------------------- MODULE MCVerifier -----------------------------
(***************************************************************************)
(* MappingVerifier on every graph of two operations over two inputs (one   *)
(* kind of each family), on some graphs of three operations with every     *)
(* order of their operations, and every way to share storage.              *)
(***************************************************************************)
EXTENDS MappingVerifier

Operations(name, readable) ==
  {[name |-> name, kind |-> k, inputs |-> <<v, w>>] :
     k \in {"add", "linear"}, v \in readable, w \in readable}
  \cup {[name |-> name, kind |-> k, inputs |-> <<v>>] :
          k \in {"copy", "softmax"}, v \in readable}

(* Every value takes one slot, except the result of a matrix product. *)
Numel(ops) ==
  [v \in {"x", "y"} \cup {ops[k].name : k \in DOMAIN ops} |->
     IF \E k \in DOMAIN ops : ops[k].name = v /\ ops[k].kind = "linear" THEN 3 ELSE 2]

GraphOf(ops, outs) ==
  [inputs |-> <<"x", "y">>, operations |-> ops, outputs |-> outs, numel |-> Numel(ops)]

Op1(name, kind, a) == [name |-> name, kind |-> kind, inputs |-> <<a>>]
Op2(name, kind, a, b) == [name |-> name, kind |-> kind, inputs |-> <<a, b>>]

TwoOperations ==
  {GraphOf(<<p, q>>, outs) :
     p \in Operations("p", {"x", "y"}), q \in Operations("q", {"x", "y", "p"}),
     outs \in {<<"q">>, <<"q", "x">>, <<"p">>}}

ThreeOperations ==
  {GraphOf(ops, outs) :
     ops \in {<<Op2("p", "add", "x", "y"), Op1("q", "softmax", "x"), Op2("r", "multiply", "q", "p")>>,
              <<Op1("p", "copy", "x"), Op2("q", "add", "p", "y"), Op2("r", "add", "x", "q")>>,
              <<Op2("p", "linear", "x", "y"), Op2("q", "linear", "y", "x"), Op2("r", "add", "p", "q")>>,
              <<Op1("p", "reshape", "y"), Op1("q", "activation", "p"), Op2("r", "rms_norm", "q", "y")>>},
     outs \in {<<"r">>, <<"r", "y">>}}

Target == [burst |-> 2, slots |-> 6, registers |-> 1, reference |-> TRUE]
Request(g, t) == [graph |-> g, target |-> t, constraints |-> <<>>]

Required == [Request(CHOOSE g \in ThreeOperations : g.outputs = <<"r">>, Target)
               EXCEPT !.constraints = <<[value |-> "p", storage |-> Named("s2")]>>]

MCRequests ==
  {Request(g, Target) : g \in TwoOperations \cup ThreeOperations}
  \cup {Required,
        [Required EXCEPT !.constraints = @ \o @],
        [Required EXCEPT !.target.reference = FALSE],
        [Required EXCEPT !.target.slots = 2]}

-----------------------------------------------------------------------------
(* Plans: storage is named s1, s2, ... in the order values first use it.   *)

StorageNames == <<Named("s1"), Named("s2"), Named("s3"), Named("s4"), Named("s5")>>

Sharings(n) ==
  {f \in [1..n -> 1..n] :
     f[1] = 1 /\ \A i \in 2..n : \E j \in 1..(i - 1) : f[i] <= f[j] + 1}

Placed(values, f) ==
  [i \in DOMAIN values |-> [value |-> values[i], storage |-> StorageNames[f[i]]]]

Orders(g) ==
  LET n == Len(g.operations)
      perms == {p \in [1..n -> 1..n] : \A i, j \in 1..n : p[i] = p[j] => i = j}
  IN  {[k \in 1..n |-> g.operations[p[k]].name] : p \in perms}

Registers(g) ==
  LET users == SelectSeq(g.operations, LAMBDA op : op.kind \in AccumulatorKinds)
  IN  [k \in DOMAIN users |-> [operation |-> users[k].name, register |-> 0]]

GoodPlan(g, f, order) ==
  [placements |-> Placed(Values(g), f), schedule |-> order, accumulators |-> Registers(g)]

Identity(g) == [i \in DOMAIN Values(g) |-> i]
InOrder(g) == [k \in DOMAIN g.operations |-> g.operations[k].name]

(* Plans an external provider gets wrong, one check at a time. *)
WrongPlans(g) ==
  LET plain == GoodPlan(g, Identity(g), InOrder(g))
  IN  {[plain EXCEPT !.placements = Tail(@)],
       [plain EXCEPT !.placements = Append(@, [value |-> "x", storage |-> Named("s9")])],
       [plain EXCEPT !.placements[1].storage = Unnamed],
       [plain EXCEPT !.schedule = Tail(@)],
       [plain EXCEPT !.schedule = Append(Tail(@), @[2])],
       [plain EXCEPT !.accumulators = Append(@, [operation |-> g.operations[1].name, register |-> 0])],
       [plain EXCEPT !.accumulators = [k \in DOMAIN @ |-> [@[k] EXCEPT !.register = 1]]]}

MCPlans(r) ==
  LET g == r.graph
      n == Len(Values(g))
  IN  {GoodPlan(g, f, order) : f \in Sharings(n),
                               order \in IF n = 4 THEN {InOrder(g)} ELSE Orders(g)}
      \cup (IF g \in ThreeOperations THEN WrongPlans(g) ELSE {})
=============================================================================
