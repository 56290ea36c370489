---------------------------- MODULE TensorMeaning ----------------------------
(***************************************************************************)
(* What the operations of the IR compute (the formulas their docstrings    *)
(* state), so that two functions can be compared by what they return.      *)
(*                                                                         *)
(* Every rank holds its own data for a value: the elements in row-major    *)
(* order, which is what the views rely on.  Elements are numbers modulo    *)
(* Modulus; the functions that are no polynomials are constants, for no    *)
(* pass may depend on what they compute.  RoPE pairs its elements as the   *)
(* default, is_neox_style = True.                                          *)
(***************************************************************************)
EXTENDS SemanticOps

CONSTANTS Modulus,      \* elements are in 0 .. Modulus - 1
          Exp(_), Divide(_, _), Sigmoid(_),
          RmsScale(_)   \* the factor of a row, from its sum of squares

(* A sequence with its elements computed. *)
Computed(s) == SubSeq(s, 1, Len(s))

Added(values) == FoldLeft(LAMBDA a, b : (a + b) % Modulus, 0, values)
Largest(values) == FoldLeft(LAMBDA a, b : IF a < b THEN b ELSE a, 0, values)

-----------------------------------------------------------------------------
(* Rows: the last dimension of a tensor. *)

Width(t) == Last(t.shape)
RowCount(t) == Numel(Front(t.shape))
Row(data, width, r) == SubSeq(data, (r - 1) * width + 1, r * width)
Rows(t, data) == Computed([r \in 1..RowCount(t) |-> Row(data, Width(t), r)])

Scalar(kind, a, b) ==
  CASE kind = "add" -> (a + b) % Modulus
    [] kind = "sub" -> (a - b) % Modulus
    [] kind = "mul" -> (a * b) % Modulus
    [] kind = "div" -> Divide(a, b)

Pairwise(kind, a, b) == Computed([i \in DOMAIN a |-> Scalar(kind, a[i], b[i])])

Activated(function, x) ==
  Computed([i \in DOMAIN x |->
    CASE function = "sigmoid" -> Sigmoid(x[i])
      [] function = "silu"    -> (x[i] * Sigmoid(x[i])) % Modulus
      [] function = "relu"    -> x[i]])

Repeated(x, size) == FlattenSeq([i \in DOMAIN x |-> [c \in 1..size |-> x[i]]])

SoftmaxRow(row) ==
  LET shifted == [i \in DOMAIN row |-> Exp((row[i] - Largest(row)) % Modulus)]
  IN  [i \in DOMAIN row |-> Divide(shifted[i], Added(shifted))]

Dot(a, b) == Added([i \in DOMAIN a |-> a[i] * b[i]])

NormRow(row, weight) ==
  [i \in DOMAIN row |-> (row[i] * weight[i] * RmsScale(Dot(row, row))) % Modulus]

Ones(n) == [i \in 1..n |-> 1]

LinearRow(row, w, bias) ==
  [o \in 1..Len(w) |-> (Dot(row, w[o]) + bias[o]) % Modulus]

-----------------------------------------------------------------------------
(* Tokens, heads and caches: [batch, tokens, heads, width]. *)

(* Head vector number h (from 0) of token n (from 0). *)
HeadVector(t, data, n, h) == Row(data, Width(t), n * t.shape[HeadsDim] + h + 1)

(* cos_sin_cache[p] holds the cosines, then as many sines. *)
Rotated(vector, angles) ==
  LET half == Len(angles) \div 2
      Turn(i) ==
        IF i <= half THEN vector[i] * angles[i] - vector[i + half] * angles[i + half]
        ELSE IF i <= 2 * half THEN vector[i] * angles[i - half] + vector[i - half] * angles[i]
        ELSE vector[i]
  IN  [i \in DOMAIN vector |-> Turn(i) % Modulus]

RopeData(t, data, positions, table, angles) ==
  LET heads == Last(Front(t.shape))
      Token(r) == (r - 1) \div heads
  IN  FlattenSeq([r \in 1..RowCount(t) |->
        Rotated(Row(data, Width(t), r), Row(angles, Width(table), positions[Token(r) + 1] + 1))])

(* new[b, t] lands at cache[b, positions[b, t]]; one token after another. *)
TokenSize(t) == t.shape[3] * t.shape[4]

KvUpdateData(cache, data, new, fresh, positions) ==
  LET size == TokenSize(cache)
      Slot(n) == (n \div new.shape[2]) * cache.shape[2] + positions[n + 1]
      Write(d, n) == [i \in DOMAIN d |->
        IF (i - 1) \div size = Slot(n) THEN fresh[n * size + ((i - 1) % size) + 1] ELSE d[i]]
  IN  FoldLeft(LAMBDA d, n : Computed(Write(d, n - 1)), data,
               [n \in 1..(new.shape[1] * new.shape[2]) |-> n])

(* scores[b, t, h, c] = scale * dot(q[b, t, h], k[b, c, h // group]) *)
GqaQkData(q, queries, k, keys, scale) ==
  LET group == q.shape[3] \div k.shape[3]
      Batch(n) == n \div q.shape[2]
      Score(n, h, c) == scale * Dot(HeadVector(q, queries, n, h),
                                    HeadVector(k, keys, Batch(n) * k.shape[2] + c, h \div group))
  IN  FlattenSeq([r \in 1..RowCount(q) |->
        [c \in 1..k.shape[2] |->
          Score((r - 1) \div q.shape[3], (r - 1) % q.shape[3], c - 1) % Modulus]])

(* out[b, t, h, d] = sum over c of probs[b, t, h, c] * v[b, c, h // group, d] *)
GqaSvData(p, probs, v, values) ==
  LET group == p.shape[3] \div v.shape[3]
      Batch(n) == n \div p.shape[2]
      Weighed(n, h, d) ==
        Added([c \in 1..v.shape[2] |->
          HeadVector(p, probs, n, h)[c]
            * HeadVector(v, values, Batch(n) * v.shape[2] + c - 1, h \div group)[d]])
  IN  FlattenSeq([r \in 1..RowCount(p) |->
        [d \in 1..v.shape[4] |->
          Weighed((r - 1) \div p.shape[3], (r - 1) % p.shape[3], d)]])

(* [batch, heads, sequence, width]: query head h reads KV head h // group.  *)
(* Unmasked, which is what FuseAttention builds.                            *)
AttentionData(q, queries, k, keys, v, values, scale) ==
  LET group == q.shape[2] \div k.shape[2]
      Vector(t, data, b, h, s) == Row(data, Width(t), (b * t.shape[2] + h) * t.shape[3] + s + 1)
      Probs(b, h, s) ==
        SoftmaxRow(Computed([c \in 1..k.shape[3] |->
          (scale * Dot(Vector(q, queries, b, h, s), Vector(k, keys, b, h \div group, c - 1)))
            % Modulus]))
      Out(b, h, s, probs) ==
        [d \in 1..v.shape[4] |->
          Added([c \in 1..k.shape[3] |->
            probs[c] * Vector(v, values, b, h \div group, c - 1)[d]])]
      Index(r) == <<(r - 1) \div (q.shape[2] * q.shape[3]),
                    ((r - 1) \div q.shape[3]) % q.shape[2],
                    (r - 1) % q.shape[3]>>
  IN  FlattenSeq([r \in 1..RowCount(q) |->
        LET at == Index(r) IN Out(at[1], at[2], at[3], Computed(Probs(at[1], at[2], at[3])))])

-----------------------------------------------------------------------------

EachRow(rows) == FlattenSeq(rows)

(* What one rank computes from its own data d of the operands. *)
LocalData(kind, attr, ts, d) ==
  CASE kind \in BinaryKinds    -> Pairwise(kind, d[1], d[2])
    [] kind = "activation"     -> Activated(attr[1], d[1])
    [] kind = "exp"            -> Computed([i \in DOMAIN d[1] |-> Exp(d[1][i])])
    [] kind = "reduce_sum"     -> Computed([r \in 1..RowCount(ts[1]) |-> Added(Rows(ts[1], d[1])[r])])
    [] kind = "reduce_max"     -> Computed([r \in 1..RowCount(ts[1]) |-> Largest(Rows(ts[1], d[1])[r])])
    [] kind = "broadcast"      -> Repeated(d[1], attr[1])
    [] kind = "softmax"        -> EachRow([r \in 1..RowCount(ts[1]) |-> SoftmaxRow(Rows(ts[1], d[1])[r])])
    [] kind = "rms_norm"       ->
         EachRow([r \in 1..RowCount(ts[1]) |->
           NormRow(Rows(ts[1], d[1])[r], IF Len(d) = 2 THEN d[2] ELSE Ones(Width(ts[1])))])
    [] kind = "linear"         ->
         EachRow([r \in 1..RowCount(ts[1]) |->
           LinearRow(Rows(ts[1], d[1])[r], Rows(ts[2], d[2]),
                     IF Len(d) = 3 THEN d[3] ELSE [o \in 1..ts[2].shape[1] |-> 0])])
    [] kind = "rope"           -> RopeData(ts[1], d[1], d[2], ts[3], d[3])
    [] kind = "kv_update"      -> KvUpdateData(ts[1], d[1], ts[2], d[2], d[3])
    [] kind = "gqa_qk"         -> GqaQkData(ts[1], d[1], ts[2], d[2], attr[1])
    [] kind = "gqa_sv"         -> GqaSvData(ts[1], d[1], ts[2], d[2])
    [] kind = "attention"      ->
         AttentionData(ts[1], d[1], ts[2], d[2], ts[3], d[3], attr[1])
    [] kind \in ViewKinds \cup {"copy", "transfer"} -> d[1]

(* AllReduceOp: every rank receives the sum. *)
Reduced(parts) ==
  Computed([i \in DOMAIN parts[1] |-> Added([r \in DOMAIN parts |-> parts[r][i]])])

(* The data of every rank for one operation's result. *)
Compute(op, ts, args) ==
  LET ranks == DOMAIN args[1]
  IN  IF op.kind = "all_reduce"
      THEN Computed([r \in ranks |-> Reduced(args[1])])
      ELSE Computed([r \in ranks |->
             LocalData(op.kind, op.attr, ts, [i \in DOMAIN args |-> args[i][r]])])

TypesOf(f, op) == [i \in DOMAIN op.operands |-> f.types[op.operands[i]]]

(* The data of every value of a function, its arguments' being given. *)
Values(f, arguments) ==
  FoldLeft(LAMBDA values, op :
             Append(values, Compute(op, TypesOf(f, op),
                                    [i \in DOMAIN op.operands |-> values[op.operands[i]]])),
           arguments, f.ops)

-----------------------------------------------------------------------------
(* ShareOf: the elements of a whole tensor that a rank (from 1) holds. *)

Inner(shape, d) == Numel(SubSeq(shape, d + 1, Len(shape)))

ShareOf(t, rank, whole) ==
  LET d == ShardedDim(t)
      Position(i) == (i \div Inner(t.whole, d)) % t.whole[d]
  IN  IF ~IsShard(t.placement) THEN whole
      ELSE LET held == SelectSeq([i \in DOMAIN whole |-> i],
                                 LAMBDA i : Position(i - 1) \div t.shape[d] = rank - 1)
           IN  Computed([n \in DOMAIN held |-> whole[held[n]]])

Shares(t, ranks, whole) == Computed([r \in 1..ranks |-> ShareOf(t, r, whole)])

(* What a function returns on every rank, given whole arguments. *)
Returned(f, ranks, wholes) ==
  LET given == [a \in 1..f.arguments |-> Shares(f.types[a], ranks, wholes[a])]
      Read(values) == [k \in DOMAIN f.returns |-> values[f.returns[k]]]
  IN  Read(Values(f, Computed(given)))
=============================================================================
