--------------------------- MODULE IrPassesProofs ---------------------------
(***************************************************************************)
(* Whatever functions are imported, for whatever device and under whatever *)
(* plan: the functions the passes hand on are well formed.                 *)
(***************************************************************************)
EXTENDS IrPasses, FiniteSetTheorems, WellFoundedInduction, TLAPS

-----------------------------------------------------------------------------
(* Lists. *)

IsListing(s) == Len(s) \in Nat /\ s = [k \in 1..Len(s) |-> s[k]]

\* A sequence is a listing of its elements, in range.
LEMMA SequenceListing ==
  ASSUME NEW S, NEW s \in Seq(S)
  PROVE  IsListing(s) /\ DOMAIN s = 1..Len(s) /\ \A k \in 1..Len(s) : s[k] \in S
BY DEF IsListing

\* The positions of a listing.
LEMMA ListingDomain ==
  ASSUME NEW s, IsListing(s)
  PROVE  DOMAIN s = 1..Len(s) /\ Len(s) \in Nat
BY DEF IsListing

\* A function on 1..n is a listing of n elements.
LEMMA FunctionListing ==
  ASSUME NEW s, NEW n \in Nat, s = [k \in 1..n |-> s[k]]
  PROVE  IsListing(s) /\ Len(s) = n
<1>1. s \in [1..n -> {s[k] : k \in 1..n}]
  OBVIOUS
<1>2. s \in Seq({s[k] : k \in 1..n}) /\ Len(s) = n
  BY <1>1
<1> QED  BY <1>2 DEF IsListing

\* Append (Python's list + [x]).
LEMMA AppendListing ==
  ASSUME NEW s, IsListing(s), NEW x
  PROVE  /\ IsListing(Append(s, x))
         /\ Len(Append(s, x)) = Len(s) + 1
         /\ \A k \in 1..Len(s) : Append(s, x)[k] = s[k]
         /\ Append(s, x)[Len(s) + 1] = x
<1> DEFINE S == {s[k] : k \in 1..Len(s)} \cup {x}
<1>1. s \in [1..Len(s) -> S] /\ Len(s) \in Nat
  BY DEF IsListing
<1>2. s \in Seq(S)
  BY <1>1
<1>3. x \in S
  OBVIOUS
<1> HIDE DEF S
<1>4. Append(s, x) \in Seq(S)
  BY <1>2, <1>3
<1>5. IsListing(Append(s, x))
  BY <1>4, SequenceListing
<1> QED  BY <1>2, <1>3, <1>5

\* The least number of a set of numbers, which the inductions start from.
LEMMA LeastNatural ==
  ASSUME NEW T, T \subseteq Nat, T # {}
  PROVE  \E m \in T : \A k \in T : m <= k
<1>1. PICK x : x \in T
  OBVIOUS
<1>2. x \in Nat
  BY <1>1
<1>3. PICK m \in T : \A k \in T : <<k, m>> \notin OpToRel(<, Nat)
  BY <1>1, <1>2, WFMin, NatLessThanWellFounded, Zenon
<1>4. \A k \in T : ~(k < m)
  BY <1>3, Zenon DEF OpToRel
<1> QED  BY <1>4

-----------------------------------------------------------------------------
(* Types and operations. *)

HasFields(t) ==
  /\ t = [shape |-> t.shape, dtype |-> t.dtype, role |-> t.role, axes |-> t.axes,
          whole |-> t.whole, placement |-> t.placement, domain |-> t.domain]
  /\ t.dtype # "none"

IsTensor(t) == HasFields(t) /\ ValidType(t)

\* A tensor is not the type of what raised.
LEMMA TensorIsAType ==
  ASSUME NEW t, IsTensor(t)
  PROVE  t # NoType
BY DEF IsTensor, HasFields, NoType, Imported, Tensor

IsOp(op) ==
  /\ op = Op(op.unit, op.kind, op.attr, op.operands)
  /\ op.kind \in Kinds
  /\ IsListing(op.operands) /\ Len(op.operands) \in Arity(op.kind)

\* It has a first operand, whose element type it computes on.
LEMMA FirstOperand ==
  ASSUME NEW op, IsOp(op)
  PROVE  Len(op.operands) \in Nat \ {0} /\ 1 \in DOMAIN op.operands
         /\ DOMAIN op.operands = 1..Len(op.operands)
<1>1. Len(op.operands) \in Nat /\ DOMAIN op.operands = 1..Len(op.operands)
  BY DEF IsOp, IsListing
<1>2. Arity(op.kind) \subseteq {1, 2, 3, 4}
  BY DEF Arity, BinaryKinds
<1>3. Len(op.operands) \in Arity(op.kind)
  BY DEF IsOp
<1> QED  BY <1>1, <1>2, <1>3

\* The result has all the fields of a tensor.
LEMMA ResultFields ==
  ASSUME NEW kind \in Kinds, NEW attr, NEW ts, HasFields(ts[1])
  PROVE  HasFields(Result(kind, attr, ts))
<1> DEFINE r == Result(kind, attr, ts)
<1>1. CASE kind \in BinaryKinds
  BY <1>1 DEF Result, BinaryKinds, BinaryResult, Tensor, HasFields
<1>2. CASE kind \in {"activation", "exp", "softmax", "rms_norm", "copy", "rope"}
  BY <1>2 DEF Result, BinaryKinds, Activation, HasFields
<1>3. CASE kind \in {"reduce_max", "reduce_sum"}
  BY <1>3 DEF Result, BinaryKinds, ReducedResult, Tensor, HasFields
<1>4. CASE kind = "broadcast"
  BY <1>4 DEF Result, BinaryKinds, BroadcastResult, Activation, HasFields
<1>5. CASE kind = "reshape"
  BY <1>5 DEF Result, BinaryKinds, Imported, Tensor, HasFields
<1>6. CASE kind = "linear"
  BY <1>6 DEF Result, BinaryKinds, LinearResult, Tensor, HasFields
<1>7. CASE kind = "split_heads"
  BY <1>7 DEF Result, BinaryKinds, SplitResult, Tensor, HasFields
<1>8. CASE kind = "merge_heads"
  BY <1>8 DEF Result, BinaryKinds, MergeResult, Tensor, HasFields
<1>9. CASE kind \in {"kv_update", "transfer"}
  BY <1>9 DEF Result, BinaryKinds, HasFields
<1>10. CASE kind \in {"gqa_qk", "gqa_sv"}
  BY <1>10 DEF Result, BinaryKinds, GqaResult, Tensor, HasFields
<1>11. CASE kind = "attention"
  BY <1>11 DEF Result, BinaryKinds, AttentionResult, Tensor, HasFields
<1>12. CASE kind = "all_reduce"
  BY <1>12 DEF Result, BinaryKinds, HasFields
<1> QED  BY <1>1, <1>2, <1>3, <1>4, <1>5, <1>6, <1>7, <1>8, <1>9, <1>10, <1>11, <1>12
            DEF Kinds, BinaryKinds, ViewKinds

\* What an operation infers from tensors is a tensor, or it raised (ir/base.py __post_init__).
LEMMA InferTensor ==
  ASSUME NEW op, op.kind \in Kinds, NEW ts, 1 \in DOMAIN ts, \A i \in DOMAIN ts : IsTensor(ts[i])
  PROVE  Infer(op, ts) = NoType \/ IsTensor(Infer(op, ts))
<1> DEFINE r == Result(op.kind, op.attr, ts)
<1>1. HasFields(r)
  <2>1. HasFields(ts[1])
    BY DEF IsTensor
  <2> QED  BY <2>1, ResultFields
<1> HIDE DEF r
<1>2. HasFields([r EXCEPT !.domain = ResultDomain(op, ts)])
  BY <1>1 DEF HasFields
<1> QED  BY <1>2 DEF Infer, Checked, IsTensor, r

-----------------------------------------------------------------------------
(***************************************************************************)
(* A body over n arguments: operation k reads values that exist before it  *)
(* and its result has the type it infers.                                  *)
(***************************************************************************)
Reads(op, last) == \A i \in 1..Len(op.operands) : op.operands[i] \in 1..last

WellFormed(n, body) ==
  /\ n \in Nat
  /\ IsListing(body.types) /\ IsListing(body.ops)
  /\ Len(body.types) = n + Len(body.ops)
  /\ \A v \in 1..Len(body.types) : IsTensor(body.types[v])
  /\ \A k \in 1..Len(body.ops) :
       /\ IsOp(body.ops[k])
       /\ Reads(body.ops[k], n + k - 1)
       /\ body.types[n + k] = Infers(body.types, body.ops[k])

(* The same types up to a value.                                           *)
Agree(types, more, last) == \A v \in 1..last : types[v] = more[v]

\* What an operation infers depends on the types of the values it reads only.
LEMMA InfersFromReads ==
  ASSUME NEW op, IsOp(op), NEW last, Reads(op, last), NEW types, NEW more,
         Agree(types, more, last)
  PROVE  OperandTypes(types, op) = OperandTypes(more, op) /\ Infers(types, op) = Infers(more, op)
<1>1. DOMAIN op.operands = 1..Len(op.operands)
  BY DEF IsOp, IsListing
<1>2. \A i \in DOMAIN op.operands : types[op.operands[i]] = more[op.operands[i]]
  BY <1>1 DEF Reads, Agree
<1>3. OperandTypes(types, op) = OperandTypes(more, op)
  BY <1>2 DEF OperandTypes
<1> QED  BY <1>3 DEF Infers

\* Reading tensors, an operation infers a tensor or raises.
LEMMA InfersTensor ==
  ASSUME NEW op, IsOp(op), NEW last \in Nat, Reads(op, last), NEW types,
         \A v \in 1..last : IsTensor(types[v])
  PROVE  Infers(types, op) = NoType \/ IsTensor(Infers(types, op))
<1>1. DOMAIN op.operands = 1..Len(op.operands)
  BY DEF IsOp, IsListing
<1>2. 1 \in DOMAIN op.operands
  BY FirstOperand
<1> DEFINE ts == OperandTypes(types, op)
<1>3. 1 \in DOMAIN ts /\ \A i \in DOMAIN ts : IsTensor(ts[i])
  BY <1>1, <1>2 DEF OperandTypes, Reads
<1>4. op.kind \in Kinds
  BY DEF IsOp
<1> HIDE DEF ts
<1>5. Infer(op, ts) = NoType \/ IsTensor(Infer(op, ts))
  BY <1>3, <1>4, InferTensor
<1> QED  BY <1>5 DEF Infers, ts

(* after is body and the first m of ops, appended one after another.       *)
Grown(body, ops, m, after) ==
  /\ IsListing(after.types) /\ IsListing(after.ops)
  /\ Len(after.types) = Len(body.types) + m
  /\ Len(after.ops) = Len(body.ops) + m
  /\ \A v \in 1..Len(body.types) : after.types[v] = body.types[v]
  /\ \A k \in 1..Len(body.ops) : after.ops[k] = body.ops[k]
  /\ \A k \in 1..m :
       /\ after.ops[Len(body.ops) + k] = ops[k]
       /\ after.types[Len(body.types) + k] = Infers(after.types, ops[k])

(* Operations that may be appended after value last.                       *)
Appendable(ops, last) ==
  /\ IsListing(ops)
  /\ \A k \in 1..Len(ops) : IsOp(ops[k]) /\ Reads(ops[k], last + k - 1)

\* A body that grew by appendable operations is well formed again.
LEMMA GrownWellFormed ==
  ASSUME NEW n, NEW body, WellFormed(n, body), NEW ops, Appendable(ops, Len(body.types)),
         NEW m \in 0..Len(ops), NEW after, Grown(body, ops, m, after),
         \A v \in 1..Len(after.types) : IsTensor(after.types[v])
  PROVE  WellFormed(n, after)
<1> DEFINE K == Len(body.ops)
<1>1. n \in Nat /\ K \in Nat /\ m \in Nat /\ Len(body.types) = n + K /\ Len(ops) \in Nat
  BY DEF WellFormed, IsListing, Appendable
<1>2. IsListing(after.types) /\ IsListing(after.ops)
      /\ Len(after.types) = n + K + m /\ Len(after.ops) = K + m
  BY <1>1 DEF Grown
<1>3. ASSUME NEW k \in 1..(K + m)
      PROVE  /\ IsOp(after.ops[k]) /\ Reads(after.ops[k], n + k - 1)
             /\ after.types[n + k] = Infers(after.types, after.ops[k])
  <2>1. CASE k <= K
    <3>1. k \in 1..K /\ n + k - 1 \in Nat /\ n + k \in 1..(n + K)
      BY <1>1, <2>1
    <3>2. after.ops[k] = body.ops[k] /\ after.types[n + k] = body.types[n + k]
      BY <3>1, <1>1 DEF Grown
    <3>3. /\ IsOp(body.ops[k]) /\ Reads(body.ops[k], n + k - 1)
          /\ body.types[n + k] = Infers(body.types, body.ops[k])
      BY <3>1 DEF WellFormed
    <3>4. \A v \in 1..(n + k - 1) : body.types[v] = after.types[v]
      BY <3>1, <1>1 DEF Grown
    <3>5. Infers(body.types, body.ops[k]) = Infers(after.types, body.ops[k])
      <4> DEFINE last == n + k - 1
      <4>1. Reads(body.ops[k], last) /\ Agree(body.types, after.types, last)
        BY <3>3, <3>4 DEF Agree
      <4> HIDE DEF last
      <4> QED  BY <3>3, <4>1, InfersFromReads
    <3> QED  BY <3>2, <3>3, <3>5
  <2>2. CASE k > K
    <3>1. PICK j \in 1..m : k = K + j
      <4>1. k - K \in 1..m /\ k = K + (k - K)
        BY <1>1, <2>2
      <4> QED  BY <4>1
    <3>2. /\ after.ops[k] = ops[j]
          /\ after.types[n + k] = Infers(after.types, ops[j])
      <4>1. n + k = Len(body.types) + j
        BY <1>1, <3>1
      <4> QED  BY <4>1, <3>1 DEF Grown
    <3>3. IsOp(ops[j]) /\ Reads(ops[j], n + k - 1)
      <4>1. j \in 1..Len(ops) /\ Len(body.types) + j - 1 = n + k - 1
        BY <1>1, <3>1
      <4>2. IsOp(ops[j]) /\ Reads(ops[j], Len(body.types) + j - 1)
        BY <4>1 DEF Appendable
      <4> QED  BY <4>1, <4>2
    <3> QED  BY <3>2, <3>3
  <2> QED  BY <1>1, <2>1, <2>2
<1> HIDE DEF K
<1> QED  BY <1>1, <1>2, <1>3 DEF WellFormed

\* A body is what grew by none.
LEMMA GrownByNone ==
  ASSUME NEW n, NEW body, WellFormed(n, body), NEW ops
  PROVE  Grown(body, ops, 0, body)
BY DEF WellFormed, IsListing, Grown

\* One operation more, unless it raises.
LEMMA GrownByOne ==
  ASSUME NEW n, NEW body, WellFormed(n, body), NEW ops, Appendable(ops, Len(body.types)),
         NEW m, m \in 1..Len(ops), NEW before, Grown(body, ops, m - 1, before),
         WellFormed(n, before), Extended(before, ops[m]) # Broken
  PROVE  /\ Grown(body, ops, m, Extended(before, ops[m]))
         /\ WellFormed(n, Extended(before, ops[m]))
<1> DEFINE after == Extended(before, ops[m])
           t == Infers(before.types, ops[m])
           N == Len(body.types)
           K == Len(body.ops)
<1>1. /\ IsListing(before.types) /\ IsListing(before.ops)
      /\ Len(before.types) = N + (m - 1) /\ Len(before.ops) = K + (m - 1)
      /\ N \in Nat /\ K \in Nat /\ m \in Nat /\ m >= 1 /\ Len(ops) \in Nat
  BY DEF Grown, WellFormed, IsListing, Appendable
<1>2. /\ after.types = Append(before.types, t) /\ after.ops = Append(before.ops, ops[m])
      /\ t # NoType
  BY DEF Extended
<1>3. /\ IsListing(after.types) /\ Len(after.types) = N + m
      /\ \A v \in 1..(N + (m - 1)) : after.types[v] = before.types[v]
      /\ after.types[N + m] = t
  <2> HIDE DEF after, t, N
  <2>1. N + (m - 1) + 1 = N + m
    BY <1>1
  <2> QED  BY <1>1, <1>2, <2>1, AppendListing
<1>4. /\ IsListing(after.ops) /\ Len(after.ops) = K + m
      /\ \A k \in 1..(K + (m - 1)) : after.ops[k] = before.ops[k]
      /\ after.ops[K + m] = ops[m]
  <2> HIDE DEF after, t, K
  <2>1. K + (m - 1) + 1 = K + m
    BY <1>1
  <2> QED  BY <1>1, <1>2, <2>1, AppendListing
<1>5. IsOp(ops[m]) /\ Reads(ops[m], N + m - 1) /\ N + m - 1 \in Nat
  <2>1. IsOp(ops[m]) /\ Reads(ops[m], N + m - 1)
    BY DEF Appendable
  <2> HIDE DEF N
  <2>2. N + m - 1 \in Nat
    BY <1>1
  <2> QED  BY <2>1, <2>2
<1>6. \A v \in 1..(N + m - 1) : before.types[v] = after.types[v]
  BY <1>1, <1>3
<1> HIDE DEF after
<1>7. t = Infers(after.types, ops[m])
  <2> DEFINE last == N + m - 1
  <2>1. Reads(ops[m], last) /\ Agree(before.types, after.types, last)
    BY <1>5, <1>6 DEF Agree
  <2> HIDE DEF last
  <2> QED  BY <1>5, <2>1, InfersFromReads
<1>8. ASSUME NEW k \in 1..m
      PROVE  after.ops[K + k] = ops[k] /\ after.types[N + k] = Infers(after.types, ops[k])
  <2>1. CASE k = m
    BY <2>1, <1>3, <1>4, <1>7
  <2>2. CASE k # m
    <3>1. k \in 1..(m - 1) /\ K + k \in 1..(K + (m - 1)) /\ N + k \in 1..(N + (m - 1))
      BY <1>1, <2>2
    <3>2. /\ before.ops[K + k] = ops[k]
          /\ before.types[N + k] = Infers(before.types, ops[k])
      BY <3>1 DEF Grown
    <3>3. k \in 1..Len(ops) /\ N + k - 1 \in Nat
      <4> HIDE DEF N, K
      <4>1. m <= Len(ops)
        OBVIOUS
      <4> QED  BY <3>1, <1>1, <4>1
    <3>4. IsOp(ops[k]) /\ Reads(ops[k], N + k - 1)
      BY <3>3 DEF Appendable
    <3>5. \A v \in 1..(N + k - 1) : before.types[v] = after.types[v]
      <4> HIDE DEF N, K
      <4>1. \A v \in 1..(N + k - 1) : v \in 1..(N + m - 1)
        BY <1>1
      <4> QED  BY <1>6, <4>1
    <3>6. Infers(before.types, ops[k]) = Infers(after.types, ops[k])
      <4> DEFINE last == N + k - 1
      <4>1. Reads(ops[k], last) /\ Agree(before.types, after.types, last)
        BY <3>4, <3>5 DEF Agree
      <4> HIDE DEF last
      <4> QED  BY <3>4, <4>1, InfersFromReads
    <3> QED  BY <3>1, <3>2, <3>6, <1>3, <1>4
  <2> QED  BY <2>1, <2>2
<1>9. Grown(body, ops, m, after)
  <2>1. /\ \A v \in 1..N : after.types[v] = body.types[v]
        /\ \A k \in 1..K : after.ops[k] = body.ops[k]
    <3>1. /\ \A v \in 1..N : before.types[v] = body.types[v]
          /\ \A k \in 1..K : before.ops[k] = body.ops[k]
      BY DEF Grown
    <3> HIDE DEF N, K
    <3>2. /\ \A v \in 1..N : v \in 1..(N + (m - 1))
          /\ \A k \in 1..K : k \in 1..(K + (m - 1))
      BY <1>1
    <3> QED  BY <3>1, <3>2, <1>3, <1>4
  <2> QED  BY <2>1, <1>3, <1>4, <1>8 DEF Grown
<1>10. \A v \in 1..Len(after.types) : IsTensor(after.types[v])
  <2>1. \A v \in 1..(N + m - 1) : IsTensor(before.types[v])
    BY <1>1 DEF WellFormed
  <2>2. IsTensor(t)
    BY <2>1, <1>2, <1>5, InfersTensor
  <2> HIDE DEF N, t
  <2>3. \A v \in 1..(N + m) : v \in 1..(N + m - 1) \/ v = N + m
    BY <1>1
  <2> QED  BY <2>1, <2>2, <2>3, <1>3
<1>11. m \in 0..Len(ops)
  BY <1>1
<1> HIDE DEF t, N, K
<1>12. WellFormed(n, after)
  BY <1>9, <1>10, <1>11, GrownWellFormed
<1> QED  BY <1>9, <1>12 DEF after

(* The recursive function inside ExtendedBy, on a prefix of its domain.    *)
GrowthFunction(f, body, ops, last) ==
  f = [k \in 0..last |-> IF k = 0 THEN body ELSE Extended(f[k - 1], ops[k])]

(* Its defining equation has a solution.                                   *)
LEMMA GrowthFunctionExists ==
  ASSUME NEW body, NEW ops, NEW last \in Nat
  PROVE  \E f : GrowthFunction(f, body, ops, last)
<1> DEFINE Unsolved == {n \in Nat : ~ \E f : GrowthFunction(f, body, ops, n)}
<1> SUFFICES ASSUME Unsolved # {} PROVE FALSE
  OBVIOUS
<1>1. PICK m \in Unsolved : \A k \in Unsolved : m <= k
  <2>1. Unsolved \subseteq Nat
    OBVIOUS
  <2> HIDE DEF Unsolved
  <2> QED  BY <2>1, LeastNatural
<1>2. CASE m = 0
  <2>1. GrowthFunction([k \in 0..0 |-> body], body, ops, 0)
    BY DEF GrowthFunction
  <2> QED  BY <2>1, <1>1, <1>2
<1>3. CASE m > 0
  <2>1. m - 1 \in Nat /\ m - 1 \notin Unsolved
    BY <1>1, <1>3
  <2>2. PICK f : GrowthFunction(f, body, ops, m - 1)
    BY <2>1
  <2> DEFINE g == [k \in 0..m |-> IF k < m THEN f[k] ELSE Extended(f[m - 1], ops[m])]
  <2>3. ASSUME NEW k \in 0..m
        PROVE  g[k] = IF k = 0 THEN body ELSE Extended(g[k - 1], ops[k])
    <3>1. CASE k = m
      BY <3>1, <1>3, <1>1
    <3>2. CASE k < m
      <4>1. k \in 0..(m - 1)
        BY <3>2, <2>1
      <4>2. f[k] = IF k = 0 THEN body ELSE Extended(f[k - 1], ops[k])
        BY <2>2, <4>1 DEF GrowthFunction
      <4>3. g[k] = f[k] /\ (k # 0 => g[k - 1] = f[k - 1])
        BY <3>2, <1>1
      <4> QED  BY <4>2, <4>3
    <3> QED  BY <3>1, <3>2, <1>1
  <2>4. g = [k \in 0..m |-> g[k]]
    OBVIOUS
  <2> HIDE DEF g
  <2>5. GrowthFunction(g, body, ops, m)
    BY <2>3, <2>4 DEF GrowthFunction
  <2> QED  BY <2>5, <1>1
<1> QED  BY <1>1, <1>2, <1>3

\* ExtendedBy appends one operation after another.
LEMMA ExtendedBySteps ==
  ASSUME NEW body, NEW ops, IsListing(ops)
  PROVE  \E f : /\ ExtendedBy(body, ops) = f[Len(ops)]
                /\ f[0] = body
                /\ \A k \in 1..Len(ops) : f[k] = Extended(f[k - 1], ops[k])
<1> DEFINE f == CHOOSE g : GrowthFunction(g, body, ops, Len(ops))
<1>1. Len(ops) \in Nat
  BY DEF IsListing
<1>2. ExtendedBy(body, ops) = f[Len(ops)]
  BY DEF ExtendedBy, GrowthFunction
<1>3. GrowthFunction(f, body, ops, Len(ops))
  <2>1. \E g : GrowthFunction(g, body, ops, Len(ops))
    BY <1>1, GrowthFunctionExists
  <2> QED  BY <2>1
<1> HIDE DEF f
<1>4. \A k \in 0..Len(ops) : f[k] = IF k = 0 THEN body ELSE Extended(f[k - 1], ops[k])
  BY <1>3 DEF GrowthFunction
<1>5. f[0] = body
  BY <1>1, <1>4
<1>6. \A k \in 1..Len(ops) : k \in 0..Len(ops) /\ k # 0
  BY <1>1
<1>7. \A k \in 1..Len(ops) : f[k] = Extended(f[k - 1], ops[k])
  BY <1>4, <1>6
<1> QED  BY <1>2, <1>5, <1>7

\* What ExtendedBy returns is a body.
LEMMA ExtendedByRecord ==
  ASSUME NEW body, body = [types |-> body.types, ops |-> body.ops], NEW ops, IsListing(ops)
  PROVE  ExtendedBy(body, ops) = [types |-> ExtendedBy(body, ops).types,
                                  ops |-> ExtendedBy(body, ops).ops]
<1>1. Len(ops) \in Nat
  BY DEF IsListing
<1>2. PICK f : /\ ExtendedBy(body, ops) = f[Len(ops)]
               /\ f[0] = body
               /\ \A k \in 1..Len(ops) : f[k] = Extended(f[k - 1], ops[k])
  BY ExtendedBySteps
<1>3. CASE Len(ops) = 0
  BY <1>2, <1>3
<1>4. CASE Len(ops) # 0
  <2>1. Len(ops) \in 1..Len(ops)
    BY <1>1, <1>4
  <2>2. \E x : f[Len(ops)] = Extended(x, ops[Len(ops)])
    BY <1>2, <2>1
  <2>3. \A x, op : Extended(x, op) = [types |-> Extended(x, op).types, ops |-> Extended(x, op).ops]
    BY DEF Extended, Broken
  <2> QED  BY <1>2, <2>2, <2>3
<1> QED  BY <1>3, <1>4

\* A well-formed body grows by appendable operations into one, or one of them raises.
LEMMA ExtendedByGrows ==
  ASSUME NEW n, NEW body, WellFormed(n, body), NEW ops, Appendable(ops, Len(body.types)),
         ExtendedBy(body, ops) # Broken
  PROVE  /\ Grown(body, ops, Len(ops), ExtendedBy(body, ops))
         /\ WellFormed(n, ExtendedBy(body, ops))
<1>1. IsListing(ops) /\ Len(ops) \in Nat
  BY DEF Appendable, IsListing
<1>2. PICK f : /\ ExtendedBy(body, ops) = f[Len(ops)]
               /\ f[0] = body
               /\ \A k \in 1..Len(ops) : f[k] = Extended(f[k - 1], ops[k])
  BY <1>1, ExtendedBySteps
<1> DEFINE Right(k) == f[k] = Broken \/ (Grown(body, ops, k, f[k]) /\ WellFormed(n, f[k]))
           Wrong == {k \in 0..Len(ops) : ~Right(k)}
<1>3. Wrong = {}
  <2> SUFFICES ASSUME Wrong # {} PROVE FALSE
    OBVIOUS
  <2>1. PICK m \in Wrong : \A k \in Wrong : m <= k
    <3>1. Wrong \subseteq Nat
      OBVIOUS
    <3> HIDE DEF Wrong
    <3> QED  BY <3>1, LeastNatural
  <2>2. m \in 0..Len(ops) /\ ~Right(m)
    OBVIOUS
  <2>3. CASE m = 0
    BY <1>2, <2>2, <2>3, GrownByNone
  <2>4. CASE m > 0
    <3>1. m \in 1..Len(ops) /\ m - 1 \in 0..Len(ops) /\ ~(m <= m - 1)
      BY <1>1, <2>2, <2>4
    <3>2. m - 1 \notin Wrong
      <4> HIDE DEF Wrong
      <4> QED  BY <2>1, <3>1
    <3>3. Right(m - 1)
      BY <3>1, <3>2
    <3>4. f[m] = Extended(f[m - 1], ops[m])
      BY <1>2, <3>1
    <3>5. CASE f[m - 1] = Broken
      BY <3>4, <3>5, <2>2 DEF Extended
    <3>6. CASE f[m - 1] # Broken /\ f[m] # Broken
      BY <3>1, <3>3, <3>4, <3>6, <2>2, GrownByOne
    <3> QED  BY <2>2, <3>5, <3>6
  <2> QED  BY <1>1, <2>2, <2>3, <2>4
<1>4. Right(Len(ops))
  <2>1. Len(ops) \in 0..Len(ops)
    BY <1>1
  <2> QED  BY <1>3, <2>1
<1> QED  BY <1>2, <1>4

-----------------------------------------------------------------------------
(* Transfers (legalize/lower.py _lower_with). *)

(* The recursive function inside Gather, on a prefix of its domain.        *)
GatherFunction(f, needs, copies, last, upto) ==
  f = [i \in 0..upto |->
         IF i = 0 THEN [transfers |-> <<>>, operands |-> <<>>]
         ELSE Gathered(f[i - 1], needs[i], copies, last)]

(* Its defining equation has a solution.                                   *)
LEMMA GatherFunctionExists ==
  ASSUME NEW needs, NEW copies, NEW last, NEW upto \in Nat
  PROVE  \E f : GatherFunction(f, needs, copies, last, upto)
<1> DEFINE Unsolved == {n \in Nat : ~ \E f : GatherFunction(f, needs, copies, last, n)}
           More(g, i) == Gathered(g, needs[i], copies, last)
           None == [transfers |-> <<>>, operands |-> <<>>]
<1> SUFFICES ASSUME Unsolved # {} PROVE FALSE
  OBVIOUS
<1>1. PICK m \in Unsolved : \A k \in Unsolved : m <= k
  <2>1. Unsolved \subseteq Nat
    OBVIOUS
  <2> HIDE DEF Unsolved
  <2> QED  BY <2>1, LeastNatural
<1>2. CASE m = 0
  <2>1. GatherFunction([k \in 0..0 |-> None], needs, copies, last, 0)
    BY DEF GatherFunction
  <2> QED  BY <2>1, <1>1, <1>2
<1>3. CASE m > 0
  <2>1. m - 1 \in Nat /\ m - 1 \notin Unsolved
    BY <1>1, <1>3
  <2>2. PICK f : GatherFunction(f, needs, copies, last, m - 1)
    BY <2>1
  <2>6. \A k \in 0..(m - 1) : f[k] = IF k = 0 THEN None ELSE More(f[k - 1], k)
    BY <2>2 DEF GatherFunction
  <2> DEFINE g == [k \in 0..m |-> IF k < m THEN f[k] ELSE More(f[m - 1], m)]
  <2>3. ASSUME NEW k \in 0..m
        PROVE  g[k] = IF k = 0 THEN None ELSE More(g[k - 1], k)
    <3> HIDE DEF More, None
    <3>1. CASE k = m
      BY <3>1, <1>3, <1>1
    <3>2. CASE k < m
      <4>1. k \in 0..(m - 1)
        BY <3>2, <2>1
      <4>2. f[k] = IF k = 0 THEN None ELSE More(f[k - 1], k)
        BY <2>6, <4>1
      <4>3. g[k] = f[k] /\ (k # 0 => g[k - 1] = f[k - 1])
        BY <3>2, <1>1
      <4> QED  BY <4>2, <4>3
    <3> QED  BY <3>1, <3>2, <1>1
  <2>4. g = [k \in 0..m |-> g[k]]
    OBVIOUS
  <2> HIDE DEF g
  <2>5. GatherFunction(g, needs, copies, last, m)
    BY <2>3, <2>4 DEF GatherFunction
  <2> QED  BY <2>5, <1>1
<1> QED  BY <1>1, <1>2, <1>3

\* Gather takes one value after another.
LEMMA GatherSteps ==
  ASSUME NEW needs, IsListing(needs), NEW copies, NEW last
  PROVE  \E f : /\ Gather(needs, copies, last) = f[Len(needs)]
                /\ f[0] = [transfers |-> <<>>, operands |-> <<>>]
                /\ \A i \in 1..Len(needs) : f[i] = Gathered(f[i - 1], needs[i], copies, last)
<1> DEFINE f == CHOOSE g : GatherFunction(g, needs, copies, last, Len(needs))
<1>1. Len(needs) \in Nat
  BY DEF IsListing
<1>2. Gather(needs, copies, last) = f[Len(needs)]
  BY DEF Gather, GatherFunction
<1>3. GatherFunction(f, needs, copies, last, Len(needs))
  <2>1. \E g : GatherFunction(g, needs, copies, last, Len(needs))
    BY <1>1, GatherFunctionExists
  <2> QED  BY <2>1
<1> HIDE DEF f
<1>4. \A i \in 0..Len(needs) :
        f[i] = IF i = 0 THEN [transfers |-> <<>>, operands |-> <<>>]
               ELSE Gathered(f[i - 1], needs[i], copies, last)
  BY <1>3 DEF GatherFunction
<1>5. f[0] = [transfers |-> <<>>, operands |-> <<>>]
  BY <1>1, <1>4
<1>6. \A i \in 1..Len(needs) : i \in 0..Len(needs) /\ i # 0
  BY <1>1
<1>7. \A i \in 1..Len(needs) : f[i] = Gathered(f[i - 1], needs[i], copies, last)
  BY <1>4, <1>6
<1> QED  BY <1>2, <1>5, <1>7

(* The transfer a need asks for, and where its value is read then.         *)
Moves(need, copies, transfer) ==
  /\ need.to # "none"
  /\ <<need.value, need.to>> \notin DOMAIN copies
  /\ transfer = Transfer(need.value, need.to)

ReadAt(need, copies, last, transfers, value) ==
  \/ need.to = "none" /\ value = need.value
  \/ /\ need.to # "none"
     /\ <<need.value, need.to>> \in DOMAIN copies
     /\ value = copies[<<need.value, need.to>>]
  \/ \E j \in 1..Len(transfers) : Moves(need, copies, transfers[j]) /\ value = last + j

(* The first m needs, gathered.                                            *)
Collected(g, needs, copies, last, m) ==
  /\ g = [transfers |-> g.transfers, operands |-> g.operands]
  /\ IsListing(g.transfers) /\ IsListing(g.operands)
  /\ Len(g.operands) = m
  /\ \A j \in 1..Len(g.transfers) : \E i \in 1..m : Moves(needs[i], copies, g.transfers[j])
  /\ \A i \in 1..m : ReadAt(needs[i], copies, last, g.transfers, g.operands[i])

\* One need more.
LEMMA CollectOne ==
  ASSUME NEW needs, NEW copies, NEW last \in Nat, NEW m \in Nat \ {0},
         NEW g, Collected(g, needs, copies, last, m - 1)
  PROVE  Collected(Gathered(g, needs[m], copies, last), needs, copies, last, m)
<1> DEFINE need == needs[m]
           h == Gathered(g, need, copies, last)
           T == Len(g.transfers)
<1>1. /\ g = [transfers |-> g.transfers, operands |-> g.operands]
      /\ IsListing(g.transfers) /\ IsListing(g.operands) /\ Len(g.operands) = m - 1
      /\ T \in Nat /\ 1..m = 1..(m - 1) \cup {m} /\ (m - 1) + 1 = m
      /\ \A j \in 1..T : \E i \in 1..(m - 1) : Moves(needs[i], copies, g.transfers[j])
      /\ \A i \in 1..(m - 1) : ReadAt(needs[i], copies, last, g.transfers, g.operands[i])
  BY DEF Collected, IsListing
<1>2. CASE need.to = "none" \/ <<need.value, need.to>> \in DOMAIN copies
  <2> DEFINE read == IF need.to = "none" THEN need.value ELSE copies[<<need.value, need.to>>]
  <2>1. h = [transfers |-> g.transfers, operands |-> Append(g.operands, read)]
    BY <1>1, <1>2 DEF Gathered
  <2>2. /\ IsListing(h.operands) /\ Len(h.operands) = m /\ h.transfers = g.transfers
        /\ \A i \in 1..(m - 1) : h.operands[i] = g.operands[i]
        /\ h.operands[m] = read
    <3> HIDE DEF h, read
    <3> QED  BY <1>1, <2>1, AppendListing
  <2>3. ReadAt(need, copies, last, g.transfers, read)
    BY <1>2 DEF ReadAt
  <2>4. h = [transfers |-> h.transfers, operands |-> h.operands]
    BY <2>1
  <2> HIDE DEF h, read, T
  <2>5. \A i \in 1..m : ReadAt(needs[i], copies, last, h.transfers, h.operands[i])
    BY <1>1, <2>2, <2>3
  <2>6. \A j \in 1..Len(h.transfers) : \E i \in 1..m : Moves(needs[i], copies, h.transfers[j])
    BY <1>1, <2>2 DEF T
  <2> QED  BY <1>1, <2>2, <2>4, <2>5, <2>6 DEF Collected, h
<1>3. CASE need.to # "none" /\ <<need.value, need.to>> \notin DOMAIN copies
  <2> DEFINE move == Transfer(need.value, need.to)
             read == last + T + 1
  <2>1. h = [transfers |-> Append(g.transfers, move), operands |-> Append(g.operands, read)]
    BY <1>1, <1>3 DEF Gathered
  <2>2. /\ IsListing(h.operands) /\ Len(h.operands) = m
        /\ \A i \in 1..(m - 1) : h.operands[i] = g.operands[i]
        /\ h.operands[m] = read
    <3> HIDE DEF h, read, move
    <3> QED  BY <1>1, <2>1, AppendListing
  <2>3. /\ IsListing(h.transfers) /\ Len(h.transfers) = T + 1
        /\ \A j \in 1..T : h.transfers[j] = g.transfers[j]
        /\ h.transfers[T + 1] = move
    <3> HIDE DEF h, read, move
    <3> QED  BY <1>1, <2>1, AppendListing DEF T
  <2>4. Moves(need, copies, move)
    BY <1>3 DEF Moves
  <2>5. h = [transfers |-> h.transfers, operands |-> h.operands]
    BY <2>1
  <2>6. 1..(T + 1) = 1..T \cup {T + 1} /\ T + 1 \in 1..(T + 1) /\ read = last + (T + 1)
    BY <1>1
  <2> HIDE DEF h, read, move, T
  <2>7. \A j \in 1..Len(h.transfers) : \E i \in 1..m : Moves(needs[i], copies, h.transfers[j])
    BY <1>1, <2>3, <2>4, <2>6 DEF T
  <2>8. ASSUME NEW i \in 1..m
        PROVE  ReadAt(needs[i], copies, last, h.transfers, h.operands[i])
    <3>1. CASE i = m
      BY <3>1, <2>2, <2>3, <2>4, <2>6 DEF ReadAt
    <3>2. CASE i \in 1..(m - 1)
      <4>1. ReadAt(needs[i], copies, last, g.transfers, g.operands[i])
        BY <1>1, <3>2
      <4> QED  BY <4>1, <2>2, <2>3, <2>6, <3>2 DEF ReadAt, T
    <3> QED  BY <1>1, <3>1, <3>2
  <2> QED  BY <2>2, <2>3, <2>5, <2>7, <2>8 DEF Collected, h
<1> QED  BY <1>2, <1>3

\* Gather collects all of them.
LEMMA GatherCollects ==
  ASSUME NEW needs, IsListing(needs), NEW copies, NEW last \in Nat
  PROVE  Collected(Gather(needs, copies, last), needs, copies, last, Len(needs))
<1>1. Len(needs) \in Nat
  BY DEF IsListing
<1>2. PICK f : /\ Gather(needs, copies, last) = f[Len(needs)]
               /\ f[0] = [transfers |-> <<>>, operands |-> <<>>]
               /\ \A i \in 1..Len(needs) : f[i] = Gathered(f[i - 1], needs[i], copies, last)
  BY GatherSteps
<1> DEFINE Right(i) == Collected(f[i], needs, copies, last, i)
           Wrong == {i \in 0..Len(needs) : ~Right(i)}
<1>3. Wrong = {}
  <2> SUFFICES ASSUME Wrong # {} PROVE FALSE
    OBVIOUS
  <2>1. PICK m \in Wrong : \A k \in Wrong : m <= k
    <3>1. Wrong \subseteq Nat
      OBVIOUS
    <3> HIDE DEF Wrong
    <3> QED  BY <3>1, LeastNatural
  <2>2. m \in 0..Len(needs) /\ ~Right(m)
    OBVIOUS
  <2>3. CASE m = 0
    <3>1. IsListing(<<>>) /\ Len(<<>>) = 0
      BY DEF IsListing
    <3>2. Right(0)
      BY <1>2, <3>1 DEF Collected
    <3> QED  BY <2>2, <2>3, <3>2
  <2>4. CASE m > 0
    <3>1. m \in 1..Len(needs) /\ m - 1 \in 0..Len(needs) /\ ~(m <= m - 1) /\ m \in Nat \ {0}
      BY <1>1, <2>2, <2>4
    <3>2. m - 1 \notin Wrong
      <4> HIDE DEF Wrong
      <4> QED  BY <2>1, <3>1
    <3>3. Right(m - 1)
      BY <3>1, <3>2
    <3>4. f[m] = Gathered(f[m - 1], needs[m], copies, last)
      BY <1>2, <3>1
    <3> QED  BY <3>1, <3>3, <3>4, <2>2, CollectOne
  <2> QED  BY <1>1, <2>2, <2>3, <2>4
<1>4. Right(Len(needs))
  <2>1. Len(needs) \in 0..Len(needs)
    BY <1>1
  <2> QED  BY <1>3, <2>1
<1> QED  BY <1>2, <1>4

(* Where the values were copied to, and that the copies exist.             *)
CopiesExist(copies, last) == \A c \in DOMAIN copies : copies[c] \in 1..last

\* A transfer is an operation on the value it moves.
LEMMA TransferOperation ==
  ASSUME NEW value, NEW domain
  PROVE  /\ IsOp(Transfer(value, domain))
         /\ Transfer(value, domain).operands = <<value>>
         /\ Transfer(value, domain).attr = <<domain>>
         /\ Transfer(value, domain).kind = "transfer"
         /\ Transfer(value, domain).unit = "device"
         /\ CopyOf(Transfer(value, domain)) = <<value, domain>>
         /\ \A last : value \in 1..last => Reads(Transfer(value, domain), last)
<1>1. IsListing(<<value>>) /\ Len(<<value>>) = 1 /\ <<value>>[1] = value
  BY DEF IsListing
<1>2. 1 \in Arity("transfer")
  BY DEF Arity, BinaryKinds
<1> QED  BY <1>1, <1>2 DEF Transfer, Op, IsOp, Kinds, CopyOf, Reads

\* An operation on a unit, with other operands.
LEMMA OnUnitFields ==
  ASSUME NEW u, NEW kind, NEW attr, NEW read, NEW unit, NEW other
  PROVE  [OnUnit(Op(u, kind, attr, read), unit) EXCEPT !.operands = other]
           = Op(unit, kind, attr, other)
<1>1. OnUnit(Op(u, kind, attr, read), unit) = Op(unit, kind, attr, read)
  BY DEF OnUnit, Op
<1>2. [Op(unit, kind, attr, read) EXCEPT !.operands = other] = Op(unit, kind, attr, other)
  BY DEF Op
<1> QED  BY <1>1, <1>2, Zenon

(* Needs whose values exist.                                               *)
NeedsExist(needs, last) == \A i \in 1..Len(needs) : needs[i].value \in 1..last

\* The transfers may be appended, and what is gathered exists after them.
LEMMA CollectedAppendable ==
  ASSUME NEW needs, NEW last \in Nat, NeedsExist(needs, last), NEW copies,
         CopiesExist(copies, last), NEW g, Collected(g, needs, copies, last, Len(needs))
  PROVE  /\ Appendable(g.transfers, last)
         /\ \A i \in 1..Len(needs) : g.operands[i] \in 1..(last + Len(g.transfers))
<1> DEFINE T == Len(g.transfers)
           n == Len(needs)
<1>1. T \in Nat /\ IsListing(g.transfers)
  BY DEF Collected, IsListing
<1>2. ASSUME NEW k \in 1..T
      PROVE  IsOp(g.transfers[k]) /\ Reads(g.transfers[k], last + k - 1)
  <2>1. PICK i \in 1..n : Moves(needs[i], copies, g.transfers[k])
    BY DEF Collected
  <2>2. g.transfers[k] = Transfer(needs[i].value, needs[i].to)
    BY <2>1 DEF Moves
  <2>3. needs[i].value \in 1..(last + k - 1)
    <3>1. needs[i].value \in 1..last
      BY <2>1 DEF NeedsExist
    <3> QED  BY <3>1, <1>1
  <2> QED  BY <2>2, <2>3, TransferOperation
<1>3. ASSUME NEW i \in 1..n
      PROVE  g.operands[i] \in 1..(last + T)
  <2>1. ReadAt(needs[i], copies, last, g.transfers, g.operands[i])
    BY DEF Collected
  <2>2. needs[i].value \in 1..last
    BY DEF NeedsExist
  <2>3. <<needs[i].value, needs[i].to>> \in DOMAIN copies =>
           copies[<<needs[i].value, needs[i].to>>] \in 1..last
    BY DEF CopiesExist
  <2> QED  BY <2>1, <2>2, <2>3, <1>1 DEF ReadAt
<1> QED  BY <1>1, <1>2, <1>3 DEF Appendable

(* ops are the transfers that op needs in a domain, then op on a unit.     *)
LoweredTo(ops, types, op, unit, copies) ==
  /\ IsListing(ops)
  /\ \E g : /\ Collected(g, OperandNeeds(types, op, OperandDomain(unit, OperandTypes(types, op))),
                         copies, Len(types), Len(op.operands))
            /\ Len(ops) = Len(g.transfers) + 1
            /\ \A k \in 1..Len(g.transfers) : ops[k] = g.transfers[k]
            /\ ops[Len(ops)] = [OnUnit(op, unit) EXCEPT !.operands = g.operands]

\* The needs of an operation are as many as its operands.
LEMMA OperandNeedsListing ==
  ASSUME NEW types, NEW op, IsListing(op.operands), NEW domain
  PROVE  /\ IsListing(OperandNeeds(types, op, domain))
         /\ Len(OperandNeeds(types, op, domain)) = Len(op.operands)
         /\ \A i \in 1..Len(op.operands) :
              OperandNeeds(types, op, domain)[i] = OperandNeed(types, op, domain, i)
<1>1. DOMAIN op.operands = 1..Len(op.operands) /\ Len(op.operands) \in Nat
  BY DEF IsListing
<1> DEFINE needs == OperandNeeds(types, op, domain)
<1>2. needs = [i \in 1..Len(op.operands) |-> OperandNeed(types, op, domain, i)]
  BY <1>1 DEF OperandNeeds
<1>3. needs = [i \in 1..Len(op.operands) |-> needs[i]]
  BY <1>2
<1>4. \A i \in 1..Len(op.operands) : needs[i] = OperandNeed(types, op, domain, i)
  BY <1>2
<1> HIDE DEF needs
<1>5. IsListing(needs) /\ Len(needs) = Len(op.operands)
  BY <1>1, <1>3, FunctionListing
<1> QED  BY <1>4, <1>5 DEF needs

\* What Lowering makes of an operation.
LEMMA LoweringOps ==
  ASSUME NEW types, Len(types) \in Nat, NEW op, IsListing(op.operands), NEW unit, NEW copies
  PROVE  LoweredTo(Lowering(types, op, unit, copies), types, op, unit, copies)
<1> DEFINE needs == OperandNeeds(types, op, OperandDomain(unit, OperandTypes(types, op)))
           g == Gather(needs, copies, Len(types))
           final == [OnUnit(op, unit) EXCEPT !.operands = g.operands]
           ops == Lowering(types, op, unit, copies)
<1>1. ops = Append(g.transfers, final)
  BY DEF Lowering
<1>2. Collected(g, needs, copies, Len(types), Len(op.operands))
  <2> DEFINE domain == OperandDomain(unit, OperandTypes(types, op))
  <2>2. needs = OperandNeeds(types, op, domain)
    OBVIOUS
  <2> HIDE DEF needs, domain
  <2>1. IsListing(needs) /\ Len(needs) = Len(op.operands)
    BY <2>2, OperandNeedsListing
  <2> QED  BY <2>1, GatherCollects
<1>3. IsListing(g.transfers) /\ Len(g.transfers) \in Nat
  BY <1>2 DEF Collected, IsListing
<1> HIDE DEF needs, g, final, ops
<1>4. /\ IsListing(ops) /\ Len(ops) = Len(g.transfers) + 1
      /\ \A k \in 1..Len(g.transfers) : ops[k] = g.transfers[k]
      /\ ops[Len(g.transfers) + 1] = final
  BY <1>1, <1>3, AppendListing
<1> QED  BY <1>2, <1>3, <1>4 DEF LoweredTo, needs, final, ops

\* A lowering may be appended after the values it is made for.
LEMMA LoweringAppendable ==
  ASSUME NEW types, Len(types) \in Nat, NEW op, IsOp(op), Reads(op, Len(types)), NEW unit,
         NEW copies, CopiesExist(copies, Len(types)),
         NEW ops, LoweredTo(ops, types, op, unit, copies)
  PROVE  Appendable(ops, Len(types))
<1> DEFINE needs == OperandNeeds(types, op, OperandDomain(unit, OperandTypes(types, op)))
           n == Len(op.operands)
           N == Len(types)
<1>1. PICK g : /\ Collected(g, needs, copies, N, n)
               /\ Len(ops) = Len(g.transfers) + 1
               /\ \A k \in 1..Len(g.transfers) : ops[k] = g.transfers[k]
               /\ ops[Len(ops)] = [OnUnit(op, unit) EXCEPT !.operands = g.operands]
  BY DEF LoweredTo
<1> DEFINE T == Len(g.transfers)
           final == [OnUnit(op, unit) EXCEPT !.operands = g.operands]
<1>2. n \in Nat
  BY FirstOperand
<1>3. T \in Nat /\ IsListing(g.operands) /\ Len(g.operands) = n
  BY <1>1 DEF Collected, IsListing
<1>4. Appendable(g.transfers, N) /\ \A i \in 1..n : g.operands[i] \in 1..(N + T)
  <2>1. /\ Len(needs) = n
        /\ \A i \in 1..n : needs[i].value = op.operands[i]
    <3>1. IsListing(op.operands)
      BY DEF IsOp
    <3> DEFINE domain == OperandDomain(unit, OperandTypes(types, op))
    <3>2. needs = OperandNeeds(types, op, domain)
      OBVIOUS
    <3> HIDE DEF needs, domain
    <3>3. \A i \in 1..n : OperandNeed(types, op, domain, i).value = op.operands[i]
      BY DEF OperandNeed, Need
    <3> QED  BY <3>1, <3>2, <3>3, OperandNeedsListing
  <2> HIDE DEF needs
  <2>2. NeedsExist(needs, N)
    BY <2>1 DEF NeedsExist, Reads
  <2> QED  BY <1>1, <2>1, <2>2, CollectedAppendable
<1>5. final = Op(unit, op.kind, op.attr, g.operands)
  <2>1. op = Op(op.unit, op.kind, op.attr, op.operands)
    BY DEF IsOp
  <2>2. [OnUnit(Op(op.unit, op.kind, op.attr, op.operands), unit) EXCEPT !.operands = g.operands]
          = Op(unit, op.kind, op.attr, g.operands)
    BY OnUnitFields
  <2> QED  BY <2>1, <2>2, Zenon
<1>6. IsOp(final)
  BY <1>3, <1>5 DEF IsOp, Op
<1>7. Reads(final, N + T)
  <2>1. final.operands = g.operands
    BY <1>5 DEF Op
  <2> QED  BY <2>1, <1>3, <1>4 DEF Reads
<1>8. \A k \in 1..Len(ops) : k \in 1..T \/ (k = Len(ops) /\ k = T + 1)
  BY <1>1, <1>3
<1>9. ASSUME NEW k \in 1..Len(ops)
      PROVE  IsOp(ops[k]) /\ Reads(ops[k], N + k - 1)
  <2>1. N + (T + 1) - 1 = N + T
    BY <1>3
  <2>2. \A j \in 1..T : IsOp(ops[j]) /\ Reads(ops[j], N + j - 1)
    BY <1>1, <1>4 DEF Appendable
  <2> HIDE DEF T, final, N
  <2> QED  BY <1>1, <1>6, <1>7, <1>8, <2>1, <2>2 DEF final
<1> QED  BY <1>9 DEF Appendable, LoweredTo

-----------------------------------------------------------------------------
(* Functions, and what holds while one is rebuilt. *)

FunctionOK(f) ==
  /\ f = [arguments |-> f.arguments, types |-> f.types, ops |-> f.ops, returns |-> f.returns]
  /\ WellFormed(f.arguments, f)
  /\ IsListing(f.returns)
  /\ \A k \in 1..Len(f.returns) : f.returns[k] \in 1..Len(f.types)

RebuildOK ==
  /\ next \in 1..(Len(function.ops) + 1)
  /\ built = [types |-> built.types, ops |-> built.ops]
  /\ WellFormed(function.arguments, built)
  /\ renamed = [v \in ValuesOf(function) |-> renamed[v]]
  /\ \A v \in ValuesOf(function) : renamed[v] \in 0..Len(built.types)
  /\ CopiesExist(moved, Len(built.types))

(* Every value defined so far stands for something: the fusion alone leaves *)
(* the inner results of its chains behind.                                  *)
AllRenamed == \A v \in 1..(function.arguments + next - 1) : renamed[v] # 0

(* The manager's own counters.                                             *)
Counters ==
  /\ source \in Sources
  /\ at \in 1..(Len(source.passes) + 1)
  /\ status = "running" => at <= Len(source.passes)
  /\ round \in 0..MaxRounds
  /\ mode = "decomposing" => round < MaxRounds
  /\ mode \in {"import", "between", "rounds", "decomposing", "rebuild", "placing"}
  /\ status \in {"running", "done", "refused", "crashed"}

InProgress ==
  /\ mode = "import" => function = source.function /\ stages = <<>>
  /\ mode # "import" => FunctionOK(function)
  /\ mode \in {"rebuild", "decomposing"} => RebuildOK
  /\ mode = "decomposing" \/ (mode = "rebuild" /\ Pass # "fuse") => AllRenamed
  /\ mode = "placing" => CopiesExist(moved, Len(function.types))

Recordings == IsListing(stages) /\ \A s \in 1..Len(stages) : FunctionOK(stages[s])

(* What every step of the passes keeps.                                    *)
PassesInv == Counters /\ InProgress /\ Recordings

\* An operation on the new values is one again (Operation.with_operands).
LEMMA RenewedOperation ==
  ASSUME NEW op, IsOp(op), NEW last \in Nat, NEW new,
         \A i \in 1..Len(op.operands) : new[op.operands[i]] \in 1..last
  PROVE  /\ IsOp([op EXCEPT !.operands = [i \in DOMAIN @ |-> new[@[i]]]])
         /\ Reads([op EXCEPT !.operands = [i \in DOMAIN @ |-> new[@[i]]]], last)
<1> DEFINE read == [i \in 1..Len(op.operands) |-> new[op.operands[i]]]
           n == Len(op.operands)
<1>1. /\ op = Op(op.unit, op.kind, op.attr, op.operands) /\ op.kind \in Kinds
      /\ op.operands = [k \in 1..n |-> op.operands[k]] /\ n \in Arity(op.kind)
      /\ n \in Nat /\ DOMAIN op.operands = 1..n
  BY DEF IsOp, IsListing
<1>3. [op EXCEPT !.operands = [i \in DOMAIN @ |-> new[@[i]]]] = [op EXCEPT !.operands = read]
  BY <1>1
<1>4. [op EXCEPT !.operands = read] = Op(op.unit, op.kind, op.attr, read)
  <2> HIDE DEF read
  <2>1. \A u, kind, attr, x : [Op(u, kind, attr, x) EXCEPT !.operands = read]
                              = Op(u, kind, attr, read)
    BY DEF Op
  <2>2. [Op(op.unit, op.kind, op.attr, op.operands) EXCEPT !.operands = read]
          = Op(op.unit, op.kind, op.attr, read)
    BY <2>1, Zenon
  <2> QED  BY <1>1, <2>2, Zenon
<1>5. read = [i \in 1..n |-> read[i]] /\ \A i \in 1..n : read[i] \in 1..last
  OBVIOUS
<1> HIDE DEF read
<1>6. IsListing(read) /\ Len(read) = n
  BY <1>1, <1>5, FunctionListing
<1>8. IsOp(Op(op.unit, op.kind, op.attr, read)) /\ Reads(Op(op.unit, op.kind, op.attr, read), last)
  BY <1>1, <1>5, <1>6 DEF IsOp, Op, Reads
<1> QED  BY <1>3, <1>4, <1>8

\* The current operation, while a rebuild is at it.
LEMMA CurrentOperation ==
  ASSUME FunctionOK(function), RebuildOK, MoreOps
  PROVE  /\ next \in 1..Len(function.ops) /\ Len(function.ops) \in Nat
         /\ function.arguments \in Nat /\ Len(built.types) \in Nat
         /\ Defines \in ValuesOf(function)
         /\ ValuesOf(function) = 1..Len(function.types)
         /\ IsOp(Current)
         /\ Reads(Current, Defines - 1)
<1>1. Len(function.ops) \in Nat /\ function.arguments \in Nat /\ Len(built.types) \in Nat
      /\ Len(function.types) = function.arguments + Len(function.ops)
  BY DEF FunctionOK, WellFormed, RebuildOK, IsListing
<1>2. next \in 1..Len(function.ops)
  BY <1>1 DEF RebuildOK, MoreOps
<1>3. IsOp(Current) /\ Reads(Current, function.arguments + next - 1)
  BY <1>2 DEF FunctionOK, WellFormed, Current
<1> QED  BY <1>1, <1>2, <1>3 DEF Defines, ValuesOf

\* With all its operands renamed it can be built on the new values.
LEMMA RenewedReads ==
  ASSUME FunctionOK(function), RebuildOK, MoreOps, HasOperands
  PROVE  IsOp(Renewed) /\ Reads(Renewed, Len(built.types))
<1>1. /\ IsOp(Current) /\ Reads(Current, Defines - 1) /\ Defines \in ValuesOf(function)
      /\ Len(built.types) \in Nat
      /\ ValuesOf(function) = 1..Len(function.types)
      /\ Len(function.types) \in Nat
  BY CurrentOperation DEF FunctionOK, WellFormed, IsListing
<1>2. DOMAIN Current.operands = 1..Len(Current.operands)
  BY <1>1 DEF IsOp, IsListing
<1>3. ASSUME NEW i \in 1..Len(Current.operands)
      PROVE  renamed[Current.operands[i]] \in 1..Len(built.types)
  <2>1. Current.operands[i] \in ValuesOf(function)
    BY <1>1 DEF Reads
  <2>2. renamed[Current.operands[i]] # 0
    BY <1>2 DEF HasOperands, Range
  <2>3. renamed[Current.operands[i]] \in 0..Len(built.types)
    BY <2>1 DEF RebuildOK
  <2> QED  BY <1>1, <2>2, <2>3
<1> QED  BY <1>1, <1>3, RenewedOperation DEF Renewed

\* Where all values are renamed, so are the operands of the current operation.
LEMMA AllRenamedOperands ==
  ASSUME FunctionOK(function), RebuildOK, MoreOps, AllRenamed
  PROVE  HasOperands
<1>1. /\ IsOp(Current) /\ Reads(Current, Defines - 1)
      /\ next \in 1..Len(function.ops) /\ Len(function.ops) \in Nat /\ function.arguments \in Nat
  BY CurrentOperation
<1>2. DOMAIN Current.operands = 1..Len(Current.operands)
  BY <1>1 DEF IsOp, IsListing
<1>3. ASSUME NEW i \in 1..Len(Current.operands)
      PROVE  renamed[Current.operands[i]] # 0
  <2>1. Current.operands[i] \in 1..(Defines - 1)
    BY <1>1 DEF Reads
  <2>2. Defines - 1 = function.arguments + next - 1
    BY <1>1 DEF Defines
  <2>3. \A v \in 1..(Defines - 1) : renamed[v] # 0
    BY <2>2 DEF AllRenamed
  <2> QED  BY <2>1, <2>3
<1> QED  BY <1>2, <1>3 DEF HasOperands, Range

\* One operation rebuilt: the emitted ones are appended (rebuild_function).
LEMMA EmitKeeps ==
  ASSUME FunctionOK(function), RebuildOK, MoreOps,
         NEW ops, Appendable(ops, Len(built.types)), Len(ops) # 0,
         NEW copies, CopiesExist(copies, Len(built.types) + Len(ops)),
         Emit(ops, copies)
  PROVE  /\ FunctionOK(function)' /\ RebuildOK'
         /\ AllRenamed => AllRenamed'
<1> DEFINE N == Len(built.types)
           m == Len(ops)
<1>1. /\ function' = function /\ next' = next + 1 /\ built' = ExtendedBy(built, ops)
      /\ built' # Broken /\ moved' = copies
      /\ renamed' = [renamed EXCEPT ![Defines] = N + m]
  BY DEF Emit
<1>2. /\ next \in 1..Len(function.ops) /\ Len(function.ops) \in Nat
      /\ function.arguments \in Nat /\ N \in Nat
      /\ Defines \in ValuesOf(function)
      /\ m \in Nat
  BY CurrentOperation DEF Appendable, IsListing
<1>3. WellFormed(function.arguments, built) /\ ExtendedBy(built, ops) # Broken
  BY <1>1 DEF RebuildOK
<1>4. Grown(built, ops, m, built') /\ WellFormed(function.arguments, built')
  BY <1>1, <1>3, ExtendedByGrows
<1>5. Len(built'.types) = N + m
  BY <1>4 DEF Grown
<1>6. built' = [types |-> built'.types, ops |-> built'.ops]
  BY <1>1, <1>3, ExtendedByRecord DEF RebuildOK, Appendable
<1>7. renamed' = [v \in ValuesOf(function) |-> renamed'[v]]
      /\ \A v \in ValuesOf(function) : renamed'[v] = IF v = Defines THEN N + m ELSE renamed[v]
  BY <1>1 DEF RebuildOK
<1>8. \A v \in ValuesOf(function) : renamed'[v] \in 0..(N + m)
  <2>1. \A v \in ValuesOf(function) : renamed[v] \in 0..N
    BY DEF RebuildOK
  <2> HIDE DEF N, m
  <2> QED  BY <1>2, <1>7, <2>1
<1>9. FunctionOK(function)'
  BY <1>1
<1>10. RebuildOK'
  <2>1. next' \in 1..(Len(function'.ops) + 1)
    BY <1>1, <1>2
  <2>2. WellFormed(function'.arguments, built')
    BY <1>1, <1>4
  <2>3. renamed' = [v \in ValuesOf(function') |-> renamed'[v]]
        /\ \A v \in ValuesOf(function') : renamed'[v] \in 0..Len(built'.types)
    BY <1>1, <1>5, <1>7, <1>8
  <2>4. CopiesExist(moved', Len(built'.types))
    BY <1>1, <1>5
  <2> QED  BY <2>1, <2>2, <2>3, <2>4, <1>6 DEF RebuildOK, ValuesOf
<1>11. ASSUME AllRenamed PROVE AllRenamed'
  <2>1. ASSUME NEW v \in 1..(function.arguments + next)
        PROVE  renamed'[v] # 0
    <3>1. v \in ValuesOf(function)
      BY <1>2 DEF ValuesOf
    <3>2. CASE v = Defines
      BY <1>2, <1>7, <3>1, <3>2
    <3>3. CASE v # Defines
      <4>1. v \in 1..(function.arguments + next - 1)
        BY <1>2, <3>3 DEF Defines
      <4> QED  BY <1>7, <1>11, <3>1, <3>3, <4>1 DEF AllRenamed
    <3> QED  BY <3>2, <3>3
  <2>2. function'.arguments + next' - 1 = function.arguments + next
    BY <1>1, <1>2
  <2> QED  BY <2>1, <2>2 DEF AllRenamed
<1> QED  BY <1>9, <1>10, <1>11

-----------------------------------------------------------------------------
(* What the passes emit. *)

\* One operation in the place of another.
LEMMA OneAppendable ==
  ASSUME NEW op, IsOp(op), NEW last \in Nat, Reads(op, last)
  PROVE  Appendable(<<op>>, last) /\ Len(<<op>>) = 1
<1>1. IsListing(<<op>>) /\ Len(<<op>>) = 1 /\ <<op>>[1] = op /\ last + 1 - 1 = last
  BY DEF IsListing
<1> QED  BY <1>1 DEF Appendable

\* An operation of one operand, and one of two.
LEMMA UnaryOperation ==
  ASSUME NEW kind \in Kinds, 1 \in Arity(kind), NEW unit, NEW attr, NEW x, NEW last, x \in 1..last
  PROVE  IsOp(Op(unit, kind, attr, <<x>>)) /\ Reads(Op(unit, kind, attr, <<x>>), last)
<1>1. IsListing(<<x>>) /\ Len(<<x>>) = 1 /\ <<x>>[1] = x
  BY DEF IsListing
<1> QED  BY <1>1 DEF Op, IsOp, Reads

\* An operation of two operands is one of the IR, and reads those two values.
LEMMA BinaryOperation ==
  ASSUME NEW kind \in BinaryKinds, NEW unit, NEW attr, NEW x, NEW y, NEW last,
         x \in 1..last, y \in 1..last
  PROVE  IsOp(Op(unit, kind, attr, <<x, y>>)) /\ Reads(Op(unit, kind, attr, <<x, y>>), last)
<1>1. IsListing(<<x, y>>) /\ Len(<<x, y>>) = 2 /\ <<x, y>>[1] = x /\ <<x, y>>[2] = y
  BY DEF IsListing
<1>2. kind \in Kinds /\ 2 \in Arity(kind)
  BY DEF Kinds, BinaryKinds, Arity
<1>3. \A i \in 1..2 : i = 1 \/ i = 2
  OBVIOUS
<1> QED  BY <1>1, <1>2, <1>3 DEF Op, IsOp, Reads

\* silu as a product with the sigmoid.
LEMMA SiluAppendable ==
  ASSUME NEW last \in Nat, NEW x \in 1..last
  PROVE  Appendable(SiluParts(x, last), last) /\ Len(SiluParts(x, last)) = 2
<1> DEFINE ops == SiluParts(x, last)
<1>1. IsListing(ops) /\ Len(ops) = 2
      /\ ops[1] = Op("aloi", "activation", <<"sigmoid">>, <<x>>)
      /\ ops[2] = Op("aloi", "mul", <<>>, <<x, last + 1>>)
  BY DEF SiluParts, IsListing
<1>2. last + 1 - 1 = last /\ last + 2 - 1 = last + 1 /\ x \in 1..(last + 1)
      /\ last + 1 \in 1..(last + 1) /\ \A k \in 1..2 : k = 1 \/ k = 2
  OBVIOUS
<1>3. "activation" \in Kinds /\ 1 \in Arity("activation") /\ "mul" \in BinaryKinds
  BY DEF Kinds, Arity, BinaryKinds
<1> HIDE DEF ops
<1>4. IsOp(ops[1]) /\ Reads(ops[1], last)
  BY <1>1, <1>3, UnaryOperation
<1>5. IsOp(ops[2]) /\ Reads(ops[2], last + 1)
  BY <1>1, <1>2, <1>3, BinaryOperation
<1>6. \A k \in 1..Len(ops) : IsOp(ops[k]) /\ Reads(ops[k], last + k - 1)
  BY <1>1, <1>2, <1>4, <1>5
<1> QED  BY <1>1, <1>6 DEF Appendable, ops

\* softmax as exponentials divided by their sum.
LEMMA SoftmaxAppendable ==
  ASSUME NEW last \in Nat, NEW x \in 1..last, NEW t
  PROVE  Appendable(SoftmaxParts(x, t, last), last) /\ Len(SoftmaxParts(x, t, last)) = 7
<1> DEFINE ops == SoftmaxParts(x, t, last)
           rows == <<Last(t.shape), IF Annotated(t) THEN Last(t.axes) ELSE <<>>>>
<1>1. /\ IsListing(ops) /\ Len(ops) = 7
      /\ ops[1] = Op("aloi", "reduce_max", <<>>, <<x>>)
      /\ ops[2] = Op("aloi", "broadcast", rows, <<last + 1>>)
      /\ ops[3] = Op("aloi", "sub", <<>>, <<x, last + 2>>)
      /\ ops[4] = Op("aloi", "exp", <<>>, <<last + 3>>)
      /\ ops[5] = Op("aloi", "reduce_sum", <<>>, <<last + 4>>)
      /\ ops[6] = Op("aloi", "broadcast", rows, <<last + 5>>)
      /\ ops[7] = Op("aloi", "div", <<>>, <<last + 4, last + 6>>)
  <2> HIDE DEF rows
  <2>1. ops = <<Op("aloi", "reduce_max", <<>>, <<x>>),
                Op("aloi", "broadcast", rows, <<last + 1>>),
                Op("aloi", "sub", <<>>, <<x, last + 2>>),
                Op("aloi", "exp", <<>>, <<last + 3>>),
                Op("aloi", "reduce_sum", <<>>, <<last + 4>>),
                Op("aloi", "broadcast", rows, <<last + 5>>),
                Op("aloi", "div", <<>>, <<last + 4, last + 6>>)>>
    BY DEF SoftmaxParts, rows
  <2> HIDE DEF ops
  <2> QED  BY <2>1 DEF IsListing
<1>2. /\ "reduce_max" \in Kinds /\ "broadcast" \in Kinds /\ "exp" \in Kinds /\ "reduce_sum" \in Kinds
      /\ "sub" \in BinaryKinds /\ "div" \in BinaryKinds
  BY DEF Kinds, BinaryKinds
<1>3. \A kind \in {"reduce_max", "broadcast", "exp", "reduce_sum"} : 1 \in Arity(kind)
  BY DEF Arity, BinaryKinds
<1>4. /\ last + 1 \in 1..(last + 1) /\ last + 2 \in 1..(last + 2) /\ last + 3 \in 1..(last + 3)
      /\ last + 4 \in 1..(last + 4) /\ last + 5 \in 1..(last + 5) /\ x \in 1..(last + 2)
  OBVIOUS
<1> HIDE DEF ops, rows
<1>5. IsOp(ops[1]) /\ Reads(ops[1], last)
  BY <1>1, <1>2, <1>3, UnaryOperation
<1>6. IsOp(ops[2]) /\ Reads(ops[2], last + 1)
  BY <1>1, <1>2, <1>3, <1>4, UnaryOperation
<1>7. IsOp(ops[3]) /\ Reads(ops[3], last + 2)
  BY <1>1, <1>2, <1>4, BinaryOperation
<1>8. IsOp(ops[4]) /\ Reads(ops[4], last + 3)
  BY <1>1, <1>2, <1>3, <1>4, UnaryOperation
<1>9. IsOp(ops[5]) /\ Reads(ops[5], last + 4)
  BY <1>1, <1>2, <1>3, <1>4, UnaryOperation
<1>10. IsOp(ops[6]) /\ Reads(ops[6], last + 5)
  BY <1>1, <1>2, <1>3, <1>4, UnaryOperation
<1>11. IsOp(ops[7]) /\ Reads(ops[7], last + 6)
  <2>1. last + 4 \in 1..(last + 6) /\ last + 6 \in 1..(last + 6)
    OBVIOUS
  <2> QED  BY <1>1, <1>2, <2>1, BinaryOperation
<1>12. ASSUME NEW k \in 1..7
       PROVE  IsOp(ops[k]) /\ Reads(ops[k], last + k - 1)
  <2>1. k = 1 \/ k = 2 \/ k = 3 \/ k = 4 \/ k = 5 \/ k = 6 \/ k = 7
    OBVIOUS
  <2>2. /\ last + 1 - 1 = last /\ last + 2 - 1 = last + 1 /\ last + 3 - 1 = last + 2
        /\ last + 4 - 1 = last + 3 /\ last + 5 - 1 = last + 4 /\ last + 6 - 1 = last + 5
        /\ last + 7 - 1 = last + 6
    OBVIOUS
  <2> QED  BY <1>5, <1>6, <1>7, <1>8, <1>9, <1>10, <1>11, <2>1, <2>2
<1> QED  BY <1>1, <1>12 DEF Appendable, ops

\* What a round of decomposition puts in the place of an operation.
LEMMA PartsAppendable ==
  ASSUME Len(built.types) \in Nat, NEW op, IsOp(op), Reads(op, Len(built.types))
  PROVE  Appendable(Parts(op), Len(built.types)) /\ Len(Parts(op)) \in Nat \ {0}
<1> DEFINE N == Len(built.types)
           x == op.operands[1]
<1>1. x \in 1..N
  BY FirstOperand DEF Reads
<1>2. \/ Parts(op) = <<op>>
      \/ Parts(op) = SoftmaxParts(x, built.types[x], N)
      \/ Parts(op) = SiluParts(x, N)
  BY DEF Parts, Decomposed
<1> HIDE DEF x, N
<1>3. /\ Appendable(<<op>>, N) /\ Len(<<op>>) = 1
  BY OneAppendable DEF N
<1>4. Appendable(SiluParts(x, N), N) /\ Len(SiluParts(x, N)) = 2
  BY <1>1, SiluAppendable DEF N
<1>5. Appendable(SoftmaxParts(x, built.types[x], N), N)
      /\ Len(SoftmaxParts(x, built.types[x], N)) = 7
  BY <1>1, SoftmaxAppendable DEF N
<1>6. 1 \in Nat \ {0} /\ 2 \in Nat \ {0} /\ 7 \in Nat \ {0}
  OBVIOUS
<1> QED  BY <1>2, <1>3, <1>4, <1>5, <1>6, Zenon DEF N

\* An operation, and the all-reduce of its partial result (_insert_all_reduce).
LEMMA AllReduceAppendable ==
  ASSUME Len(built.types) \in Nat, NEW op, IsOp(op), Reads(op, Len(built.types))
  PROVE  Appendable(WithAllReduce(op), Len(built.types)) /\ Len(WithAllReduce(op)) \in Nat \ {0}
<1> DEFINE N == Len(built.types)
           sum == Op("aloi", "all_reduce", <<>>, <<N + 1>>)
<1>1. WithAllReduce(op) = <<op>> \/ WithAllReduce(op) = <<op, sum>>
  BY DEF WithAllReduce
<1>2. Appendable(<<op>>, N) /\ Len(<<op>>) = 1
  BY OneAppendable
<1>3. IsOp(sum) /\ Reads(sum, N + 1)
  <2>1. "all_reduce" \in Kinds /\ 1 \in Arity("all_reduce")
    BY DEF Kinds, Arity, BinaryKinds
  <2>2. N + 1 \in 1..(N + 1)
    OBVIOUS
  <2> HIDE DEF N
  <2> QED  BY <2>1, <2>2, UnaryOperation
<1> HIDE DEF sum
<1>4. Appendable(<<op, sum>>, N) /\ Len(<<op, sum>>) = 2
  <2>1. IsListing(<<op, sum>>) /\ Len(<<op, sum>>) = 2
        /\ <<op, sum>>[1] = op /\ <<op, sum>>[2] = sum
    BY DEF IsListing
  <2>2. N + 1 - 1 = N /\ N + 2 - 1 = N + 1 /\ \A k \in 1..2 : k = 1 \/ k = 2
    OBVIOUS
  <2> QED  BY <1>3, <2>1, <2>2 DEF Appendable
<1> QED  BY <1>1, <1>2, <1>4

-----------------------------------------------------------------------------
(* The lowering that is taken, and the copies it makes. *)

\* The greatest of some of the first numbers is one of them.
LEMMA MaxIn ==
  ASSUME NEW m \in Nat, NEW S, S \subseteq 1..m, S # {}
  PROVE  Max(S) \in S /\ \A k \in S : k <= Max(S)
<1> DEFINE T == {m - k : k \in S}
<1>1. PICK t \in T : \A u \in T : t <= u
  <2>1. \A k \in S : m - k \in Nat
    OBVIOUS
  <2>2. T \subseteq Nat /\ T # {}
    BY <2>1
  <2> HIDE DEF T
  <2> QED  BY <2>2, LeastNatural
<1>2. PICK x \in S : t = m - x
  OBVIOUS
<1>3. \A k \in S : x >= k
  <2>1. \A k \in S : m - x <= m - k
    BY <1>1, <1>2
  <2>2. \A k \in S : k \in Nat
    OBVIOUS
  <2> QED  BY <2>1, <2>2
<1>4. \E y \in S : \A k \in S : y >= k
  BY <1>3
<1>5. Max(S) \in S /\ \A k \in S : Max(S) >= k
  BY <1>4 DEF Max
<1>6. \A k \in S : k \in Nat
  OBVIOUS
<1> QED  BY <1>5, <1>6

\* The copies that are recorded exist once the operations are appended.
LEMMA RecordedExist ==
  ASSUME NEW last \in Nat, NEW copies, CopiesExist(copies, last), NEW ops, IsListing(ops)
  PROVE  CopiesExist(Recorded(copies, ops, last), last + Len(ops))
<1> DEFINE transfers == {k \in DOMAIN ops : ops[k].kind = "transfer"}
           copied == {CopyOf(ops[k]) : k \in transfers}
           Made(copy) == {k \in transfers : CopyOf(ops[k]) = copy}
           m == Len(ops)
<1>1. Recorded(copies, ops, last) =
        [copy \in DOMAIN copies \cup copied |->
           IF copy \in copied THEN last + Max(Made(copy)) ELSE copies[copy]]
  BY DEF Recorded
<1>2. m \in Nat /\ DOMAIN ops = 1..m
  BY ListingDomain
<1>3. ASSUME NEW copy \in copied
      PROVE  last + Max(Made(copy)) \in 1..(last + m)
  <2>1. Made(copy) \subseteq 1..m /\ Made(copy) # {}
    BY <1>2
  <2> HIDE DEF Made, m, copied, transfers
  <2>2. Max(Made(copy)) \in 1..m
    BY <1>2, <2>1, MaxIn
  <2> QED  BY <1>2, <2>2
<1>4. ASSUME NEW copy \in DOMAIN copies
      PROVE  copies[copy] \in 1..(last + m)
  <2>1. copies[copy] \in 1..last
    BY DEF CopiesExist
  <2> QED  BY <1>2, <2>1
<1> HIDE DEF Made, m, copied
<1> QED  BY <1>1, <1>3, <1>4 DEF CopiesExist, m

\* Copies stay where they are while a body grows.
LEMMA CopiesStay ==
  ASSUME NEW copies, NEW last \in Nat, NEW m \in Nat, CopiesExist(copies, last)
  PROVE  CopiesExist(copies, last + m)
BY DEF CopiesExist

\* The cheapest lowering is one of them.
LEMMA CheapestIsOne ==
  ASSUME NEW body, NEW lowerings, lowerings # {},
         \A ops \in lowerings : Len(ops) \in Nat
  PROVE  Cheapest(body, lowerings) \in lowerings
<1> DEFINE T == {Cost(body, ops) : ops \in lowerings}
<1>1. \A ops \in lowerings : Cost(body, ops) \in Nat
  <2>1. ASSUME NEW ops \in lowerings PROVE Cost(body, ops) \in Nat
    <3>1. \E tie \in {0, 1} : Cost(body, ops) = 2 * Len(ops) + tie
      BY DEF Cost
    <3>2. Len(ops) \in Nat
      OBVIOUS
    <3> QED  BY <3>1, <3>2
  <2> QED  BY <2>1
<1>2. PICK t \in T : \A u \in T : t <= u
  <2>1. T \subseteq Nat /\ T # {}
    BY <1>1
  <2> HIDE DEF T
  <2> QED  BY <2>1, LeastNatural
<1>3. PICK ops \in lowerings : t = Cost(body, ops)
  OBVIOUS
<1>4. \A other \in lowerings : Cost(body, ops) <= Cost(body, other)
  BY <1>2, <1>3
<1>5. \E x \in lowerings : \A other \in lowerings : Cost(body, x) <= Cost(body, other)
  BY <1>4
<1> QED  BY <1>5 DEF Cheapest

-----------------------------------------------------------------------------
(* The types of the arguments a rebuild begins with. *)

\* What an argument is annotated, sharded or placed as has all its fields.
LEMMA AnnotatedTensor ==
  ASSUME NEW t, HasFields(t), NEW role, NEW axes
  PROVE  HasFields([t EXCEPT !.role = role, !.axes = axes])
<1> DEFINE Fields(x, r) == [shape |-> t.shape, dtype |-> t.dtype, role |-> r, axes |-> x,
                            whole |-> t.whole, placement |-> t.placement, domain |-> t.domain]
           u == [t EXCEPT !.role = role, !.axes = axes]
<1>1. t = Fields(t.axes, t.role) /\ t.dtype # "none"
  BY DEF HasFields
<1>2. [Fields(t.axes, t.role) EXCEPT !.role = role] = Fields(t.axes, role)
      /\ [Fields(t.axes, role) EXCEPT !.axes = axes] = Fields(axes, role)
  OBVIOUS
<1>3. u = Fields(axes, role)
  <2>1. u = [[t EXCEPT !.role = role] EXCEPT !.axes = axes]
    OBVIOUS
  <2> HIDE DEF Fields, u
  <2> QED  BY <1>1, <1>2, <2>1, Zenon
<1> HIDE DEF u
<1> QED  BY <1>1, <1>3 DEF HasFields, u

\* The share of an argument that one rank holds is a tensor type (_shard_argument).
LEMMA ShardedTensor ==
  ASSUME NEW t, HasFields(t), NEW plan, NEW name
  PROVE  HasFields(Sharded(plan, name, t))
<1> DEFINE placement == PlacementFor(plan, name, t)
           dim == DimOf(t, placement.axis)
           shape == [t.shape EXCEPT ![dim] = @ \div plan.tp]
           u == [[[t EXCEPT !.shape = shape] EXCEPT !.whole = t.shape] EXCEPT !.placement = placement]
           Fields(s, w, p) == [shape |-> s, dtype |-> t.dtype, role |-> t.role, axes |-> t.axes,
                               whole |-> w, placement |-> p, domain |-> t.domain]
<1>1. Sharded(plan, name, t) = t \/ Sharded(plan, name, t) = u
  <2> DEFINE v == [t EXCEPT !.shape = shape, !.whole = t.shape, !.placement = placement]
  <2>1. Sharded(plan, name, t) = t \/ Sharded(plan, name, t) = v
    BY DEF Sharded
  <2>2. v = u
    OBVIOUS
  <2> QED  BY <2>1, <2>2
<1> HIDE DEF shape, placement
<1>2. u = Fields(shape, t.shape, placement)
  <2>1. t = Fields(t.shape, t.whole, t.placement)
    BY DEF HasFields
  <2>2. /\ [Fields(t.shape, t.whole, t.placement) EXCEPT !.shape = shape]
             = Fields(shape, t.whole, t.placement)
        /\ [Fields(shape, t.whole, t.placement) EXCEPT !.whole = t.shape]
             = Fields(shape, t.shape, t.placement)
        /\ [Fields(shape, t.shape, t.placement) EXCEPT !.placement = placement]
             = Fields(shape, t.shape, placement)
    OBVIOUS
  <2>3. u = [[[t EXCEPT !.shape = shape] EXCEPT !.whole = t.shape] EXCEPT !.placement = placement]
    OBVIOUS
  <2> HIDE DEF Fields, u
  <2> QED  BY <2>1, <2>2, <2>3, Zenon
<1> HIDE DEF u
<1>3. HasFields(u)
  <2>1. t.dtype # "none"
    BY DEF HasFields
  <2> QED  BY <1>2, <2>1 DEF HasFields
<1> QED  BY <1>1, <1>3

(* Types that may differ in their domains only.                            *)
SameButDomain(t, u) ==
  /\ t.shape = u.shape /\ t.dtype = u.dtype /\ t.role = u.role /\ t.axes = u.axes
  /\ t.whole = u.whole /\ t.placement = u.placement

\* A type is as valid in one domain as in another.
LEMMA DomainlessType ==
  ASSUME NEW t, NEW u, SameButDomain(t, u)
  PROVE  /\ Rank(t) = Rank(u) /\ (Annotated(t) <=> Annotated(u))
         /\ ShardedDim(t) = ShardedDim(u) /\ (ValidType(t) <=> ValidType(u))
         /\ (RowsWhole(t) <=> RowsWhole(u))
<1>1. Rank(t) = Rank(u) /\ (Annotated(t) <=> Annotated(u))
  BY DEF SameButDomain, Rank, Annotated
<1>2. \A axis : DimsOf(t, axis) = DimsOf(u, axis)
  BY DEF SameButDomain, DimsOf
<1>3. \A axis : DimOf(t, axis) = DimOf(u, axis)
  BY <1>2 DEF DimOf
<1>4. ShardedDim(t) = ShardedDim(u)
  BY <1>3 DEF SameButDomain, ShardedDim
<1>5. ValidType(t) <=> ValidType(u)
  BY <1>1, <1>2, <1>4 DEF ValidType, SameButDomain
<1>6. RowsWhole(t) <=> RowsWhole(u)
  BY <1>1, <1>4 DEF RowsWhole, SameButDomain
<1> QED  BY <1>1, <1>4, <1>5, <1>6

\* A tensor in another domain.
LEMMA ElsewhereTensor ==
  ASSUME NEW t, HasFields(t), NEW domain
  PROVE  /\ HasFields([t EXCEPT !.domain = domain])
         /\ SameButDomain([t EXCEPT !.domain = domain], t)
         /\ [t EXCEPT !.domain = domain].domain = domain
         /\ ValidType([t EXCEPT !.domain = domain]) <=> ValidType(t)
<1> DEFINE u == [t EXCEPT !.domain = domain]
<1>1. HasFields(u) /\ SameButDomain(u, t) /\ u.domain = domain
  BY DEF HasFields, SameButDomain
<1> HIDE DEF u
<1>2. ValidType(u) <=> ValidType(t)
  BY <1>1, DomainlessType
<1> QED  BY <1>1, <1>2 DEF u

\* A valid type in the domain of its role is valid (_default_domain).
LEMMA AtHomeTensor ==
  ASSUME NEW t, IsTensor(t)
  PROVE  IsTensor(AtHome(t)) /\ SameButDomain(AtHome(t), t) /\ AtHome(t).domain # "none"
<1>1. HomeDomain(t.role) # "none"
  BY DEF HomeDomain
<1> QED  BY <1>1, ElsewhereTensor DEF AtHome, IsTensor

\* The types of a function's own arguments.
LEMMA ArgumentTypesListing ==
  ASSUME NEW f, FunctionOK(f)
  PROVE  /\ f.arguments \in Nat /\ ArgumentTypes(f) = [a \in 1..f.arguments |-> f.types[a]]
         /\ \A a \in 1..f.arguments : IsTensor(f.types[a])
<1>1. /\ f.arguments \in Nat /\ Len(f.ops) \in Nat /\ Len(f.types) = f.arguments + Len(f.ops)
      /\ \A v \in 1..Len(f.types) : IsTensor(f.types[v])
  BY DEF FunctionOK, WellFormed, IsListing
<1>2. ArgumentTypes(f) = [a \in 1..f.arguments |-> f.types[a]]
  <2> DEFINE S == {f.types[v] : v \in 1..Len(f.types)}
             n == f.arguments
             N == Len(f.types)
  <2>1. f.types \in [1..N -> S] /\ N \in Nat
    BY DEF FunctionOK, WellFormed, IsListing
  <2>2. f.types \in Seq(S)
    BY <2>1
  <2>3. n \in 0..N
    BY <1>1
  <2> HIDE DEF S, n, N
  <2> QED  BY <2>2, <2>3 DEF ArgumentTypes, n, N
<1> QED  BY <1>1, <1>2

\* A rebuild begins with the arguments alone, each standing for itself.
LEMMA RebuildBegins ==
  ASSUME FunctionOK(function), NEW types, NEW as,
         types = [a \in 1..function.arguments |-> types[a]],
         \A a \in 1..function.arguments : IsTensor(types[a]),
         Rebuild(types, as)
  PROVE  FunctionOK(function)' /\ RebuildOK' /\ AllRenamed'
<1> DEFINE n == function.arguments
<1>1. /\ next' = 1 /\ built' = [types |-> types, ops |-> <<>>] /\ moved' = <<>>
      /\ renamed' = [v \in ValuesOf(function) |-> IF v <= n THEN v ELSE 0]
      /\ function' = function
  BY DEF Rebuild
<1>2. n \in Nat /\ Len(function.ops) \in Nat
  BY DEF FunctionOK, WellFormed, IsListing
<1>3. IsListing(types) /\ Len(types) = n
  BY <1>2, FunctionListing
<1>4. IsListing(<<>>) /\ Len(<<>>) = 0
  BY DEF IsListing
<1>5. built'.types = types /\ built'.ops = <<>>
  BY <1>1
<1>6. WellFormed(n, built')
  <2>1. \A k \in 1..Len(built'.ops) : FALSE
    BY <1>4, <1>5
  <2>2. Len(built'.types) = n + Len(built'.ops)
    BY <1>2, <1>3, <1>4, <1>5
  <2> QED  BY <1>2, <1>3, <1>4, <1>5, <2>1, <2>2 DEF WellFormed
<1>7. CopiesExist(moved', Len(built'.types))
  BY <1>1 DEF CopiesExist
<1>8. ASSUME NEW v \in ValuesOf(function)
      PROVE  renamed'[v] \in 0..n /\ (v <= n => renamed'[v] # 0)
  BY <1>1, <1>2 DEF ValuesOf
<1>9. RebuildOK'
  <2>1. next' \in 1..(Len(function'.ops) + 1)
    BY <1>1, <1>2
  <2>2. renamed' = [v \in ValuesOf(function') |-> renamed'[v]]
    BY <1>1
  <2>3. \A v \in ValuesOf(function') : renamed'[v] \in 0..Len(built'.types)
    BY <1>1, <1>3, <1>5, <1>8
  <2> QED  BY <1>1, <1>6, <1>7, <2>1, <2>2, <2>3 DEF RebuildOK, ValuesOf
<1>10. AllRenamed'
  <2>1. function'.arguments + next' - 1 = n /\ \A v \in 1..n : v \in ValuesOf(function) /\ v <= n
    BY <1>1, <1>2 DEF ValuesOf
  <2> QED  BY <1>8, <2>1 DEF AllRenamed
<1> QED  BY <1>1, <1>9, <1>10

-----------------------------------------------------------------------------
(* What the passes return. *)

\* Function.verify of a well-formed function asks for its returns only.
LEMMA ReturnsExist ==
  ASSUME NEW f, f = [arguments |-> f.arguments, types |-> f.types, ops |-> f.ops,
                     returns |-> f.returns],
         WellFormed(f.arguments, f), IsListing(f.returns), Verified(f)
  PROVE  FunctionOK(f)
<1>1. ValuesOf(f) = 1..Len(f.types)
  BY DEF WellFormed, ValuesOf
<1>2. \A k \in 1..Len(f.returns) : f.returns[k] \in 1..Len(f.types)
  BY <1>1, ListingDomain DEF Verified, Range
<1> QED  BY <1>2 DEF FunctionOK

\* The rebuilt function, as far as its returns.
LEMMA RebuiltParts ==
  ASSUME FunctionOK(function), RebuildOK
  PROVE  /\ Rebuilt = [arguments |-> Rebuilt.arguments, types |-> Rebuilt.types,
                       ops |-> Rebuilt.ops, returns |-> Rebuilt.returns]
         /\ Rebuilt.types = built.types
         /\ WellFormed(Rebuilt.arguments, Rebuilt)
         /\ IsListing(Rebuilt.returns) /\ Len(Rebuilt.returns) = Len(function.returns)
         /\ \A k \in 1..Len(function.returns) : Rebuilt.returns[k] = renamed[function.returns[k]]
<1> DEFINE returns == [k \in DOMAIN function.returns |-> renamed[function.returns[k]]]
           m == Len(function.returns)
<1>1. Rebuilt = [arguments |-> function.arguments, types |-> built.types, ops |-> built.ops,
                 returns |-> returns]
  BY DEF Rebuilt
<1>2. DOMAIN function.returns = 1..m /\ m \in Nat
  BY ListingDomain DEF FunctionOK
<1>3. returns = [k \in 1..m |-> returns[k]]
      /\ \A k \in 1..m : returns[k] = renamed[function.returns[k]]
  BY <1>2
<1> HIDE DEF returns, m
<1>4. IsListing(returns) /\ Len(returns) = m
  BY <1>2, <1>3, FunctionListing
<1>5. WellFormed(function.arguments, built)
  BY DEF RebuildOK
<1>6. /\ Rebuilt.types = built.types /\ Rebuilt.ops = built.ops
      /\ Rebuilt.arguments = function.arguments /\ Rebuilt.returns = returns
  BY <1>1
<1>7. WellFormed(Rebuilt.arguments, Rebuilt)
  BY <1>5, <1>6 DEF WellFormed
<1> QED  BY <1>1, <1>3, <1>4, <1>6, <1>7 DEF m

\* A rebuild that has been through all operations leaves a function.
LEMMA RebuiltIsOK ==
  ASSUME FunctionOK(function), RebuildOK, ~MoreOps, AllRenamed
  PROVE  FunctionOK(Rebuilt)
<1>1. /\ function.arguments \in Nat /\ Len(function.ops) \in Nat
      /\ Len(function.types) = function.arguments + Len(function.ops)
      /\ \A k \in 1..Len(function.returns) : function.returns[k] \in 1..Len(function.types)
  BY DEF FunctionOK, WellFormed, IsListing
<1>2. next = Len(function.ops) + 1
  BY <1>1 DEF RebuildOK, MoreOps
<1>3. ASSUME NEW k \in 1..Len(function.returns)
      PROVE  renamed[function.returns[k]] \in 1..Len(built.types)
  <2> DEFINE v == function.returns[k]
  <2>1. v \in 1..(function.arguments + Len(function.ops))
    BY <1>1
  <2>2. function.arguments + next - 1 = function.arguments + Len(function.ops)
    BY <1>1, <1>2
  <2>3. renamed[v] # 0
    BY <2>1, <2>2 DEF AllRenamed
  <2>4. renamed[v] \in 0..Len(built.types)
    BY <2>1 DEF RebuildOK, ValuesOf
  <2>5. Len(built.types) \in Nat
    BY DEF RebuildOK, WellFormed, IsListing
  <2> QED  BY <2>3, <2>4, <2>5
<1> QED  BY <1>3, RebuiltParts DEF FunctionOK

\* One that left some values behind is verified before it is handed on.
LEMMA VerifiedRebuiltIsOK ==
  ASSUME FunctionOK(function), RebuildOK, Verified(Rebuilt)
  PROVE  FunctionOK(Rebuilt)
BY RebuiltParts, ReturnsExist

\* With its results moved home, a function is one again (_place_results).
LEMMA PlacedIsOK ==
  ASSUME FunctionOK(function), CopiesExist(moved, Len(function.types)),
         NEW placed, placed = PlacedResults(function, moved), CanMove(placed.transfers)
  PROVE  FunctionOK(WithResults(function, placed))
<1> DEFINE needs == ResultNeeds(function)
           N == Len(function.types)
           body == [types |-> function.types, ops |-> function.ops]
           after == ExtendedBy(body, placed.transfers)
           m == Len(function.returns)
<1>1. /\ function = [arguments |-> function.arguments, types |-> function.types,
                     ops |-> function.ops, returns |-> function.returns]
      /\ WellFormed(function.arguments, function)
      /\ IsListing(function.returns) /\ m \in Nat /\ DOMAIN function.returns = 1..m
      /\ N \in Nat
      /\ \A k \in 1..m : function.returns[k] \in 1..N
  BY DEF FunctionOK, WellFormed, IsListing
<1>2. IsListing(needs) /\ Len(needs) = m /\ NeedsExist(needs, N)
  <2>1. needs = [k \in 1..m |-> needs[k]] /\ \A k \in 1..m : needs[k].value = function.returns[k]
    BY <1>1 DEF ResultNeeds, Need
  <2> HIDE DEF needs
  <2>2. IsListing(needs) /\ Len(needs) = m
    BY <1>1, <2>1, FunctionListing
  <2> QED  BY <1>1, <2>1, <2>2 DEF NeedsExist
<1>3. placed = Gather(needs, moved, N)
  BY DEF PlacedResults
<1> HIDE DEF needs
<1>4. Collected(placed, needs, moved, N, Len(needs))
  BY <1>1, <1>2, <1>3, GatherCollects
<1>5. Appendable(placed.transfers, N)
      /\ \A k \in 1..m : placed.operands[k] \in 1..(N + Len(placed.transfers))
  BY <1>1, <1>2, <1>4, CollectedAppendable
<1>6. body.types = function.types /\ body.ops = function.ops
  OBVIOUS
<1>7. WellFormed(function.arguments, body)
  <2> HIDE DEF body
  <2> QED  BY <1>1, <1>6 DEF WellFormed
<1>8. after # Broken
  BY DEF CanMove
<1> HIDE DEF after
<1>9. Grown(body, placed.transfers, Len(placed.transfers), after)
      /\ WellFormed(function.arguments, after)
  BY <1>5, <1>6, <1>7, <1>8, ExtendedByGrows DEF after
<1>10. Len(after.types) = N + Len(placed.transfers)
  BY <1>6, <1>9 DEF Grown
<1> DEFINE f == WithResults(function, placed)
<1>11. f = [arguments |-> function.arguments, types |-> after.types, ops |-> after.ops,
            returns |-> placed.operands]
  <2> DEFINE Fields(t, o, r) == [arguments |-> function.arguments, types |-> t, ops |-> o,
                                 returns |-> r]
  <2>1. f = [[[function EXCEPT !.types = after.types] EXCEPT !.ops = after.ops]
              EXCEPT !.returns = placed.operands]
    BY DEF WithResults, after
  <2>2. function = Fields(function.types, function.ops, function.returns)
    BY <1>1
  <2>3. /\ \A t, o, r : [Fields(t, o, r) EXCEPT !.types = after.types] = Fields(after.types, o, r)
        /\ \A t, o, r : [Fields(t, o, r) EXCEPT !.ops = after.ops] = Fields(t, after.ops, r)
        /\ \A t, o, r : [Fields(t, o, r) EXCEPT !.returns = placed.operands]
                          = Fields(t, o, placed.operands)
    OBVIOUS
  <2>4. f = Fields(after.types, after.ops, placed.operands)
    <3> HIDE DEF Fields, f
    <3> DEFINE x == [function EXCEPT !.types = after.types]
               y == [x EXCEPT !.ops = after.ops]
    <3>1. x = Fields(after.types, function.ops, function.returns)
      BY <2>2, <2>3, SMT
    <3>2. f = [y EXCEPT !.returns = placed.operands]
      BY <2>1
    <3> HIDE DEF x
    <3>3. y = Fields(after.types, after.ops, function.returns)
      BY <2>3, <3>1, SMT
    <3> HIDE DEF y
    <3> QED  BY <2>3, <3>2, <3>3, SMT
  <2> QED  BY <2>4
<1> HIDE DEF f
<1>12. /\ f.arguments = function.arguments /\ f.types = after.types /\ f.ops = after.ops
       /\ f.returns = placed.operands
  BY <1>11
<1>13. WellFormed(f.arguments, f)
  BY <1>9, <1>12 DEF WellFormed
<1>14. IsListing(f.returns) /\ Len(f.returns) = m
  BY <1>2, <1>4, <1>12 DEF Collected
<1>15. \A k \in 1..Len(f.returns) : f.returns[k] \in 1..Len(f.types)
  BY <1>5, <1>10, <1>12, <1>14
<1> QED  BY <1>11, <1>12, <1>13, <1>14, <1>15 DEF FunctionOK, f

\* What the frontend hands over is one, once verified.
LEMMA ImportedIsOK ==
  ASSUME NEW f, FromFrontend(f), Verified(f)
  PROVE  FunctionOK(f)
<1>1. /\ f.arguments \in Nat /\ f.ops \in Seq(Range(f.ops)) /\ f.types \in Seq(TensorType)
      /\ f.returns \in Seq(Nat)
      /\ Len(f.types) = f.arguments + Len(f.ops)
  BY DEF FromFrontend
<1>2. /\ IsListing(f.types) /\ IsListing(f.ops) /\ IsListing(f.returns)
      /\ DOMAIN f.types = 1..Len(f.types) /\ DOMAIN f.ops = 1..Len(f.ops)
  BY <1>1, SequenceListing
<1>3. ASSUME NEW v \in 1..Len(f.types)
      PROVE  IsTensor(f.types[v])
  <2>1. f.types[v] \in TensorType /\ f.types[v].dtype # "none" /\ ValidType(f.types[v])
    BY <1>1, <1>2 DEF FromFrontend
  <2>2. HasFields(f.types[v])
    BY <2>1 DEF TensorType, HasFields
  <2> QED  BY <2>1, <2>2 DEF IsTensor
<1>4. ASSUME NEW k \in 1..Len(f.ops)
      PROVE  IsOp(f.ops[k]) /\ Reads(f.ops[k], f.arguments + k - 1)
             /\ f.types[f.arguments + k] = Infers(f.types, f.ops[k])
  <2> DEFINE op == f.ops[k]
  <2>1. IsOperation(op) /\ f.types[f.arguments + k] = Infers(f.types, op)
    BY <1>2 DEF FromFrontend
  <2> HIDE DEF op
  <2>2. IsOp(op)
    BY <2>1, SequenceListing DEF IsOperation, IsOp
  <2>3. Range(op.operands) \subseteq 1..(f.arguments + k - 1)
    BY <1>2 DEF Verified, op
  <2>4. Reads(op, f.arguments + k - 1)
    BY <2>2, <2>3, FirstOperand DEF Reads, Range
  <2> QED  BY <2>1, <2>2, <2>4 DEF op
<1>5. WellFormed(f.arguments, f)
  BY <1>1, <1>2, <1>3, <1>4 DEF WellFormed
<1>6. f = [arguments |-> f.arguments, types |-> f.types, ops |-> f.ops, returns |-> f.returns]
  BY DEF FromFrontend
<1> QED  BY <1>2, <1>5, <1>6, ReturnsExist

-----------------------------------------------------------------------------
(* FuseAttention. *)

\* A chain: its three operations, and the values it reads from outside.
LEMMA ChainParts ==
  ASSUME FunctionOK(function), NEW k \in DOMAIN function.ops, Fusable(k)
  PROVE  /\ Len(ChainInputs(ChainAt(k))) = 3
         /\ \A i \in 1..3 : ChainInputs(ChainAt(k))[i] \in ValuesOf(function)
         /\ ResultOf(ChainAt(k).sv) \in ValuesOf(function)
<1> DEFINE chain == ChainAt(k)
           qk == function.ops[chain.qk]
           sv == function.ops[chain.sv]
           K == Len(function.ops)
<1>1. /\ function.arguments \in Nat /\ K \in Nat /\ DOMAIN function.ops = 1..K
      /\ \A j \in 1..K : IsOp(function.ops[j])
                         /\ Reads(function.ops[j], function.arguments + j - 1)
  BY DEF FunctionOK, WellFormed, IsListing
<1>2. \A kind, j : ReadOnlyBy(j, kind) =>
                     UserOf(j) \in DOMAIN function.ops /\ function.ops[UserOf(j)].kind = kind
  <2>1. ASSUME NEW kind, NEW j, ReadOnlyBy(j, kind)
        PROVE  UserOf(j) \in DOMAIN function.ops /\ function.ops[UserOf(j)].kind = kind
    <3>1. Users(ResultOf(j)) # {}
      BY <2>1, FS_EmptySet DEF ReadOnlyBy
    <3>2. UserOf(j) \in Users(ResultOf(j))
      BY <3>1 DEF UserOf
    <3> QED  BY <2>1, <3>2 DEF ReadOnlyBy, Users
  <2> QED  BY <2>1
<1>3. /\ chain.qk \in 1..K /\ qk.kind = "gqa_qk" /\ chain.sv \in 1..K /\ sv.kind = "gqa_sv"
  <2>1. chain.qk = k /\ chain.sv = UserOf(UserOf(k))
    BY DEF ChainAt
  <2> QED  BY <1>1, <1>2, <2>1 DEF Fusable
<1> HIDE DEF chain
<1>4. ASSUME NEW j \in 1..K, NEW kind \in {"gqa_qk", "gqa_sv"}, function.ops[j].kind = kind
      PROVE  /\ IsListing(function.ops[j].operands) /\ Len(function.ops[j].operands) = 2
             /\ \A i \in 1..2 : function.ops[j].operands[i] \in ValuesOf(function)
  <2> DEFINE op == function.ops[j]
  <2>1. IsOp(op) /\ Reads(op, function.arguments + j - 1)
    BY <1>1
  <2>2. Arity(kind) = {2}
    BY DEF Arity, BinaryKinds
  <2>3. IsListing(op.operands) /\ Len(op.operands) = 2
    BY <1>4, <2>1, <2>2 DEF IsOp
  <2>4. \A v \in 1..(function.arguments + j - 1) : v \in ValuesOf(function)
    BY <1>1 DEF ValuesOf
  <2> QED  BY <2>1, <2>3, <2>4 DEF Reads
<1>5. /\ IsListing(qk.operands) /\ Len(qk.operands) = 2
      /\ \A i \in 1..2 : qk.operands[i] \in ValuesOf(function)
      /\ sv.operands[2] \in ValuesOf(function)
  BY <1>3, <1>4
<1>6. ChainInputs(chain) = Append(qk.operands, sv.operands[2])
  BY DEF ChainInputs
<1> HIDE DEF qk, sv, K
<1>7. /\ Len(ChainInputs(chain)) = 3 /\ ChainInputs(chain)[3] = sv.operands[2]
      /\ ChainInputs(chain)[1] = qk.operands[1] /\ ChainInputs(chain)[2] = qk.operands[2]
  BY <1>5, <1>6, AppendListing
<1>8. \A i \in 1..3 : i = 1 \/ i = 2 \/ i = 3
  OBVIOUS
<1>9. \A i \in 1..3 : ChainInputs(chain)[i] \in ValuesOf(function)
  BY <1>5, <1>7, <1>8
<1>10. ResultOf(chain.sv) \in ValuesOf(function)
  BY <1>1, <1>3 DEF ResultOf, ValuesOf, K
<1> QED  BY <1>7, <1>9, <1>10 DEF chain

\* A reshape of an operand that is there.
LEMMA ReshapeIsOp ==
  ASSUME NEW shape, NEW m \in Nat, NEW x \in 1..m
  PROVE  IsOp(Reshape(shape, x)) /\ Reads(Reshape(shape, x), m)
<1>1. "reshape" \in Kinds /\ 1 \in Arity("reshape")
  BY DEF Kinds, ViewKinds, Arity, BinaryKinds
<1> QED  BY <1>1, UnaryOperation DEF Reshape

\* The operands of the attention are reshaped.
LEMMA HeadsFirstAppendable ==
  ASSUME Len(built.types) \in Nat, NEW chain, NEW inputs,
         \A i \in 1..3 : inputs[i] \in 1..Len(built.types)
  PROVE  Appendable(HeadsFirst(chain, inputs), Len(built.types))
         /\ Len(HeadsFirst(chain, inputs)) = 4
<1> DEFINE last == Len(built.types)
           shape(i) == SwapMiddle(function.types[ChainInputs(chain)[i]].shape)
           Swapped(i) == Reshape(shape(i), inputs[i])
           attr == function.ops[chain.qk].attr
           attention == Op("aloi", "attention", attr, <<last + 1, last + 2, last + 3>>)
           ops == HeadsFirst(chain, inputs)
<1>1. /\ IsListing(ops) /\ Len(ops) = 4
      /\ ops[1] = Swapped(1) /\ ops[2] = Swapped(2) /\ ops[3] = Swapped(3)
      /\ ops[4] = attention
  <2>1. ops = <<Swapped(1), Swapped(2), Swapped(3), attention>>
    BY DEF HeadsFirst
  <2> HIDE DEF ops, Swapped, attention
  <2> QED  BY <2>1 DEF IsListing
<1> HIDE DEF ops, shape
<1>2. last \in Nat /\ inputs[1] \in 1..last /\ inputs[2] \in 1..last /\ inputs[3] \in 1..last
  OBVIOUS
<1>3. ASSUME NEW i \in 1..3, NEW m \in Nat, inputs[i] \in 1..m
      PROVE  IsOp(Swapped(i)) /\ Reads(Swapped(i), m)
  BY <1>3, ReshapeIsOp
<1>4. IsOp(attention) /\ Reads(attention, last + 3)
  <2> DEFINE xs == <<last + 1, last + 2, last + 3>>
  <2>1. "attention" \in Kinds /\ 3 \in Arity("attention")
    BY DEF Kinds, Arity, BinaryKinds
  <2>2. IsListing(xs) /\ Len(xs) = 3 /\ \A i \in 1..3 : xs[i] \in 1..(last + 3)
    BY <1>2 DEF IsListing
  <2> HIDE DEF last
  <2> QED  BY <2>1, <2>2 DEF IsOp, Op, Reads
<1> HIDE DEF attention, Swapped, last
<1>5. /\ inputs[2] \in 1..(last + 1) /\ inputs[3] \in 1..(last + 2)
      /\ last + 1 \in Nat /\ last + 2 \in Nat
  BY <1>2
<1>6. /\ IsOp(ops[1]) /\ Reads(ops[1], last) /\ IsOp(ops[2]) /\ Reads(ops[2], last + 1)
      /\ IsOp(ops[3]) /\ Reads(ops[3], last + 2) /\ IsOp(ops[4]) /\ Reads(ops[4], last + 3)
  BY <1>1, <1>2, <1>3, <1>4, <1>5
<1>7. ASSUME NEW k \in 1..4
      PROVE  IsOp(ops[k]) /\ Reads(ops[k], last + k - 1)
  <2>1. k = 1 \/ k = 2 \/ k = 3 \/ k = 4
    OBVIOUS
  <2>2. /\ last + 1 - 1 = last /\ last + 2 - 1 = last + 1 /\ last + 3 - 1 = last + 2
        /\ last + 4 - 1 = last + 3
    BY <1>2
  <2> QED  BY <1>6, <2>1, <2>2
<1> QED  BY <1>1, <1>7 DEF Appendable, ops, last

\* The operands of the attention are reshaped, and its result reshaped back.
LEMMA FusedAppendable ==
  ASSUME Len(built.types) \in Nat, WellFormed(function.arguments, built),
         NEW chain, NEW inputs, \A i \in 1..3 : inputs[i] \in 1..Len(built.types),
         ExtendedBy(built, FusedOps(chain, inputs)) # Broken
  PROVE  Appendable(FusedOps(chain, inputs), Len(built.types)) /\ Len(FusedOps(chain, inputs)) = 5
<1> DEFINE last == Len(built.types)
           first == HeadsFirst(chain, inputs)
           fused == ExtendedBy(built, first)
           shape == SwapMiddle(fused.types[Len(fused.types)].shape)
           back == Reshape(shape, Len(fused.types))
           ops == FusedOps(chain, inputs)
<1>1. Appendable(first, last) /\ Len(first) = 4
  BY HeadsFirstAppendable
<1>2. fused # Broken /\ ops = Append(first, back)
  BY DEF FusedOps
<1>3. Len(fused.types) = last + 4
  <2>1. IsListing(first)
    BY <1>1 DEF Appendable
  <2> HIDE DEF first
  <2>2. Grown(built, first, Len(first), fused)
    BY <1>1, <1>2, <2>1, ExtendedByGrows
  <2> QED  BY <1>1, <2>2 DEF Grown
<1>4. IsOp(back) /\ Reads(back, last + 4)
  <2>1. last + 4 \in Nat /\ last + 4 \in 1..(last + 4)
    OBVIOUS
  <2> HIDE DEF last, fused, shape
  <2> QED  BY <1>3, <2>1, ReshapeIsOp
<1> HIDE DEF first, back, ops
<1>5. /\ IsListing(first) /\ \A k \in 1..4 : IsOp(first[k]) /\ Reads(first[k], last + k - 1)
  BY <1>1 DEF Appendable
<1>6. /\ IsListing(ops) /\ Len(ops) = 5 /\ ops[5] = back
      /\ \A k \in 1..4 : ops[k] = first[k]
  <2>1. /\ IsListing(Append(first, back)) /\ Len(Append(first, back)) = Len(first) + 1
        /\ \A k \in 1..Len(first) : Append(first, back)[k] = first[k]
        /\ Append(first, back)[Len(first) + 1] = back
    BY <1>5, AppendListing
  <2>2. Len(first) + 1 = 5
    BY <1>1
  <2> QED  BY <1>1, <1>2, <2>1, <2>2
<1>7. ASSUME NEW k \in 1..5
      PROVE  IsOp(ops[k]) /\ Reads(ops[k], last + k - 1)
  <2>1. k \in 1..4 \/ k = 5
    OBVIOUS
  <2>2. last + 5 - 1 = last + 4
    OBVIOUS
  <2> HIDE DEF last
  <2> QED  BY <1>4, <1>5, <1>6, <2>1, <2>2
<1> QED  BY <1>6, <1>7 DEF Appendable, ops, last

\* A chain fused (_convert).
LEMMA FuseKeeps ==
  ASSUME FunctionOK(function), RebuildOK, MoreOps, next \in FusableOps,
         0 \notin Range(FusionOperands(ChainAt(next))),
         FuseInto(ChainAt(next), FusedOps(ChainAt(next), FusionOperands(ChainAt(next))))
  PROVE  FunctionOK(function)' /\ RebuildOK'
<1> DEFINE chain == ChainAt(next)
           inputs == FusionOperands(chain)
           ops == FusedOps(chain, inputs)
           N == Len(built.types)
<1>1. /\ ExtendedBy(built, ops) # Broken /\ built' = ExtendedBy(built, ops)
      /\ renamed' = [renamed EXCEPT ![ResultOf(chain.sv)] = N + Len(ops)]
      /\ next' = next + 1 /\ function' = function /\ moved' = moved
  BY DEF FuseInto
<1>2. /\ next \in 1..Len(function.ops) /\ Len(function.ops) \in Nat /\ N \in Nat
  BY CurrentOperation
<1>3. next \in DOMAIN function.ops /\ Fusable(next)
  BY DEF FusableOps
<1>4. /\ \A i \in 1..3 : ChainInputs(chain)[i] \in ValuesOf(function)
      /\ ResultOf(chain.sv) \in ValuesOf(function)
  BY <1>3, ChainParts
<1>5. \A i \in 1..3 : inputs[i] \in 1..N
  <2>1. ASSUME NEW i \in 1..3 PROVE inputs[i] \in 1..N
    <3>1. inputs[i] = renamed[ChainInputs(chain)[i]]
      BY DEF FusionOperands
    <3>2. renamed[ChainInputs(chain)[i]] \in 0..N
      BY <1>4 DEF RebuildOK
    <3>3. inputs[i] # 0
      <4>1. i \in DOMAIN inputs
        BY DEF FusionOperands
      <4> HIDE DEF inputs, chain
      <4>2. inputs[i] \in Range(inputs)
        BY <4>1 DEF Range
      <4> QED  BY <4>2 DEF inputs, chain
    <3> QED  BY <1>2, <3>1, <3>2, <3>3
  <2> QED  BY <2>1
<1> HIDE DEF inputs, chain
<1>6. Appendable(ops, N) /\ Len(ops) = 5
  <2>1. WellFormed(function.arguments, built)
    BY DEF RebuildOK
  <2> QED  BY <1>1, <1>2, <1>5, <2>1, FusedAppendable
<1> HIDE DEF ops
<1>7. WellFormed(function.arguments, built) /\ IsListing(ops)
  BY <1>6 DEF RebuildOK, Appendable
<1>8. Grown(built, ops, Len(ops), built') /\ WellFormed(function.arguments, built')
  BY <1>1, <1>6, <1>7, ExtendedByGrows
<1>9. Len(built'.types) = N + 5
  BY <1>6, <1>8 DEF Grown
<1>10. built' = [types |-> built'.types, ops |-> built'.ops]
  BY <1>1, <1>7, ExtendedByRecord DEF RebuildOK
<1>11. /\ renamed' = [v \in ValuesOf(function) |-> renamed'[v]]
       /\ \A v \in ValuesOf(function) :
            renamed'[v] = IF v = ResultOf(chain.sv) THEN N + 5 ELSE renamed[v]
  BY <1>1, <1>6 DEF RebuildOK
<1>12. \A v \in ValuesOf(function) : renamed'[v] \in 0..(N + 5)
  <2>1. \A v \in ValuesOf(function) : renamed[v] \in 0..N
    BY DEF RebuildOK
  <2> HIDE DEF N
  <2> QED  BY <1>2, <1>11, <2>1
<1>13. FunctionOK(function)'
  BY <1>1
<1>14. RebuildOK'
  <2>1. next' \in 1..(Len(function'.ops) + 1)
    BY <1>1, <1>2
  <2>2. CopiesExist(moved', Len(built'.types))
    BY <1>1, <1>2, <1>9, CopiesStay DEF RebuildOK
  <2>3. WellFormed(function'.arguments, built')
    BY <1>1, <1>8
  <2>4. renamed' = [v \in ValuesOf(function') |-> renamed'[v]]
        /\ \A v \in ValuesOf(function') : renamed'[v] \in 0..Len(built'.types)
    BY <1>1, <1>9, <1>11, <1>12
  <2> QED  BY <1>10, <2>1, <2>2, <2>3, <2>4 DEF RebuildOK, ValuesOf
<1> QED  BY <1>13, <1>14

-----------------------------------------------------------------------------
(* Every step keeps PassesInv. *)

\* A compilation runs at least one pass.
LEMMA SomePasses ==
  ASSUME NEW s \in Sources
  PROVE  FromFrontend(s.function) /\ Len(s.passes) \in Nat \ {0}
<1>1. FromFrontend(s.function) /\ s.passes \in Seq(STRING) /\ s.passes # <<>>
  BY SourcesAssumption
<1>2. Len(s.passes) # 0
  BY <1>1
<1> QED  BY <1>1, <1>2

\* A compilation that stops leaves what was recorded.
LEMMA StopKeeps ==
  ASSUME PassesInv, NEW how \in {"refused", "crashed"}, Stop(how)
  PROVE  PassesInv'
<1>1. /\ source' = source /\ function' = function /\ at' = at /\ mode' = mode /\ next' = next
      /\ round' = round /\ renamed' = renamed /\ built' = built /\ moved' = moved
      /\ stages' = stages /\ status' = how
  BY DEF Stop
<1>2. Counters'
  BY <1>1 DEF PassesInv, Counters
<1>3. InProgress'
  BY <1>1 DEF PassesInv, InProgress, RebuildOK, AllRenamed, Pass, ValuesOf
<1>4. Recordings'
  BY <1>1 DEF PassesInv, Recordings
<1> QED  BY <1>2, <1>3, <1>4 DEF PassesInv

\* A well-formed function is recorded and handed to the next pass.
LEMMA ReturnsKeeps ==
  ASSUME PassesInv, status = "running", NEW f, FunctionOK(f), Returns(f)
  PROVE  PassesInv'
<1>1. /\ function' = f /\ stages' = Append(stages, f) /\ mode' = "between" /\ at' = at + 1
      /\ status' = IF at = Len(source.passes) THEN "done" ELSE "running"
      /\ source' = source /\ round' = round
  BY DEF Returns
<1>2. at \in 1..Len(source.passes) /\ Len(source.passes) \in Nat
  BY SomePasses DEF PassesInv, Counters
<1>3. Counters'
  BY <1>1, <1>2 DEF PassesInv, Counters
<1>4. InProgress'
  BY <1>1 DEF InProgress
<1>5. Recordings'
  <2>1. IsListing(stages) /\ Len(stages) \in Nat /\ \A s \in 1..Len(stages) : FunctionOK(stages[s])
    BY DEF PassesInv, Recordings, IsListing
  <2>2. /\ IsListing(Append(stages, f)) /\ Len(Append(stages, f)) = Len(stages) + 1
        /\ \A s \in 1..Len(stages) : Append(stages, f)[s] = stages[s]
        /\ Append(stages, f)[Len(stages) + 1] = f
    BY <2>1, AppendListing
  <2>3. \A s \in 1..(Len(stages) + 1) : s \in 1..Len(stages) \/ s = Len(stages) + 1
    BY <2>1
  <2> QED  BY <1>1, <2>1, <2>2, <2>3 DEF Recordings
<1> QED  BY <1>3, <1>4, <1>5 DEF PassesInv

\* A rebuild begins.
LEMMA BeginKeeps ==
  ASSUME PassesInv, mode # "import", NEW types, NEW as \in {"rebuild", "decomposing"},
         as = "decomposing" => round < MaxRounds,
         types = [a \in 1..function.arguments |-> types[a]],
         \A a \in 1..function.arguments : IsTensor(types[a]),
         Rebuild(types, as)
  PROVE  PassesInv'
<1>1. /\ source' = source /\ at' = at /\ round' = round /\ stages' = stages /\ status' = status
      /\ mode' = as
  BY DEF Rebuild
<1>2. FunctionOK(function)' /\ RebuildOK' /\ AllRenamed'
  BY RebuildBegins DEF PassesInv, InProgress
<1>3. Counters'
  BY <1>1 DEF PassesInv, Counters
<1>4. InProgress'
  BY <1>1, <1>2 DEF InProgress
<1>5. Recordings'
  BY <1>1 DEF PassesInv, Recordings
<1> QED  BY <1>3, <1>4, <1>5 DEF PassesInv

\* An operation is rebuilt.
LEMMA EmitKeepsInv ==
  ASSUME PassesInv, mode \in {"rebuild", "decomposing"}, MoreOps,
         NEW ops, Appendable(ops, Len(built.types)), Len(ops) \in Nat \ {0},
         NEW copies, CopiesExist(copies, Len(built.types) + Len(ops)),
         Emit(ops, copies)
  PROVE  PassesInv'
<1>1. /\ source' = source /\ at' = at /\ round' = round /\ stages' = stages /\ status' = status
      /\ mode' = mode
  BY DEF Emit
<1>2. FunctionOK(function) /\ RebuildOK
  BY DEF PassesInv, InProgress
<1>3. FunctionOK(function)' /\ RebuildOK' /\ (AllRenamed => AllRenamed')
  BY <1>2, EmitKeeps
<1>4. Counters'
  BY <1>1 DEF PassesInv, Counters
<1>5. InProgress'
  <2>1. mode # "import" /\ mode # "placing" /\ Pass' = Pass
    BY <1>1 DEF Pass
  <2> QED  BY <1>1, <1>3, <2>1 DEF PassesInv, InProgress
<1>6. Recordings'
  BY <1>1 DEF PassesInv, Recordings
<1> QED  BY <1>4, <1>5, <1>6 DEF PassesInv

\* What an operation renewed on the new values may be replaced by.
LEMMA RenewedInRebuild ==
  ASSUME PassesInv, mode \in {"rebuild", "decomposing"}, MoreOps, HasOperands
  PROVE  /\ IsOp(Renewed) /\ Reads(Renewed, Len(built.types)) /\ Len(built.types) \in Nat
         /\ CopiesExist(moved, Len(built.types))
<1>1. FunctionOK(function) /\ RebuildOK
  BY DEF PassesInv, InProgress
<1> QED  BY <1>1, RenewedReads, CurrentOperation DEF RebuildOK

\* The initial state.
LEMMA InitKeeps ==
  ASSUME Init
  PROVE  PassesInv
<1>1. /\ source \in Sources /\ at = 1 /\ mode = "import" /\ round = 0 /\ status = "running"
      /\ function = source.function /\ stages = <<>>
  BY DEF Init
<1>2. Len(source.passes) \in Nat \ {0}
  BY <1>1, SomePasses
<1>3. Counters
  BY <1>1, <1>2 DEF Counters, MaxRounds
<1>4. InProgress
  BY <1>1 DEF InProgress
<1>5. Recordings
  <2>1. IsListing(<<>>) /\ Len(<<>>) = 0
    BY DEF IsListing
  <2> QED  BY <1>1, <2>1 DEF Recordings
<1> QED  BY <1>3, <1>4, <1>5 DEF PassesInv

\* The imported function is verified and recorded.
LEMMA ImportKeeps ==
  ASSUME PassesInv, Import
  PROVE  PassesInv'
<1>1. /\ mode = "import" /\ status = "running" /\ Verified(function)
      /\ mode' = "between" /\ stages' = <<function>> /\ source' = source /\ function' = function
      /\ at' = at /\ round' = round /\ status' = status
  BY DEF Import
<1>2. FunctionOK(function)
  <2>1. function = source.function /\ source \in Sources
    BY <1>1 DEF PassesInv, InProgress, Counters
  <2> QED  BY <1>1, <2>1, SomePasses, ImportedIsOK
<1>3. Counters'
  BY <1>1 DEF PassesInv, Counters
<1>4. InProgress'
  BY <1>1, <1>2 DEF InProgress
<1>5. Recordings'
  <2>1. IsListing(<<function>>) /\ Len(<<function>>) = 1 /\ <<function>>[1] = function
    BY DEF IsListing
  <2> QED  BY <1>1, <1>2, <2>1 DEF Recordings
<1> QED  BY <1>3, <1>4, <1>5 DEF PassesInv

\* AnnotateRolesAndAxes.
LEMMA AnnotateKeeps ==
  ASSUME PassesInv, BeginAnnotate \/ AnnotateOp \/ EndAnnotate
  PROVE  PassesInv'
<1>1. CASE BeginAnnotate
  <2> DEFINE types == [a \in 1..function.arguments |-> Annotate(a)]
  <2>1. mode = "between" /\ Rebuild(types, "rebuild")
    BY <1>1 DEF BeginAnnotate
  <2>2. FunctionOK(function)
    BY <2>1 DEF PassesInv, InProgress
  <2>3. \A a \in 1..function.arguments : IsTensor(types[a])
    <3>1. ASSUME NEW a \in 1..function.arguments PROVE IsTensor(Annotate(a))
      <4>1. HasFields(function.types[a])
        BY <2>2, ArgumentTypesListing DEF IsTensor
      <4>2. HasFields(Annotate(a))
        BY <4>1, AnnotatedTensor DEF Annotate
      <4>3. ValidType(Annotate(a))
        BY <1>1 DEF BeginAnnotate, AnnotationsFit
      <4> QED  BY <4>2, <4>3 DEF IsTensor
    <3> QED  BY <3>1
  <2>4. types = [a \in 1..function.arguments |-> types[a]]
    OBVIOUS
  <2> HIDE DEF types
  <2> QED  BY <2>1, <2>3, <2>4, BeginKeeps
<1>2. CASE AnnotateOp
  <2>1. /\ mode = "rebuild" /\ MoreOps
        /\ Emit(<<Renewed>>, moved) \/ RefuseOp(<<Renewed>>)
    BY <1>2 DEF AnnotateOp
  <2>2. CASE Emit(<<Renewed>>, moved)
    <3>1. HasOperands
      BY <2>2 DEF Emit
    <3> DEFINE ops == <<Renewed>>
    <3>2. /\ Appendable(ops, Len(built.types)) /\ Len(ops) = 1
          /\ CopiesExist(moved, Len(built.types) + 1)
      BY <2>1, <3>1, RenewedInRebuild, OneAppendable, CopiesStay
    <3>3. Emit(ops, moved) /\ mode \in {"rebuild", "decomposing"} /\ MoreOps
      BY <2>1, <2>2
    <3> HIDE DEF ops
    <3>4. Len(ops) \in Nat \ {0} /\ CopiesExist(moved, Len(built.types) + Len(ops))
      BY <3>2
    <3> QED  BY <3>2, <3>3, <3>4, EmitKeepsInv
  <2>3. CASE RefuseOp(<<Renewed>>)
    BY <2>3, StopKeeps DEF RefuseOp
  <2> QED  BY <2>1, <2>2, <2>3
<1>3. CASE EndAnnotate
  <2>1. /\ status = "running" /\ Pass = "annotate" /\ mode = "rebuild" /\ ~MoreOps
        /\ Stop("refused") \/ Returns(Rebuilt)
    BY <1>3 DEF EndAnnotate, Rewriting
  <2>2. FunctionOK(Rebuilt)
    BY <2>1, RebuiltIsOK DEF PassesInv, InProgress
  <2> QED  BY <2>1, <2>2, StopKeeps, ReturnsKeeps
<1> QED  BY <1>1, <1>2, <1>3

\* ApplyTensorParallel.
LEMMA ShardKeeps ==
  ASSUME PassesInv, BeginShard \/ ShardOp \/ EndShard
  PROVE  PassesInv'
<1>1. CASE BeginShard
  <2> DEFINE types == [a \in 1..function.arguments |-> RankShare(a)]
  <2>1. mode = "between" /\ Rebuild(types, "rebuild")
    BY <1>1 DEF BeginShard
  <2>2. FunctionOK(function)
    BY <2>1 DEF PassesInv, InProgress
  <2>3. \A a \in 1..function.arguments : IsTensor(types[a])
    <3>1. ASSUME NEW a \in 1..function.arguments PROVE IsTensor(RankShare(a))
      <4>1. HasFields(function.types[a])
        BY <2>2, ArgumentTypesListing DEF IsTensor
      <4>2. HasFields(RankShare(a))
        BY <4>1, ShardedTensor DEF RankShare
      <4>3. ValidType(RankShare(a))
        BY <1>1 DEF BeginShard, PlanFits
      <4> QED  BY <4>2, <4>3 DEF IsTensor
    <3> QED  BY <3>1
  <2>4. types = [a \in 1..function.arguments |-> types[a]]
    OBVIOUS
  <2> HIDE DEF types
  <2> QED  BY <2>1, <2>3, <2>4, BeginKeeps
<1>2. CASE ShardOp
  <2>1. /\ mode = "rebuild" /\ MoreOps
        /\ Emit(WithAllReduce(Renewed), moved) \/ RefuseOp(<<Renewed>>)
    BY <1>2 DEF ShardOp
  <2>2. CASE Emit(WithAllReduce(Renewed), moved)
    <3> DEFINE ops == WithAllReduce(Renewed)
    <3>1. HasOperands
      BY <2>2 DEF Emit
    <3>2. /\ Appendable(ops, Len(built.types)) /\ Len(ops) \in Nat \ {0}
      BY <2>1, <3>1, RenewedInRebuild, AllReduceAppendable
    <3> HIDE DEF ops
    <3>3. CopiesExist(moved, Len(built.types) + Len(ops))
      BY <2>1, <3>1, <3>2, RenewedInRebuild, CopiesStay
    <3> QED  BY <2>1, <2>2, <3>2, <3>3, EmitKeepsInv DEF ops
  <2>3. CASE RefuseOp(<<Renewed>>)
    BY <2>3, StopKeeps DEF RefuseOp
  <2> QED  BY <2>1, <2>2, <2>3
<1>3. CASE EndShard
  <2>1. /\ status = "running" /\ Pass = "shard" /\ mode = "rebuild" /\ ~MoreOps
        /\ Returns(Rebuilt)
    BY <1>3 DEF EndShard, Rewriting
  <2>2. FunctionOK(Rebuilt)
    BY <2>1, RebuiltIsOK DEF PassesInv, InProgress
  <2> QED  BY <2>1, <2>2, ReturnsKeeps
<1> QED  BY <1>1, <1>2, <1>3

\* DecomposeOps.
LEMMA DecomposeKeeps ==
  ASSUME PassesInv, BeginRounds \/ NextRound \/ DecomposeOp \/ EndRound \/ EndDecompose
  PROVE  PassesInv'
<1>1. CASE BeginRounds
  <2>1. /\ mode = "between" /\ mode' = "rounds" /\ round' = 0 /\ source' = source
        /\ function' = function /\ at' = at /\ stages' = stages /\ status' = status
    BY <1>1 DEF BeginRounds
  <2>2. Counters'
    BY <2>1 DEF PassesInv, Counters, MaxRounds
  <2>3. InProgress' /\ Recordings'
    BY <2>1 DEF PassesInv, InProgress, Recordings
  <2> QED  BY <2>2, <2>3 DEF PassesInv
<1>2. CASE NextRound
  <2> DEFINE types == ArgumentTypes(function)
  <2>1. mode = "rounds" /\ round < MaxRounds /\ Rebuild(types, "decomposing")
    BY <1>2 DEF NextRound
  <2>2. FunctionOK(function)
    BY <2>1 DEF PassesInv, InProgress
  <2>3. /\ types = [a \in 1..function.arguments |-> types[a]]
        /\ \A a \in 1..function.arguments : IsTensor(types[a])
    BY <2>2, ArgumentTypesListing
  <2> HIDE DEF types
  <2> QED  BY <2>1, <2>3, BeginKeeps
<1>3. CASE DecomposeOp
  <2>1. /\ mode = "decomposing" /\ MoreOps
        /\ Emit(Parts(Renewed), moved) \/ RefuseOp(Parts(Renewed))
    BY <1>3 DEF DecomposeOp
  <2>2. CASE Emit(Parts(Renewed), moved)
    <3> DEFINE ops == Parts(Renewed)
    <3>1. HasOperands
      BY <2>2 DEF Emit
    <3>2. /\ Appendable(ops, Len(built.types)) /\ Len(ops) \in Nat \ {0}
      BY <2>1, <3>1, RenewedInRebuild, PartsAppendable
    <3> HIDE DEF ops
    <3>3. CopiesExist(moved, Len(built.types) + Len(ops))
      BY <2>1, <3>1, <3>2, RenewedInRebuild, CopiesStay
    <3> QED  BY <2>1, <2>2, <3>2, <3>3, EmitKeepsInv DEF ops
  <2>3. CASE RefuseOp(Parts(Renewed))
    BY <2>3, StopKeeps DEF RefuseOp
  <2> QED  BY <2>1, <2>2, <2>3
<1>4. CASE EndRound
  <2>1. /\ status = "running" /\ mode = "decomposing" /\ ~MoreOps
        /\ function' = Rebuilt /\ mode' = "rounds" /\ round' = round + 1
        /\ source' = source /\ at' = at /\ stages' = stages /\ status' = status
    BY <1>4 DEF EndRound
  <2>2. FunctionOK(Rebuilt)
    BY <2>1, RebuiltIsOK DEF PassesInv, InProgress
  <2>3. Counters'
    <3>1. round \in 0..MaxRounds /\ round < MaxRounds
      BY <2>1 DEF PassesInv, Counters
    <3>2. round + 1 \in 0..MaxRounds
      BY <3>1 DEF MaxRounds
    <3> QED  BY <2>1, <3>2 DEF PassesInv, Counters
  <2>4. InProgress' /\ Recordings'
    BY <2>1, <2>2 DEF PassesInv, InProgress, Recordings
  <2> QED  BY <2>3, <2>4 DEF PassesInv
<1>5. CASE EndDecompose
  <2>1. status = "running" /\ mode = "rounds" /\ Returns(function)
    BY <1>5 DEF EndDecompose, Rewriting
  <2>2. FunctionOK(function)
    BY <2>1 DEF PassesInv, InProgress
  <2> QED  BY <2>1, <2>2, ReturnsKeeps
<1> QED  BY <1>1, <1>2, <1>3, <1>4, <1>5

\* LowerToDevice.
LEMMA LowerKeeps ==
  ASSUME PassesInv, BeginLower \/ LowerOp \/ EndLower \/ PlaceResults
  PROVE  PassesInv'
<1>1. CASE BeginLower
  <2> DEFINE types == [a \in 1..function.arguments |-> AtHome(function.types[a])]
  <2>1. mode = "rounds" /\ Rebuild(types, "rebuild")
    BY <1>1 DEF BeginLower
  <2>2. FunctionOK(function)
    BY <2>1 DEF PassesInv, InProgress
  <2>3. \A a \in 1..function.arguments : IsTensor(types[a])
    BY <2>2, ArgumentTypesListing, AtHomeTensor
  <2>4. types = [a \in 1..function.arguments |-> types[a]]
    OBVIOUS
  <2> HIDE DEF types
  <2> QED  BY <2>1, <2>3, <2>4, BeginKeeps
<1>2. CASE LowerOp
  <2> DEFINE lowerings == Lowerings(source.device, built, Renewed, moved)
             ops == Cheapest(built, lowerings)
             copies == Recorded(moved, ops, Len(built.types))
  <2>1. /\ mode = "rebuild" /\ MoreOps
        /\ \/ lowerings # {} /\ Emit(ops, copies)
           \/ Stop("refused")
    BY <1>2 DEF LowerOp
  <2>2. CASE lowerings # {} /\ Emit(ops, copies)
    <3>1. HasOperands
      BY <2>2 DEF Emit
    <3>2. /\ IsOp(Renewed) /\ Reads(Renewed, Len(built.types)) /\ Len(built.types) \in Nat
          /\ CopiesExist(moved, Len(built.types))
      BY <2>1, <3>1, RenewedInRebuild
    <3>3. ASSUME NEW l \in lowerings
          PROVE  Appendable(l, Len(built.types)) /\ Len(l) \in Nat \ {0}
      <4>1. PICK unit \in Implementations(Renewed) :
              l = Lowering(built.types, Renewed, unit, moved)
        BY DEF Lowerings
      <4>2. IsListing(Renewed.operands)
        BY <3>2 DEF IsOp
      <4>3. LoweredTo(l, built.types, Renewed, unit, moved)
        BY <3>2, <4>1, <4>2, LoweringOps
      <4>4. Len(l) \in Nat \ {0}
        BY <4>3 DEF LoweredTo, Collected, IsListing
      <4> QED  BY <3>2, <4>3, <4>4, LoweringAppendable
    <3> HIDE DEF lowerings
    <3>4. ops \in lowerings
      BY <2>2, <3>3, CheapestIsOne
    <3> HIDE DEF ops
    <3>5. Appendable(ops, Len(built.types)) /\ Len(ops) \in Nat \ {0}
      BY <3>3, <3>4
    <3>6. CopiesExist(copies, Len(built.types) + Len(ops))
      BY <3>2, <3>5, RecordedExist DEF Appendable
    <3> HIDE DEF copies
    <3> QED  BY <2>1, <2>2, <3>5, <3>6, EmitKeepsInv
  <2>3. CASE Stop("refused")
    BY <2>3, StopKeeps
  <2> QED  BY <2>1, <2>2, <2>3
<1>3. CASE EndLower
  <2>1. /\ status = "running" /\ Pass = "lower" /\ mode = "rebuild" /\ ~MoreOps
        /\ mode' = "placing" /\ function' = Rebuilt /\ moved' = moved /\ round' = round
        /\ source' = source /\ at' = at /\ stages' = stages /\ status' = status
    BY <1>3 DEF EndLower, Rewriting
  <2>2. FunctionOK(function) /\ RebuildOK /\ AllRenamed
    BY <2>1 DEF PassesInv, InProgress
  <2>3. FunctionOK(Rebuilt)
    BY <2>1, <2>2, RebuiltIsOK
  <2>4. CopiesExist(moved, Len(Rebuilt.types))
    BY <2>2, RebuiltParts DEF RebuildOK
  <2>5. Counters'
    BY <2>1 DEF PassesInv, Counters
  <2>6. InProgress' /\ Recordings'
    BY <2>1, <2>3, <2>4 DEF PassesInv, InProgress, Recordings
  <2> QED  BY <2>5, <2>6 DEF PassesInv
<1>4. CASE PlaceResults
  <2> DEFINE placed == PlacedResults(function, moved)
  <2>1. /\ status = "running" /\ mode = "placing"
        /\ \/ Returns(function)
           \/ CanMove(placed.transfers) /\ Returns(WithResults(function, placed))
           \/ Stop("refused")
    BY <1>4 DEF PlaceResults, Rewriting
  <2>2. FunctionOK(function) /\ CopiesExist(moved, Len(function.types))
    BY <2>1 DEF PassesInv, InProgress
  <2>3. CanMove(placed.transfers) => FunctionOK(WithResults(function, placed))
    BY <2>2, PlacedIsOK
  <2> HIDE DEF placed
  <2> QED  BY <2>1, <2>2, <2>3, StopKeeps, ReturnsKeeps
<1> QED  BY <1>1, <1>2, <1>3, <1>4

\* FuseAttention.
LEMMA FuseKeepsInv ==
  ASSUME PassesInv,
         BeginFuse \/ NothingToFuse \/ FuseChain \/ MissFusionOperand \/ SkipConsumed \/ KeepOp
           \/ EndFuse
  PROVE  PassesInv'
<1>1. CASE BeginFuse
  <2> DEFINE types == ArgumentTypes(function)
  <2>1. mode = "between" /\ Rebuild(types, "rebuild")
    BY <1>1 DEF BeginFuse
  <2>2. FunctionOK(function)
    BY <2>1 DEF PassesInv, InProgress
  <2>3. /\ types = [a \in 1..function.arguments |-> types[a]]
        /\ \A a \in 1..function.arguments : IsTensor(types[a])
    BY <2>2, ArgumentTypesListing
  <2> HIDE DEF types
  <2> QED  BY <2>1, <2>3, BeginKeeps
<1>2. CASE NothingToFuse
  <2>1. status = "running" /\ mode = "between" /\ Returns(function)
    BY <1>2 DEF NothingToFuse, Rewriting
  <2>2. FunctionOK(function)
    BY <2>1 DEF PassesInv, InProgress
  <2> QED  BY <2>1, <2>2, ReturnsKeeps
<1>3. CASE FuseChain
  <2> DEFINE ops == FusedOps(ChainAt(next), FusionOperands(ChainAt(next)))
  <2>1. /\ status = "running" /\ Pass = "fuse" /\ mode = "rebuild" /\ MoreOps
        /\ next \in FusableOps /\ 0 \notin Range(FusionOperands(ChainAt(next)))
        /\ FuseInto(ChainAt(next), ops) \/ Stop("refused")
    BY <1>3 DEF FuseChain, Rewriting
  <2>2. CASE FuseInto(ChainAt(next), ops)
    <3>1. FunctionOK(function) /\ RebuildOK
      BY <2>1 DEF PassesInv, InProgress
    <3>2. FunctionOK(function)' /\ RebuildOK'
      BY <2>1, <2>2, <3>1, FuseKeeps
    <3>3. /\ source' = source /\ at' = at /\ round' = round /\ stages' = stages
          /\ status' = status /\ mode' = mode
      BY <2>2 DEF FuseInto
    <3>4. Counters' /\ Recordings'
      BY <3>3 DEF PassesInv, Counters, Recordings
    <3>5. InProgress'
      <4>1. mode' = "rebuild" /\ Pass' = "fuse"
        BY <2>1, <3>3 DEF Pass
      <4> QED  BY <3>2, <4>1 DEF InProgress
    <3> QED  BY <3>4, <3>5 DEF PassesInv
  <2>3. CASE Stop("refused")
    BY <2>3, StopKeeps
  <2> QED  BY <2>1, <2>2, <2>3
<1>4. CASE MissFusionOperand
  BY <1>4, StopKeeps DEF MissFusionOperand
<1>5. CASE SkipConsumed
  <2>1. /\ status = "running" /\ Pass = "fuse" /\ mode = "rebuild" /\ MoreOps
        /\ next' = next + 1 /\ source' = source /\ function' = function /\ at' = at
        /\ mode' = mode /\ round' = round /\ renamed' = renamed /\ built' = built
        /\ moved' = moved /\ stages' = stages /\ status' = status
    BY <1>5 DEF SkipConsumed, Rewriting
  <2>2. FunctionOK(function) /\ RebuildOK
    BY <2>1 DEF PassesInv, InProgress
  <2>3. next' \in 1..(Len(function.ops) + 1)
    BY <2>1, <2>2, CurrentOperation
  <2>4. RebuildOK'
    BY <2>1, <2>2, <2>3 DEF RebuildOK, ValuesOf
  <2>5. Counters' /\ Recordings'
    BY <2>1 DEF PassesInv, Counters, Recordings
  <2>6. InProgress'
    <3>1. mode' = "rebuild" /\ Pass' = "fuse"
      BY <2>1 DEF Pass
    <3> QED  BY <2>1, <2>2, <2>4, <3>1 DEF InProgress
  <2> QED  BY <2>5, <2>6 DEF PassesInv
<1>6. CASE KeepOp
  <2>1. mode = "rebuild" /\ MoreOps /\ Emit(<<Renewed>>, moved)
    BY <1>6 DEF KeepOp
  <2>2. HasOperands
    BY <2>1 DEF Emit
  <2> DEFINE ops == <<Renewed>>
  <2>3. /\ Appendable(ops, Len(built.types)) /\ Len(ops) = 1
        /\ CopiesExist(moved, Len(built.types) + 1)
    BY <2>1, <2>2, RenewedInRebuild, OneAppendable, CopiesStay
  <2>4. Emit(ops, moved)
    BY <2>1
  <2> HIDE DEF ops
  <2> QED  BY <2>1, <2>3, <2>4, EmitKeepsInv
<1>7. CASE EndFuse
  <2>1. status = "running" /\ mode = "rebuild" /\ Returns(Rebuilt)
    BY <1>7 DEF EndFuse, Rewriting
  <2>2. FunctionOK(Rebuilt)
    <3>1. Verified(Rebuilt)
      BY <2>1 DEF Returns
    <3> QED  BY <2>1, <3>1, VerifiedRebuiltIsOK DEF PassesInv, InProgress
  <2> QED  BY <2>1, <2>2, ReturnsKeeps
<1> QED  BY <1>1, <1>2, <1>3, <1>4, <1>5, <1>6, <1>7

(***************************************************************************)
(* Whatever is imported and for whatever device: every body in the making  *)
(* and every function handed on is well formed, and the copies that are    *)
(* remembered exist (PassManager.run, rebuild_function).                   *)
(***************************************************************************)
THEOREM PassesAreWellFormed == Spec => []PassesInv
<1>1. Init => PassesInv
  BY InitKeeps
<1>2. PassesInv /\ [Next]_vars => PassesInv'
  <2> SUFFICES ASSUME PassesInv, [Next]_vars PROVE PassesInv'
    OBVIOUS
  <2>1. CASE Import
    BY <2>1, ImportKeeps
  <2>2. CASE RefuseImport \/ RefuseAnnotations \/ RefusePlan \/ RefuseDevice
    BY <2>2, StopKeeps DEF RefuseImport, RefuseAnnotations, RefusePlan, RefuseDevice
  <2>3. CASE BeginAnnotate \/ AnnotateOp \/ EndAnnotate
    BY <2>3, AnnotateKeeps
  <2>4. CASE BeginShard \/ ShardOp \/ EndShard
    BY <2>4, ShardKeeps
  <2>5. CASE BeginRounds \/ NextRound \/ DecomposeOp \/ EndRound \/ EndDecompose
    BY <2>5, DecomposeKeeps
  <2>6. CASE BeginLower \/ LowerOp \/ EndLower \/ PlaceResults
    BY <2>6, LowerKeeps
  <2>7. CASE BeginFuse \/ NothingToFuse \/ FuseChain \/ MissFusionOperand \/ SkipConsumed
             \/ KeepOp \/ EndFuse
    BY <2>7, FuseKeepsInv
  <2>8. CASE UNCHANGED vars
    BY <2>8 DEF vars, PassesInv, Counters, InProgress, Recordings, RebuildOK, AllRenamed, Pass,
                ValuesOf
  <2> QED  BY <2>1, <2>2, <2>3, <2>4, <2>5, <2>6, <2>7, <2>8 DEF Next, Settled
<1> QED  BY <1>1, <1>2, PTL DEF Spec

\* PassesInv says at least what IrTypeOK says.
LEMMA PassesInvGivesTypes ==
  ASSUME PassesInv
  PROVE  IrTypeOK
<1>1. \A n, body : WellFormed(n, body) => BodyOK(n, body)
  <2>1. ASSUME NEW n, NEW body, WellFormed(n, body) PROVE BodyOK(n, body)
    <3>1. DOMAIN body.types = 1..Len(body.types)
      BY <2>1, ListingDomain DEF WellFormed
    <3>2. \A v \in DOMAIN body.types : body.types[v] # NoType
      BY <2>1, <3>1, TensorIsAType DEF WellFormed
    <3> QED  BY <2>1, <3>2 DEF BodyOK, WellFormed, Range
  <2> QED  BY <2>1
<1>2. ASSUME NEW f, FunctionOK(f)
      PROVE  /\ Verified(f) /\ BodyOK(f.arguments, f)
             /\ \A k \in DOMAIN f.ops : f.types[f.arguments + k] = Infers(f.types, f.ops[k])
  <2>1. /\ WellFormed(f.arguments, f) /\ DOMAIN f.ops = 1..Len(f.ops)
        /\ DOMAIN f.returns = 1..Len(f.returns)
        /\ ValuesOf(f) = 1..Len(f.types)
    BY <1>2, ListingDomain DEF FunctionOK, WellFormed, ValuesOf
  <2>2. \A k \in 1..Len(f.ops) : Range(f.ops[k].operands) \subseteq 1..(f.arguments + k - 1)
    <3>1. ASSUME NEW k \in 1..Len(f.ops)
          PROVE  Range(f.ops[k].operands) \subseteq 1..(f.arguments + k - 1)
      <4>1. IsOp(f.ops[k]) /\ Reads(f.ops[k], f.arguments + k - 1)
        BY <2>1 DEF WellFormed
      <4> QED  BY <4>1, FirstOperand DEF Reads, Range
    <3> QED  BY <3>1
  <2>3. Range(f.returns) \subseteq ValuesOf(f)
    BY <1>2, <2>1 DEF FunctionOK, Range
  <2> QED  BY <1>1, <2>1, <2>2, <2>3 DEF Verified, WellFormed
<1>3. ASSUME NEW s \in DOMAIN stages
      PROVE  /\ Verified(stages[s]) /\ BodyOK(stages[s].arguments, stages[s])
             /\ \A k \in DOMAIN stages[s].ops :
                  stages[s].types[stages[s].arguments + k] = Infers(stages[s].types, stages[s].ops[k])
  <2>1. FunctionOK(stages[s])
    BY ListingDomain DEF PassesInv, Recordings
  <2> QED  BY <1>2, <2>1
<1>4. ASSUME mode \in {"rebuild", "decomposing"}
      PROVE  /\ next \in 1..(Len(function.ops) + 1) /\ BodyOK(function.arguments, built)
             /\ \A v \in DOMAIN renamed : renamed[v] \in 0..Len(built.types)
  <2>1. RebuildOK
    BY <1>4 DEF PassesInv, InProgress
  <2>2. DOMAIN renamed = ValuesOf(function)
    BY <2>1 DEF RebuildOK
  <2> QED  BY <1>1, <2>1, <2>2 DEF RebuildOK
<1> QED  BY <1>3, <1>4 DEF PassesInv, Counters, IrTypeOK

\* Every function handed on is in SSA form, each result having the type its
\* operation infers (ir/pass_manager.py PassManager.run).
THEOREM PassesKeepTypes == Spec => []IrTypeOK
<1>1. PassesInv => IrTypeOK
  BY PassesInvGivesTypes
<1> QED  BY <1>1, PassesAreWellFormed, PTL

-----------------------------------------------------------------------------
(* ValuesMoveOnce. *)

(* Every transfer that was emitted is remembered, and the transfers of a    *)
(* value to a domain follow each other.                                     *)
MovesRemembered ==
  \A k \in 1..Len(built.ops) :
    built.ops[k].kind = "transfer" => CopyOf(built.ops[k]) \in DOMAIN moved

MovedTogether ==
  \A i, j \in 1..Len(built.ops) :
    i < j /\ built.ops[i].kind = "transfer" /\ built.ops[i] = built.ops[j] =>
      \A k \in i..j : built.ops[k].kind = "transfer"

MovesOnce == mode = "rebuild" /\ Pass = "lower" => MovesRemembered /\ MovedTogether

(* Some transfers of what was not moved before, then an operation that is   *)
(* none.                                                                    *)
FreshMoves(ops, copies) ==
  /\ IsListing(ops) /\ Len(ops) # 0
  /\ \A k \in 1..(Len(ops) - 1) :
       ops[k].kind = "transfer" /\ CopyOf(ops[k]) \notin DOMAIN copies
  /\ ops[Len(ops)].kind # "transfer"

\* A lowering moves what was not moved yet, and is of no transfer itself.
LEMMA LoweringMovesFresh ==
  ASSUME NEW types, NEW op, IsOp(op), NEW unit \in Implementations(op), NEW copies,
         NEW ops, LoweredTo(ops, types, op, unit, copies)
  PROVE  FreshMoves(ops, copies)
<1> DEFINE needs == OperandNeeds(types, op, OperandDomain(unit, OperandTypes(types, op)))
<1>1. PICK g : /\ Collected(g, needs, copies, Len(types), Len(op.operands))
               /\ Len(ops) = Len(g.transfers) + 1
               /\ \A k \in 1..Len(g.transfers) : ops[k] = g.transfers[k]
               /\ ops[Len(ops)] = [OnUnit(op, unit) EXCEPT !.operands = g.operands]
  BY DEF LoweredTo
<1>2. Len(g.transfers) \in Nat /\ IsListing(ops)
  BY <1>1 DEF Collected, IsListing, LoweredTo
<1> HIDE DEF needs
<1>3. ASSUME NEW k \in 1..(Len(ops) - 1)
      PROVE  ops[k].kind = "transfer" /\ CopyOf(ops[k]) \notin DOMAIN copies
  <2>1. k \in 1..Len(g.transfers) /\ ops[k] = g.transfers[k]
    BY <1>1, <1>2
  <2>2. PICK i \in 1..Len(op.operands) : Moves(needs[i], copies, g.transfers[k])
    BY <1>1, <2>1 DEF Collected
  <2>3. /\ ops[k] = Transfer(needs[i].value, needs[i].to)
        /\ <<needs[i].value, needs[i].to>> \notin DOMAIN copies
    BY <2>1, <2>2 DEF Moves
  <2> QED  BY <2>3, TransferOperation
<1>4. ops[Len(ops)].kind # "transfer"
  <2>1. op = Op(op.unit, op.kind, op.attr, op.operands)
    BY DEF IsOp
  <2>2. [OnUnit(Op(op.unit, op.kind, op.attr, op.operands), unit) EXCEPT !.operands = g.operands]
          = Op(unit, op.kind, op.attr, g.operands)
    BY OnUnitFields
  <2>3. ops[Len(ops)] = Op(unit, op.kind, op.attr, g.operands)
    BY <1>1, <2>1, <2>2, Zenon
  <2>4. ops[Len(ops)].kind = op.kind
    BY <2>3 DEF Op
  <2>5. op.kind \in Implemented[unit] /\ unit \in Units
    BY DEF Implementations
  <2>6. op.kind # "transfer"
    BY <2>5 DEF Implemented, Units, ViewKinds
  <2> QED  BY <2>4, <2>6
<1> QED  BY <1>1, <1>2, <1>3, <1>4 DEF FreshMoves

\* What LowerToDevice emits for an operation.
LEMMA LoweringTaken ==
  ASSUME PassesInv, LowerOp, ~Stop("refused")
  PROVE  \E ops :
           /\ \E unit \in Implementations(Renewed) :
                LoweredTo(ops, built.types, Renewed, unit, moved)
           /\ Feasible(source.device, built, ops)
           /\ Emit(ops, Recorded(moved, ops, Len(built.types)))
<1> DEFINE lowerings == Lowerings(source.device, built, Renewed, moved)
           ops == Cheapest(built, lowerings)
<1>1. /\ mode = "rebuild" /\ MoreOps
      /\ lowerings # {} /\ Emit(ops, Recorded(moved, ops, Len(built.types)))
  BY DEF LowerOp
<1>2. HasOperands
  BY <1>1 DEF Emit
<1>3. /\ IsOp(Renewed) /\ Len(built.types) \in Nat
  BY <1>1, <1>2, RenewedInRebuild
<1>4. ASSUME NEW l \in lowerings
      PROVE  \E unit \in Implementations(Renewed) :
               /\ LoweredTo(l, built.types, Renewed, unit, moved) /\ Len(l) \in Nat
               /\ Feasible(source.device, built, l)
  <2>1. PICK unit \in Implementations(Renewed) :
          l = Lowering(built.types, Renewed, unit, moved)
    BY DEF Lowerings
  <2>2. IsListing(Renewed.operands)
    BY <1>3 DEF IsOp
  <2>3. LoweredTo(l, built.types, Renewed, unit, moved)
    BY <1>3, <2>1, <2>2, LoweringOps
  <2>4. Len(l) \in Nat
    BY <2>3 DEF LoweredTo, IsListing
  <2>5. Feasible(source.device, built, l)
    BY DEF Lowerings
  <2> QED  BY <2>3, <2>4, <2>5
<1> HIDE DEF lowerings
<1>5. ops \in lowerings
  BY <1>1, <1>4, CheapestIsOne
<1> HIDE DEF ops
<1> QED  BY <1>1, <1>4, <1>5

\* An emission, seen as the growth of the body.
LEMMA EmitGrows ==
  ASSUME FunctionOK(function), RebuildOK, MoreOps, NEW ops, Appendable(ops, Len(built.types)),
         NEW copies, Emit(ops, copies)
  PROVE  /\ Grown(built, ops, Len(ops), built')
         /\ WellFormed(function.arguments, built) /\ WellFormed(function.arguments, built')
<1>1. built' = ExtendedBy(built, ops) /\ ExtendedBy(built, ops) # Broken
  BY DEF Emit
<1>2. WellFormed(function.arguments, built)
  BY DEF RebuildOK
<1> QED  BY <1>1, <1>2, ExtendedByGrows

\* Lowering an operation moves nothing twice.
LEMMA LowerMovesOnce ==
  ASSUME PassesInv, MovesOnce, LowerOp, ~Stop("refused")
  PROVE  MovesOnce'
<1>1. PICK ops :
        /\ \E unit \in Implementations(Renewed) :
             LoweredTo(ops, built.types, Renewed, unit, moved)
        /\ Feasible(source.device, built, ops)
        /\ Emit(ops, Recorded(moved, ops, Len(built.types)))
  BY LoweringTaken
<1>2. mode = "rebuild" /\ Pass = "lower" /\ MoreOps
  BY DEF LowerOp, Rewriting
<1>3. FunctionOK(function) /\ RebuildOK /\ HasOperands
  BY <1>1, <1>2 DEF PassesInv, InProgress, Emit
<1>4. /\ IsOp(Renewed) /\ Reads(Renewed, Len(built.types)) /\ Len(built.types) \in Nat
      /\ CopiesExist(moved, Len(built.types))
  BY <1>2, <1>3, RenewedInRebuild
<1>5. Appendable(ops, Len(built.types)) /\ FreshMoves(ops, moved)
  BY <1>1, <1>4, LoweringAppendable, LoweringMovesFresh
<1> DEFINE K == Len(built.ops)
           m == Len(ops)
<1>6. Grown(built, ops, m, built')
  BY <1>1, <1>2, <1>3, <1>5, EmitGrows
<1>7. moved' = Recorded(moved, ops, Len(built.types))
  BY <1>1 DEF Emit
<1>8. /\ K \in Nat /\ m \in Nat /\ m # 0 /\ DOMAIN ops = 1..m
      /\ Len(built'.ops) = K + m
      /\ \A k \in 1..K : built'.ops[k] = built.ops[k]
      /\ \A k \in 1..m : built'.ops[K + k] = ops[k]
      /\ \A k \in 1..(m - 1) : ops[k].kind = "transfer" /\ CopyOf(ops[k]) \notin DOMAIN moved
      /\ ops[m].kind # "transfer"
  BY <1>3, <1>5, <1>6 DEF Grown, FreshMoves, IsListing, RebuildOK, WellFormed
<1>9. MovesRemembered /\ MovedTogether
  BY <1>2 DEF MovesOnce
<1>10. /\ DOMAIN moved \subseteq DOMAIN moved'
       /\ \A k \in 1..m : ops[k].kind = "transfer" => CopyOf(ops[k]) \in DOMAIN moved'
  BY <1>7, <1>8 DEF Recorded
<1> HIDE DEF K, m
<1>11. \A k \in 1..(K + m) : k \in 1..K \/ (k - K \in 1..m /\ k = K + (k - K))
  BY <1>8
<1>12. ASSUME NEW k \in 1..(K + m), built'.ops[k].kind = "transfer"
       PROVE  CopyOf(built'.ops[k]) \in DOMAIN moved'
  <2>1. CASE k \in 1..K
    BY <1>8, <1>9, <1>10, <1>12, <2>1 DEF MovesRemembered, K
  <2>2. CASE k - K \in 1..m /\ k = K + (k - K)
    BY <1>8, <1>10, <1>12, <2>2
  <2> QED  BY <1>11, <2>1, <2>2
<1>13. ASSUME NEW i \in 1..(K + m), NEW j \in 1..(K + m), i < j,
              built'.ops[i].kind = "transfer", built'.ops[i] = built'.ops[j],
              NEW k \in i..j
       PROVE  built'.ops[k].kind = "transfer"
  <2>1. CASE j \in 1..K
    <3>1. i \in 1..K /\ k \in 1..K
      BY <1>8, <1>13, <2>1
    <3>2. /\ built.ops[i].kind = "transfer" /\ built.ops[i] = built.ops[j]
          /\ built'.ops[k] = built.ops[k]
      BY <1>8, <1>13, <2>1, <3>1
    <3>3. \A l \in i..j : built.ops[l].kind = "transfer"
      BY <1>9, <1>13, <2>1, <3>1, <3>2 DEF MovedTogether, K
    <3> QED  BY <3>2, <3>3
  <2>2. CASE j - K \in 1..m /\ j = K + (j - K)
    <3>1. built'.ops[j] = ops[j - K] /\ ops[j - K].kind = "transfer"
      BY <1>8, <1>13, <2>2
    <3>2. j - K # m
      BY <1>8, <3>1
    <3>3. j - K \in 1..(m - 1)
      BY <1>8, <2>2, <3>2
    <3>4. CopyOf(built'.ops[i]) \notin DOMAIN moved
      BY <1>8, <1>13, <3>1, <3>3
    <3>5. i \notin 1..K
      BY <1>8, <1>9, <1>13, <3>4 DEF MovesRemembered, K
    <3>6. k - K \in 1..(m - 1) /\ k = K + (k - K)
      BY <1>8, <1>13, <3>3, <3>5
    <3>7. k - K \in 1..m
      BY <1>8, <3>6
    <3> QED  BY <1>8, <3>6, <3>7
  <2> QED  BY <1>11, <2>1, <2>2
<1>14. MovesRemembered'
  BY <1>8, <1>12 DEF MovesRemembered
<1>15. MovedTogether'
  BY <1>8, <1>13 DEF MovedTogether
<1> QED  BY <1>14, <1>15 DEF MovesOnce

\* A step that lowers no operation begins to, is outside the lowering, or leaves it as it is.
LEMMA OutsideLowering ==
  ASSUME [Next]_vars, ~LowerOp \/ Stop("refused")
  PROVE  \/ BeginLower
         \/ mode' # "rebuild" \/ Pass' # "lower"
         \/ UNCHANGED <<source, function, at, mode, next, renamed, built, moved>>
<1>1. CASE BeginLower
  BY <1>1
<1>2. CASE \E how \in {"refused", "crashed"} : Stop(how)
  BY <1>2 DEF Stop
<1>3. CASE UNCHANGED vars
  BY <1>3 DEF vars
<1>4. CASE BeginAnnotate \/ AnnotateOp \/ BeginShard \/ ShardOp \/ BeginFuse \/ FuseChain
           \/ SkipConsumed \/ KeepOp
  <2>1. Pass # "lower"
    BY <1>4 DEF BeginAnnotate, AnnotateOp, BeginShard, ShardOp, BeginFuse, FuseChain, SkipConsumed,
                KeepOp, Rewriting
  <2>2. (source' = source /\ at' = at) \/ Stop("refused")
    BY <1>4 DEF BeginAnnotate, AnnotateOp, BeginShard, ShardOp, BeginFuse, FuseChain, SkipConsumed,
                KeepOp, Rebuild, Emit, RefuseOp, FuseInto
  <2> QED  BY <1>2, <2>1, <2>2 DEF Pass
<1>5. CASE Import \/ EndAnnotate \/ EndShard \/ BeginRounds \/ NextRound \/ EndRound
           \/ EndDecompose \/ EndLower \/ PlaceResults \/ NothingToFuse \/ EndFuse
  <2>1. mode' # "rebuild" \/ Stop("refused")
    BY <1>5 DEF Import, EndAnnotate, EndShard, BeginRounds, NextRound, EndRound, EndDecompose,
                EndLower, PlaceResults, NothingToFuse, EndFuse, Returns, Rebuild
  <2> QED  BY <1>2, <2>1
<1>6. CASE DecomposeOp
  <2>1. mode' = "decomposing"
    BY <1>6 DEF DecomposeOp, Emit, RefuseOp, Stop
  <2> QED  BY <2>1
<1>7. CASE RefuseImport \/ RefuseAnnotations \/ RefusePlan \/ RefuseDevice \/ MissFusionOperand
  BY <1>2, <1>7 DEF RefuseImport, RefuseAnnotations, RefusePlan, RefuseDevice, MissFusionOperand
<1>8. CASE LowerOp
  BY <1>2, <1>8
<1> QED  BY <1>1, <1>2, <1>3, <1>4, <1>5, <1>6, <1>7, <1>8 DEF Next, Settled

\* A step that is not a lowering.
LEMMA OthersMoveOnce ==
  ASSUME MovesOnce, [Next]_vars, ~LowerOp \/ Stop("refused")
  PROVE  MovesOnce'
<1>1. CASE BeginLower
  <2>1. built'.ops = <<>>
    BY <1>1 DEF BeginLower, Rebuild
  <2>2. Len(<<>>) = 0
    OBVIOUS
  <2> QED  BY <2>1, <2>2 DEF MovesOnce, MovesRemembered, MovedTogether
<1>2. CASE mode' # "rebuild" \/ Pass' # "lower"
  BY <1>2 DEF MovesOnce
<1>3. CASE UNCHANGED <<source, function, at, mode, next, renamed, built, moved>>
  BY <1>3 DEF MovesOnce, MovesRemembered, MovedTogether, Pass
<1> QED  BY <1>1, <1>2, <1>3, OutsideLowering

\* A value is moved to a domain for one operation only; later ones read the
\* copy (legalize/lower.py _Moved).
THEOREM MovedOnce == Spec => []ValuesMoveOnce
<1>1. Init => MovesOnce
  BY DEF Init, MovesOnce
<1>2. PassesInv /\ MovesOnce /\ [Next]_vars => MovesOnce'
  BY LowerMovesOnce, OthersMoveOnce
<1>3. PassesInv /\ MovesOnce => ValuesMoveOnce
  <2>1. mode = "rebuild" /\ PassesInv => DOMAIN built.ops = 1..Len(built.ops)
    BY ListingDomain DEF PassesInv, InProgress, RebuildOK, WellFormed
  <2> QED  BY <2>1 DEF MovesOnce, MovedTogether, ValuesMoveOnce
<1> QED  BY <1>1, <1>2, <1>3, PassesAreWellFormed, PTL DEF Spec

-----------------------------------------------------------------------------
(* DirectOpsAreLowered: what an operation accepts and infers is the same in *)
(* every domain.                                                            *)

(* As many tensors, which may differ in their domains only.                 *)
Elsewhere(ts, us, n) ==
  /\ n \in Nat \ {0} /\ Len(ts) = n /\ Len(us) = n /\ DOMAIN ts = 1..n /\ DOMAIN us = 1..n
  /\ \A i \in 1..n : SameButDomain(ts[i], us[i])

\* Two tensors, elsewhere.
LEMMA PairElsewhere ==
  ASSUME NEW t, NEW u, SameButDomain(t, u), NEW x, NEW y, SameButDomain(x, y)
  PROVE  /\ BothAnnotated(t, x) <=> BothAnnotated(u, y)
         /\ BinaryAccepts(t, x) <=> BinaryAccepts(u, y)
         /\ LinearPlacement(t, x) = LinearPlacement(u, y)
         /\ HeadsGroup(t, x) <=> HeadsGroup(u, y)
         /\ \A onto : GqaAccepts(t, x, onto) <=> GqaAccepts(u, y, onto)
<1>1. BothAnnotated(t, x) <=> BothAnnotated(u, y)
  BY DomainlessType DEF BothAnnotated
<1>2. /\ Rank(t) = Rank(u) /\ Rank(x) = Rank(y)
      /\ ShardedDim(t) = ShardedDim(u) /\ ShardedDim(x) = ShardedDim(y)
  BY DomainlessType
<1>3. BinaryAccepts(t, x) <=> BinaryAccepts(u, y)
  BY <1>1 DEF BinaryAccepts, SameButDomain
<1>4. LinearPlacement(t, x) = LinearPlacement(u, y)
  BY <1>2 DEF LinearPlacement, SameButDomain
<1>5. HeadsGroup(t, x) <=> HeadsGroup(u, y)
  <2>1. Whole(<<t, x>>) <=> Whole(<<u, y>>)
    BY DEF Whole, SameButDomain
  <2> QED  BY <1>2, <2>1 DEF HeadsGroup, SameButDomain
<1>6. \A onto : GqaAccepts(t, x, onto) <=> GqaAccepts(u, y, onto)
  BY <1>1, <1>2, <1>5 DEF GqaAccepts, SameButDomain
<1> QED  BY <1>1, <1>3, <1>4, <1>5, <1>6

\* What an operation accepts, it accepts in every domain.
LEMMA AcceptsElsewhere ==
  ASSUME NEW kind \in Kinds, NEW attr, NEW n \in Arity(kind), NEW ts, NEW us, Elsewhere(ts, us, n)
  PROVE  Accepts(kind, attr, ts) <=> Accepts(kind, attr, us)
<1>1. /\ SameButDomain(ts[1], us[1])
      /\ n >= 2 => SameButDomain(ts[2], us[2])
      /\ n >= 3 => SameButDomain(ts[3], us[3])
      /\ n >= 4 => SameButDomain(ts[4], us[4])
      /\ Len(ts) = n /\ Len(us) = n
  BY DEF Elsewhere
<1>2. Whole(ts) <=> Whole(us)
  BY DEF Whole, Elsewhere, SameButDomain
<1>3. /\ Rank(ts[1]) = Rank(us[1]) /\ (Annotated(ts[1]) <=> Annotated(us[1]))
      /\ ShardedDim(ts[1]) = ShardedDim(us[1]) /\ (RowsWhole(ts[1]) <=> RowsWhole(us[1]))
  BY <1>1, DomainlessType
<1>4. n >= 2 => /\ Rank(ts[2]) = Rank(us[2]) /\ (Annotated(ts[2]) <=> Annotated(us[2]))
                /\ ShardedDim(ts[2]) = ShardedDim(us[2])
                /\ (BothAnnotated(ts[1], ts[2]) <=> BothAnnotated(us[1], us[2]))
  BY <1>1, DomainlessType, PairElsewhere
<1>5. n >= 3 => /\ Rank(ts[3]) = Rank(us[3]) /\ (Annotated(ts[3]) <=> Annotated(us[3]))
                /\ \A tokens, axes : PositionsFit(ts[3], tokens, axes)
                                       <=> PositionsFit(us[3], tokens, axes)
  BY <1>1, DomainlessType DEF PositionsFit, SameButDomain
<1>6. kind \in NeedsFloat => (ts[1].dtype # "int" <=> us[1].dtype # "int")
  BY <1>1 DEF SameButDomain
<1>7. CASE kind \in BinaryKinds
  <2>1. n >= 2
    BY <1>7 DEF BinaryKinds, Arity
  <2>2. BinaryAccepts(ts[1], ts[2]) <=> BinaryAccepts(us[1], us[2])
    BY <1>1, <2>1, PairElsewhere
  <2> QED  BY <1>6, <1>7, <2>2 DEF Accepts, BinaryKinds, NeedsFloat
<1>8. CASE kind \in {"activation", "exp", "softmax", "reduce_max", "reduce_sum", "copy", "transfer",
                     "reshape", "all_reduce"}
  <2>1. CASE kind \in {"activation", "exp", "softmax", "reduce_max", "reduce_sum"}
    BY <1>1, <1>3, <1>6, <2>1 DEF Accepts, BinaryKinds, NeedsFloat, SameButDomain
  <2>2. CASE kind \in {"copy", "transfer", "reshape"}
    BY <1>1, <1>2, <1>3, <2>2 DEF Accepts, BinaryKinds, NeedsFloat, SameButDomain
  <2>3. CASE kind = "all_reduce"
    BY <1>1, <1>2, <1>3, <2>3 DEF Accepts, BinaryKinds, NeedsFloat, SameButDomain
  <2> QED  BY <1>8, <2>1, <2>2, <2>3
<1>9. CASE kind = "rms_norm"
  <2>1. RmsNormAccepts(ts) <=> RmsNormAccepts(us)
    BY <1>1, <1>3, <1>4 DEF RmsNormAccepts, SameButDomain
  <2> QED  BY <1>9, <2>1 DEF Accepts, BinaryKinds, NeedsFloat
<1>10. CASE kind = "broadcast"
  <2>1. BroadcastAccepts(ts[1], attr[1], attr[2]) <=> BroadcastAccepts(us[1], attr[1], attr[2])
    BY <1>1, <1>3 DEF BroadcastAccepts, SameButDomain
  <2> QED  BY <1>10, <2>1 DEF Accepts, BinaryKinds, NeedsFloat
<1>11. CASE kind = "linear"
  <2>1. n >= 2 /\ (n = 3 <=> n >= 3)
    BY <1>11 DEF BinaryKinds, Arity
  <2>2. LinearPlacement(ts[1], ts[2]) = LinearPlacement(us[1], us[2])
    BY <1>1, <2>1, PairElsewhere
  <2>3. n = 3 => (BothAnnotated(ts[2], ts[3]) <=> BothAnnotated(us[2], us[3]))
    BY <1>1, <2>1, PairElsewhere
  <2>4. n = 3 => \A p : BiasAccepted(ts[2], ts[3], p) <=> BiasAccepted(us[2], us[3], p)
    BY <1>1, <1>5, <2>1, <2>3 DEF BiasAccepted, SameButDomain
  <2>5. LinearAccepts(ts) <=> LinearAccepts(us)
    BY <1>1, <1>3, <1>4, <2>1, <2>2, <2>4 DEF LinearAccepts, SameButDomain
  <2> QED  BY <1>11, <2>5 DEF Accepts, BinaryKinds, NeedsFloat
<1>12. CASE kind = "split_heads"
  <2>1. SplitAccepts(ts[1], attr[1]) <=> SplitAccepts(us[1], attr[1])
    BY <1>1, <1>3 DEF SplitAccepts, SameButDomain
  <2> QED  BY <1>12, <2>1 DEF Accepts, BinaryKinds, NeedsFloat
<1>13. CASE kind = "merge_heads"
  <2>1. MergeAccepts(ts[1]) <=> MergeAccepts(us[1])
    BY <1>1, <1>3 DEF MergeAccepts, SameButDomain
  <2> QED  BY <1>13, <2>1 DEF Accepts, BinaryKinds, NeedsFloat
<1>14. CASE kind = "rope"
  <2>1. n >= 2 /\ n >= 3
    BY <1>14 DEF BinaryKinds, Arity
  <2>2. \A tokens, axes : PositionsFit(ts[2], tokens, axes) <=> PositionsFit(us[2], tokens, axes)
    BY <1>1, <1>4, <2>1 DEF PositionsFit, SameButDomain
  <2>3. RopeAccepts(ts[1], ts[2], ts[3]) <=> RopeAccepts(us[1], us[2], us[3])
    BY <1>1, <1>3, <1>5, <2>1, <2>2 DEF RopeAccepts, SameButDomain
  <2> QED  BY <1>14, <2>3 DEF Accepts, BinaryKinds, NeedsFloat
<1>15. CASE kind = "kv_update"
  <2>1. n >= 2 /\ n >= 3
    BY <1>15 DEF BinaryKinds, Arity
  <2>2. KvUpdateAccepts(ts[1], ts[2], ts[3]) <=> KvUpdateAccepts(us[1], us[2], us[3])
    BY <1>1, <1>3, <1>4, <1>5, <2>1 DEF KvUpdateAccepts, SameButDomain
  <2> QED  BY <1>15, <2>2 DEF Accepts, BinaryKinds, NeedsFloat
<1>16. CASE kind \in {"gqa_qk", "gqa_sv"}
  <2>1. n >= 2
    BY <1>16 DEF BinaryKinds, Arity
  <2>2. \A onto : GqaAccepts(ts[1], ts[2], onto) <=> GqaAccepts(us[1], us[2], onto)
    BY <1>1, <2>1, PairElsewhere
  <2> QED  BY <1>16, <2>2 DEF Accepts, BinaryKinds, NeedsFloat
<1>17. CASE kind = "attention"
  <2>1. n >= 2 /\ n >= 3 /\ (n = 4 <=> n >= 4)
    BY <1>17 DEF BinaryKinds, Arity
  <2>2. (\A i \in DOMAIN ts : ts[i].dtype = ts[1].dtype)
          <=> (\A i \in DOMAIN us : us[i].dtype = us[1].dtype)
    BY <1>1 DEF Elsewhere, SameButDomain
  <2>3. (\A i \in 1..3 : Rank(ts[i]) = 4) <=> (\A i \in 1..3 : Rank(us[i]) = 4)
    <3>1. \A i \in 1..3 : i = 1 \/ i = 2 \/ i = 3
      OBVIOUS
    <3>2. \A i \in 1..3 : Rank(ts[i]) = Rank(us[i])
      BY <1>3, <1>4, <1>5, <2>1, <3>1
    <3> QED  BY <3>2
  <2>4. /\ ts[1].shape = us[1].shape /\ ts[2].shape = us[2].shape /\ ts[3].shape = us[3].shape
        /\ n = 4 => ts[4].shape = us[4].shape
    BY <1>1, <2>1 DEF SameButDomain
  <2>5. AttentionAccepts(ts) <=> AttentionAccepts(us)
    BY <1>1, <1>2, <2>2, <2>3, <2>4 DEF AttentionAccepts
  <2> QED  BY <1>17, <2>5 DEF Accepts, BinaryKinds, NeedsFloat
<1> QED  BY <1>7, <1>8, <1>9, <1>10, <1>11, <1>12, <1>13, <1>14, <1>15, <1>16, <1>17
            DEF Kinds, BinaryKinds, ViewKinds

\* What it infers there is the same but for the domain.
LEMMA ResultElsewhere ==
  ASSUME NEW kind \in Kinds, NEW attr, NEW n \in Arity(kind), NEW ts, NEW us, Elsewhere(ts, us, n),
         \A i \in 1..n : HasFields(ts[i]) /\ HasFields(us[i])
  PROVE  SameButDomain(Result(kind, attr, ts), Result(kind, attr, us))
<1>1. /\ SameButDomain(ts[1], us[1]) /\ HasFields(ts[1]) /\ HasFields(us[1])
      /\ n >= 2 => SameButDomain(ts[2], us[2])
      /\ n >= 3 => SameButDomain(ts[3], us[3])
  BY DEF Elsewhere
<1>2. /\ Rank(ts[1]) = Rank(us[1]) /\ (Annotated(ts[1]) <=> Annotated(us[1]))
      /\ ShardedDim(ts[1]) = ShardedDim(us[1])
  BY <1>1, DomainlessType
<1>3. n >= 2 => (BothAnnotated(ts[1], ts[2]) <=> BothAnnotated(us[1], us[2]))
  BY <1>1, PairElsewhere
<1>4. n >= 3 => (BothAnnotated(ts[1], ts[3]) <=> BothAnnotated(us[1], us[3]))
  BY <1>1, PairElsewhere
<1>5. \A t : SameButDomain(t, t)
  BY DEF SameButDomain
<1>6. CASE kind \in BinaryKinds
  <2>1. n >= 2
    BY <1>6 DEF BinaryKinds, Arity
  <2>2. BinaryResult(ts[1], ts[2]) = BinaryResult(us[1], us[2])
    BY <1>1, <1>3, <2>1 DEF BinaryResult, SameButDomain
  <2> QED  BY <1>5, <1>6, <2>2 DEF Result, BinaryKinds
<1>7. CASE kind \in {"activation", "exp", "softmax", "rms_norm", "copy", "rope"}
  BY <1>1, <1>7 DEF Result, BinaryKinds, Activation, HasFields, SameButDomain
<1>8. CASE kind \in {"reduce_max", "reduce_sum"}
  <2>1. \A p : ReducedResult(ts[1], p) = ReducedResult(us[1], p)
    BY <1>1, <1>2 DEF ReducedResult, SameButDomain
  <2>2. SumPlacement(ts[1]) = SumPlacement(us[1]) /\ ts[1].placement = us[1].placement
    BY <1>1, <1>2 DEF SumPlacement, SameButDomain
  <2>3. Result(kind, attr, ts) = Result(kind, attr, us)
    BY <1>8, <2>1, <2>2 DEF Result, BinaryKinds
  <2> QED  BY <1>5, <2>3
<1>9. CASE kind = "broadcast"
  <2>1. SameButDomain(BroadcastResult(ts[1], attr[1], attr[2]), BroadcastResult(us[1], attr[1], attr[2]))
    BY <1>1, SMTT(30) DEF BroadcastResult, Activation, HasFields, SameButDomain
  <2> QED  BY <1>9, <2>1 DEF Result, BinaryKinds
<1>10. CASE kind = "reshape"
  <2>1. ts[1].dtype = us[1].dtype
    BY <1>1 DEF SameButDomain
  <2> QED  BY <1>5, <1>10, <2>1 DEF Result, BinaryKinds
<1>11. CASE kind = "linear"
  <2>1. n >= 2
    BY <1>11 DEF BinaryKinds, Arity
  <2>2. LinearPlacement(ts[1], ts[2]) = LinearPlacement(us[1], us[2])
    BY <1>1, <2>1, PairElsewhere
  <2>3. LinearResult(ts[1], ts[2]) = LinearResult(us[1], us[2])
    BY <1>1, <1>3, <2>1, <2>2 DEF LinearResult, SameButDomain
  <2> QED  BY <1>5, <1>11, <2>3 DEF Result, BinaryKinds
<1>12. CASE kind \in {"split_heads", "merge_heads"}
  <2>1. SplitResult(ts[1], attr[1]) = SplitResult(us[1], attr[1])
    BY <1>1, <1>2 DEF SplitResult, SameButDomain
  <2>2. MergeResult(ts[1]) = MergeResult(us[1])
    BY <1>1, <1>2 DEF MergeResult, SameButDomain
  <2> QED  BY <1>5, <1>12, <2>1, <2>2 DEF Result, BinaryKinds
<1>13. CASE kind \in {"kv_update", "transfer"}
  BY <1>1, <1>13 DEF Result, BinaryKinds
<1>14. CASE kind \in {"gqa_qk", "gqa_sv"}
  <2>1. n >= 2
    BY <1>14 DEF BinaryKinds, Arity
  <2>2. \A kept : GqaResult(ts[1], ts[2], kept) = GqaResult(us[1], us[2], kept)
    BY <1>1, <1>3, <2>1 DEF GqaResult, SameButDomain
  <2> QED  BY <1>5, <1>14, <2>2 DEF Result, BinaryKinds
<1>15. CASE kind = "attention"
  <2>1. n >= 3
    BY <1>15 DEF BinaryKinds, Arity
  <2>2. AttentionResult(ts[1], ts[3]) = AttentionResult(us[1], us[3])
    BY <1>1, <1>4, <2>1 DEF AttentionResult, SameButDomain
  <2> QED  BY <1>5, <1>15, <2>2 DEF Result, BinaryKinds
<1>16. CASE kind = "all_reduce"
  BY <1>1, <1>16 DEF Result, BinaryKinds, HasFields, SameButDomain
<1> QED  BY <1>6, <1>7, <1>8, <1>9, <1>10, <1>11, <1>12, <1>13, <1>14, <1>15, <1>16
            DEF Kinds, BinaryKinds, ViewKinds

\* What it means that an operation inferred a type (Operation.__post_init__).
LEMMA Inferred ==
  ASSUME NEW op, op.kind \in Kinds, NEW ts, HasFields(ts[1]), Infer(op, ts) # NoType
  PROVE  /\ DomainsFit(op, ts) /\ Accepts(op.kind, op.attr, ts)
         /\ HasFields(Infer(op, ts)) /\ ValidType(Infer(op, ts))
         /\ SameButDomain(Infer(op, ts), Result(op.kind, op.attr, ts))
         /\ Infer(op, ts).domain = ResultDomain(op, ts)
<1> DEFINE r == Result(op.kind, op.attr, ts)
           d == ResultDomain(op, ts)
           t == [r EXCEPT !.domain = d]
<1>1. HasFields(r)
  BY ResultFields
<1>2. DomainsFit(op, ts) /\ Accepts(op.kind, op.attr, ts) /\ Infer(op, ts) = Checked(t)
  BY DEF Infer
<1> HIDE DEF r, d
<1>3. HasFields(t) /\ SameButDomain(t, r) /\ t.domain = d
  BY <1>1, ElsewhereTensor
<1> HIDE DEF t
<1>4. ValidType(t) /\ Infer(op, ts) = t
  BY <1>2 DEF Checked
<1> QED  BY <1>2, <1>3, <1>4 DEF r, d

\* An operation that infers a type infers one from the same tensors elsewhere,
\* if it may read them there.
LEMMA InferElsewhere ==
  ASSUME NEW op, NEW other, other.kind = op.kind, other.attr = op.attr, op.kind \in Kinds,
         NEW n \in Arity(op.kind), NEW ts, NEW us, Elsewhere(ts, us, n),
         \A i \in 1..n : IsTensor(ts[i]) /\ IsTensor(us[i]),
         Infer(op, ts) # NoType, DomainsFit(other, us)
  PROVE  Infer(other, us) # NoType
<1> DEFINE r == Result(op.kind, op.attr, ts)
           s == Result(op.kind, op.attr, us)
           d == ResultDomain(other, us)
           t == [s EXCEPT !.domain = d]
<1>1. n \in Nat \ {0} /\ DOMAIN us = 1..n /\ 1 \in 1..n
  BY DEF Elsewhere
<1>2. HasFields(ts[1]) /\ HasFields(us[1]) /\ \A i \in 1..n : HasFields(ts[i]) /\ HasFields(us[i])
  BY <1>1 DEF IsTensor
<1>3. /\ Accepts(op.kind, op.attr, ts) /\ ValidType(Infer(op, ts))
      /\ SameButDomain(Infer(op, ts), r)
  BY <1>2, Inferred
<1>4. Accepts(op.kind, op.attr, us)
  BY <1>3, AcceptsElsewhere
<1>5. SameButDomain(r, s)
  BY <1>2, ResultElsewhere
<1>6. HasFields(s)
  BY <1>2, ResultFields
<1>7. NoType \notin Range(us)
  <2>1. \A i \in 1..n : us[i] # NoType
    BY TensorIsAType
  <2> QED  BY <1>1, <2>1 DEF Range
<1>8. Infer(other, us) = Checked(t)
  BY <1>4, <1>7 DEF Infer
<1> HIDE DEF r, s, d
<1>9. ValidType(s)
  BY <1>3, <1>5, DomainlessType
<1>10. HasFields(t) /\ ValidType(t)
  BY <1>6, <1>9, ElsewhereTensor
<1> HIDE DEF t
<1>11. t # NoType
  BY <1>10, TensorIsAType DEF IsTensor
<1> QED  BY <1>8, <1>10, <1>11 DEF Checked

\* The two inferred types are the same but for the domain.
LEMMA InferredElsewhere ==
  ASSUME NEW op, NEW other, other.kind = op.kind, other.attr = op.attr, op.kind \in Kinds,
         NEW n \in Arity(op.kind), NEW ts, NEW us, Elsewhere(ts, us, n),
         \A i \in 1..n : IsTensor(ts[i]) /\ IsTensor(us[i]),
         Infer(op, ts) # NoType, Infer(other, us) # NoType
  PROVE  SameButDomain(Infer(op, ts), Infer(other, us))
<1>1. n \in Nat \ {0} /\ 1 \in 1..n
  BY DEF Elsewhere
<1>2. HasFields(ts[1]) /\ HasFields(us[1]) /\ \A i \in 1..n : HasFields(ts[i]) /\ HasFields(us[i])
  BY <1>1 DEF IsTensor
<1>3. SameButDomain(Infer(op, ts), Result(op.kind, op.attr, ts))
  BY <1>2, Inferred
<1>4. SameButDomain(Infer(other, us), Result(op.kind, op.attr, us))
  BY <1>2, Inferred
<1>5. SameButDomain(Result(op.kind, op.attr, ts), Result(op.kind, op.attr, us))
  BY <1>2, ResultElsewhere
<1> QED  BY <1>3, <1>4, <1>5 DEF SameButDomain

\* A transfer of a value that is in another domain (DeviceTransferOp).
LEMMA TransferInfers ==
  ASSUME NEW types, NEW value, IsTensor(types[value]), NEW domain,
         types[value].domain \notin {"none", domain}
  PROVE  /\ Infers(types, Transfer(value, domain)) # NoType
         /\ SameButDomain(Infers(types, Transfer(value, domain)), types[value])
         /\ Infers(types, Transfer(value, domain)).domain = domain
<1> DEFINE op == Transfer(value, domain)
           ts == OperandTypes(types, op)
           t == [types[value] EXCEPT !.domain = domain]
<1>1. op.operands = <<value>> /\ op.kind = "transfer" /\ op.attr = <<domain>> /\ op.unit = "device"
  BY TransferOperation
<1>2. DOMAIN ts = {1} /\ ts[1] = types[value]
  BY <1>1 DEF OperandTypes
<1> HIDE DEF op, ts
<1>3. DomainsFit(op, ts) /\ ResultDomain(op, ts) = domain
  BY <1>1, <1>2 DEF DomainsFit, ResultDomain
<1>4. Accepts(op.kind, op.attr, ts)
  BY <1>1 DEF Accepts, NeedsFloat, BinaryKinds
<1>5. Result(op.kind, op.attr, ts) = types[value]
  BY <1>1, <1>2 DEF Result, BinaryKinds
<1>6. NoType \notin Range(ts)
  BY <1>2, TensorIsAType DEF Range
<1>7. Infer(op, ts) = Checked(t)
  BY <1>3, <1>4, <1>5, <1>6 DEF Infer
<1>8. HasFields(t) /\ ValidType(t) /\ SameButDomain(t, types[value]) /\ t.domain = domain
  BY ElsewhereTensor DEF IsTensor
<1> HIDE DEF t
<1>9. Infer(op, ts) = t /\ t # NoType
  BY <1>7, <1>8, TensorIsAType DEF Checked, IsTensor
<1>10. Infers(types, op) = t
  BY <1>9 DEF Infers, ts
<1> QED  BY <1>8, <1>9, <1>10 DEF op

\* Operations that each infer a type on what is there before them can be appended.
LEMMA ExtendedByBuilds ==
  ASSUME NEW n, NEW body, WellFormed(n, body), NEW ops, Appendable(ops, Len(body.types)),
         \A m \in 1..Len(ops) : \A before :
           Grown(body, ops, m - 1, before) /\ WellFormed(n, before) =>
             Infers(before.types, ops[m]) # NoType
  PROVE  ExtendedBy(body, ops) # Broken
<1>1. IsListing(ops) /\ Len(ops) \in Nat
  BY DEF Appendable, IsListing
<1>2. PICK f : /\ ExtendedBy(body, ops) = f[Len(ops)]
               /\ f[0] = body
               /\ \A k \in 1..Len(ops) : f[k] = Extended(f[k - 1], ops[k])
  BY <1>1, ExtendedBySteps
<1>3. ASSUME NEW x, WellFormed(n, x) PROVE x # Broken
  <2>1. Len(<<NoType>>) = 1 /\ Len(<<>>) = 0 /\ <<NoType>>[1] = NoType
    OBVIOUS
  <2>2. \A v \in 1..Len(x.types) : x.types[v] # NoType
    BY <1>3, TensorIsAType DEF WellFormed
  <2> QED  BY <2>1, <2>2 DEF Broken
<1> DEFINE Right(k) == Grown(body, ops, k, f[k]) /\ WellFormed(n, f[k])
           Wrong == {k \in 0..Len(ops) : ~Right(k)}
<1>4. Wrong = {}
  <2> SUFFICES ASSUME Wrong # {} PROVE FALSE
    OBVIOUS
  <2>1. PICK m \in Wrong : \A k \in Wrong : m <= k
    <3>1. Wrong \subseteq Nat
      OBVIOUS
    <3> HIDE DEF Wrong
    <3> QED  BY <3>1, LeastNatural
  <2>2. m \in 0..Len(ops) /\ ~Right(m)
    OBVIOUS
  <2>3. CASE m = 0
    BY <1>2, <2>2, <2>3, GrownByNone
  <2>4. CASE m > 0
    <3>1. m \in 1..Len(ops) /\ m - 1 \in 0..Len(ops) /\ ~(m <= m - 1)
      BY <1>1, <2>2, <2>4
    <3>2. m - 1 \notin Wrong
      <4> HIDE DEF Wrong
      <4> QED  BY <2>1, <3>1
    <3>3. Right(m - 1)
      BY <3>1, <3>2
    <3>4. f[m] = Extended(f[m - 1], ops[m])
      BY <1>2, <3>1
    <3>5. Infers(f[m - 1].types, ops[m]) # NoType /\ f[m - 1] # Broken
      BY <1>3, <3>1, <3>3
    <3>6. Extended(f[m - 1], ops[m]) # Broken
      <4> DEFINE x == f[m - 1]
      <4>1. /\ Extended(x, ops[m]).ops = Append(x.ops, ops[m])
            /\ IsListing(x.ops) /\ Len(x.ops) \in Nat
        BY <3>3, <3>5 DEF Extended, WellFormed, IsListing
      <4> HIDE DEF x
      <4>2. Len(Append(x.ops, ops[m])) = Len(x.ops) + 1
        BY <4>1, AppendListing
      <4>3. Broken.ops = <<>> /\ Len(<<>>) = 0
        BY DEF Broken
      <4> QED  BY <4>1, <4>2, <4>3 DEF x
    <3>7. Right(m)
      BY <3>1, <3>3, <3>4, <3>5, <3>6, GrownByOne
    <3> QED  BY <2>2, <3>7
  <2> QED  BY <1>1, <2>2, <2>3, <2>4
<1>5. Right(Len(ops))
  <2>1. Len(ops) \in 0..Len(ops)
    BY <1>1
  <2> QED  BY <1>4, <2>1
<1> QED  BY <1>2, <1>3, <1>5

(* Every value is in a domain, and a copy is in the one it was made for.    *)
CopiesRight(types, copies) ==
  /\ \A v \in 1..Len(types) : types[v].domain # "none"
  /\ \A c \in DOMAIN copies :
       /\ c[1] \in 1..Len(types)
       /\ SameButDomain(types[copies[c]], types[c[1]]) /\ types[copies[c]].domain = c[2]

\* A transfer among the appended operations makes a copy in its domain.
LEMMA TransferMade ==
  ASSUME NEW n, NEW body, WellFormed(n, body), NEW ops, NEW m \in Nat, NEW after,
         Grown(body, ops, m, after), NEW k \in 1..m, NEW value \in 1..Len(body.types), NEW domain,
         ops[k] = Transfer(value, domain), body.types[value].domain \notin {"none", domain}
  PROVE  /\ SameButDomain(after.types[Len(body.types) + k], body.types[value])
         /\ after.types[Len(body.types) + k].domain = domain
<1>1. after.types[value] = body.types[value] /\ IsTensor(body.types[value])
  BY DEF Grown, WellFormed
<1>2. after.types[Len(body.types) + k] = Infers(after.types, Transfer(value, domain))
  BY DEF Grown
<1> QED  BY <1>1, <1>2, TransferInfers

(* A body after the first m of the operations, the transfers among them.    *)
Moving(n, body, ops, m, after, copies, transfers) ==
  /\ WellFormed(n, body) /\ m \in Nat /\ Grown(body, ops, m, after)
  /\ CopiesExist(copies, Len(body.types)) /\ CopiesRight(body.types, copies)
  /\ Len(transfers) \in 0..m
  /\ \A k \in 1..Len(transfers) : ops[k] = transfers[k]

\* What a gathered operand has for a type.
LEMMA OperandRead ==
  ASSUME NEW n, NEW body, NEW ops, NEW m, NEW after, NEW copies, NEW transfers,
         Moving(n, body, ops, m, after, copies, transfers),
         NEW need, need.value \in 1..Len(body.types), body.types[need.value].domain # need.to,
         NEW value, ReadAt(need, copies, Len(body.types), transfers, value)
  PROVE  /\ SameButDomain(after.types[value], body.types[need.value])
         /\ need.to = "none" => after.types[value].domain = body.types[need.value].domain
         /\ need.to # "none" => after.types[value].domain = need.to
<1> DEFINE N == Len(body.types)
           t == body.types[need.value]
<1>1. /\ \A v \in 1..N : after.types[v] = body.types[v]
      /\ WellFormed(n, body) /\ m \in Nat /\ Grown(body, ops, m, after)
      /\ CopiesExist(copies, N) /\ CopiesRight(body.types, copies)
      /\ 1..Len(transfers) \subseteq 1..m
      /\ \A k \in 1..Len(transfers) : ops[k] = transfers[k]
  <2>1. /\ WellFormed(n, body) /\ m \in Nat /\ Grown(body, ops, m, after)
        /\ CopiesExist(copies, N) /\ CopiesRight(body.types, copies)
        /\ Len(transfers) \in 0..m
        /\ \A k \in 1..Len(transfers) : ops[k] = transfers[k]
    BY DEF Moving
  <2>2. \A v \in 1..N : after.types[v] = body.types[v]
    BY <2>1 DEF Grown
  <2>3. 1..Len(transfers) \subseteq 1..m
    BY <2>1
  <2> QED  BY <2>1, <2>2, <2>3
<1>2. CASE need.to = "none" /\ value = need.value
  BY <1>1, <1>2 DEF SameButDomain
<1>3. CASE /\ need.to # "none" /\ <<need.value, need.to>> \in DOMAIN copies
           /\ value = copies[<<need.value, need.to>>]
  <2> DEFINE c == <<need.value, need.to>>
  <2>1. c[1] = need.value /\ c[2] = need.to /\ c \in DOMAIN copies
    BY <1>3
  <2> HIDE DEF c
  <2>2. value = copies[c]
    BY <1>3 DEF c
  <2>3. value \in 1..N
    BY <1>1, <2>1, <2>2 DEF CopiesExist
  <2>4. SameButDomain(body.types[value], t) /\ body.types[value].domain = need.to
    BY <1>1, <2>1, <2>2 DEF CopiesRight
  <2> QED  BY <1>1, <1>3, <2>3, <2>4
<1>4. CASE \E j \in 1..Len(transfers) : Moves(need, copies, transfers[j]) /\ value = N + j
  <2>1. PICK j \in 1..Len(transfers) : Moves(need, copies, transfers[j]) /\ value = N + j
    BY <1>4
  <2>2. /\ need.to # "none" /\ ops[j] = Transfer(need.value, need.to) /\ j \in 1..m
    BY <1>1, <2>1 DEF Moves
  <2>3. t.domain \notin {"none", need.to}
    BY <1>1, <2>2 DEF CopiesRight
  <2>4. SameButDomain(after.types[N + j], t) /\ after.types[N + j].domain = need.to
    BY <1>1, <2>2, <2>3, TransferMade
  <2> QED  BY <2>1, <2>2, <2>4
<1> QED  BY <1>2, <1>3, <1>4 DEF ReadAt

(* The parts of a lowering: transfers into a domain, then the operation.    *)
LoweringOf(ops, types, op, unit, copies, transfers, read) ==
  LET domain == OperandDomain(unit, OperandTypes(types, op))
  IN  /\ Len(transfers) \in Nat /\ Len(ops) = Len(transfers) + 1
      /\ \A k \in 1..Len(transfers) :
           /\ ops[k] = transfers[k]
           /\ \E i \in 1..Len(op.operands) :
                /\ domain # "none" /\ types[op.operands[i]].domain # domain
                /\ transfers[k] = Transfer(op.operands[i], domain)
      /\ IsListing(read) /\ Len(read) = Len(op.operands)
      /\ \A i \in 1..Len(op.operands) :
           ReadAt(OperandNeed(types, op, domain, i), copies, Len(types), transfers, read[i])
      /\ ops[Len(ops)] = Op(unit, op.kind, op.attr, read)

\* A lowering has such parts.
LEMMA LoweringParts ==
  ASSUME NEW types, NEW op, IsOp(op), NEW unit, NEW copies, NEW ops,
         LoweredTo(ops, types, op, unit, copies)
  PROVE  \E transfers, read : LoweringOf(ops, types, op, unit, copies, transfers, read)
<1> DEFINE domain == OperandDomain(unit, OperandTypes(types, op))
           needs == OperandNeeds(types, op, domain)
           n == Len(op.operands)
<1>1. PICK g : /\ Collected(g, needs, copies, Len(types), n)
               /\ Len(ops) = Len(g.transfers) + 1
               /\ \A k \in 1..Len(g.transfers) : ops[k] = g.transfers[k]
               /\ ops[Len(ops)] = [OnUnit(op, unit) EXCEPT !.operands = g.operands]
  BY DEF LoweredTo
<1>2. op = Op(op.unit, op.kind, op.attr, op.operands) /\ IsListing(op.operands)
  BY DEF IsOp
<1>3. [OnUnit(op, unit) EXCEPT !.operands = g.operands] = Op(unit, op.kind, op.attr, g.operands)
  <2>1. [OnUnit(Op(op.unit, op.kind, op.attr, op.operands), unit) EXCEPT !.operands = g.operands]
          = Op(unit, op.kind, op.attr, g.operands)
    BY OnUnitFields
  <2> QED  BY <1>2, <2>1, Zenon
<1> HIDE DEF domain
<1>4. \A i \in 1..n : needs[i] = OperandNeed(types, op, domain, i)
  BY <1>2, OperandNeedsListing
<1>5. ASSUME NEW k \in 1..Len(g.transfers)
      PROVE  \E i \in 1..n :
               /\ domain # "none" /\ types[op.operands[i]].domain # domain
               /\ g.transfers[k] = Transfer(op.operands[i], domain)
  <2>1. PICK i \in 1..n : Moves(needs[i], copies, g.transfers[k])
    BY <1>1 DEF Collected
  <2>2. Moves(OperandNeed(types, op, domain, i), copies, g.transfers[k])
    BY <1>4, <2>1
  <2> QED  BY <2>2 DEF Moves, OperandNeed, Need
<1>6. \A i \in 1..n :
        ReadAt(OperandNeed(types, op, domain, i), copies, Len(types), g.transfers, g.operands[i])
  <2>1. \A i \in 1..n : ReadAt(needs[i], copies, Len(types), g.transfers, g.operands[i])
    BY <1>1 DEF Collected
  <2> QED  BY <1>4, <2>1
<1>7. Len(g.transfers) \in Nat /\ IsListing(g.operands) /\ Len(g.operands) = n
  BY <1>1 DEF Collected, IsListing
<1> HIDE DEF needs, n
<1>8. LoweringOf(ops, types, op, unit, copies, g.transfers, g.operands)
  BY <1>1, <1>3, <1>5, <1>6, <1>7 DEF LoweringOf, domain, n
<1> QED  BY <1>8

(* A body after the transfers of a lowering, or all of it: final reads us   *)
(* there, where op read ts.                                                 *)
AfterMoves(n, body, op, unit, copies, ops, transfers, read, m, after, ts, us, final) ==
  /\ WellFormed(n, body) /\ IsOp(op) /\ Reads(op, Len(body.types))
  /\ CopiesExist(copies, Len(body.types)) /\ CopiesRight(body.types, copies)
  /\ Appendable(ops, Len(body.types))
  /\ LoweringOf(ops, body.types, op, unit, copies, transfers, read)
  /\ m \in Len(transfers)..(Len(transfers) + 1)
  /\ Grown(body, ops, m, after) /\ WellFormed(n, after)
  /\ final = Op(unit, op.kind, op.attr, read)
  /\ ts = OperandTypes(body.types, op) /\ us = OperandTypes(after.types, final)

\* What the operation of a lowering reads: its operands, each in a domain it may have.
LEMMA LoweredReads ==
  ASSUME NEW n, NEW body, NEW op, NEW unit, NEW copies, NEW ops, NEW transfers, NEW read,
         NEW m, NEW after, NEW ts, NEW us, NEW final,
         AfterMoves(n, body, op, unit, copies, ops, transfers, read, m, after, ts, us, final)
  PROVE  /\ OperandDomain(unit, ts) # "none" /\ Elsewhere(ts, us, Len(op.operands))
         /\ \A i \in 1..Len(op.operands) :
              /\ IsTensor(ts[i]) /\ ts[i].domain # "none" /\ IsTensor(us[i])
              /\ us[i].domain = IF IsIndex(op, i) THEN ts[i].domain ELSE OperandDomain(unit, ts)
<1> /\ WellFormed(n, body) /\ IsOp(op) /\ Reads(op, Len(body.types))
    /\ CopiesExist(copies, Len(body.types)) /\ CopiesRight(body.types, copies)
    /\ Appendable(ops, Len(body.types))
    /\ LoweringOf(ops, body.types, op, unit, copies, transfers, read)
    /\ m \in Len(transfers)..(Len(transfers) + 1)
    /\ Grown(body, ops, m, after) /\ WellFormed(n, after)
    /\ final = Op(unit, op.kind, op.attr, read)
    /\ ts = OperandTypes(body.types, op) /\ us = OperandTypes(after.types, final)
  BY DEF AfterMoves
<1> DEFINE domain == OperandDomain(unit, ts)
<1>0. domain = OperandDomain(unit, OperandTypes(body.types, op)) /\ domain = OperandDomain(unit, ts)
  OBVIOUS
<1> HIDE DEF domain
<1> DEFINE N == Len(body.types)
           k == Len(op.operands)
           T == Len(transfers)
<1>1. k \in Nat \ {0} /\ DOMAIN op.operands = 1..k /\ 1 \in 1..k
  BY FirstOperand
<1>2. /\ T \in Nat /\ Len(ops) = T + 1 /\ \A j \in 1..T : ops[j] = transfers[j]
      /\ IsListing(read) /\ Len(read) = k /\ ops[Len(ops)] = final
      /\ \A i \in 1..k :
           ReadAt(OperandNeed(body.types, op, domain, i), copies, N, transfers, read[i])
  BY <1>0 DEF LoweringOf
<1>3. N \in Nat /\ m \in Nat /\ Len(after.types) = N + m
  BY <1>2 DEF WellFormed, IsListing, Grown
<1>4. final.operands = read /\ DOMAIN read = 1..k
  BY <1>2, ListingDomain DEF Op
<1>5. /\ ts = [i \in 1..k |-> body.types[op.operands[i]]]
      /\ us = [i \in 1..k |-> after.types[read[i]]]
  BY <1>1, <1>4 DEF OperandTypes
<1>6. \A i \in 1..k : op.operands[i] \in 1..N
  BY DEF Reads
<1>7. \A i \in 1..k : IsTensor(ts[i]) /\ ts[i].domain # "none"
  <2>1. \A v \in 1..N : IsTensor(body.types[v]) /\ body.types[v].domain # "none"
    BY DEF WellFormed, CopiesRight
  <2>2. \A i \in 1..k : ts[i] = body.types[op.operands[i]]
    BY <1>5
  <2> HIDE DEF N, k
  <2> QED  BY <1>6, <2>1, <2>2
<1>8. domain # "none"
  BY <1>0, <1>1, <1>7 DEF OperandDomain, UnitDomain
<1>9. ASSUME NEW i \in 1..k
      PROVE  /\ SameButDomain(us[i], ts[i])
             /\ us[i].domain = IF IsIndex(op, i) THEN ts[i].domain ELSE domain
  <2> DEFINE need == OperandNeed(body.types, op, domain, i)
  <2>1. /\ need.value = op.operands[i]
        /\ need.to = IF IsIndex(op, i) \/ ts[i].domain = domain THEN "none" ELSE domain
    BY <1>5 DEF OperandNeed, Need
  <2>2. ReadAt(need, copies, N, transfers, read[i])
    BY <1>2
  <2> HIDE DEF need
  <2>3. need.value \in 1..N /\ body.types[need.value] = ts[i]
    BY <1>5, <1>6, <2>1
  <2>4. ts[i].domain # need.to
    BY <1>7, <2>1
  <2>5. Moving(n, body, ops, m, after, copies, transfers)
    <3>1. T \in 0..m /\ m \in Nat
      BY <1>2, <1>3
    <3> QED  BY <1>2, <3>1 DEF Moving
  <2>6. body.types[need.value].domain # need.to
    BY <2>3, <2>4
  <2>7. /\ SameButDomain(after.types[read[i]], ts[i])
        /\ need.to = "none" => after.types[read[i]].domain = ts[i].domain
        /\ need.to # "none" => after.types[read[i]].domain = need.to
    BY <2>2, <2>3, <2>5, <2>6, OperandRead
  <2>8. us[i] = after.types[read[i]]
    BY <1>5
  <2> QED  BY <1>8, <2>1, <2>7, <2>8
<1>10. \A i \in 1..k : IsTensor(us[i])
  <2>1. Reads(final, N + Len(ops) - 1)
    <3>1. Len(ops) \in 1..Len(ops)
      BY <1>2
    <3> QED  BY <1>2, <3>1 DEF Appendable
  <2>2. N + Len(ops) - 1 = N + T
    BY <1>2, <1>3
  <2>3. \A i \in 1..k : read[i] \in 1..(N + T)
    BY <1>2, <1>4, <2>1, <2>2 DEF Reads
  <2>4. \A v \in 1..(N + T) : v \in 1..(N + m)
    <3>1. N \in Nat /\ T \in Nat /\ m \in T..(T + 1)
      BY <1>2, <1>3
    <3> HIDE DEF N, T
    <3> QED  BY <3>1
  <2>5. \A v \in 1..(N + m) : IsTensor(after.types[v])
    BY <1>3 DEF WellFormed
  <2>6. \A i \in 1..k : us[i] = after.types[read[i]]
    BY <1>5
  <2> HIDE DEF N, T, k
  <2> QED  BY <2>3, <2>4, <2>5, <2>6
<1>11. Elsewhere(ts, us, k)
  <2>1. \A i \in 1..k : SameButDomain(ts[i], us[i])
    BY <1>9 DEF SameButDomain
  <2>2. DOMAIN ts = 1..k /\ DOMAIN us = 1..k
    BY <1>5
  <2>3. Len(ts) = k /\ Len(us) = k
    <3>1. ts = [i \in 1..k |-> ts[i]] /\ us = [i \in 1..k |-> us[i]]
      BY <1>5
    <3> HIDE DEF k
    <3> QED  BY <1>1, <3>1, FunctionListing
  <2> QED  BY <1>1, <2>1, <2>2, <2>3 DEF Elsewhere
<1> QED  BY <1>0, <1>7, <1>8, <1>9, <1>10, <1>11

(* An operation about to be lowered: the one it is rebuilt from inferred a  *)
(* type from the same tensors elsewhere.                                    *)
Lowerable(n, body, op, copies, original, ts) ==
  /\ WellFormed(n, body) /\ IsOp(op) /\ op.kind # "transfer" /\ Reads(op, Len(body.types))
  /\ CopiesExist(copies, Len(body.types)) /\ CopiesRight(body.types, copies)
  /\ original.kind = op.kind /\ original.attr = op.attr
  /\ Elsewhere(ts, OperandTypes(body.types, op), Len(op.operands))
  /\ \A i \in 1..Len(op.operands) : IsTensor(ts[i])
  /\ Infer(original, ts) # NoType

\* Once its operands are moved, it infers that type in some domain.
LEMMA LoweredInfers ==
  ASSUME NEW n, NEW body, NEW op, NEW copies, NEW original, NEW ts,
         Lowerable(n, body, op, copies, original, ts),
         NEW unit \in Units, NEW ops, NEW transfers, NEW read, NEW m, NEW after, NEW here, NEW us,
         NEW final,
         AfterMoves(n, body, op, unit, copies, ops, transfers, read, m, after, here, us, final)
  PROVE  /\ Infers(after.types, final) # NoType
         /\ SameButDomain(Infers(after.types, final), Infer(original, ts))
         /\ Infers(after.types, final).domain # "none"
<1> DEFINE k == Len(op.operands)
           domain == OperandDomain(unit, here)
<1>1. /\ IsOp(op) /\ op.kind # "transfer" /\ k \in Arity(op.kind) /\ op.kind \in Kinds
      /\ original.kind = op.kind /\ original.attr = op.attr
      /\ Elsewhere(ts, OperandTypes(body.types, op), k)
      /\ \A i \in 1..k : IsTensor(ts[i])
      /\ Infer(original, ts) # NoType
  BY DEF Lowerable, IsOp
<1>2. /\ final = Op(unit, op.kind, op.attr, read) /\ us = OperandTypes(after.types, final)
      /\ here = OperandTypes(body.types, op)
  BY DEF AfterMoves
<1>3. /\ domain # "none" /\ Elsewhere(here, us, k)
      /\ \A i \in 1..k :
           /\ IsTensor(here[i]) /\ here[i].domain # "none" /\ IsTensor(us[i])
           /\ us[i].domain = IF IsIndex(op, i) THEN here[i].domain ELSE domain
  BY LoweredReads
<1>4. Elsewhere(ts, us, k) /\ k \in Nat \ {0} /\ DOMAIN us = 1..k /\ 1 \in 1..k
  BY <1>1, <1>2, <1>3 DEF Elsewhere, SameButDomain
<1>5. unit = "device" => us[1].domain = domain
  BY <1>3, <1>4 DEF IsIndex
<1>6. unit # "device" => domain = UnitDomain(unit)
  BY DEF OperandDomain
<1>7. \A i \in 1..k : us[i].domain # "none" /\ ((op.kind = "kv_update" /\ i = 3) \/ us[i].domain = domain)
  BY <1>3 DEF IsIndex
<1> HIDE DEF domain, k
<1>8. DomainsFit(final, us) /\ ResultDomain(final, us) = domain
  <2>1. final.unit = unit /\ final.kind = op.kind /\ unit # "aloi"
    BY <1>2 DEF Op, Units
  <2>2. OperandDomain(final.unit, us) = domain
    BY <1>5, <1>6, <2>1 DEF OperandDomain
  <2>3. DomainsFit(final, us)
    BY <1>1, <1>4, <1>7, <2>1, <2>2 DEF DomainsFit, IsIndex
  <2> QED  BY <1>1, <2>1, <2>2, <2>3 DEF ResultDomain
<1>9. final.kind = op.kind /\ final.attr = op.attr
  BY <1>2 DEF Op
<1>10. Infer(final, us) # NoType
  BY <1>1, <1>3, <1>4, <1>8, <1>9, InferElsewhere
<1>11. SameButDomain(Infer(original, ts), Infer(final, us))
  BY <1>1, <1>3, <1>4, <1>9, <1>10, InferredElsewhere
<1>12. Infer(final, us).domain = domain
  <2>1. HasFields(us[1])
    BY <1>3, <1>4 DEF IsTensor
  <2> QED  BY <1>1, <1>8, <1>9, <1>10, <2>1, Inferred
<1>13. Infers(after.types, final) = Infer(final, us)
  BY <1>2 DEF Infers
<1> QED  BY <1>3, <1>10, <1>11, <1>12, <1>13 DEF SameButDomain

(* A transfer of an operand to a domain it is not in.                       *)
MovesOperand(transfer, types, op) ==
  \E value, domain :
    /\ transfer = Transfer(value, domain) /\ value \in Range(op.operands)
    /\ value \in 1..Len(types) /\ IsTensor(types[value])
    /\ domain # "none" /\ types[value].domain \notin {"none", domain}

\* The transfers of a lowering are such.
LEMMA LoweringTransfers ==
  ASSUME NEW n, NEW body, NEW op, NEW copies, NEW original, NEW ts,
         Lowerable(n, body, op, copies, original, ts),
         NEW unit, NEW ops, NEW transfers, NEW read,
         LoweringOf(ops, body.types, op, unit, copies, transfers, read)
  PROVE  \A k \in 1..Len(transfers) : MovesOperand(ops[k], body.types, op)
<1> SUFFICES ASSUME NEW k \in 1..Len(transfers) PROVE MovesOperand(ops[k], body.types, op)
  OBVIOUS
<1> DEFINE domain == OperandDomain(unit, OperandTypes(body.types, op))
<1>1. /\ WellFormed(n, body) /\ IsOp(op) /\ Reads(op, Len(body.types))
      /\ CopiesRight(body.types, copies)
  BY DEF Lowerable
<1>2. ops[k] = transfers[k] /\ \E i \in 1..Len(op.operands) :
        /\ domain # "none" /\ body.types[op.operands[i]].domain # domain
        /\ transfers[k] = Transfer(op.operands[i], domain)
  BY DEF LoweringOf
<1> HIDE DEF domain
<1>3. PICK i \in 1..Len(op.operands) :
        /\ domain # "none" /\ body.types[op.operands[i]].domain # domain
        /\ ops[k] = Transfer(op.operands[i], domain)
  BY <1>2
<1>4. op.operands[i] \in 1..Len(body.types) /\ op.operands[i] \in Range(op.operands)
  BY <1>1, FirstOperand DEF Reads, Range
<1>5. /\ IsTensor(body.types[op.operands[i]])
      /\ body.types[op.operands[i]].domain \notin {"none", domain}
  BY <1>1, <1>3, <1>4 DEF WellFormed, CopiesRight
<1> QED  BY <1>3, <1>4, <1>5 DEF MovesOperand

\* No operation of a lowering is refused.
LEMMA LoweringExtends ==
  ASSUME NEW n, NEW body, NEW op, NEW copies, NEW original, NEW ts,
         Lowerable(n, body, op, copies, original, ts),
         NEW unit \in Units, NEW ops, NEW transfers, NEW read,
         LoweringOf(ops, body.types, op, unit, copies, transfers, read),
         Appendable(ops, Len(body.types))
  PROVE  ExtendedBy(body, ops) # Broken
<1> DEFINE T == Len(transfers)
<1>1. /\ T \in Nat /\ Len(ops) = T + 1 /\ ops[Len(ops)] = Op(unit, op.kind, op.attr, read)
  BY DEF LoweringOf
<1>2. /\ WellFormed(n, body) /\ IsOp(op) /\ Reads(op, Len(body.types))
      /\ CopiesExist(copies, Len(body.types)) /\ CopiesRight(body.types, copies)
  BY DEF Lowerable
<1>4. \A k \in 1..T : MovesOperand(ops[k], body.types, op)
  BY LoweringTransfers
<1>3. ASSUME NEW m \in 1..Len(ops), NEW before, Grown(body, ops, m - 1, before),
             WellFormed(n, before)
      PROVE  Infers(before.types, ops[m]) # NoType
  <2>1. CASE m \in 1..T
    <3>1. MovesOperand(ops[m], body.types, op)
      BY <1>4, <2>1
    <3>2. PICK value, domain :
            /\ ops[m] = Transfer(value, domain)
            /\ value \in 1..Len(body.types) /\ IsTensor(body.types[value])
            /\ body.types[value].domain \notin {"none", domain}
      BY <3>1 DEF MovesOperand
    <3>3. before.types[value] = body.types[value]
      BY <1>3, <3>2 DEF Grown
    <3> QED  BY <3>2, <3>3, TransferInfers
  <2>2. CASE m = T + 1
    <3> DEFINE final == Op(unit, op.kind, op.attr, read)
               here == OperandTypes(body.types, op)
               us == OperandTypes(before.types, final)
    <3>1. m - 1 = T /\ m - 1 \in T..(T + 1) /\ ops[m] = final
      BY <1>1, <2>2
    <3>2. AfterMoves(n, body, op, unit, copies, ops, transfers, read, m - 1, before, here, us, final)
      BY <1>2, <1>3, <3>1 DEF AfterMoves
    <3> HIDE DEF final, here, us
    <3>3. Infers(before.types, final) # NoType
      BY <3>2, LoweredInfers
    <3> QED  BY <3>1, <3>3
  <2>3. m \in 1..T \/ m = T + 1
    BY <1>1
  <2> QED  BY <2>1, <2>2, <2>3
<1> QED  BY <1>2, <1>3, ExtendedByBuilds

(* What a lowering leaves: copies of the operands, and a result of type t,  *)
(* in some domain.                                                          *)
LoweringLeft(body, op, ops, transfers, after, t) ==
  /\ \A k \in 1..Len(transfers) : \E value, domain :
       /\ ops[k] = Transfer(value, domain) /\ domain # "none"
       /\ value \in Range(op.operands) /\ value \in 1..Len(body.types)
       /\ SameButDomain(after.types[Len(body.types) + k], body.types[value])
       /\ after.types[Len(body.types) + k].domain = domain
  /\ SameButDomain(after.types[Len(body.types) + Len(ops)], t)
  /\ after.types[Len(body.types) + Len(ops)].domain # "none"

\* A lowering leaves a result of the type that was inferred.
LEMMA LoweringMade ==
  ASSUME NEW n, NEW body, NEW op, NEW copies, NEW original, NEW ts,
         Lowerable(n, body, op, copies, original, ts),
         NEW unit \in Units, NEW ops, NEW transfers, NEW read,
         LoweringOf(ops, body.types, op, unit, copies, transfers, read),
         NEW after, Grown(body, ops, Len(ops), after), WellFormed(n, after),
         Appendable(ops, Len(body.types))
  PROVE  LoweringLeft(body, op, ops, transfers, after, Infer(original, ts))
<1> DEFINE T == Len(transfers)
           N == Len(body.types)
<1>1. /\ T \in Nat /\ Len(ops) = T + 1 /\ ops[Len(ops)] = Op(unit, op.kind, op.attr, read)
  BY DEF LoweringOf
<1>2. /\ WellFormed(n, body) /\ IsOp(op) /\ Reads(op, Len(body.types))
      /\ CopiesExist(copies, Len(body.types)) /\ CopiesRight(body.types, copies)
  BY DEF Lowerable
<1>5. \A k \in 1..T : MovesOperand(ops[k], body.types, op)
  BY LoweringTransfers
<1>3. ASSUME NEW k \in 1..T
      PROVE  \E value, domain :
               /\ ops[k] = Transfer(value, domain) /\ domain # "none"
               /\ value \in Range(op.operands) /\ value \in 1..N
               /\ SameButDomain(after.types[N + k], body.types[value])
               /\ after.types[N + k].domain = domain
  <2>1. PICK value, domain :
          /\ ops[k] = Transfer(value, domain) /\ value \in Range(op.operands)
          /\ value \in 1..N /\ domain # "none"
          /\ body.types[value].domain \notin {"none", domain}
    BY <1>5 DEF MovesOperand
  <2>2. k \in 1..Len(ops) /\ Len(ops) \in Nat
    BY <1>1
  <2>3. /\ SameButDomain(after.types[N + k], body.types[value])
        /\ after.types[N + k].domain = domain
    BY <1>2, <2>1, <2>2, TransferMade
  <2> QED  BY <2>1, <2>3
<1>4. /\ SameButDomain(after.types[N + Len(ops)], Infer(original, ts))
      /\ after.types[N + Len(ops)].domain # "none"
  <2> DEFINE final == Op(unit, op.kind, op.attr, read)
             here == OperandTypes(body.types, op)
             us == OperandTypes(after.types, final)
             m == Len(ops)
  <2>1. m \in T..(T + 1) /\ ops[m] = final /\ m \in 1..m
    BY <1>1
  <2>2. AfterMoves(n, body, op, unit, copies, ops, transfers, read, m, after, here, us, final)
    BY <1>2, <2>1 DEF AfterMoves
  <2>3. after.types[N + m] = Infers(after.types, final)
    BY <2>1 DEF Grown
  <2> HIDE DEF final, here, us, m
  <2>4. /\ SameButDomain(Infers(after.types, final), Infer(original, ts))
        /\ Infers(after.types, final).domain # "none"
    BY <2>2, LoweredInfers
  <2> QED  BY <2>3, <2>4 DEF m
<1> QED  BY <1>3, <1>4 DEF LoweringLeft

(* What stands for a value on the device is the value, in some domain.      *)
OnDevice ==
  mode = "rebuild" /\ Pass = "lower" =>
    /\ CopiesRight(built.types, moved)
    /\ \A v \in 1..(function.arguments + next - 1) :
         SameButDomain(built.types[renamed[v]], function.types[v])

\* An operation on other operands is the same otherwise.
LEMMA RenewedFields ==
  ASSUME NEW op, IsOp(op), NEW new, NEW r, r = [op EXCEPT !.operands = [i \in DOMAIN @ |-> new[@[i]]]]
  PROVE  /\ r.unit = op.unit /\ r.kind = op.kind /\ r.attr = op.attr
         /\ r.operands = [i \in 1..Len(op.operands) |-> new[op.operands[i]]]
         /\ Len(r.operands) = Len(op.operands)
<1> DEFINE n == Len(op.operands)
           read == [i \in 1..n |-> new[op.operands[i]]]
<1>1. op = Op(op.unit, op.kind, op.attr, op.operands) /\ n \in Nat /\ DOMAIN op.operands = 1..n
  BY DEF IsOp, IsListing
<1>2. r = [op EXCEPT !.operands = read]
  BY <1>1
<1>3. read = [i \in 1..n |-> read[i]]
  OBVIOUS
<1>4. Len(read) = n
  <2> HIDE DEF read, n
  <2> QED  BY <1>1, <1>3, FunctionListing
<1> HIDE DEF read
<1>5. DOMAIN op = {"unit", "kind", "attr", "operands"}
  BY <1>1 DEF Op
<1>6. r.unit = op.unit /\ r.kind = op.kind /\ r.attr = op.attr /\ r.operands = read
  BY <1>2, <1>5
<1> QED  BY <1>4, <1>6 DEF read, n

\* The current operation can be lowered, on the values that stand for its operands.
LEMMA CurrentLowerable ==
  ASSUME PassesInv, OnDevice, mode = "rebuild", Pass = "lower", MoreOps,
         Current.kind # "transfer", NEW ts, ts = OperandTypes(function.types, Current)
  PROVE  /\ HasOperands
         /\ Lowerable(function.arguments, built, Renewed, moved, Current, ts)
         /\ function.types[Defines] = Infer(Current, ts)
<1> DEFINE k == Len(Current.operands)
           us == OperandTypes(built.types, Renewed)
<1>1. FunctionOK(function) /\ RebuildOK /\ AllRenamed /\ HasOperands
  BY AllRenamedOperands DEF PassesInv, InProgress
<1>2. /\ IsOp(Current) /\ Reads(Current, Defines - 1) /\ next \in 1..Len(function.ops)
      /\ function.arguments \in Nat /\ Len(function.ops) \in Nat
      /\ Defines \in 1..Len(function.types) /\ Len(built.types) \in Nat
  BY <1>1, CurrentOperation
<1>3. /\ IsOp(Renewed) /\ Reads(Renewed, Len(built.types))
      /\ CopiesExist(moved, Len(built.types)) /\ WellFormed(function.arguments, built)
  BY <1>1, RenewedReads DEF RebuildOK
<1>4. /\ Renewed.kind = Current.kind /\ Renewed.attr = Current.attr
      /\ Renewed.operands = [i \in 1..k |-> renamed[Current.operands[i]]]
      /\ Len(Renewed.operands) = k
  BY <1>2, RenewedFields DEF Renewed
<1>5. k \in Nat \ {0} /\ DOMAIN Current.operands = 1..k
  BY <1>2, FirstOperand
<1>6. ts = [i \in 1..k |-> function.types[Current.operands[i]]]
  BY <1>5 DEF OperandTypes
<1>7. us = [i \in 1..k |-> built.types[renamed[Current.operands[i]]]]
  BY <1>4 DEF OperandTypes
<1>8. ASSUME NEW i \in 1..k
      PROVE  IsTensor(ts[i]) /\ SameButDomain(ts[i], us[i])
  <2>1. Current.operands[i] \in 1..(Defines - 1) /\ Defines - 1 = function.arguments + next - 1
    BY <1>2 DEF Reads, Defines
  <2>2. SameButDomain(built.types[renamed[Current.operands[i]]], function.types[Current.operands[i]])
    BY <2>1 DEF OnDevice
  <2>3. Current.operands[i] \in 1..Len(function.types)
    <3>1. Len(function.types) \in Nat
      BY <1>1 DEF FunctionOK, WellFormed, IsListing
    <3>2. Defines - 1 \in Nat /\ Defines - 1 <= Len(function.types)
      BY <1>2, <3>1
    <3> QED  BY <2>1, <3>1, <3>2
  <2>4. IsTensor(function.types[Current.operands[i]])
    BY <1>1, <2>3 DEF FunctionOK, WellFormed
  <2>5. ts[i] = function.types[Current.operands[i]]
    BY <1>6
  <2>6. us[i] = built.types[renamed[Current.operands[i]]]
    BY <1>7
  <2> HIDE DEF us, k
  <2> QED  BY <2>2, <2>4, <2>5, <2>6 DEF SameButDomain
<1>9. Len(ts) = k /\ Len(us) = k
  <2>1. ts = [i \in 1..k |-> ts[i]] /\ us = [i \in 1..k |-> us[i]]
    BY <1>6, <1>7
  <2> HIDE DEF k, us
  <2> QED  BY <1>5, <2>1, FunctionListing
<1>10. Elsewhere(ts, us, k)
  <2> HIDE DEF us, k
  <2> QED  BY <1>5, <1>6, <1>7, <1>8, <1>9 DEF Elsewhere
<1>11. function.types[Defines] = Infer(Current, ts) /\ Infer(Current, ts) # NoType
  <2>1. function.types[Defines] = Infers(function.types, Current)
    BY <1>1, <1>2 DEF FunctionOK, WellFormed, Current, Defines
  <2>2. IsTensor(function.types[Defines])
    BY <1>1, <1>2 DEF FunctionOK, WellFormed
  <2> QED  BY <2>1, <2>2, TensorIsAType DEF Infers
<1>12. CopiesRight(built.types, moved)
  BY DEF OnDevice
<1> HIDE DEF k, us
<1>13. Lowerable(function.arguments, built, Renewed, moved, Current, ts)
  BY <1>3, <1>4, <1>8, <1>10, <1>11, <1>12 DEF Lowerable, us
<1> QED  BY <1>1, <1>11, <1>13

\* Stand-ins are the tensors, in the domain where the operation is tried.
LEMMA StandInsElsewhere ==
  ASSUME NEW op, NEW unit, NEW ts, NEW k \in Nat \ {0}, DOMAIN ts = 1..k, Len(ts) = k,
         \A i \in 1..k : IsTensor(ts[i])
  PROVE  /\ Elsewhere(ts, StandIns(op, unit, ts), k)
         /\ \A i \in 1..k : IsTensor(StandIns(op, unit, ts)[i])
<1> DEFINE us == StandIns(op, unit, ts)
           domain == OperandDomain(unit, <<AtHome(ts[1])>>)
<1>1. us = [i \in 1..k |-> IF IsIndex(op, i) THEN AtHome(ts[i])
                           ELSE [ts[i] EXCEPT !.domain = domain]]
  BY DEF StandIns
<1> HIDE DEF us, domain
<1>2. ASSUME NEW i \in 1..k
      PROVE  SameButDomain(ts[i], us[i]) /\ IsTensor(us[i])
  <2>1. /\ IsTensor(AtHome(ts[i])) /\ SameButDomain(AtHome(ts[i]), ts[i])
    BY AtHomeTensor
  <2>2. /\ IsTensor([ts[i] EXCEPT !.domain = domain])
        /\ SameButDomain([ts[i] EXCEPT !.domain = domain], ts[i])
    BY ElsewhereTensor DEF IsTensor
  <2>3. us[i] = AtHome(ts[i]) \/ us[i] = [ts[i] EXCEPT !.domain = domain]
    BY <1>1
  <2> QED  BY <2>1, <2>2, <2>3 DEF SameButDomain
<1>3. us = [i \in 1..k |-> us[i]]
  BY <1>1
<1>4. Len(us) = k /\ DOMAIN us = 1..k
  BY <1>3, FunctionListing
<1> QED  BY <1>2, <1>4 DEF Elsewhere, us

\* A target that runs an operation on one type runs it on the same elsewhere.
LEMMA SupportedElsewhere ==
  ASSUME NEW device, NEW op, NEW other, NEW t, NEW u, Supports(device, op, t),
         other.unit = op.unit, other.kind = op.kind, other.attr = op.attr,
         Len(other.operands) = Len(op.operands), t.dtype = u.dtype
  PROVE  Supports(device, other, u)
BY DEF Supports

\* Where the trial finds a unit and the operands can be moved, there is a lowering.
LEMMA DirectLowers ==
  ASSUME PassesInv, OnDevice, mode = "rebuild", Pass = "lower", MoreOps,
         HasDirect(source.device, Current, OperandTypes(function.types, Current)),
         CanTransfer(Current)
  PROVE  Lowerings(source.device, built, Renewed, moved) # {}
<1> DEFINE ts == OperandTypes(function.types, Current)
           k == Len(Current.operands)
           N == Len(built.types)
           n == function.arguments
<1>1. PICK unit \in Implementations(Current) :
        Builds(source.device, OnUnit(Current, unit), StandIns(Current, unit, ts))
  BY DEF HasDirect
<1>2. /\ unit \in Units /\ Current.kind \in Implemented[unit] /\ Current.kind # "transfer"
  BY DEF Implementations, Implemented, Units, ViewKinds
<1>3. /\ HasOperands /\ Lowerable(n, built, Renewed, moved, Current, ts)
  BY <1>2, CurrentLowerable
<1>4. FunctionOK(function) /\ RebuildOK
  BY DEF PassesInv, InProgress
<1>5. IsOp(Current) /\ Renewed.kind = Current.kind /\ Renewed.attr = Current.attr
      /\ Renewed.operands = [i \in 1..k |-> renamed[Current.operands[i]]]
      /\ Len(Renewed.operands) = k
  BY <1>4, CurrentOperation, RenewedFields DEF Renewed
<1> DEFINE ops == Lowering(built.types, Renewed, unit, moved)
           after == ExtendedBy(built, ops)
           trial == Infer(OnUnit(Current, unit), StandIns(Current, unit, ts))
           t == Infer(Current, ts)
<1>6. /\ IsOp(Renewed) /\ Reads(Renewed, N) /\ N \in Nat /\ CopiesExist(moved, N)
      /\ WellFormed(n, built)
  BY <1>3, <1>4, CurrentOperation DEF Lowerable
<1>7. LoweredTo(ops, built.types, Renewed, unit, moved)
  BY <1>6, LoweringOps DEF IsOp
<1> HIDE DEF ts, ops
<1>8. Appendable(ops, N)
  BY <1>6, <1>7, LoweringAppendable
<1>9. PICK transfers, read : LoweringOf(ops, built.types, Renewed, unit, moved, transfers, read)
  BY <1>6, <1>7, LoweringParts
<1>10. after # Broken
  BY <1>2, <1>3, <1>8, <1>9, LoweringExtends
<1>11. Grown(built, ops, Len(ops), after) /\ WellFormed(n, after)
  BY <1>6, <1>8, <1>10, ExtendedByGrows
<1> HIDE DEF after
<1>12. LoweringLeft(built, Renewed, ops, transfers, after, t)
  BY <1>2, <1>3, <1>8, <1>9, <1>11, LoweringMade
<1>13. SameButDomain(t, trial)
  <2>1. /\ k \in Arity(Current.kind) /\ Current.kind \in Kinds
        /\ \A i \in 1..k : IsTensor(ts[i])
        /\ Infer(Current, ts) # NoType
        /\ k \in Nat \ {0} /\ DOMAIN ts = 1..k /\ Len(ts) = k
    BY <1>3, <1>5 DEF Lowerable, Elsewhere, IsOp
  <2>2. OnUnit(Current, unit).kind = Current.kind /\ OnUnit(Current, unit).attr = Current.attr
    BY <1>5 DEF OnUnit, IsOp, Op
  <2>3. /\ Elsewhere(ts, StandIns(Current, unit, ts), k)
        /\ \A i \in 1..k : IsTensor(StandIns(Current, unit, ts)[i])
    BY <2>1, StandInsElsewhere
  <2>4. trial # NoType
    BY <1>1 DEF Builds
  <2> HIDE DEF k
  <2> QED  BY <2>1, <2>2, <2>3, <2>4, InferredElsewhere
<1> HIDE DEF trial, t
<1>14. ASSUME NEW j \in 1..Len(transfers)
       PROVE  Supports(source.device, ops[j], after.types[N + j])
  <2>1. PICK value, domain :
          /\ ops[j] = Transfer(value, domain) /\ value \in Range(Renewed.operands)
          /\ SameButDomain(after.types[N + j], built.types[value])
    BY <1>12 DEF LoweringLeft
  <2>2. PICK i \in 1..k : value = renamed[Current.operands[i]]
    BY <1>5, <2>1 DEF Range
  <2>3. SameButDomain(built.types[value], function.types[Current.operands[i]])
    <3>1. Current.operands[i] \in 1..(Defines - 1) /\ Defines - 1 = n + next - 1
      BY <1>4, CurrentOperation DEF Reads, Defines
    <3> QED  BY <2>2, <3>1 DEF OnDevice
  <2>4. function.types[Current.operands[i]].dtype \in source.device.dtypes
        /\ <<"device", "transfer">> \in source.device.ops
    BY <1>5, FirstOperand DEF CanTransfer, Range
  <2>5. after.types[N + j].dtype \in source.device.dtypes
    BY <2>1, <2>3, <2>4 DEF SameButDomain
  <2>6. ops[j].kind = "transfer" /\ ops[j].unit = "device"
    BY <2>1, TransferOperation
  <2> QED  BY <2>4, <2>5, <2>6 DEF Supports
<1>15. Supports(source.device, ops[Len(ops)], after.types[N + Len(ops)])
  <2>1. Supports(source.device, OnUnit(Current, unit), trial)
    BY <1>1 DEF Builds, trial
  <2>2. OnUnit(Current, unit).unit = unit /\ OnUnit(Current, unit).kind = Current.kind
        /\ OnUnit(Current, unit).attr = Current.attr
        /\ OnUnit(Current, unit).operands = Current.operands
    BY <1>5 DEF OnUnit, IsOp, Op
  <2>3. ops[Len(ops)] = Op(unit, Renewed.kind, Renewed.attr, read) /\ Len(read) = k
    BY <1>5, <1>9 DEF LoweringOf
  <2>4. /\ ops[Len(ops)].unit = unit /\ ops[Len(ops)].kind = Current.kind
        /\ ops[Len(ops)].attr = Current.attr /\ Len(ops[Len(ops)].operands) = k
    BY <1>5, <2>3 DEF Op
  <2>5. trial.dtype = after.types[N + Len(ops)].dtype
    BY <1>12, <1>13 DEF LoweringLeft, SameButDomain
  <2> QED  BY <2>1, <2>2, <2>4, <2>5, SupportedElsewhere
<1>16. \A j \in DOMAIN ops : Supports(source.device, ops[j], after.types[N + j])
  <2>1. DOMAIN ops = 1..Len(ops) /\ Len(transfers) \in Nat /\ Len(ops) = Len(transfers) + 1
    BY <1>8, <1>9, ListingDomain DEF LoweringOf, Appendable
  <2>2. \A j \in 1..Len(ops) : j \in 1..Len(transfers) \/ j = Len(ops)
    BY <2>1
  <2> HIDE DEF N
  <2> QED  BY <1>14, <1>15, <2>1, <2>2
<1>17. Feasible(source.device, built, ops)
  BY <1>10, <1>16 DEF Feasible, after
<1>18. unit \in Implementations(Renewed)
  BY <1>5 DEF Implementations
<1>19. ops \in Lowerings(source.device, built, Renewed, moved)
  BY <1>17, <1>18 DEF Lowerings, ops
<1> QED  BY <1>19

\* Lowering an operation keeps what stands for the values.
LEMMA LowerStaysOnDevice ==
  ASSUME PassesInv, OnDevice, LowerOp, ~Stop("refused")
  PROVE  OnDevice'
<1> DEFINE N == Len(built.types)
           n == function.arguments
           ts == OperandTypes(function.types, Current)
<1>1. PICK ops :
        /\ \E unit \in Implementations(Renewed) :
             LoweredTo(ops, built.types, Renewed, unit, moved)
        /\ Emit(ops, Recorded(moved, ops, N))
  BY LoweringTaken
<1>2. PICK unit \in Implementations(Renewed) :
        LoweredTo(ops, built.types, Renewed, unit, moved)
  BY <1>1
<1>3. mode = "rebuild" /\ Pass = "lower" /\ MoreOps
  BY DEF LowerOp, Rewriting
<1>4. FunctionOK(function) /\ RebuildOK /\ HasOperands
  BY <1>1, <1>3 DEF PassesInv, InProgress, Emit
<1>5. /\ IsOp(Current) /\ next \in 1..Len(function.ops) /\ Len(function.ops) \in Nat
      /\ n \in Nat /\ N \in Nat /\ Defines \in ValuesOf(function)
      /\ ValuesOf(function) = 1..Len(function.types)
  BY <1>3, <1>4, CurrentOperation
<1>6. Renewed.kind = Current.kind
  BY <1>5, RenewedFields DEF Renewed
<1>7. unit \in Units /\ Current.kind # "transfer"
  BY <1>6 DEF Implementations, Implemented, Units, ViewKinds
<1>8. /\ Lowerable(n, built, Renewed, moved, Current, ts)
      /\ function.types[Defines] = Infer(Current, ts)
  BY <1>3, <1>7, CurrentLowerable
<1>9. /\ IsOp(Renewed) /\ Reads(Renewed, N) /\ CopiesExist(moved, N) /\ WellFormed(n, built)
      /\ CopiesRight(built.types, moved)
  BY <1>8 DEF Lowerable
<1> HIDE DEF ts
<1>10. Appendable(ops, N) /\ FreshMoves(ops, moved)
  BY <1>2, <1>5, <1>9, LoweringAppendable, LoweringMovesFresh
<1>11. Grown(built, ops, Len(ops), built') /\ WellFormed(n, built')
  BY <1>1, <1>3, <1>4, <1>10, EmitGrows
<1>12. PICK transfers, read : LoweringOf(ops, built.types, Renewed, unit, moved, transfers, read)
  BY <1>2, <1>9, LoweringParts
<1>13. LoweringLeft(built, Renewed, ops, transfers, built', Infer(Current, ts))
  <2> DEFINE after == built'
  <2>1. Grown(built, ops, Len(ops), after) /\ WellFormed(n, after)
    BY <1>11
  <2> HIDE DEF after
  <2>2. LoweringLeft(built, Renewed, ops, transfers, after, Infer(Current, ts))
    BY <1>7, <1>8, <1>10, <1>12, <2>1, LoweringMade
  <2> QED  BY <2>2 DEF after
<1> DEFINE m == Len(ops)
           T == Len(transfers)
<1>14. /\ T \in Nat /\ m = T + 1 /\ DOMAIN ops = 1..m /\ m \in Nat
       /\ ops[m].kind # "transfer"
       /\ Len(built'.types) = N + m
       /\ \A v \in 1..N : built'.types[v] = built.types[v]
  BY <1>10, <1>11, <1>12 DEF LoweringOf, FreshMoves, IsListing, Grown
<1>15. /\ moved' = Recorded(moved, ops, N) /\ next' = next + 1 /\ function' = function
       /\ renamed' = [renamed EXCEPT ![Defines] = N + m]
  BY <1>1 DEF Emit
<1>16. ASSUME NEW v \in 1..(N + m)
       PROVE  built'.types[v].domain # "none"
  <2>1. CASE v \in 1..N
    BY <1>9, <1>14, <2>1 DEF CopiesRight
  <2>2. CASE v - N \in 1..T /\ v = N + (v - N)
    <3>1. \E domain : domain # "none" /\ built'.types[N + (v - N)].domain = domain
      BY <1>13, <2>2 DEF LoweringLeft
    <3> QED  BY <2>2, <3>1
  <2>3. CASE v = N + m
    <3>1. built'.types[N + m].domain # "none"
      BY <1>13 DEF LoweringLeft
    <3> QED  BY <2>3, <3>1
  <2>4. v \in 1..N \/ (v - N \in 1..T /\ v = N + (v - N)) \/ v = N + m
    <3>1. N \in Nat /\ T \in Nat /\ m = T + 1 /\ v \in 1..(N + m)
      BY <1>5, <1>14
    <3> HIDE DEF N, m, T
    <3> QED  BY <3>1
  <2> QED  BY <2>1, <2>2, <2>3, <2>4
<1>17. \A v \in 1..N : v \in 1..(N + m)
  <2>1. N \in Nat /\ m \in Nat
    BY <1>5, <1>14
  <2> HIDE DEF N, m
  <2> QED  BY <2>1
<1>18. ASSUME NEW c \in DOMAIN moved'
       PROVE  /\ c[1] \in 1..(N + m)
              /\ SameButDomain(built'.types[moved'[c]], built'.types[c[1]])
              /\ built'.types[moved'[c]].domain = c[2]
  <2> DEFINE Copies == {j \in DOMAIN ops : ops[j].kind = "transfer"}
             Made == {j \in Copies : CopyOf(ops[j]) = c}
  <2>1. moved' = [copy \in DOMAIN moved \cup {CopyOf(ops[j]) : j \in Copies} |->
                    IF copy \in {CopyOf(ops[j]) : j \in Copies}
                    THEN N + Max({j \in Copies : CopyOf(ops[j]) = copy})
                    ELSE moved[copy]]
    BY <1>15 DEF Recorded
  <2>2. CASE c \in {CopyOf(ops[j]) : j \in Copies}
    <3>1. moved'[c] = N + Max(Made)
      BY <2>1, <2>2
    <3>2. Made \subseteq 1..m /\ Made # {}
      BY <1>14, <2>2
    <3>3. Max(Made) \in Made
      <4> HIDE DEF Made, m
      <4> QED  BY <1>14, <3>2, MaxIn
    <3>4. PICK j \in 1..m : moved'[c] = N + j /\ ops[j].kind = "transfer" /\ CopyOf(ops[j]) = c
      BY <1>14, <3>1, <3>3
    <3>5. j \in 1..T
      BY <1>14, <3>4
    <3>6. PICK value, domain :
            /\ ops[j] = Transfer(value, domain) /\ value \in 1..N
            /\ SameButDomain(built'.types[N + j], built.types[value])
            /\ built'.types[N + j].domain = domain
      BY <1>13, <3>5 DEF LoweringLeft
    <3>7. c = <<value, domain>>
      BY <3>4, <3>6, TransferOperation
    <3>8. c[1] = value /\ c[2] = domain
      <4>1. <<value, domain>>[1] = value /\ <<value, domain>>[2] = domain
        OBVIOUS
      <4> QED  BY <3>7, <4>1, Zenon
    <3>9. c[1] \in 1..(N + m)
      BY <1>17, <3>6, <3>8
    <3> QED  BY <1>14, <3>4, <3>6, <3>8, <3>9
  <2>3. CASE c \notin {CopyOf(ops[j]) : j \in Copies}
    <3>1. c \in DOMAIN moved /\ moved'[c] = moved[c]
      BY <2>1, <2>3
    <3> HIDE DEF Copies
    <3>2. /\ c[1] \in 1..N /\ moved[c] \in 1..N
          /\ SameButDomain(built.types[moved[c]], built.types[c[1]])
          /\ built.types[moved[c]].domain = c[2]
      <4>1. moved[c] \in 1..N
        BY <1>9, <3>1 DEF CopiesExist
      <4>2. /\ c[1] \in 1..N
            /\ SameButDomain(built.types[moved[c]], built.types[c[1]])
            /\ built.types[moved[c]].domain = c[2]
        BY <1>9, <3>1 DEF CopiesRight
      <4> QED  BY <4>1, <4>2
    <3>3. c[1] \in 1..(N + m)
      BY <1>17, <3>2
    <3> QED  BY <1>14, <3>1, <3>2, <3>3
  <2> QED  BY <2>2, <2>3
<1>19. CopiesRight(built'.types, moved')
  BY <1>14, <1>16, <1>18 DEF CopiesRight
<1>20. ASSUME NEW v \in 1..(function'.arguments + next' - 1)
       PROVE  SameButDomain(built'.types[renamed'[v]], function'.types[v])
  <2>1. function'.arguments + next' - 1 = Defines
    BY <1>5, <1>15 DEF Defines
  <2>2. v \in ValuesOf(function)
    BY <1>5, <2>1
  <2>3. CASE v = Defines
    <3>1. renamed'[v] = N + m
      BY <1>4, <1>15, <2>2, <2>3 DEF RebuildOK
    <3>2. SameButDomain(built'.types[N + m], function.types[v])
      BY <1>8, <1>13, <2>3 DEF LoweringLeft
    <3> QED  BY <1>15, <3>1, <3>2
  <2>4. CASE v # Defines
    <3>1. v \in 1..(n + next - 1)
      BY <1>5, <2>1, <2>4 DEF Defines
    <3>2. renamed'[v] = renamed[v]
      BY <1>4, <1>15, <2>2, <2>4 DEF RebuildOK
    <3>3. SameButDomain(built.types[renamed[v]], function.types[v])
      BY <1>3, <3>1 DEF OnDevice
    <3>4. renamed[v] \in 1..N
      <4>1. renamed[v] # 0
        BY <1>3, <3>1 DEF PassesInv, InProgress, AllRenamed
      <4>2. renamed[v] \in 0..N
        BY <1>4, <2>2 DEF RebuildOK
      <4> QED  BY <1>5, <4>1, <4>2
    <3> QED  BY <1>14, <1>15, <3>2, <3>3, <3>4
  <2> QED  BY <2>3, <2>4
<1> QED  BY <1>19, <1>20 DEF OnDevice

\* So does a step that is not a lowering.
LEMMA OthersStayOnDevice ==
  ASSUME PassesInv, OnDevice, [Next]_vars, ~LowerOp \/ Stop("refused")
  PROVE  OnDevice'
<1> USE DEF OnDevice
<1>1. CASE BeginLower
  <2> DEFINE n == function.arguments
             types == [a \in 1..n |-> AtHome(function.types[a])]
  <2>1. /\ built' = [types |-> types, ops |-> <<>>] /\ moved' = <<>> /\ next' = 1
        /\ renamed' = [v \in ValuesOf(function) |-> IF v <= n THEN v ELSE 0]
        /\ function' = function /\ mode # "import"
    BY <1>1 DEF BeginLower, Rebuild
  <2>2. FunctionOK(function) /\ n \in Nat /\ Len(function.ops) \in Nat
    BY <2>1 DEF PassesInv, InProgress, FunctionOK, WellFormed, IsListing
  <2>3. \A a \in 1..n : IsTensor(function.types[a])
    BY <2>2, ArgumentTypesListing
  <2>4. types = [a \in 1..n |-> types[a]]
    OBVIOUS
  <2>5. \A a \in 1..n : /\ SameButDomain(types[a], function.types[a])
                        /\ types[a].domain # "none"
    BY <2>3, AtHomeTensor
  <2> HIDE DEF types
  <2>6. Len(types) = n /\ built'.types = types
    BY <2>1, <2>2, <2>4, FunctionListing
  <2>7. DOMAIN moved' = {}
    BY <2>1
  <2>8. CopiesRight(built'.types, moved')
    BY <2>5, <2>6, <2>7 DEF CopiesRight
  <2>9. ASSUME NEW v \in 1..(function'.arguments + next' - 1)
        PROVE  SameButDomain(built'.types[renamed'[v]], function'.types[v])
    <3>1. v \in 1..n /\ v \in ValuesOf(function) /\ v <= n
      BY <2>1, <2>2 DEF ValuesOf
    <3>2. renamed'[v] = v
      BY <2>1, <3>1
    <3> QED  BY <2>1, <2>5, <2>6, <3>1, <3>2
  <2> QED  BY <2>8, <2>9
<1>2. CASE mode' # "rebuild" \/ Pass' # "lower"
  BY <1>2
<1>3. CASE UNCHANGED <<source, function, at, mode, next, renamed, built, moved>>
  BY <1>3 DEF Pass
<1> QED  BY <1>1, <1>2, <1>3, OutsideLowering

\* The trial that decides against decomposing an operation is kept: it is lowered
\* to a device op of its own (legalize/lower.py _has_direct_implementation).
THEOREM DirectOpsLowered == Spec => []DirectOpsAreLowered
<1>1. Init => OnDevice /\ DirectOpsAreLowered
  BY DEF Init, OnDevice, DirectOpsAreLowered
<1>2. PassesInv /\ OnDevice /\ [Next]_vars => OnDevice'
  BY LowerStaysOnDevice, OthersStayOnDevice
<1>3. PassesInv /\ OnDevice /\ DirectOpsAreLowered /\ [Next]_vars => DirectOpsAreLowered'
  <2> SUFFICES ASSUME PassesInv, OnDevice, DirectOpsAreLowered, [Next]_vars
               PROVE  DirectOpsAreLowered'
    OBVIOUS
  <2>1. CASE LowerOp
    <3>1. status = "running" /\ mode = "rebuild" /\ Pass = "lower" /\ MoreOps
      BY <2>1 DEF LowerOp, Rewriting
    <3>2. CASE Lowerings(source.device, built, Renewed, moved) = {} /\ Stop("refused")
      <4>1. \/ ~HasDirect(source.device, Current, OperandTypes(function.types, Current))
            \/ ~CanTransfer(Current)
        BY <3>1, <3>2, DirectLowers
      <4>2. source' = source /\ function' = function /\ next' = next
        BY <3>2 DEF Stop
      <4> QED  BY <4>1, <4>2 DEF DirectOpsAreLowered, Current, CanTransfer
    <3>3. CASE status' = status
      BY <3>1, <3>3 DEF DirectOpsAreLowered
    <3> QED  BY <2>1, <3>2, <3>3 DEF LowerOp, Emit
  <2>2. CASE status # "running" /\ UNCHANGED vars
    BY <2>2 DEF vars, DirectOpsAreLowered, Current, CanTransfer, Pass
  <2>3. CASE UNCHANGED vars
    BY <2>3 DEF vars, DirectOpsAreLowered, Current, CanTransfer, Pass
  <2>4. CASE status' # "refused" \/ mode' # "rebuild" \/ Pass' # "lower"
    BY <2>4 DEF DirectOpsAreLowered
  <2>5. CASE Import \/ RefuseImport \/ BeginAnnotate \/ RefuseAnnotations \/ AnnotateOp \/ EndAnnotate
             \/ BeginShard \/ RefusePlan \/ ShardOp \/ EndShard
    <3>1. status = "running" /\ (mode \in {"import", "between"} \/ Pass # "lower")
      BY <2>5 DEF Import, RefuseImport, BeginAnnotate, RefuseAnnotations, AnnotateOp, EndAnnotate,
                  BeginShard, RefusePlan, ShardOp, EndShard, Rewriting
    <3>2. \/ status' = status
          \/ status' \in {"done", "running"}
          \/ (source' = source /\ at' = at /\ mode' = mode)
      BY <2>5 DEF Import, RefuseImport, BeginAnnotate, RefuseAnnotations, AnnotateOp, EndAnnotate,
                  BeginShard, RefusePlan, ShardOp, EndShard, Returns, Rebuild, Emit, RefuseOp, Stop
    <3> QED  BY <2>4, <3>1, <3>2 DEF Pass
  <2>6. CASE BeginRounds \/ RefuseDevice \/ NextRound \/ DecomposeOp \/ EndRound \/ EndDecompose
             \/ BeginLower \/ EndLower \/ PlaceResults
    <3>1. status = "running"
          /\ (mode # "rebuild" \/ status' = status)
      BY <2>6 DEF BeginRounds, RefuseDevice, NextRound, DecomposeOp, EndRound, EndDecompose,
                  BeginLower, EndLower, PlaceResults, Rewriting
    <3>2. \/ status' = status
          \/ status' \in {"done", "running"}
          \/ (source' = source /\ at' = at /\ mode' = mode)
      BY <2>6 DEF BeginRounds, RefuseDevice, NextRound, DecomposeOp, EndRound, EndDecompose,
                  BeginLower, EndLower, PlaceResults, Returns, Rebuild, Emit, RefuseOp, Stop
    <3> QED  BY <2>4, <3>1, <3>2
  <2>7. CASE BeginFuse \/ NothingToFuse \/ FuseChain \/ MissFusionOperand \/ SkipConsumed
             \/ KeepOp \/ EndFuse
    <3>1. status = "running" /\ Pass # "lower"
      BY <2>7 DEF BeginFuse, NothingToFuse, FuseChain, MissFusionOperand, SkipConsumed, KeepOp,
                  EndFuse, Rewriting
    <3>2. \/ status' = status
          \/ status' \in {"done", "running"}
          \/ (source' = source /\ at' = at /\ mode' = mode)
      BY <2>7 DEF BeginFuse, NothingToFuse, FuseChain, MissFusionOperand, SkipConsumed, KeepOp,
                  EndFuse, Returns, Rebuild, Emit, FuseInto, Stop
    <3> QED  BY <2>4, <3>1, <3>2 DEF Pass
  <2> QED  BY <2>1, <2>2, <2>3, <2>5, <2>6, <2>7 DEF Next, Settled
<1> QED  BY <1>1, <1>2, <1>3, PassesAreWellFormed, PTL DEF Spec
=============================================================================
