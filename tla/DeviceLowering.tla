--------------------------- MODULE DeviceLowering ---------------------------
(***************************************************************************)
(* Replacing one operation by others: the decompositions of the semantic   *)
(* ops, and the device op and transfers that LowerToDevice picks           *)
(* (legalize/lower.py, device/spec.py).                                    *)
(*                                                                         *)
(* A function is [arguments, types, ops, returns]: its values are numbered *)
(* from 1, the arguments first, and operation i defines value              *)
(* arguments + i.  A body under construction is the part [types, ops].     *)
(*                                                                         *)
(* A device is [ops, dtypes, pim_activations, pnm_activations, bias]; ops  *)
(* holds the pairs <<unit, kind>> it runs, each for every one of dtypes.   *)
(***************************************************************************)
EXTENDS SemanticOps

Broken == [types |-> <<NoType>>, ops |-> <<>>]

OperandTypes(types, op) == [i \in DOMAIN op.operands |-> types[op.operands[i]]]

Infers(types, op) == Infer(op, OperandTypes(types, op))

(* An operation appended to a body; Broken when it was refused. *)
Extended(body, op) ==
  IF body = Broken \/ Infers(body.types, op) = NoType THEN Broken
  ELSE [types |-> Append(body.types, Infers(body.types, op)), ops |-> Append(body.ops, op)]

ExtendedBy(body, ops) ==
  LET after[k \in 0..Len(ops)] ==
        IF k = 0 THEN body ELSE Extended(after[k - 1], ops[k])
  IN  after[Len(ops)]

-----------------------------------------------------------------------------
(* Decomposable ops.  Operation k of a decomposition defines value last + k. *)

Decomposable(op) ==
  \/ op.unit = "aloi" /\ op.kind = "softmax"
  \/ op.unit = "aloi" /\ op.kind = "activation" /\ op.attr = <<"silu">>

SiluParts(x, last) ==
  <<Op("aloi", "activation", <<"sigmoid">>, <<x>>),
    Op("aloi", "mul", <<>>, <<x, last + 1>>)>>

SoftmaxParts(x, t, last) ==
  LET rows == <<Last(t.shape), IF Annotated(t) THEN Last(t.axes) ELSE <<>>>>
  IN  <<Op("aloi", "reduce_max", <<>>, <<x>>),
        Op("aloi", "broadcast", rows, <<last + 1>>),
        Op("aloi", "sub", <<>>, <<x, last + 2>>),
        Op("aloi", "exp", <<>>, <<last + 3>>),
        Op("aloi", "reduce_sum", <<>>, <<last + 4>>),
        Op("aloi", "broadcast", rows, <<last + 5>>),
        Op("aloi", "div", <<>>, <<last + 4, last + 6>>)>>

Decomposed(types, op) ==
  LET x == op.operands[1]
  IN  IF op.kind = "softmax" THEN SoftmaxParts(x, types[x], Len(types))
      ELSE SiluParts(x, Len(types))

-----------------------------------------------------------------------------
(* The device ops that implement a semantic op, and whether the target runs *)
(* them.                                                                    *)

Implemented ==
  [pim |-> {"linear", "mul", "activation", "gqa_qk", "gqa_sv", "kv_update"},
   pnm |-> {"add", "sub", "mul", "div", "exp", "reduce_max", "reduce_sum", "activation",
            "softmax", "rms_norm", "rope"},
   cxl |-> {"all_reduce"},
   device |-> ViewKinds \cup {"copy", "broadcast"}]

Units == {"pim", "pnm", "cxl", "device"}

(* _implementations *)
Implementations(op) == {unit \in Units : op.kind \in Implemented[unit]}

(* DeviceCapability.why_unsupported is None.  t is the result's type. *)
Supports(device, op, t) ==
  \/ op.kind \in ViewKinds
  \/ /\ <<op.unit, op.kind>> \in device.ops
     /\ t.dtype \in device.dtypes
     /\ op.kind = "activation" =>
          op.attr[1] \in IF op.unit = "pim" THEN device.pim_activations
                         ELSE device.pnm_activations
     /\ op.kind = "linear" /\ Len(op.operands) = 3 => device.bias

(* _default_domain *)
HomeDomain(role) == IF role \in {"weight", "kv_cache"} THEN "pim" ELSE "pnm"

AtHome(t) == [t EXCEPT !.domain = HomeDomain(t.role)]

OnUnit(op, unit) == [op EXCEPT !.unit = unit]

(* _build on operands of the given types. *)
Builds(device, op, ts) ==
  Infer(op, ts) # NoType /\ Supports(device, op, Infer(op, ts))

(* _has_direct_implementation: tried on stand-ins in the right domain. *)
StandIns(op, unit, ts) ==
  [i \in DOMAIN ts |->
     IF IsIndex(op, i) THEN AtHome(ts[i])
     ELSE [ts[i] EXCEPT !.domain = OperandDomain(unit, <<AtHome(ts[1])>>)]]

(* A trial that does not ask whether the target runs the device op. *)
HasDirectUnsupported(device, op, ts) ==
  \E unit \in Implementations(op) :
    Infer(OnUnit(op, unit), StandIns(op, unit, ts)) # NoType

HasDirect(device, op, ts) ==
  \E unit \in Implementations(op) :
    Builds(device, OnUnit(op, unit), StandIns(op, unit, ts))

-----------------------------------------------------------------------------
(* _lower_with: the operands a unit needs, moved where they are not yet.    *)
(* moved maps <<value, domain>> to the copies earlier operations made.      *)

Transfer(value, domain) == Op("device", "transfer", <<domain>>, <<value>>)

(* A value that is read where it is ("none"), or in another domain. *)
Need(value, to) == [value |-> value, to |-> to]

(* One more value: in place, copied before, or moved now. *)
Gathered(so_far, need, moved, last) ==
  IF need.to = "none" THEN [so_far EXCEPT !.operands = Append(@, need.value)]
  ELSE IF <<need.value, need.to>> \in DOMAIN moved
  THEN [so_far EXCEPT !.operands = Append(@, moved[<<need.value, need.to>>])]
  ELSE [transfers |-> Append(so_far.transfers, Transfer(need.value, need.to)),
        operands  |-> Append(so_far.operands, last + Len(so_far.transfers) + 1)]

Gather(needs, moved, last) ==
  LET gathered[i \in 0..Len(needs)] ==
        IF i = 0 THEN [transfers |-> <<>>, operands |-> <<>>]
        ELSE Gathered(gathered[i - 1], needs[i], moved, last)
  IN  gathered[Len(needs)]

OperandNeed(types, op, domain, i) ==
  Need(op.operands[i],
       IF IsIndex(op, i) \/ types[op.operands[i]].domain = domain THEN "none" ELSE domain)

OperandNeeds(types, op, domain) ==
  [i \in DOMAIN op.operands |-> OperandNeed(types, op, domain, i)]

Lowering(types, op, unit, moved) ==
  LET domain == OperandDomain(unit, OperandTypes(types, op))
      gathered == Gather(OperandNeeds(types, op, domain), moved, Len(types))
  IN  Append(gathered.transfers, [OnUnit(op, unit) EXCEPT !.operands = gathered.operands])

(* Every transfer and the device op can be built, and the target runs them. *)
Feasible(device, body, ops) ==
  LET after == ExtendedBy(body, ops)
  IN  /\ after # Broken
      /\ \A k \in DOMAIN ops : Supports(device, ops[k], after.types[Len(body.types) + k])

(* Fewer transfers first; on a tie, near memory. *)
Cost(body, ops) ==
  2 * Len(ops) + (IF Last(ExtendedBy(body, ops).types).domain = "pnm" THEN 0 ELSE 1)

Lowerings(device, body, op, moved) ==
  {ops \in {Lowering(body.types, op, unit, moved) : unit \in Implementations(op)} :
     Feasible(device, body, ops)}

Cheapest(body, lowerings) ==
  CHOOSE ops \in lowerings : \A other \in lowerings : Cost(body, ops) <= Cost(body, other)

(* A lowering that does not remember the copies it makes. *)
RecordedNowhere(moved, ops, last) == moved

(* The copies the transfers among ops make, numbered after value last; of   *)
(* two copies of a value the later is remembered.                           *)
CopyOf(op) == <<op.operands[1], op.attr[1]>>

Recorded(moved, ops, last) ==
  LET transfers == {k \in DOMAIN ops : ops[k].kind = "transfer"}
      copied == {CopyOf(ops[k]) : k \in transfers}
  IN  [copy \in DOMAIN moved \cup copied |->
         IF copy \in copied THEN last + Max({k \in transfers : CopyOf(ops[k]) = copy})
         ELSE moved[copy]]

-----------------------------------------------------------------------------
(* _place_results: a result away from its role's domain is moved there.    *)
(* The function is returned as it is when no transfer had to be added, the *)
(* copies found in moved being dropped then.                               *)

ResultNeeds(f) ==
  [k \in DOMAIN f.returns |->
     LET t == f.types[f.returns[k]]
     IN  Need(f.returns[k], IF t.domain = HomeDomain(t.role) THEN "none" ELSE HomeDomain(t.role))]

PlacedResults(f, moved) == Gather(ResultNeeds(f), moved, Len(f.types))
=============================================================================
