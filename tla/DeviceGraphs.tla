---------------------------- MODULE DeviceGraphs ----------------------------
(***************************************************************************)
(* The work given to a mapper (pipeline/ir.py, pipeline/mapping.py): the   *)
(* graph of one device, the target, the placements the caller requires.    *)
(*                                                                         *)
(* A graph is [inputs, operations, outputs, numel]: an operation is        *)
(* [name, kind, inputs] and its name is also its result's, as legalize     *)
(* names both; numel gives the scalar count of every value.  A target is   *)
(* [burst, slots, registers, reference].  A storage object is named by a   *)
(* pair <<base, suffix>>; suffix -1 is the name without a suffix.          *)
(***************************************************************************)
EXTENDS Integers, Sequences, FiniteSets

SeqRange(s) == {s[i] : i \in DOMAIN s}

Injective(s) == \A i, j \in DOMAIN s : s[i] = s[j] => i = j

IsSequence(s) == Len(s) \in Nat /\ s = [i \in 1..Len(s) |-> s[i]]

(* A dictionary after dictionary[key] = value. *)
Assigned(dictionary, key, value) ==
  [k \in DOMAIN dictionary \cup {key} |-> IF k = key THEN value ELSE dictionary[k]]

(* The elements of s at the positions in keep, in their order.  (SelectSeq *)
(* has no definition the proof system can expand.)                         *)
Kept(s, keep) ==
  LET kept[n \in 0..Len(s)] ==
        IF n = 0 THEN <<>>
        ELSE IF n \in keep THEN Append(kept[n - 1], s[n]) ELSE kept[n - 1]
  IN  kept[Len(s)]

-----------------------------------------------------------------------------

(* Elementwise kinds update the left operand in place, renaming kinds keep *)
(* the flat values, services read a snapshot, and the last three write     *)
(* their result while they still read their operands.                      *)
ElementwiseKinds == {"add", "multiply"}
RenamingKinds    == {"copy", "reshape"}
SnapshotKinds    == {"activation", "softmax", "rope"}
RevisitingKinds  == {"linear", "rms_norm", "attention"}
AccumulatorKinds == {"linear", "attention"}
ReferenceKinds   == SnapshotKinds \cup RevisitingKinds
Kinds == ElementwiseKinds \cup RenamingKinds \cup ReferenceKinds

OperationNames(g) == {g.operations[k].name : k \in DOMAIN g.operations}

Operation(g, name) ==
  g.operations[CHOOSE k \in DOMAIN g.operations : g.operations[k].name = name]

ValueNames(g) == SeqRange(g.inputs) \cup OperationNames(g)

(* Inputs first, then the results in operation order (_values). *)
Values(g) == g.inputs \o [k \in DOMAIN g.operations |-> g.operations[k].name]

(* Complete Shared Buffer slots of a value (_slots). *)
Slots(request, v) ==
  (request.graph.numel[v] + request.target.burst - 1) \div request.target.burst

(***************************************************************************)
(* What legalize returns: names are unique, an operation reads inputs and  *)
(* earlier results, an elementwise one two of them, and the outputs are    *)
(* distinct values.                                                        *)
(***************************************************************************)
OperationWellFormed(g, k) ==
  LET op == g.operations[k]
      earlier == SeqRange(g.inputs)
                 \cup {g.operations[j].name : j \in {i \in DOMAIN g.operations : i < k}}
  IN  /\ op.kind \in Kinds
      /\ 1 \in DOMAIN op.inputs
      /\ op.kind \in ElementwiseKinds => 2 \in DOMAIN op.inputs
      /\ SeqRange(op.inputs) \subseteq earlier

WellFormed(g) ==
  /\ Injective(Values(g))
  /\ \A k \in DOMAIN g.operations : OperationWellFormed(g, k)
  /\ g.outputs # <<>> /\ Injective(g.outputs)
  /\ SeqRange(g.outputs) \subseteq ValueNames(g)

-----------------------------------------------------------------------------

(***************************************************************************)
(* _last_uses.  The code numbers the steps of a schedule from zero and     *)
(* keeps the last use of every value: its last reader, else its producer,  *)
(* else -1; len(schedule) for an output.  A value is needed from step k on *)
(* (steps count from one here) when its last use is not before step k.     *)
(***************************************************************************)
Touches(op, v) == v = op.name \/ v \in SeqRange(op.inputs)

NeededUntilLastReader(g, schedule, v, k) ==
  \E j \in DOMAIN schedule : j >= k /\ Touches(Operation(g, schedule[j]), v)

Needed(g, schedule, v, k) ==
  \/ v \in SeqRange(g.outputs)
  \/ \E j \in DOMAIN schedule : j >= k /\ Touches(Operation(g, schedule[j]), v)

LastUseAtAnyRead(g, schedule, v, k) ==
  v \notin SeqRange(g.outputs) /\ Needed(g, schedule, v, k)

LastUseAt(g, schedule, v, k) ==
  /\ v \notin SeqRange(g.outputs)
  /\ Needed(g, schedule, v, k)
  /\ ~Needed(g, schedule, v, k + 1)

-----------------------------------------------------------------------------

Suffixed(base, suffix) == <<base, suffix>>
Named(v) == Suffixed(v, -1)

(* Where a plan puts a value. *)
StorageOf(p, v) ==
  p.placements[CHOOSE i \in DOMAIN p.placements : p.placements[i].value = v].storage

StoragesOf(p) == {p.placements[i].storage : i \in DOMAIN p.placements}

(* _fresh_storage *)
FreshStorage(v, reserved) ==
  IF Named(v) \notin reserved THEN Named(v)
  ELSE Suffixed(v, CHOOSE k \in 0..Cardinality(reserved) :
                     /\ Suffixed(v, k) \notin reserved
                     /\ \A j \in 0..(k - 1) : Suffixed(v, j) \in reserved)
=============================================================================
