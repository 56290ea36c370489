-------------------------- MODULE MappingVerifier --------------------------
(***************************************************************************)
(* verify_mapping (pipeline/mapping.py) and what depends on its answer:    *)
(* an accepted plan is lowered (lower_target) and the commands run on the  *)
(* named storage objects.                                                  *)
(*                                                                         *)
(* A plan is [placements, schedule, accumulators]: sequences of            *)
(* [value, storage], of operation names and of [operation, register].      *)
(* A storage object holds the name of the value in it, or Garbage after a  *)
(* command read an operand that was no longer there.                       *)
(***************************************************************************)
EXTENDS DeviceGraphs

CONSTANTS
  MappingRequests,   \* [graph, target, constraints]
  Plans(_),          \* the plans a provider may propose for a request
  None,              \* no value: an object that was never written
  Garbage,           \* an object overwritten while its value was needed
  Unnamed            \* the empty storage name

ASSUME MappingAssumption ==
  \A r \in MappingRequests :
    /\ WellFormed(r.graph)
    /\ {None, Garbage} \cap ValueNames(r.graph) = {}
    /\ \A p \in Plans(r) : Len(p.schedule) \in Nat /\ DOMAIN p.schedule = 1..Len(p.schedule)

ASSUME MarkersAssumption == None # Garbage

VARIABLES
  request, plan,
  phase,      \* "check", "walk", "run", then "done" or "rejected"
  verdict,    \* why verify_mapping raised
  step,       \* operation of the schedule considered next
  live,       \* the verifier's map from storage to the value in it
  contents    \* what the storage objects hold when the commands run

verifierVars == <<request, plan, phase, verdict, step, live, contents>>

graph == request.graph
schedule == plan.schedule
Op(k) == Operation(graph, schedule[k])

-----------------------------------------------------------------------------

At(v) == StorageOf(plan, v)

(* The checks verify_mapping makes before it walks the schedule, in order. *)

ContractAllows(r) ==
  r.target.reference \/ \A k \in DOMAIN r.graph.operations :
                          r.graph.operations[k].kind \notin ReferenceKinds

AccumulatorsCover(r, p) ==
  /\ \A i, j \in DOMAIN p.accumulators :
       p.accumulators[i].operation = p.accumulators[j].operation => i = j
  /\ {p.accumulators[i].operation : i \in DOMAIN p.accumulators}
       = {n \in OperationNames(r.graph) : Operation(r.graph, n).kind \in AccumulatorKinds}

RegistersExist(r, p) ==
  \A i \in DOMAIN p.accumulators : p.accumulators[i].register \in 0..(r.target.registers - 1)

ScheduleComplete(r, p) ==
  /\ Len(p.schedule) = Len(r.graph.operations)
  /\ SeqRange(p.schedule) = OperationNames(r.graph)

PlacementsComplete(r, p) ==
  /\ \A i, j \in DOMAIN p.placements : p.placements[i].value = p.placements[j].value => i = j
  /\ {p.placements[i].value : i \in DOMAIN p.placements} = ValueNames(r.graph)
  /\ Unnamed \notin StoragesOf(p)

ConstraintsHonoured(r, p) ==
  /\ \A i, j \in DOMAIN r.constraints :
       r.constraints[i].value = r.constraints[j].value => i = j
  /\ \A i \in DOMAIN r.constraints :
       /\ r.constraints[i].value \in ValueNames(r.graph)
       /\ StorageOf(p, r.constraints[i].value) = r.constraints[i].storage

ProducersFirst(r, p) ==
  \A k \in DOMAIN p.schedule :
    SeqRange(Operation(r.graph, p.schedule[k]).inputs)
      \subseteq SeqRange(r.graph.inputs) \cup {p.schedule[j] : j \in 1..(k - 1)}

SharersAgreeOnSize(r, p) ==
  \A u, v \in ValueNames(r.graph) :
    StorageOf(p, u) = StorageOf(p, v) => Slots(r, u) = Slots(r, v)

(* Sum over the objects, each counted for one of the values in it. *)
SlotsUsed(r, p) ==
  LET vs == Values(r.graph)
      first(i) == \A j \in 1..(i - 1) : StorageOf(p, vs[j]) # StorageOf(p, vs[i])
      used[n \in 0..Len(vs)] ==
        IF n = 0 THEN 0
        ELSE used[n - 1] + IF first(n) THEN Slots(r, vs[n]) ELSE 0
  IN  used[Len(vs)]

FitsSharedBuffer(r, p) == SlotsUsed(r, p) <= r.target.slots

InputsApart(r, p) ==
  \A i, j \in DOMAIN r.graph.inputs :
    StorageOf(p, r.graph.inputs[i]) = StorageOf(p, r.graph.inputs[j]) => i = j

StaticFault(r, p) ==
  IF ~ContractAllows(r) THEN "contract"
  ELSE IF ~(AccumulatorsCover(r, p) /\ RegistersExist(r, p)) THEN "accumulators"
  ELSE IF ~ScheduleComplete(r, p) THEN "schedule"
  ELSE IF ~PlacementsComplete(r, p) THEN "placements"
  ELSE IF ~ConstraintsHonoured(r, p) THEN "constraint"
  ELSE IF ~ProducersFirst(r, p) THEN "order"
  ELSE IF ~SharersAgreeOnSize(r, p) THEN "size"
  ELSE IF ~FitsSharedBuffer(r, p) THEN "capacity"
  ELSE IF ~InputsApart(r, p) THEN "inputs"
  ELSE "none"

InputsPlaced ==
  [s \in StoragesOf(plan) |->
     IF \E v \in SeqRange(graph.inputs) : At(v) = s
     THEN CHOOSE v \in SeqRange(graph.inputs) : At(v) = s
     ELSE None]

-----------------------------------------------------------------------------

VerifierInit ==
  /\ request \in MappingRequests
  /\ plan \in Plans(request)
  /\ phase = "check" /\ verdict = "none" /\ step = 1
  /\ live = <<>> /\ contents = <<>>

RejectAndContinue(why) ==
  /\ verdict' = why
  /\ UNCHANGED <<request, plan, phase, step, live, contents>>

Reject(why) ==
  /\ phase' = "rejected"
  /\ verdict' = why
  /\ UNCHANGED <<request, plan, step, live, contents>>

CheckPlan ==
  /\ phase = "check"
  /\ LET fault == StaticFault(request, plan)
     IN  \/ fault # "none" /\ Reject(fault)
         \/ /\ fault = "none"
            /\ phase' = "walk" /\ step' = 1
            /\ live' = InputsPlaced
            /\ UNCHANGED <<request, plan, verdict, contents>>

OperandsLive(k) == \A v \in SeqRange(Op(k).inputs) : live[At(v)] = v

HandoffToAnyKind(k) ==
  LET occupant == live[At(Op(k).name)]
  IN  occupant = Op(k).inputs[1] /\ LastUseAt(graph, schedule, occupant, k)

(* The result takes the storage of the left operand at its last use. *)
Handoff(k) ==
  LET occupant == live[At(Op(k).name)]
  IN  /\ occupant = Op(k).inputs[1]
      /\ LastUseAt(graph, schedule, occupant, k)
      /\ Op(k).kind \notin RevisitingKinds

ResultStorageFree(k) ==
  LET occupant == live[At(Op(k).name)]
  IN  \/ occupant = None
      \/ Handoff(k)
      \/ ~Needed(graph, schedule, occupant, k)

Walking == phase = "walk" /\ step \in DOMAIN schedule

RejectStep ==
  /\ Walking
  /\ ~(OperandsLive(step) /\ ResultStorageFree(step))
  /\ Reject(IF OperandsLive(step) THEN "alias" ELSE "operand")

WalkOperation ==
  /\ Walking
  /\ OperandsLive(step) /\ ResultStorageFree(step)
  /\ live' = [live EXCEPT ![At(Op(step).name)] = Op(step).name]
  /\ step' = step + 1
  /\ UNCHANGED <<request, plan, phase, verdict, contents>>

AcceptPlanAt(end) ==
  /\ phase = "walk" /\ step = end
  /\ phase' = "run" /\ step' = 1
  /\ contents' = InputsPlaced
  /\ UNCHANGED <<request, plan, verdict, live>>

AcceptPlanEarly == AcceptPlanAt(Len(schedule))

(* The plan is lowered and the program loaded: every input is in place. *)
AcceptPlan == AcceptPlanAt(Len(schedule) + 1)

-----------------------------------------------------------------------------

Holds(mem, vs) == \A v \in SeqRange(vs) : mem[At(v)] = v

ResultIf(intact, op) == IF intact THEN op.name ELSE Garbage

(***************************************************************************)
(* The commands lower_target emits for one operation, run in order.        *)
(*   elementwise: copy the left operand to the result, combine the right;  *)
(*   renaming: copy;  snapshot: one command reads all, then writes;        *)
(*   revisiting: the result is filled first and the operands read after.   *)
(***************************************************************************)
LeftCopiedSkipped(mem, op) == mem

LeftCopied(mem, op) ==
  IF At(op.name) = At(op.inputs[1]) THEN mem
  ELSE [mem EXCEPT ![At(op.name)] = mem[At(op.inputs[1])]]

RunElementwise(mem, op) ==
  LET staged == LeftCopied(mem, op)
  IN  [staged EXCEPT ![At(op.name)] =
         ResultIf(/\ staged[At(op.name)] = op.inputs[1]
                  /\ staged[At(op.inputs[2])] = op.inputs[2], op)]

RunRenaming(mem, op) ==
  LET staged == LeftCopied(mem, op)
  IN  [staged EXCEPT ![At(op.name)] = ResultIf(staged[At(op.name)] = op.inputs[1], op)]

RunSnapshot(mem, op) ==
  [mem EXCEPT ![At(op.name)] = ResultIf(Holds(mem, op.inputs), op)]

RunRevisiting(mem, op) ==
  LET filled == [mem EXCEPT ![At(op.name)] = Garbage]
  IN  [filled EXCEPT ![At(op.name)] = ResultIf(Holds(filled, op.inputs), op)]

RunCommands(mem, op) ==
  CASE op.kind \in ElementwiseKinds -> RunElementwise(mem, op)
    [] op.kind \in RenamingKinds    -> RunRenaming(mem, op)
    [] op.kind \in SnapshotKinds    -> RunSnapshot(mem, op)
    [] op.kind \in RevisitingKinds  -> RunRevisiting(mem, op)

RunOperation ==
  /\ phase = "run" /\ step \in DOMAIN schedule
  /\ contents' = RunCommands(contents, Op(step))
  /\ step' = step + 1
  /\ UNCHANGED <<request, plan, phase, verdict, live>>

ReturnOutputs ==
  /\ phase = "run" /\ step = Len(schedule) + 1
  /\ phase' = "done"
  /\ UNCHANGED <<request, plan, verdict, step, live, contents>>

VerifierNext ==
  \/ CheckPlan \/ RejectStep \/ WalkOperation \/ AcceptPlan
  \/ RunOperation \/ ReturnOutputs

(* verify_mapping, lower_target and the executor are plain loops. *)
VerifierSpec == VerifierInit /\ [][VerifierNext]_verifierVars /\ WF_verifierVars(VerifierNext)

-----------------------------------------------------------------------------

Verdicts == {"none", "contract", "accumulators", "schedule", "placements", "constraint",
             "order", "size", "capacity", "inputs", "operand", "alias"}

(* The state of the verifier and of the storage objects is well typed, and *)
(* a plan is rejected exactly when there is a reason.                      *)
VerifierTypeOK ==
  /\ phase \in {"check", "walk", "run", "done", "rejected"}
  /\ verdict \in Verdicts
  /\ phase = "rejected" <=> verdict # "none"
  /\ step \in 1..(Len(schedule) + 1)
  /\ phase \in {"walk", "run", "done"} =>
       live \in [StoragesOf(plan) -> ValueNames(graph) \cup {None}]
  /\ phase \in {"run", "done"} =>
       contents \in [StoragesOf(plan) -> ValueNames(graph) \cup {None, Garbage}]

(***************************************************************************)
(* An accepted plan runs correctly: when an operation's commands start,    *)
(* every operand's storage still holds that operand, however the schedule  *)
(* was reordered and the storage reused.                                   *)
(***************************************************************************)
OperandsIntact ==
  phase = "run" /\ step \in DOMAIN schedule => Holds(contents, Op(step).inputs)

(***************************************************************************)
(* No command of an accepted plan computes from an overwritten operand:    *)
(* the copy that protects a left operand, the order of the copy and the    *)
(* arithmetic, and the fill before a matrix product never destroy a value  *)
(* the same operation still reads.                                         *)
(***************************************************************************)
NothingRuined ==
  phase \in {"run", "done"} => \A s \in StoragesOf(plan) : contents[s] # Garbage

(***************************************************************************)
(* Every requested output, an input returned as it is included, is in its  *)
(* storage after the last command, when the runtime reads it.              *)
(***************************************************************************)
OutputsSurvive == phase = "done" => Holds(contents, graph.outputs)

(***************************************************************************)
(* The verifier's own check that an operand's storage "no longer contains  *)
(* its live value" never fires: the checks on the results written earlier  *)
(* already exclude it.                                                     *)
(***************************************************************************)
OperandCheckRedundant == verdict # "operand"

(* Verification ends with a verdict, and an accepted program finishes. *)
EveryPlanSettled == <>(phase \in {"done", "rejected"})
=============================================================================
