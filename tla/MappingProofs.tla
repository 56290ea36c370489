---------------------------- MODULE MappingProofs ----------------------------
(***************************************************************************)
(* Proofs about MappingVerifier, for every graph, target and plan, and     *)
(* about BaselineMapper, for every graph, target and constraints.          *)
(*                                                                         *)
(* The verifier's map of live values is forgotten once a plan is accepted, *)
(* so its verdict is restated over the plan alone: OverwritesOnlyDead says *)
(* of one operation that the storage of its result holds no value needed   *)
(* later.  The walk establishes it operation by operation from its map;    *)
(* the execution then uses it to keep the needed values in place.          *)
(***************************************************************************)
EXTENDS BaselineMapper, SequenceTheorems, FiniteSetTheorems, WellFoundedInduction, TLAPS

-----------------------------------------------------------------------------
(* Verification: verify_mapping and the execution of an accepted plan. *)

(* Values that exist when operation k starts. *)
Available(k) == SeqRange(graph.inputs) \cup {schedule[j] : j \in 1..(k - 1)}

HoldsNeeded(mem, k) ==
  \A v \in Available(k) : Needed(graph, schedule, v, k) => mem[At(v)] = v

OverwritesOnlyDead(k) ==
  \A v \in Available(k) :
    At(v) = At(Op(k).name) /\ Needed(graph, schedule, v, k) =>
      /\ v = Op(k).inputs[1]
      /\ LastUseAt(graph, schedule, v, k)
      /\ Op(k).kind \notin RevisitingKinds

(* The part of a plan's acceptance that does not change any more. *)
Checked ==
  /\ request \in MappingRequests
  /\ WellFormed(graph)
  /\ {None, Garbage} \cap ValueNames(graph) = {}
  /\ Len(schedule) \in Nat /\ DOMAIN schedule = 1..Len(schedule)

Contents == [StoragesOf(plan) -> ValueNames(graph) \cup {None}]

VerifierInv ==
  /\ Checked
  /\ phase \in {"check", "walk", "run", "done", "rejected"}
  /\ verdict \in Verdicts \ {"operand"}
  /\ phase = "rejected" <=> verdict # "none"
  /\ step \in 1..(Len(schedule) + 1)
  /\ phase = "check" => step = 1
  /\ phase \in {"walk", "run", "done"} =>
       StaticFault(request, plan) = "none" /\ live \in Contents
  /\ phase = "walk" =>
       /\ HoldsNeeded(live, step)
       /\ \A k \in 1..(step - 1) : OverwritesOnlyDead(k)
  /\ phase \in {"run", "done"} =>
       /\ contents \in Contents
       /\ HoldsNeeded(contents, step)
       /\ \A k \in DOMAIN schedule : OverwritesOnlyDead(k)
  /\ phase = "done" => step = Len(schedule) + 1

-----------------------------------------------------------------------------

(* An operation is found under its name. *)
LEMMA OperationFound ==
  ASSUME NEW g, WellFormed(g), NEW name \in OperationNames(g)
  PROVE  /\ Operation(g, name).name = name
         /\ Operation(g, name).kind \in Kinds
         /\ 1 \in DOMAIN Operation(g, name).inputs
         /\ Operation(g, name).kind \in ElementwiseKinds =>
              2 \in DOMAIN Operation(g, name).inputs
         /\ SeqRange(Operation(g, name).inputs) \subseteq ValueNames(g)
<1> DEFINE k == CHOOSE i \in DOMAIN g.operations : g.operations[i].name = name
<1>1. k \in DOMAIN g.operations /\ g.operations[k].name = name
  BY DEF OperationNames
<1>2. OperationWellFormed(g, k)
  BY <1>1 DEF WellFormed
<1>3. Operation(g, name) = g.operations[k]
  BY DEF Operation
<1>4. SeqRange(g.inputs)
        \cup {g.operations[j].name : j \in {i \in DOMAIN g.operations : i < k}}
        \subseteq ValueNames(g)
  BY DEF ValueNames, OperationNames
<1> HIDE DEF k
<1> QED  BY <1>1, <1>2, <1>3, <1>4 DEF OperationWellFormed

(* A complete placement gives every value a storage object. *)
LEMMA PlacementFound ==
  ASSUME PlacementsComplete(request, plan), NEW v \in ValueNames(graph)
  PROVE  At(v) \in StoragesOf(plan)
<1>1. PICK i \in DOMAIN plan.placements : plan.placements[i].value = v
  BY DEF PlacementsComplete, graph
<1>2. DEFINE j == CHOOSE k \in DOMAIN plan.placements : plan.placements[k].value = v
<1>3. j \in DOMAIN plan.placements
  BY <1>1
<1> QED  BY <1>3 DEF At, StorageOf, StoragesOf

(* What the checks made before the walk give. *)
LEMMA StaticFacts ==
  ASSUME StaticFault(request, plan) = "none"
  PROVE  /\ ScheduleComplete(request, plan)
         /\ PlacementsComplete(request, plan)
         /\ ProducersFirst(request, plan)
         /\ InputsApart(request, plan)
  BY DEF StaticFault

(* The operation at a step: its operands exist, it reads and writes them.  *)
LEMMA StepFacts ==
  ASSUME Checked, StaticFault(request, plan) = "none", NEW k \in DOMAIN schedule
  PROVE  /\ Op(k).name = schedule[k]
         /\ Op(k).name \in ValueNames(graph)
         /\ Op(k).kind \in Kinds
         /\ 1 \in DOMAIN Op(k).inputs
         /\ Op(k).kind \in ElementwiseKinds => 2 \in DOMAIN Op(k).inputs
         /\ SeqRange(Op(k).inputs) \subseteq Available(k)
         /\ SeqRange(Op(k).inputs) \subseteq ValueNames(graph)
         /\ \A v \in SeqRange(Op(k).inputs) : Needed(graph, schedule, v, k)
<1>1. schedule[k] \in OperationNames(graph)
  BY StaticFacts DEF ScheduleComplete, SeqRange, graph, schedule
<1>2. SeqRange(Op(k).inputs) \subseteq Available(k)
  BY StaticFacts DEF ProducersFirst, Available, Op, graph, schedule
<1>3. \A v \in SeqRange(Op(k).inputs) : Touches(Op(k), v)
  BY DEF Touches
<1>4. k \in Int /\ k >= k
  BY DEF Checked
<1>5. \A v \in SeqRange(Op(k).inputs) : Needed(graph, schedule, v, k)
  BY <1>3, <1>4 DEF Needed, Op
<1>6. schedule[k] \in ValueNames(graph)
  BY <1>1 DEF ValueNames
<1>7. WellFormed(graph)
  BY DEF Checked
<1> QED  BY <1>1, <1>2, <1>5, <1>6, <1>7, OperationFound DEF Op

(* What is needed from the next step on is needed from this step on. *)
LEMMA NeededBefore ==
  ASSUME Checked, NEW k \in DOMAIN schedule, NEW v, Needed(graph, schedule, v, k + 1)
  PROVE  Needed(graph, schedule, v, k)
<1>1. \A j \in DOMAIN schedule : j >= k + 1 => j >= k
  BY DEF Checked
<1> QED  BY <1>1 DEF Needed

(* Values available at the next step: those of this step and its result. *)
LEMMA AvailableNext ==
  ASSUME Checked, StaticFault(request, plan) = "none", NEW k \in DOMAIN schedule
  PROVE  Available(k + 1) \subseteq Available(k) \cup {Op(k).name}
<1>1. Op(k).name = schedule[k]
  BY StepFacts
<1>2. \A j \in 1..k : j \in 1..(k - 1) \/ j = k
  BY DEF Checked
<1> QED  BY <1>1, <1>2 DEF Available, Checked

(* Only values of the graph become available. *)
LEMMA AvailableValues ==
  ASSUME Checked, StaticFault(request, plan) = "none",
         NEW k \in 1..(Len(schedule) + 1)
  PROVE  Available(k) \subseteq ValueNames(graph)
<1>1. \A j \in 1..(k - 1) : j \in DOMAIN schedule
  BY DEF Checked
<1>2. \A j \in DOMAIN schedule : schedule[j] \in ValueNames(graph)
  BY StepFacts
<1> QED  BY <1>1, <1>2 DEF Available, ValueNames

(***************************************************************************)
(* The common step of the walk and of the execution: writing the result of *)
(* operation k, whose storage holds nothing needed later, keeps every      *)
(* value needed at step k + 1 in place.                                    *)
(***************************************************************************)
LEMMA ResultWritten ==
  ASSUME Checked, StaticFault(request, plan) = "none", NEW k \in DOMAIN schedule,
         NEW before \in Contents, HoldsNeeded(before, k), OverwritesOnlyDead(k),
         NEW after, after = [before EXCEPT ![At(Op(k).name)] = Op(k).name]
  PROVE  after \in Contents /\ HoldsNeeded(after, k + 1)
<1>1. Op(k).name \in ValueNames(graph) /\ At(Op(k).name) \in StoragesOf(plan)
  BY StepFacts, StaticFacts, PlacementFound
<1>2. after \in Contents
  BY <1>1 DEF Contents
<1>3. ASSUME NEW v \in Available(k + 1), Needed(graph, schedule, v, k + 1)
      PROVE  after[At(v)] = v
  <2>1. CASE v = Op(k).name
    BY <2>1, <1>1 DEF Contents
  <2>2. CASE v # Op(k).name
    <3>1. v \in Available(k)
      BY <2>2, <1>3, AvailableNext
    <3>2. Needed(graph, schedule, v, k)
      BY <1>3, NeededBefore
    <3>3. before[At(v)] = v
      BY <3>1, <3>2 DEF HoldsNeeded
    <3>4. At(v) # At(Op(k).name)
      BY <3>1, <3>2, <1>3 DEF OverwritesOnlyDead, LastUseAt
    <3>5. v \in ValueNames(graph)
      BY <3>1, AvailableValues DEF Checked
    <3>6. At(v) \in StoragesOf(plan)
      BY <3>5, StaticFacts, PlacementFound
    <3> QED  BY <3>3, <3>4, <3>6 DEF Contents
  <2> QED  BY <2>1, <2>2
<1> QED  BY <1>2, <1>3 DEF HoldsNeeded

-----------------------------------------------------------------------------

(* The inputs, each in an object of its own, are in place at entry. *)
LEMMA InputsInPlace ==
  ASSUME Checked, StaticFault(request, plan) = "none"
  PROVE  InputsPlaced \in Contents /\ HoldsNeeded(InputsPlaced, 1)
<1>1. ASSUME NEW v \in SeqRange(graph.inputs)
      PROVE  InputsPlaced[At(v)] = v
  <2>1. v \in ValueNames(graph)
    BY DEF ValueNames
  <2>2. At(v) \in StoragesOf(plan)
    BY <2>1, StaticFacts, PlacementFound
  <2>3. \A u \in SeqRange(graph.inputs) : At(u) = At(v) => u = v
    BY StaticFacts DEF InputsApart, SeqRange, At, graph
  <2> DEFINE w == CHOOSE u \in SeqRange(graph.inputs) : At(u) = At(v)
  <2>4. w = v
    BY <2>3
  <2> QED  BY <2>2, <2>4 DEF InputsPlaced
<1>2. InputsPlaced \in Contents
  <2> SUFFICES ASSUME NEW s \in StoragesOf(plan)
               PROVE  InputsPlaced[s] \in ValueNames(graph) \cup {None}
    BY DEF Contents, InputsPlaced
  <2> QED  BY DEF InputsPlaced, ValueNames
<1>3. Available(1) \subseteq SeqRange(graph.inputs)
  BY DEF Available
<1> QED  BY <1>1, <1>2, <1>3 DEF HoldsNeeded

(* Inside the walk the operands are always where the plan says. *)
LEMMA OperandsAlwaysLive ==
  ASSUME Checked, StaticFault(request, plan) = "none", NEW k \in DOMAIN schedule,
         NEW mem, HoldsNeeded(mem, k)
  PROVE  \A v \in SeqRange(Op(k).inputs) : mem[At(v)] = v
  BY StepFacts DEF HoldsNeeded

(* A result the walk lets through overwrites only what is dead. *)
LEMMA FreeStorageIsDead ==
  ASSUME Checked, StaticFault(request, plan) = "none", NEW k \in DOMAIN schedule,
         k \in 1..(Len(schedule) + 1), HoldsNeeded(live, k), ResultStorageFree(k)
  PROVE  OverwritesOnlyDead(k)
<1> SUFFICES ASSUME NEW v \in Available(k), At(v) = At(Op(k).name),
                    Needed(graph, schedule, v, k)
             PROVE  /\ v = Op(k).inputs[1]
                    /\ LastUseAt(graph, schedule, v, k)
                    /\ Op(k).kind \notin RevisitingKinds
  BY DEF OverwritesOnlyDead
<1>1. live[At(Op(k).name)] = v
  BY DEF HoldsNeeded
<1>2. v # None
  BY AvailableValues DEF Checked
<1> QED  BY <1>1, <1>2 DEF ResultStorageFree, Handoff

-----------------------------------------------------------------------------

(***************************************************************************)
(* The commands of an operation compute its result from its operands, when *)
(* these are in place and its storage holds nothing needed later.          *)
(***************************************************************************)
LEMMA CommandsCompute ==
  ASSUME Checked, StaticFault(request, plan) = "none", NEW k \in DOMAIN schedule,
         NEW mem \in Contents, HoldsNeeded(mem, k), OverwritesOnlyDead(k)
  PROVE  RunCommands(mem, Op(k)) = [mem EXCEPT ![At(Op(k).name)] = Op(k).name]
<1> DEFINE op == Op(k)
           dest == At(op.name)
           left == op.inputs[1]
<1>1. op.kind \in Kinds
  BY StepFacts
<1>2. left \in SeqRange(op.inputs)
  BY StepFacts DEF SeqRange
<1>3. \A v \in SeqRange(op.inputs) : mem[At(v)] = v
  BY OperandsAlwaysLive
<1>4. \A v \in SeqRange(op.inputs) : At(v) = dest => v = left /\ op.kind \notin RevisitingKinds
  BY StepFacts DEF OverwritesOnlyDead
<1>5. dest \in StoragesOf(plan)
  BY StepFacts, StaticFacts, PlacementFound
<1>6. \A v \in SeqRange(op.inputs) : At(v) \in StoragesOf(plan)
  BY StepFacts, StaticFacts, PlacementFound
<1>7. DOMAIN mem = StoragesOf(plan)
  BY DEF Contents
<1> DEFINE staged == LeftCopied(mem, op)
<1>8. /\ staged[dest] = left
      /\ DOMAIN staged = StoragesOf(plan)
      /\ \A s \in StoragesOf(plan) : s # dest => staged[s] = mem[s]
  BY <1>2, <1>3, <1>5, <1>7 DEF LeftCopied
<1>9. CASE op.kind \in ElementwiseKinds
  <2> DEFINE right == op.inputs[2]
  <2>1. right \in SeqRange(op.inputs)
    BY <1>9, StepFacts DEF SeqRange
  <2>2. staged[At(right)] = right
    BY <2>1, <1>3, <1>4, <1>6, <1>8
  <2>3. RunElementwise(mem, op) = [staged EXCEPT ![dest] = op.name]
    BY <2>2, <1>8 DEF RunElementwise, ResultIf
  <2>4. RunElementwise(mem, op) = [mem EXCEPT ![dest] = op.name]
    BY <2>3, <1>5, <1>7 DEF LeftCopied
  <2>5. RunCommands(mem, op) = RunElementwise(mem, op)
    BY <1>9 DEF RunCommands, ElementwiseKinds, RenamingKinds, SnapshotKinds, RevisitingKinds
  <2> QED  BY <2>4, <2>5
<1>10. CASE op.kind \in RenamingKinds
  <2>1. RunRenaming(mem, op) = [staged EXCEPT ![dest] = op.name]
    BY <1>8 DEF RunRenaming, ResultIf
  <2>2. RunRenaming(mem, op) = [mem EXCEPT ![dest] = op.name]
    BY <2>1, <1>5, <1>7 DEF LeftCopied
  <2>3. RunCommands(mem, op) = RunRenaming(mem, op)
    BY <1>10 DEF RunCommands, ElementwiseKinds, RenamingKinds, SnapshotKinds, RevisitingKinds
  <2> QED  BY <2>2, <2>3
<1>11. CASE op.kind \in SnapshotKinds
  <2>1. RunSnapshot(mem, op) = [mem EXCEPT ![dest] = op.name]
    BY <1>3 DEF RunSnapshot, Holds, ResultIf
  <2>2. RunCommands(mem, op) = RunSnapshot(mem, op)
    BY <1>11 DEF RunCommands, ElementwiseKinds, RenamingKinds, SnapshotKinds, RevisitingKinds
  <2> QED  BY <2>1, <2>2
<1>12. CASE op.kind \in RevisitingKinds
  <2> DEFINE filled == [mem EXCEPT ![dest] = Garbage]
  <2>1. \A v \in SeqRange(op.inputs) : At(v) # dest
    BY <1>4, <1>12
  <2>2. Holds(filled, op.inputs)
    BY <2>1, <1>3, <1>6, <1>7 DEF Holds
  <2>3. RunRevisiting(mem, op) = [filled EXCEPT ![dest] = op.name]
    BY <2>2 DEF RunRevisiting, ResultIf
  <2>4. RunRevisiting(mem, op) = [mem EXCEPT ![dest] = op.name]
    BY <2>3, <1>5, <1>7
  <2>5. RunCommands(mem, op) = RunRevisiting(mem, op)
    BY <1>12 DEF RunCommands, ElementwiseKinds, RenamingKinds, SnapshotKinds, RevisitingKinds
  <2> QED  BY <2>4, <2>5
<1> QED  BY <1>1, <1>9, <1>10, <1>11, <1>12 DEF Kinds, ReferenceKinds

-----------------------------------------------------------------------------

(* The strengthening holds when a plan is proposed. *)
THEOREM VerifierInitInv == VerifierInit => VerifierInv
<1> SUFFICES ASSUME VerifierInit
             PROVE  VerifierInv
  OBVIOUS
<1>1. Checked
  BY MappingAssumption DEF VerifierInit, Checked, graph, schedule
<1> QED  BY <1>1 DEF VerifierInit, VerifierInv, Verdicts, Checked

(* Everything said of the plan alone stays true while it is kept. *)
LEMMA PlanKept ==
  ASSUME request' = request, plan' = plan
  PROVE  /\ Checked' <=> Checked
         /\ Contents' = Contents
         /\ StaticFault(request, plan)' = StaticFault(request, plan)
         /\ schedule' = schedule
         /\ \A k : OverwritesOnlyDead(k)' <=> OverwritesOnlyDead(k)
         /\ \A mem, k : HoldsNeeded(mem, k)' <=> HoldsNeeded(mem, k)
  BY DEF Checked, Contents, OverwritesOnlyDead, HoldsNeeded, Available, At, Op,
         graph, schedule

(* Every step of verify_mapping and of the execution preserves it. *)
THEOREM VerifierNextInv == VerifierInv /\ [VerifierNext]_verifierVars => VerifierInv'
<1> SUFFICES ASSUME VerifierInv, [VerifierNext]_verifierVars
             PROVE  VerifierInv'
  OBVIOUS
<1>0. /\ Checked /\ Len(schedule) \in Nat /\ DOMAIN schedule = 1..Len(schedule)
      /\ step \in 1..(Len(schedule) + 1)
  BY DEF VerifierInv, Checked
<1>1. ASSUME NEW why \in Verdicts \ {"none", "operand"}, Reject(why)
      PROVE  VerifierInv'
  <2>1. request' = request /\ plan' = plan
    BY <1>1 DEF Reject
  <2> QED  BY <1>1, <2>1, PlanKept DEF VerifierInv, Reject
<1>2. CASE CheckPlan
  <2>1. CASE StaticFault(request, plan) # "none" /\ Reject(StaticFault(request, plan))
    <3>1. StaticFault(request, plan) \in Verdicts \ {"none", "operand"}
      BY <2>1 DEF StaticFault, Verdicts
    <3> QED  BY <2>1, <3>1, <1>1
  <2>2. CASE /\ StaticFault(request, plan) = "none"
             /\ phase' = "walk" /\ step' = 1
             /\ live' = InputsPlaced
             /\ UNCHANGED <<request, plan, verdict, contents>>
    <3>1. live' \in Contents /\ HoldsNeeded(live', step')
      BY <2>2, <1>0, InputsInPlace
    <3>2. step' \in 1..(Len(schedule) + 1) /\ \A k \in 1..(step' - 1) : FALSE
      BY <2>2, <1>0
    <3> QED  BY <1>2, <2>2, <3>1, <3>2, PlanKept DEF VerifierInv, CheckPlan
  <2> QED  BY <1>2, <2>1, <2>2 DEF CheckPlan
<1>3. CASE RejectStep
  <2>1. StaticFault(request, plan) = "none" /\ HoldsNeeded(live, step)
    BY <1>3 DEF VerifierInv, RejectStep, Walking
  <2>2. OperandsLive(step)
    BY <1>0, <1>3, <2>1, OperandsAlwaysLive DEF OperandsLive, RejectStep, Walking
  <2>3. Reject("alias")
    BY <1>3, <2>2 DEF RejectStep
  <2> QED  BY <2>3, <1>1 DEF Verdicts
<1>4. CASE WalkOperation
  <2>1. /\ StaticFault(request, plan) = "none" /\ live \in Contents
        /\ HoldsNeeded(live, step) /\ step \in DOMAIN schedule
        /\ \A k \in 1..(step - 1) : OverwritesOnlyDead(k)
    BY <1>4 DEF VerifierInv, WalkOperation, Walking
  <2>2. OverwritesOnlyDead(step)
    BY <1>0, <1>4, <2>1, FreeStorageIsDead DEF WalkOperation
  <2>3. live' \in Contents /\ HoldsNeeded(live', step + 1)
    BY <1>0, <1>4, <2>1, <2>2, ResultWritten DEF WalkOperation
  <2>4. step' = step + 1 /\ step' \in 1..(Len(schedule) + 1)
    BY <1>0, <1>4, <2>1 DEF WalkOperation
  <2>5. \A k \in 1..(step' - 1) : OverwritesOnlyDead(k)
    <3>1. \A k \in 1..(step' - 1) : k \in 1..(step - 1) \/ k = step
      BY <1>0, <2>4
    <3> QED  BY <3>1, <2>1, <2>2
  <2>6. request' = request /\ plan' = plan /\ UNCHANGED <<phase, verdict, contents>>
        /\ phase = "walk"
    BY <1>4 DEF WalkOperation, Walking
  <2> QED  BY <2>1, <2>3, <2>4, <2>5, <2>6, PlanKept DEF VerifierInv
<1>5. CASE AcceptPlan
  <2>1. /\ phase = "walk" /\ phase' = "run" /\ step = Len(schedule) + 1 /\ step' = 1
        /\ contents' = InputsPlaced /\ UNCHANGED <<request, plan, verdict, live>>
    BY <1>5 DEF AcceptPlan, AcceptPlanAt
  <2>2. StaticFault(request, plan) = "none"
    BY <2>1 DEF VerifierInv
  <2>3. contents' \in Contents /\ HoldsNeeded(contents', step')
    BY <1>0, <2>1, <2>2, InputsInPlace
  <2>4. \A k \in DOMAIN schedule : OverwritesOnlyDead(k)
    BY <1>0, <2>1 DEF VerifierInv
  <2>5. step' \in 1..(Len(schedule) + 1)
    BY <1>0, <2>1
  <2> QED  BY <2>1, <2>2, <2>3, <2>4, <2>5, PlanKept DEF VerifierInv
<1>6. CASE RunOperation
  <2>1. /\ StaticFault(request, plan) = "none" /\ contents \in Contents
        /\ HoldsNeeded(contents, step) /\ step \in DOMAIN schedule
        /\ \A k \in DOMAIN schedule : OverwritesOnlyDead(k)
    BY <1>6 DEF VerifierInv, RunOperation
  <2>2. contents' = [contents EXCEPT ![At(Op(step).name)] = Op(step).name]
    BY <1>0, <1>6, <2>1, CommandsCompute DEF RunOperation
  <2>3. contents' \in Contents /\ HoldsNeeded(contents', step + 1)
    BY <1>0, <2>1, <2>2, ResultWritten
  <2>4. step' = step + 1 /\ step' \in 1..(Len(schedule) + 1)
    BY <1>0, <1>6, <2>1 DEF RunOperation
  <2>5. request' = request /\ plan' = plan /\ UNCHANGED <<phase, verdict, live>>
        /\ phase = "run"
    BY <1>6 DEF RunOperation
  <2> QED  BY <2>1, <2>3, <2>4, <2>5, PlanKept DEF VerifierInv
<1>7. CASE ReturnOutputs
  <2>1. /\ phase = "run" /\ phase' = "done" /\ step = Len(schedule) + 1
        /\ UNCHANGED <<request, plan, verdict, step, live, contents>>
    BY <1>7 DEF ReturnOutputs
  <2> QED  BY <2>1, PlanKept DEF VerifierInv
<1>8. CASE UNCHANGED verifierVars
  BY <1>8, PlanKept DEF VerifierInv, verifierVars
<1> QED  BY <1>2, <1>3, <1>4, <1>5, <1>6, <1>7, <1>8 DEF VerifierNext

-----------------------------------------------------------------------------

(* The strengthening is an invariant of every behaviour. *)
THEOREM VerifierInvariance == VerifierSpec => []VerifierInv
  BY VerifierInitInv, VerifierNextInv, PTL DEF VerifierSpec

(* The state of the verifier keeps its type. *)
THEOREM VerifierTypeCorrect == VerifierSpec => []VerifierTypeOK
<1>1. VerifierInv => VerifierTypeOK
  <2> SUFFICES ASSUME VerifierInv
               PROVE  VerifierTypeOK
    OBVIOUS
  <2>1. Contents \subseteq [StoragesOf(plan) -> ValueNames(graph) \cup {None, Garbage}]
    BY DEF Contents
  <2> QED  BY <2>1 DEF VerifierInv, VerifierTypeOK, Contents
<1> QED  BY <1>1, VerifierInvariance, PTL

(* What the invariant says of the execution. *)
LEMMA InvariantProtects ==
  ASSUME VerifierInv
  PROVE  OperandsIntact /\ NothingRuined /\ OutputsSurvive
<1>1. OperandsIntact
  <2> SUFFICES ASSUME phase = "run", step \in DOMAIN schedule
               PROVE  Holds(contents, Op(step).inputs)
    BY DEF OperandsIntact
  <2> QED  BY OperandsAlwaysLive DEF VerifierInv, Holds
<1>2. NothingRuined
  BY MarkersAssumption DEF VerifierInv, NothingRuined, Contents, Checked
<1>3. OutputsSurvive
  <2> SUFFICES ASSUME phase = "done", NEW v \in SeqRange(graph.outputs)
               PROVE  contents[At(v)] = v
    BY DEF OutputsSurvive, Holds
  <2>1. StaticFault(request, plan) = "none" /\ step = Len(schedule) + 1
        /\ Len(schedule) \in Nat /\ DOMAIN schedule = 1..Len(schedule)
        /\ HoldsNeeded(contents, step) /\ WellFormed(graph)
    BY DEF VerifierInv, Checked
  <2>2. v \in ValueNames(graph)
    BY <2>1 DEF WellFormed
  <2>3. OperationNames(graph) = SeqRange(schedule)
    BY <2>1, StaticFacts DEF ScheduleComplete, graph, schedule
  <2>4. SeqRange(schedule) \subseteq Available(step)
    BY <2>1 DEF SeqRange, Available
  <2>5. v \in Available(step)
    BY <2>2, <2>3, <2>4 DEF ValueNames, Available
  <2>6. Needed(graph, schedule, v, step)
    BY DEF Needed
  <2> QED  BY <2>1, <2>5, <2>6 DEF HoldsNeeded
<1> QED  BY <1>1, <1>2, <1>3

(***************************************************************************)
(* An accepted plan runs correctly: every operation finds its operands.    *)
(***************************************************************************)
THEOREM AcceptedPlansKeepOperands == VerifierSpec => []OperandsIntact
  BY InvariantProtects, VerifierInvariance, PTL

(* No command of an accepted plan computes from an overwritten operand. *)
THEOREM AcceptedPlansRuinNothing == VerifierSpec => []NothingRuined
  BY InvariantProtects, VerifierInvariance, PTL

(* Every requested output is in its storage when the program has run. *)
THEOREM AcceptedPlansKeepOutputs == VerifierSpec => []OutputsSurvive
  BY InvariantProtects, VerifierInvariance, PTL

(* The verifier's operand check never fires. *)
THEOREM OperandCheckNeverFires == VerifierSpec => []OperandCheckRedundant
<1>1. VerifierInv => OperandCheckRedundant
  BY DEF VerifierInv, OperandCheckRedundant
<1> QED  BY <1>1, VerifierInvariance, PTL

-----------------------------------------------------------------------------
(* Planning: baseline_mapping.                                             *)

(***************************************************************************)
(* Induction.  The induction theorems of the library take the statement as *)
(* an operator, which the provers cannot instantiate; that a set of        *)
(* naturals has a least element takes it as a set.                         *)
(***************************************************************************)
LEMMA LeastNatural ==
  ASSUME NEW T, T \subseteq Nat, T # {}
  PROVE  \E m \in T : \A k \in T : m <= k
<1>1. PICK x : x \in T
  OBVIOUS
<1>2. x \in Nat
  BY <1>1
<1>3. PICK m \in T : \A k \in T : <<k, m>> \notin OpToRel(<, Nat)
  BY <1>1, <1>2, WFMin, NatLessThanWellFounded, Zenon
<1>4. \A k \in T : ~(k < m)
  BY <1>3, Zenon DEF OpToRel
<1> QED  BY <1>4

(* The recursive function inside Kept, on a prefix of its domain. *)
KeptFunction(f, s, keep, last) ==
  f = [n \in 0..last |-> IF n = 0 THEN <<>>
                         ELSE IF n \in keep THEN Append(f[n - 1], s[n]) ELSE f[n - 1]]

(* Its defining equation has a solution. *)
LEMMA KeptFunctionExists ==
  ASSUME NEW s, NEW keep, NEW last \in Nat
  PROVE  \E f : KeptFunction(f, s, keep, last)
<1> DEFINE Unsolved == {n \in Nat : ~ \E f : KeptFunction(f, s, keep, n)}
<1> SUFFICES ASSUME Unsolved # {} PROVE FALSE
  OBVIOUS
<1>1. PICK m \in Unsolved : \A k \in Unsolved : m <= k
  BY LeastNatural
<1>2. CASE m = 0
  <2>1. KeptFunction([n \in 0..0 |-> <<>>], s, keep, 0)
    BY DEF KeptFunction
  <2> QED  BY <2>1, <1>1, <1>2
<1>3. CASE m > 0
  <2>1. m - 1 \in Nat /\ m - 1 \notin Unsolved
    BY <1>1, <1>3
  <2>2. PICK f : KeptFunction(f, s, keep, m - 1)
    BY <2>1
  <2> DEFINE g == [n \in 0..m |-> IF n < m THEN f[n]
                                  ELSE IF m \in keep THEN Append(f[m - 1], s[m]) ELSE f[m - 1]]
  <2>3. ASSUME NEW n \in 0..m
        PROVE  g[n] = IF n = 0 THEN <<>>
                      ELSE IF n \in keep THEN Append(g[n - 1], s[n]) ELSE g[n - 1]
    <3>1. CASE n = m
      BY <3>1, <1>3, <1>1
    <3>2. CASE n < m
      <4>1. n \in 0..(m - 1)
        BY <3>2, <2>1
      <4>2. f[n] = IF n = 0 THEN <<>>
                   ELSE IF n \in keep THEN Append(f[n - 1], s[n]) ELSE f[n - 1]
        BY <2>2, <4>1 DEF KeptFunction
      <4>3. g[n] = f[n] /\ (n # 0 => g[n - 1] = f[n - 1])
        BY <3>2, <1>1
      <4> QED  BY <4>2, <4>3
    <3> QED  BY <3>1, <3>2, <1>1
  <2>4. g = [n \in 0..m |-> g[n]]
    OBVIOUS
  <2> HIDE DEF g
  <2>5. KeptFunction(g, s, keep, m)
    BY <2>3, <2>4 DEF KeptFunction
  <2> QED  BY <2>5, <1>1
<1> QED  BY <1>1, <1>2, <1>3

(* t holds the elements of s at positions[1], positions[2], ...: these are *)
(* the positions up to last that are in keep, each once.                   *)
Selected(t, positions, s, keep, last) ==
  /\ positions \in [1..Len(t) -> keep \cap (1..last)]
  /\ \A j \in 1..Len(t) : t[j] = s[positions[j]]
  /\ \A i, j \in 1..Len(t) : positions[i] = positions[j] => i = j
  /\ \A i \in keep \cap (1..last) : \E j \in 1..Len(t) : positions[j] = i

(* One more position: its element is appended when it is kept. *)
LEMMA SelectedStep ==
  ASSUME NEW S, NEW s \in Seq(S), NEW keep, NEW n \in 1..Len(s),
         NEW t \in Seq(S), NEW positions, Selected(t, positions, s, keep, n - 1),
         NEW u, u = IF n \in keep THEN Append(t, s[n]) ELSE t
  PROVE  u \in Seq(S) /\ \E p : Selected(u, p, s, keep, n)
<1>1. CASE n \in keep
  <2> DEFINE p == [j \in 1..(Len(t) + 1) |-> IF j <= Len(t) THEN positions[j] ELSE n]
  <2>1. u \in Seq(S) /\ Len(u) = Len(t) + 1 /\ Len(t) \in Nat /\ n \in Nat
        /\ u[Len(t) + 1] = s[n] /\ \A j \in 1..Len(t) : u[j] = t[j]
    BY <1>1
  <2>2. \A j \in 1..Len(t) : p[j] = positions[j] /\ positions[j] \in keep \cap (1..(n - 1))
    <3>1. ASSUME NEW j \in 1..Len(t) PROVE positions[j] \in keep \cap (1..(n - 1))
      BY DEF Selected
    <3>2. ASSUME NEW j \in 1..Len(t) PROVE p[j] = positions[j]
      <4>1. j \in 1..(Len(t) + 1) /\ j <= Len(t)
        BY <2>1
      <4>2. QED
        BY <4>1
    <3> HIDE DEF p
    <3>3. QED
      BY <3>1, <3>2
  <2>3. p[Len(t) + 1] = n /\ p \in [1..Len(u) -> keep \cap (1..n)]
    <3>1. p[Len(t) + 1] = n
      BY <2>1
    <3>2. ASSUME NEW j \in 1..Len(u)
          PROVE  p[j] \in keep \cap (1..n)
      <4>1. j \in 1..Len(t) \/ j = Len(t) + 1
        BY <2>1
      <4>2. keep \cap (1..(n - 1)) \subseteq keep \cap (1..n) /\ n \in keep \cap (1..n)
        BY <2>1, <1>1
      <4> HIDE DEF p
      <4> QED  BY <4>1, <4>2, <2>2, <3>1
    <3>3. p = [j \in 1..Len(u) |-> p[j]]
      BY <2>1
    <3> HIDE DEF p
    <3> QED  BY <3>1, <3>2, <3>3
  <2> HIDE DEF p
  <2>4. \A j \in 1..Len(u) : u[j] = s[p[j]]
    BY <2>1, <2>2, <2>3 DEF Selected
  <2>5. \A i, j \in 1..Len(u) : p[i] = p[j] => i = j
    <3> SUFFICES ASSUME NEW i \in 1..Len(u), NEW j \in 1..Len(u), p[i] = p[j]
                 PROVE  i = j
      OBVIOUS
    <3>1. /\ i \in 1..Len(t) \/ i = Len(t) + 1
          /\ j \in 1..Len(t) \/ j = Len(t) + 1
      BY <2>1
    <3>2. i \in 1..Len(t) => p[i] # n
      BY <2>1, <2>2
    <3>3. j \in 1..Len(t) => p[j] # n
      BY <2>1, <2>2
    <3>4. i \in 1..Len(t) /\ j \in 1..Len(t) => i = j
      BY <2>2 DEF Selected
    <3> QED  BY <3>1, <3>2, <3>3, <3>4, <2>3
  <2>6. \A i \in keep \cap (1..n) : \E j \in 1..Len(u) : p[j] = i
    <3> SUFFICES ASSUME NEW i \in keep \cap (1..n)
                 PROVE  \E j \in 1..Len(u) : p[j] = i
      OBVIOUS
    <3>1. CASE i = n
      BY <3>1, <2>1, <2>3
    <3>2. CASE i \in keep \cap (1..(n - 1))
      <4>1. PICK j \in 1..Len(t) : positions[j] = i
        BY <3>2 DEF Selected
      <4>2. j \in 1..Len(u) /\ p[j] = i
        BY <4>1, <2>1, <2>2
      <4> QED  BY <4>2
    <3>3. i = n \/ i \in keep \cap (1..(n - 1))
      BY <2>1
    <3> QED  BY <3>1, <3>2, <3>3
  <2>7. Selected(u, p, s, keep, n)
    BY <2>3, <2>4, <2>5, <2>6 DEF Selected
  <2> QED  BY <2>1, <2>7
<1>2. CASE n \notin keep
  <2>1. keep \cap (1..n) = keep \cap (1..(n - 1)) /\ u = t
    BY <1>2
  <2>2. Selected(t, positions, s, keep, n) = Selected(t, positions, s, keep, n - 1)
    BY <2>1 DEF Selected
  <2>3. Selected(u, positions, s, keep, n)
    BY <2>1, <2>2
  <2> QED  BY <2>1, <2>3
<1> QED  BY <1>1, <1>2

(* Kept selects the positions in keep, each once, in their order. *)
LEMMA KeptSelects ==
  ASSUME NEW S, NEW s \in Seq(S), NEW keep
  PROVE  /\ Kept(s, keep) \in Seq(S)
         /\ \E p : Selected(Kept(s, keep), p, s, keep, Len(s))
<1>1. Len(s) \in Nat
  OBVIOUS
<1> DEFINE f == CHOOSE g : KeptFunction(g, s, keep, Len(s))
           Good(n) == f[n] \in Seq(S) /\ \E p : Selected(f[n], p, s, keep, n)
           Bad == {n \in 0..Len(s) : ~Good(n)}
<1>2. KeptFunction(f, s, keep, Len(s))
  BY <1>1, KeptFunctionExists
<1>3. Kept(s, keep) = f[Len(s)]
  BY DEF Kept, KeptFunction
<1>4. \A n \in 0..Len(s) :
        f[n] = IF n = 0 THEN <<>>
               ELSE IF n \in keep THEN Append(f[n - 1], s[n]) ELSE f[n - 1]
  BY <1>2 DEF KeptFunction
<1> HIDE DEF f
<1>5. Good(0)
  <2>1. f[0] = <<>>
    BY <1>1, <1>4
  <2>2. Selected(<<>>, <<>>, s, keep, 0)
    BY DEF Selected
  <2> QED  BY <2>1, <2>2
<1>6. ASSUME NEW n \in 1..Len(s), Good(n - 1)
      PROVE  Good(n)
  <2>1. f[n] = IF n \in keep THEN Append(f[n - 1], s[n]) ELSE f[n - 1]
    BY <1>4, <1>1
  <2>2. PICK p : Selected(f[n - 1], p, s, keep, n - 1)
    BY <1>6
  <2>3. f[n - 1] \in Seq(S)
    BY <1>6
  <2> DEFINE t == f[n - 1]
             u == f[n]
  <2>4. u = IF n \in keep THEN Append(t, s[n]) ELSE t
    BY <2>1
  <2>5. t \in Seq(S) /\ Selected(t, p, s, keep, n - 1)
    BY <2>2, <2>3
  <2> HIDE DEF t, u
  <2>6. u \in Seq(S) /\ \E q : Selected(u, q, s, keep, n)
    BY <2>4, <2>5, SelectedStep
  <2> QED  BY <2>6 DEF u
<1>7. Bad = {}
  <2> SUFFICES ASSUME Bad # {} PROVE FALSE
    OBVIOUS
  <2>1. PICK m \in Bad : \A k \in Bad : m <= k
    <3>1. Bad \subseteq Nat
      BY <1>1
    <3> HIDE DEF Bad
    <3> QED  BY <3>1, LeastNatural
  <2>2. m # 0 /\ m \in 0..Len(s) /\ ~Good(m)
    BY <2>1, <1>5
  <2> HIDE DEF Good
  <2>3. m - 1 \in 0..Len(s) /\ m - 1 \notin Bad /\ m \in 1..Len(s)
    BY <2>1, <2>2, <1>1
  <2> QED  BY <2>3, <2>2, <1>6
<1> HIDE DEF Good
<1>8. Good(Len(s))
  BY <1>1, <1>7
<1> QED  BY <1>3, <1>8 DEF Good

(* The elements kept are those at the positions to keep. *)
LEMMA KeptElements ==
  ASSUME NEW S, NEW s \in Seq(S), NEW keep
  PROVE  /\ Kept(s, keep) \in Seq(S)
         /\ SeqRange(Kept(s, keep)) = {s[i] : i \in keep \cap DOMAIN s}
<1> DEFINE t == Kept(s, keep)
<1>1. PICK p : Selected(t, p, s, keep, Len(s))
  BY KeptSelects
<1>2. t \in Seq(S)
  BY KeptSelects
<1>3. DOMAIN t = 1..Len(t) /\ DOMAIN s = 1..Len(s)
  BY <1>2
<1> HIDE DEF t
<1>4. \A j \in 1..Len(t) : p[j] \in keep \cap (1..Len(s)) /\ t[j] = s[p[j]]
  BY <1>1 DEF Selected
<1>5. \A i \in keep \cap (1..Len(s)) : \E j \in 1..Len(t) : p[j] = i
  BY <1>1 DEF Selected
<1>6. SeqRange(t) = {s[i] : i \in keep \cap DOMAIN s}
  BY <1>3, <1>4, <1>5 DEF SeqRange
<1> QED  BY <1>2, <1>6 DEF t

(* Elements that differ at the positions to keep are kept apart. *)
LEMMA KeptInjective ==
  ASSUME NEW S, NEW s \in Seq(S), NEW keep,
         \A i, j \in keep \cap DOMAIN s : s[i] = s[j] => i = j
  PROVE  Injective(Kept(s, keep))
<1> DEFINE t == Kept(s, keep)
<1>1. PICK p : Selected(t, p, s, keep, Len(s))
  BY KeptSelects
<1>2. t \in Seq(S)
  BY KeptSelects
<1>3. DOMAIN t = 1..Len(t) /\ DOMAIN s = 1..Len(s)
  BY <1>2
<1> HIDE DEF t
<1>4. ASSUME NEW i \in DOMAIN t, NEW j \in DOMAIN t, t[i] = t[j]
      PROVE  i = j
  <2>1. p[i] \in keep \cap DOMAIN s /\ p[j] \in keep \cap DOMAIN s /\ s[p[i]] = s[p[j]]
    BY <1>1, <1>3, <1>4 DEF Selected
  <2>2. p[i] = p[j]
    BY <2>1
  <2> QED  BY <2>2, <1>1, <1>3 DEF Selected
<1> QED  BY <1>4 DEF Injective, t

-----------------------------------------------------------------------------

(* _fresh_storage returns a name that is not taken: among one more numbers *)
(* than there are names taken, one is free.                                *)
LEMMA FreshStorageIsFresh ==
  ASSUME NEW v, NEW taken, IsFiniteSet(taken)
  PROVE  FreshStorage(v, taken) \notin taken
<1> DEFINE count == Cardinality(taken)
           Free == {k \in 0..count : Suffixed(v, k) \notin taken}
<1>1. count \in Nat
  BY FS_CardinalityType
<1>2. Free # {}
  <2> SUFFICES ASSUME Free = {} PROVE FALSE
    OBVIOUS
  <2> DEFINE numbers == 0..count
             f == [k \in numbers |-> Suffixed(v, k)]
  <2>1. f \in [numbers -> taken]
    OBVIOUS
  <2>2. IsFiniteSet(numbers) /\ Cardinality(numbers) = count + 1
    BY <1>1, FS_Interval
  <2>3. Cardinality(taken) < Cardinality(numbers)
    BY <2>2, <1>1
  <2> HIDE DEF f, numbers
  <2>4. \E x, y \in numbers : x # y /\ f[x] = f[y]
    BY <2>1, <2>2, <2>3, FS_PigeonHole
  <2> QED  BY <2>4 DEF f, Suffixed
<1>3. PICK k \in Free : \A j \in Free : k <= j
  <2>1. Free \subseteq Nat
    BY <1>1
  <2> HIDE DEF Free
  <2> QED  BY <2>1, <1>2, LeastNatural
<1>4. \A j \in 0..(k - 1) : Suffixed(v, j) \in taken
  <2> SUFFICES ASSUME NEW j \in 0..(k - 1), Suffixed(v, j) \notin taken PROVE FALSE
    OBVIOUS
  <2>1. k \in 0..count /\ j \in 0..count /\ j < k
    BY <1>1
  <2>2. j \in Free
    BY <2>1
  <2> QED  BY <2>1, <2>2, <1>3
<1>5. k \in 0..count /\ Suffixed(v, k) \notin taken
  OBVIOUS
<1> DEFINE chosen == CHOOSE i \in 0..count : /\ Suffixed(v, i) \notin taken
                                            /\ \A j \in 0..(i - 1) : Suffixed(v, j) \in taken
<1>6. Suffixed(v, chosen) \notin taken
  BY <1>4, <1>5
<1>7. FreshStorage(v, taken) = IF Named(v) \notin taken THEN Named(v) ELSE Suffixed(v, chosen)
  BY DEF FreshStorage
<1> HIDE DEF chosen
<1> QED  BY <1>6, <1>7

-----------------------------------------------------------------------------

GraphOrder == [k \in DOMAIN graph.operations |-> graph.operations[k].name]

placed == Len(plan.placements)
entry == Len(graph.inputs)

(* What a request gives: values in order, each operation at its step. *)
LEMMA GraphFacts ==
  ASSUME request \in MappingRequests, schedule = GraphOrder
  PROVE  /\ entry \in Nat /\ OperationCount \in Nat
         /\ Len(Values(graph)) = entry + OperationCount
         /\ DOMAIN Values(graph) = 1..(entry + OperationCount)
         /\ Injective(Values(graph))
         /\ SeqRange(Values(graph)) = ValueNames(graph)
         /\ \A i \in 1..entry : Values(graph)[i] = graph.inputs[i]
         /\ \A k \in 1..OperationCount : Values(graph)[entry + k] = graph.operations[k].name
<1> DEFINE names == [k \in DOMAIN graph.operations |-> graph.operations[k].name]
           all == SeqRange(graph.inputs) \cup OperationNames(graph)
<1>1. /\ IsSequence(graph.inputs) /\ IsSequence(graph.operations)
      /\ Injective(Values(graph))
  BY MapperAssumption, MappingAssumption DEF graph, WellFormed
<1>2. DOMAIN graph.inputs = 1..entry /\ entry \in Nat
      /\ DOMAIN graph.operations = 1..OperationCount /\ OperationCount \in Nat
  BY <1>1 DEF IsSequence, entry, OperationCount
<1>3. graph.inputs \in Seq(all) /\ Len(graph.inputs) = entry
  <2>1. graph.inputs \in [1..entry -> all]
    BY <1>1, <1>2 DEF IsSequence, entry, SeqRange
  <2> QED  BY <2>1, <1>2 DEF entry
<1>4. names \in Seq(all) /\ Len(names) = OperationCount
  <2>1. names \in [1..OperationCount -> all]
    BY <1>2 DEF OperationNames
  <2> QED  BY <2>1, <1>2
<1>5. Values(graph) = graph.inputs \o names
  BY DEF Values
<1> HIDE DEF names, all
<1>6. /\ Values(graph) \in Seq(all) /\ Len(Values(graph)) = entry + OperationCount
      /\ \A i \in 1..(entry + OperationCount) :
           Values(graph)[i] = IF i <= entry THEN graph.inputs[i] ELSE names[i - entry]
  BY <1>3, <1>4, <1>5, ConcatProperties
<1>7. /\ \A i \in 1..entry : Values(graph)[i] = graph.inputs[i]
      /\ \A k \in 1..OperationCount : Values(graph)[entry + k] = names[k]
  <2>1. ASSUME NEW i \in 1..entry PROVE Values(graph)[i] = graph.inputs[i]
    BY <1>6, <1>2
  <2>2. ASSUME NEW k \in 1..OperationCount PROVE Values(graph)[entry + k] = names[k]
    <3>1. entry + k \in 1..(entry + OperationCount) /\ ~(entry + k <= entry)
          /\ (entry + k) - entry = k
      BY <1>2
    <3> QED  BY <3>1, <1>6
  <2> QED  BY <2>1, <2>2
<1>8. \A k \in 1..OperationCount : names[k] = graph.operations[k].name
  BY <1>2 DEF names
<1>9. DOMAIN Values(graph) = 1..(entry + OperationCount)
  BY <1>6, <1>2
<1>10. SeqRange(Values(graph)) \subseteq ValueNames(graph)
  BY <1>6 DEF SeqRange, all, ValueNames
<1>11. ASSUME NEW v \in ValueNames(graph)
       PROVE  v \in SeqRange(Values(graph))
  <2>1. CASE v \in SeqRange(graph.inputs)
    <3>1. PICK i \in 1..entry : v = graph.inputs[i]
      BY <2>1, <1>2 DEF SeqRange
    <3>2. i \in DOMAIN Values(graph)
      BY <1>2, <1>9
    <3> QED  BY <3>1, <3>2, <1>6 DEF SeqRange
  <2>2. CASE v \in OperationNames(graph)
    <3>1. PICK k \in 1..OperationCount : v = graph.operations[k].name
      BY <2>2, <1>2 DEF OperationNames
    <3>2. entry + k \in DOMAIN Values(graph)
      BY <1>2, <1>9
    <3> QED  BY <3>1, <3>2, <1>7, <1>8 DEF SeqRange
  <2> QED  BY <1>11, <2>1, <2>2 DEF ValueNames
<1> QED  BY <1>1, <1>2, <1>6, <1>7, <1>8, <1>9, <1>10, <1>11

(* The schedule is the graph's own order. *)
LEMMA OwnOrder ==
  ASSUME request \in MappingRequests, schedule = GraphOrder
  PROVE  /\ Len(schedule) = OperationCount /\ DOMAIN schedule = 1..OperationCount
         /\ \A k \in 1..OperationCount : Op(k) = graph.operations[k]
         /\ \A k \in 1..OperationCount : schedule[k] = Op(k).name
<1>1. IsSequence(graph.operations)
  BY MapperAssumption DEF graph
<1>2. DOMAIN graph.operations = 1..OperationCount /\ OperationCount \in Nat
  BY <1>1 DEF IsSequence, OperationCount
<1>3. Len(schedule) = OperationCount /\ DOMAIN schedule = 1..OperationCount
  BY <1>2 DEF GraphOrder
<1>4. ASSUME NEW k \in 1..OperationCount
      PROVE  Op(k) = graph.operations[k] /\ schedule[k] = Op(k).name
  <2>1. schedule[k] = graph.operations[k].name
    BY <1>2 DEF GraphOrder
  <2>2. ASSUME NEW j \in 1..OperationCount, graph.operations[j].name = graph.operations[k].name
        PROVE  j = k
    <3>1. /\ Values(graph)[entry + j] = Values(graph)[entry + k]
          /\ entry + j \in DOMAIN Values(graph) /\ entry + k \in DOMAIN Values(graph)
          /\ entry \in Nat
      BY <2>2, <1>2, GraphFacts
    <3>2. entry + j = entry + k
      BY <3>1, GraphFacts DEF Injective
    <3> QED  BY <3>1, <3>2
  <2> DEFINE i == CHOOSE i \in DOMAIN graph.operations : graph.operations[i].name = schedule[k]
  <2>3. i = k
    BY <2>1, <2>2, <1>2
  <2>4. Op(k) = graph.operations[i]
    BY DEF Op, Operation
  <2> QED  BY <2>1, <2>3, <2>4
<1> QED  BY <1>3, <1>4

-----------------------------------------------------------------------------

(* Storage of the i-th value. *)
Home(i) == plan.placements[i].storage

(* The plan holds the placements of the first values, in their order. *)
PlanShape ==
  /\ request \in MappingRequests
  /\ plan = [placements |-> plan.placements, accumulators |-> plan.accumulators,
              schedule |-> GraphOrder]
  /\ IsSequence(plan.placements)
  /\ placed <= Len(Values(graph))
  /\ \A i \in 1..placed :
       plan.placements[i] = [value |-> Values(graph)[i], storage |-> Home(i)]

(* owners names the value placed last in every object. *)
OwnersAreLast ==
  /\ DOMAIN owners = StoragesOf(plan)
  /\ \A s \in DOMAIN owners :
       \E i \in 1..placed : /\ Home(i) = s /\ owners[s] = Values(graph)[i]
                            /\ \A j \in 1..placed : j > i => Home(j) # s

(* Where the mapper looks for storage there are only objects of the plan. *)
ListsPlaced ==
  /\ DOMAIN expirations = ExpirySteps(graph)
  /\ \A k \in DOMAIN expirations :
       expirations[k] \in Seq(StoragesOf(plan) \X ValueNames(graph))
  /\ DOMAIN free = {Slots(request, v) : v \in ValueNames(graph)}
  /\ \A n \in DOMAIN free : free[n] \in Seq(StoragesOf(plan))

(***************************************************************************)
(* The mapper's choice for operation k: a placement the caller requires, a *)
(* new object, the storage of the left operand at its last use by a        *)
(* command that allows it, or an object whose last value is dead.          *)
(***************************************************************************)
Earlier(s, k) == {i \in 1..(entry + k - 1) : Home(i) = s}

SafelyPlaced(k) ==
  LET s == Home(entry + k)
  IN  \/ Requirements(Op(k).name) # {}
      \/ Earlier(s, k) = {}
      \/ \E i \in Earlier(s, k) : /\ Values(graph)[i] = Op(k).inputs[1]
                                  /\ LastUseAt(graph, schedule, Op(k).inputs[1], k)
                                  /\ Op(k).kind \notin RevisitingKinds
      \/ \E i \in Earlier(s, k) : /\ \A j \in Earlier(s, k) : j <= i
                                  /\ ~Needed(graph, schedule, Values(graph)[i], k)

MappingInv ==
  /\ PlanShape
  /\ verdict = "none"
  /\ step \in 1..(OperationCount + 1)
  /\ \/ step = 1 /\ placed <= entry
     \/ placed = entry + step - 1
  /\ OwnersAreLast
  /\ ListsPlaced
  /\ \A k \in 1..(step - 1) : SafelyPlaced(k)

(* The verifier's map names the value placed last before the step. *)
LiveIsLast ==
  \A s \in StoragesOf(plan) :
    /\ Earlier(s, step) = {} => live[s] = None
    /\ \A i \in Earlier(s, step) :
         (\A j \in Earlier(s, step) : j <= i) => live[s] = Values(graph)[i]

MappedInv ==
  /\ VerifierInv
  /\ PlanShape /\ placed = entry + OperationCount
  /\ \A k \in 1..OperationCount : SafelyPlaced(k)
  /\ phase = "walk" => LiveIsLast
  /\ verdict = "alias" => Requirements(Op(step).name) # {}

MapperInv ==
  /\ phase = "map" => MappingInv
  /\ phase # "map" => MappedInv

-----------------------------------------------------------------------------

(* What the shape of the plan gives. *)
LEMMA ShapeFacts ==
  ASSUME PlanShape
  PROVE  /\ schedule = GraphOrder
         /\ placed \in Nat /\ DOMAIN plan.placements = 1..placed
         /\ StoragesOf(plan) = {Home(i) : i \in 1..placed}
<1>1. schedule = GraphOrder
  BY DEF PlanShape, schedule
<1>2. placed \in Nat /\ DOMAIN plan.placements = 1..placed
  BY DEF PlanShape, IsSequence, placed
<1> QED  BY <1>1, <1>2 DEF StoragesOf, Home

(* A value is at home where its placement says. *)
LEMMA PlacedAt ==
  ASSUME PlanShape, NEW i \in 1..placed
  PROVE  At(Values(graph)[i]) = Home(i)
<1> DEFINE v == Values(graph)[i]
           j == CHOOSE k \in DOMAIN plan.placements : plan.placements[k].value = v
<1>1. ASSUME NEW k \in 1..placed PROVE plan.placements[k].value = Values(graph)[k]
  <2>1. plan.placements[k] = [value |-> Values(graph)[k], storage |-> Home(k)]
    BY DEF PlanShape
  <2> QED  BY <2>1
<1>2. j \in 1..placed /\ Values(graph)[j] = v
  BY <1>1, ShapeFacts
<1>3. i \in DOMAIN Values(graph) /\ j \in DOMAIN Values(graph)
  BY <1>2, ShapeFacts, GraphFacts DEF PlanShape
<1>4. j = i
  BY <1>2, <1>3, ShapeFacts, GraphFacts DEF Injective, PlanShape
<1>5. At(v) = plan.placements[j].storage
  BY DEF At, StorageOf
<1> QED  BY <1>4, <1>5 DEF Home

(* The names taken are finitely many. *)
LEMMA ReservedFinite ==
  ASSUME PlanShape
  PROVE  IsFiniteSet(reserved) /\ StoragesOf(plan) \subseteq reserved
<1> DEFINE required == {request.constraints[i].storage : i \in DOMAIN request.constraints}
<1>1. IsSequence(request.constraints)
  BY MapperAssumption DEF PlanShape
<1>2. DOMAIN request.constraints = 1..Len(request.constraints)
      /\ Len(request.constraints) \in Nat
  BY <1>1 DEF IsSequence
<1>3. ASSUME NEW n \in Nat, NEW S, NEW f \in [1..n -> S], S = {f[i] : i \in 1..n}
      PROVE  IsFiniteSet(S)
  <2>1. f \in Surjection(1..n, S)
    BY <1>3 DEF Surjection
  <2>2. IsFiniteSet(1..n)
    BY FS_Interval
  <2> QED  BY <2>1, <2>2, FS_Surjection
<1>4. IsFiniteSet(required)
  <2> DEFINE f == [i \in 1..Len(request.constraints) |-> request.constraints[i].storage]
  <2>1. f \in [1..Len(request.constraints) -> required]
        /\ required = {f[i] : i \in 1..Len(request.constraints)}
    BY <1>2
  <2> HIDE DEF f, required
  <2> QED  BY <2>1, <1>2, <1>3
<1>5. IsFiniteSet(StoragesOf(plan))
  <2> DEFINE f == [i \in 1..placed |-> Home(i)]
             S == StoragesOf(plan)
  <2>1. f \in [1..placed -> S] /\ S = {f[i] : i \in 1..placed} /\ placed \in Nat
    BY ShapeFacts
  <2> HIDE DEF f, S
  <2>2. IsFiniteSet(S)
    BY <2>1, <1>3
  <2> QED  BY <2>2 DEF S
<1>6. reserved = required \cup StoragesOf(plan)
  BY DEF reserved
<1> HIDE DEF required
<1> QED  BY <1>4, <1>5, <1>6, FS_Union

(* What a placement assigns. *)
LEMMA Bookkeeping ==
  ASSUME NEW v, NEW s, Place(v, s)
  PROVE  /\ plan' = [plan EXCEPT !.placements = Append(@, [value |-> v, storage |-> s])]
         /\ owners' = Assigned(owners, s, v)
         /\ sizes' = Assigned(sizes, s, Slots(request, v))
         /\ expirations' = [expirations EXCEPT ![ExpiresAt(v)] = Append(@, <<s, v>>)]
  BY DEF Place

(* What a placement leaves of the plan. *)
LEMMA Placing ==
  ASSUME PlanShape, placed < Len(Values(graph)), NEW s, request' = request,
         Place(Values(graph)[placed + 1], s)
  PROVE  /\ PlanShape'
         /\ placed' = placed + 1
         /\ \A i \in 1..placed : Home(i)' = Home(i)
         /\ plan'.placements[placed + 1].storage = s
         /\ StoragesOf(plan') = StoragesOf(plan) \cup {s}
         /\ schedule' = schedule
<1> DEFINE v == Values(graph)[placed + 1]
           new == [value |-> v, storage |-> s]
           ps == plan.placements
<1>1. plan' = [plan EXCEPT !.placements = Append(@, new)]
  BY Bookkeeping
<1>2. plan' = [placements |-> Append(ps, new), accumulators |-> plan.accumulators,
               schedule |-> GraphOrder]
  <2> DEFINE registers == plan.accumulators
             order == GraphOrder
             old == plan
  <2>1. old = [placements |-> ps, accumulators |-> registers, schedule |-> order]
    BY DEF PlanShape
  <2>2. plan' = [old EXCEPT !.placements = Append(old.placements, new)]
    BY <1>1
  <2> HIDE DEF old, ps, registers, order, new
  <2>3. plan' = [placements |-> Append(ps, new), accumulators |-> registers, schedule |-> order]
    BY <2>1, <2>2
  <2> QED  BY <2>3 DEF registers, order
<1>3. IsSequence(ps) /\ placed = Len(ps) /\ placed \in Nat
  BY ShapeFacts DEF PlanShape, placed
<1>4. /\ Len(Append(ps, new)) = placed + 1
      /\ Append(ps, new) = [i \in 1..(placed + 1) |-> IF i <= placed THEN ps[i] ELSE new]
  <2> DEFINE all == {ps[i] : i \in 1..placed} \cup {new}
  <2>1. ps \in Seq(all)
    <3>1. ps \in [1..placed -> all]
      BY <1>3 DEF IsSequence
    <3> QED  BY <3>1, <1>3
  <2>2. new \in all
    OBVIOUS
  <2> HIDE DEF all, new
  <2> QED  BY <2>1, <2>2, <1>3
<1> HIDE DEF new
<1>5. plan'.placements = Append(ps, new)
  BY <1>2
<1>6. /\ placed' = placed + 1
      /\ \A i \in 1..placed : plan'.placements[i] = ps[i]
      /\ plan'.placements[placed + 1] = new
  BY <1>3, <1>4, <1>5 DEF placed
<1>7. IsSequence(plan'.placements)
  <2>1. Len(plan'.placements) = placed + 1 /\ placed + 1 \in Nat
    BY <1>3, <1>4, <1>5
  <2>2. plan'.placements = [i \in 1..(placed + 1) |-> plan'.placements[i]]
    BY <1>4, <1>5
  <2> QED  BY <2>1, <2>2 DEF IsSequence
<1>8. graph' = graph /\ GraphOrder' = GraphOrder
  BY DEF graph, GraphOrder
<1>9. \A i \in 1..placed : Home(i)' = Home(i)
  BY <1>6 DEF Home
<1>10. new = [value |-> v, storage |-> plan'.placements[placed + 1].storage]
       /\ plan'.placements[placed + 1].storage = s
  BY <1>6 DEF new
<1>11. PlanShape'
  <2>1. \A i \in 1..(placed + 1) :
          plan'.placements[i] = [value |-> Values(graph)[i], storage |-> plan'.placements[i].storage]
    <3> SUFFICES ASSUME NEW i \in 1..(placed + 1)
                 PROVE  plan'.placements[i]
                          = [value |-> Values(graph)[i], storage |-> plan'.placements[i].storage]
      OBVIOUS
    <3>1. CASE i \in 1..placed
      BY <3>1, <1>6, <1>9 DEF PlanShape, Home
    <3>2. CASE i = placed + 1
      BY <3>2, <1>6, <1>10
    <3> QED  BY <3>1, <3>2, <1>3
  <2>2. placed + 1 <= Len(Values(graph))
    BY <1>3, ShapeFacts, GraphFacts DEF PlanShape
  <2>3. plan' = [placements |-> plan'.placements, accumulators |-> plan'.accumulators,
                 schedule |-> GraphOrder]
    BY <1>2
  <2>4. request' \in MappingRequests
    BY DEF PlanShape
  <2>5. Len(plan'.placements) = placed'
    BY DEF placed
  <2> QED  BY <2>1, <2>2, <2>3, <2>4, <2>5, <1>6, <1>7, <1>8 DEF PlanShape, Home
<1>12. StoragesOf(plan') = StoragesOf(plan) \cup {s}
  <2>1. DOMAIN plan'.placements = 1..(placed + 1)
    BY <1>4, <1>5
  <2>2. StoragesOf(plan') = {plan'.placements[i].storage : i \in 1..(placed + 1)}
    BY <2>1 DEF StoragesOf
  <2>3. \A i \in 1..(placed + 1) : i \in 1..placed \/ i = placed + 1
    BY <1>3
  <2>4. 1..placed \subseteq 1..(placed + 1) /\ placed + 1 \in 1..(placed + 1)
    BY <1>3
  <2> QED  BY <2>2, <2>3, <2>4, <1>9, <1>10, ShapeFacts DEF Home
<1>13. schedule' = schedule
  BY <1>2 DEF schedule, PlanShape
<1> QED  BY <1>6, <1>9, <1>10, <1>11, <1>12, <1>13

(* The owners follow a placement. *)
LEMMA OwnersFollow ==
  ASSUME PlanShape, placed < Len(Values(graph)), NEW s, request' = request,
         Place(Values(graph)[placed + 1], s), OwnersAreLast
  PROVE  OwnersAreLast'
<1> DEFINE v == Values(graph)[placed + 1]
<1>1. owners' = Assigned(owners, s, v)
  BY Bookkeeping
<1>2. /\ DOMAIN owners' = DOMAIN owners \cup {s}
      /\ owners'[s] = v
      /\ \A t \in DOMAIN owners : t # s => owners'[t] = owners[t]
  BY <1>1 DEF Assigned
<1>3. /\ placed' = placed + 1 /\ placed \in Nat
      /\ \A i \in 1..placed : Home(i)' = Home(i)
      /\ plan'.placements[placed + 1].storage = s
      /\ StoragesOf(plan') = StoragesOf(plan) \cup {s}
  BY Placing, ShapeFacts
<1>4. graph' = graph
  BY DEF graph
<1>5. ASSUME NEW t \in DOMAIN owners'
      PROVE  \E i \in 1..placed' : /\ plan'.placements[i].storage = t
                                   /\ owners'[t] = Values(graph)[i]
                                   /\ \A j \in 1..placed' : j > i =>
                                        plan'.placements[j].storage # t
  <2>1. CASE t = s
    <3>1. placed + 1 \in 1..placed' /\ \A j \in 1..placed' : ~(j > placed + 1)
      BY <1>3
    <3> QED  BY <3>1, <2>1, <1>2, <1>3
  <2>2. CASE t # s
    <3>1. t \in DOMAIN owners /\ owners'[t] = owners[t]
      BY <2>2, <1>2, <1>5
    <3>2. PICK i \in 1..placed : /\ Home(i) = t /\ owners[t] = Values(graph)[i]
                                /\ \A j \in 1..placed : j > i => Home(j) # t
      BY <3>1 DEF OwnersAreLast
    <3>3. \A j \in 1..placed' : j \in 1..placed \/ j = placed + 1
      BY <1>3
    <3>4. i \in 1..placed' /\ plan'.placements[i].storage = t
      BY <3>2, <1>3 DEF Home
    <3>5. \A j \in 1..placed' : j > i => plan'.placements[j].storage # t
      BY <3>2, <3>3, <2>2, <1>3 DEF Home
    <3> QED  BY <3>1, <3>2, <3>4, <3>5
  <2> QED  BY <2>1, <2>2
<1>6. DOMAIN owners' = StoragesOf(plan')
  BY <1>2, <1>3 DEF OwnersAreLast
<1> QED  BY <1>4, <1>5, <1>6 DEF OwnersAreLast, Home

(* So do the entries that say when contents expire. *)
LEMMA EntriesFollow ==
  ASSUME PlanShape, placed < Len(Values(graph)), NEW s, request' = request,
         Place(Values(graph)[placed + 1], s), ListsPlaced
  PROVE  \A k \in DOMAIN expirations' :
           expirations'[k] \in Seq(StoragesOf(plan') \X ValueNames(graph))
<1> DEFINE v == Values(graph)[placed + 1]
           Before == StoragesOf(plan) \X ValueNames(graph)
           After == StoragesOf(plan') \X ValueNames(graph)
<1>1. expirations' = [expirations EXCEPT ![ExpiresAt(v)] = Append(@, <<s, v>>)]
  BY Bookkeeping
<1>2. StoragesOf(plan') = StoragesOf(plan) \cup {s}
  BY Placing
<1>3. v \in ValueNames(graph)
  <2>1. placed + 1 \in DOMAIN Values(graph)
    BY ShapeFacts, GraphFacts DEF PlanShape
  <2> QED  BY <2>1, ShapeFacts, GraphFacts DEF PlanShape, SeqRange
<1>4. Before \subseteq After /\ <<s, v>> \in After
  BY <1>2, <1>3
<1>5. \A k \in DOMAIN expirations : expirations[k] \in Seq(Before)
  BY DEF ListsPlaced
<1> HIDE DEF Before, After, v
<1>6. \A k \in DOMAIN expirations : expirations[k] \in Seq(After)
  BY <1>4, <1>5
<1>7. \A k \in DOMAIN expirations : Append(expirations[k], <<s, v>>) \in Seq(After)
  BY <1>4, <1>6
<1>8. \A k \in DOMAIN expirations' : expirations'[k] \in Seq(After)
  BY <1>1, <1>6, <1>7
<1> QED  BY <1>8 DEF After

(* A choice that was safe stays safe when more values are placed. *)
LEMMA SafeKept ==
  ASSUME PlanShape, placed < Len(Values(graph)), NEW s, request' = request,
         Place(Values(graph)[placed + 1], s),
         NEW k \in 1..OperationCount, entry + k <= placed, SafelyPlaced(k)
  PROVE  SafelyPlaced(k)'
<1>1. /\ graph' = graph /\ schedule' = schedule /\ entry' = entry
      /\ Op(k)' = Op(k) /\ Requirements(Op(k).name)' = Requirements(Op(k).name)
  BY Placing DEF graph, entry, Op, Requirements
<1>2. entry \in Nat /\ placed \in Nat /\ k \in Nat
  BY ShapeFacts, GraphFacts DEF PlanShape
<1>3. \A i \in 1..(entry + k) : Home(i)' = Home(i)
  BY <1>2, Placing
<1>4. Home(entry + k)' = Home(entry + k) /\ \A i \in 1..(entry + k - 1) : Home(i)' = Home(i)
  BY <1>1, <1>2, <1>3
<1>5. Earlier(Home(entry + k), k)' = Earlier(Home(entry + k), k)
  BY <1>1, <1>4 DEF Earlier
<1> QED  BY <1>1, <1>4, <1>5 DEF SafelyPlaced

-----------------------------------------------------------------------------

(* The left operand of an operation is an earlier value. *)
LEMMA LeftOperandPlaced ==
  ASSUME PlanShape, NEW k \in 1..OperationCount, placed = entry + k - 1
  PROVE  \E i \in 1..placed : Values(graph)[i] = Op(k).inputs[1]
<1> DEFINE left == Op(k).inputs[1]
<1>1. WellFormed(graph) /\ IsSequence(graph.operations) /\ IsSequence(graph.inputs)
  BY MappingAssumption, MapperAssumption DEF PlanShape, graph
<1>2. DOMAIN graph.operations = 1..OperationCount /\ OperationCount \in Nat
      /\ DOMAIN graph.inputs = 1..entry /\ entry \in Nat
  BY <1>1 DEF IsSequence, OperationCount, entry
<1>3. Op(k) = graph.operations[k]
  BY ShapeFacts, OwnOrder DEF PlanShape
<1>4. OperationWellFormed(graph, k)
  BY <1>1, <1>2 DEF WellFormed
<1>5. left \in SeqRange(graph.inputs)
        \cup {graph.operations[j].name : j \in {i \in DOMAIN graph.operations : i < k}}
  BY <1>3, <1>4 DEF OperationWellFormed, SeqRange
<1> HIDE DEF left
<1>6. CASE left \in SeqRange(graph.inputs)
  <2>1. PICK i \in 1..entry : left = graph.inputs[i]
    BY <1>6, <1>2 DEF SeqRange
  <2>2. i \in 1..placed /\ Values(graph)[i] = left
    BY <2>1, <1>2, ShapeFacts, GraphFacts DEF PlanShape
  <2> QED  BY <2>2 DEF left
<1>7. CASE left \in {graph.operations[j].name : j \in {i \in DOMAIN graph.operations : i < k}}
  <2>1. PICK j \in 1..OperationCount : j < k /\ left = graph.operations[j].name
    BY <1>7, <1>2
  <2>2. entry + j \in 1..placed /\ Values(graph)[entry + j] = left
    BY <2>1, <1>2, ShapeFacts, GraphFacts DEF PlanShape
  <2> QED  BY <2>2 DEF left
<1> QED  BY <1>5, <1>6, <1>7

(* The lists replenished at a step hold objects of the plan. *)
LEMMA ReplenishedPlaced ==
  ASSUME ListsPlaced, NEW k \in DOMAIN expirations
  PROVE  /\ DOMAIN Replenished(k) = DOMAIN free
         /\ \A n \in DOMAIN free : Replenished(k)[n] \in Seq(StoragesOf(plan))
<1> DEFINE entries == expirations[k]
           pairs == StoragesOf(plan) \X ValueNames(graph)
           current == Kept(entries,
                           {i \in DOMAIN entries : owners[entries[i][1]] = entries[i][2]})
<1>1. entries \in Seq(pairs)
  BY DEF ListsPlaced
<1> HIDE DEF entries, pairs
<1>2. current \in Seq(pairs)
  BY <1>1, KeptElements
<1>3. Released(k) = [i \in DOMAIN current |-> current[i][1]]
  BY DEF Released, entries
<1> HIDE DEF current
<1>4. Released(k) \in Seq(StoragesOf(plan))
  <2>1. DOMAIN current = 1..Len(current) /\ Len(current) \in Nat
    BY <1>2
  <2>2. \A i \in 1..Len(current) : current[i][1] \in StoragesOf(plan)
    BY <1>2 DEF pairs
  <2>3. Released(k) \in [1..Len(current) -> StoragesOf(plan)]
    BY <1>3, <2>1, <2>2
  <2> QED  BY <2>1, <2>3
<1> DEFINE ofSize(n) == {i \in DOMAIN Released(k) : sizes[Released(k)[i]] = n}
<1>5. Replenished(k) = [n \in DOMAIN free |-> free[n] \o Kept(Released(k), ofSize(n))]
  BY DEF Replenished
<1> HIDE DEF ofSize
<1>6. \A n \in DOMAIN free : Kept(Released(k), ofSize(n)) \in Seq(StoragesOf(plan))
  BY <1>4, KeptElements
<1>7. \A n \in DOMAIN free : free[n] \in Seq(StoragesOf(plan))
  BY DEF ListsPlaced
<1>8. ASSUME NEW n \in DOMAIN free
      PROVE  free[n] \o Kept(Released(k), ofSize(n)) \in Seq(StoragesOf(plan))
  BY <1>6, <1>7, ConcatProperties
<1> QED  BY <1>5, <1>8

(* The object taken from a list holds nothing that is still needed. *)
LEMMA UsableIsDead ==
  ASSUME NEW S, NEW candidates \in Seq(S), NEW k, Usable(candidates, k) # <<>>
  PROVE  /\ Last(Usable(candidates, k)) \in S
         /\ ~Needed(graph, schedule, owners[Last(Usable(candidates, k))], k)
         /\ Front(Usable(candidates, k)) \in Seq(S)
<1> DEFINE usable == {i \in DOMAIN candidates :
                        ~Needed(graph, schedule, owners[candidates[i]], k)}
           last == CHOOSE i \in usable : \A j \in usable : j <= i
<1>1. usable # {} /\ Usable(candidates, k) = SubSeq(candidates, 1, last)
  BY DEF Usable
<1>2. last \in usable
  <2> DEFINE top == Len(candidates)
             Above == {n \in 0..top : top - n \in usable}
  <2>1. top \in Nat /\ usable \subseteq 1..top
    OBVIOUS
  <2> HIDE DEF usable
  <2>2. PICK i : i \in usable
    BY <1>1
  <2>3. top - i \in Above
    BY <2>1, <2>2
  <2>4. Above \subseteq Nat /\ Above # {}
    BY <2>1, <2>3
  <2> HIDE DEF Above
  <2>5. PICK n \in Above : \A m \in Above : n <= m
    BY <2>4, LeastNatural
  <2> USE DEF Above
  <2>6. top - n \in usable
    BY <2>5
  <2>7. ASSUME NEW j \in usable PROVE j <= top - n
    <3>1. top - j \in Above
      BY <2>1
    <3>2. n <= top - j
      BY <3>1, <2>5
    <3> QED  BY <3>2, <2>1, <2>5
  <2> QED  BY <2>6, <2>7
<1>3. last \in 1..Len(candidates) /\ ~Needed(graph, schedule, owners[candidates[last]], k)
  BY <1>2
<1> HIDE DEF usable, last
<1> DEFINE taken == Usable(candidates, k)
<1>4. taken \in Seq(S) /\ Len(taken) = last /\ taken[last] = candidates[last] /\ last >= 1
  BY <1>1, <1>3
<1> HIDE DEF taken
<1>5. Last(taken) = candidates[last]
  BY <1>4 DEF Last
<1>6. Front(taken) \in Seq(S)
  BY <1>3, <1>4 DEF Front
<1> QED  BY <1>3, <1>5, <1>6 DEF taken

-----------------------------------------------------------------------------

(* What every placement keeps, whatever storage it takes. *)
LEMMA PlacingKeeps ==
  ASSUME MappingInv, Mapping, placed < Len(Values(graph)), NEW s,
         Place(Values(graph)[placed + 1], s),
         DOMAIN free' = DOMAIN free,
         \A n \in DOMAIN free : free'[n] \in Seq(StoragesOf(plan))
  PROVE  /\ PlanShape' /\ OwnersAreLast' /\ ListsPlaced'
         /\ placed' = placed + 1 /\ entry' = entry /\ OperationCount' = OperationCount
         /\ \A k \in 1..(step - 1) : SafelyPlaced(k)'
<1>0. request' = request /\ PlanShape
  BY DEF Mapping, MappingInv
<1>1. /\ PlanShape' /\ placed' = placed + 1
      /\ StoragesOf(plan') = StoragesOf(plan) \cup {s}
  BY <1>0, Placing
<1>2. OwnersAreLast'
  BY <1>0, OwnersFollow DEF MappingInv
<1>3. ListsPlaced'
  <2>1. \A k \in DOMAIN expirations' :
          expirations'[k] \in Seq(StoragesOf(plan') \X ValueNames(graph))
    BY <1>0, EntriesFollow DEF MappingInv
  <2>2. \A n \in DOMAIN free' : free'[n] \in Seq(StoragesOf(plan'))
    BY <1>1
  <2>3. graph' = graph
    BY <1>0 DEF graph
  <2>4. DOMAIN expirations' = DOMAIN expirations
    BY Bookkeeping
  <2>5. /\ DOMAIN expirations = ExpirySteps(graph)
        /\ DOMAIN free = {Slots(request, v) : v \in ValueNames(graph)}
    BY DEF MappingInv, ListsPlaced
  <2> QED  BY <1>0, <2>1, <2>2, <2>3, <2>4, <2>5 DEF ListsPlaced
<1>4. entry' = entry /\ OperationCount' = OperationCount
  BY <1>0 DEF entry, OperationCount, graph
<1>5. ASSUME NEW k \in 1..(step - 1)
      PROVE  SafelyPlaced(k)'
  <2>1. entry \in Nat /\ OperationCount \in Nat /\ step \in 1..(OperationCount + 1)
        /\ placed = entry + step - 1
    BY <1>0, ShapeFacts, GraphFacts DEF MappingInv, PlanShape
  <2>2. k \in 1..OperationCount /\ entry + k <= placed
    BY <2>1
  <2>3. SafelyPlaced(k)
    BY DEF MappingInv
  <2> QED  BY <2>2, <2>3, <1>0, SafeKept
<1> QED  BY <1>1, <1>2, <1>3, <1>4, <1>5

(* Placing an input. *)
LEMMA MapInputKeeps ==
  ASSUME MappingInv, MapInput
  PROVE  MappingInv'
<1> DEFINE v == graph.inputs[placed + 1]
           s == IF Requirements(v) # {} THEN Forced(v) ELSE FreshStorage(v, reserved)
<1>1. /\ Mapping /\ placed < entry /\ Place(v, s) /\ step' = step /\ free' = free
  BY DEF MapInput, placed, entry
<1> HIDE DEF s
<1>2. /\ placed \in Nat /\ entry \in Nat /\ OperationCount \in Nat
      /\ Len(Values(graph)) = entry + OperationCount
      /\ PlanShape
  BY ShapeFacts, GraphFacts DEF MappingInv, PlanShape
<1>3. v = Values(graph)[placed + 1]
  BY <1>1, <1>2, ShapeFacts, GraphFacts DEF PlanShape
<1>4. \A n \in DOMAIN free : free[n] \in Seq(StoragesOf(plan))
  BY DEF MappingInv, ListsPlaced
<1>5. /\ PlanShape' /\ OwnersAreLast' /\ ListsPlaced'
      /\ placed' = placed + 1 /\ entry' = entry /\ OperationCount' = OperationCount
      /\ \A k \in 1..(step - 1) : SafelyPlaced(k)'
  BY <1>1, <1>2, <1>3, <1>4, PlacingKeeps
<1>6. step = 1 /\ step' = 1 /\ placed + 1 <= entry
  BY <1>1, <1>2 DEF MappingInv
<1>7. verdict' = "none"
  BY <1>1 DEF Mapping, MappingInv
<1> QED  BY <1>1, <1>2, <1>5, <1>6, <1>7 DEF MappingInv

(* The four ways an operation's storage is chosen are safe. *)
LEMMA ChoiceIsSafe ==
  ASSUME MappingInv, Mapping, NEW k \in 1..OperationCount, placed = entry + k - 1, NEW s,
         Place(Op(k).name, s),
         \/ Requirements(Op(k).name) # {}
         \/ s \notin StoragesOf(plan)
         \/ /\ s = At(Op(k).inputs[1])
            /\ LastUseAt(graph, schedule, Op(k).inputs[1], k)
            /\ Op(k).kind \notin RevisitingKinds
         \/ s \in StoragesOf(plan) /\ ~Needed(graph, schedule, owners[s], k)
  PROVE  SafelyPlaced(k)'
<1>1. /\ PlanShape /\ request' = request
      /\ entry \in Nat /\ OperationCount \in Nat /\ placed \in Nat /\ k \in Nat
      /\ Len(Values(graph)) = entry + OperationCount
  BY ShapeFacts, GraphFacts DEF MappingInv, PlanShape, Mapping
<1>2. placed < Len(Values(graph)) /\ placed + 1 = entry + k
  BY <1>1
<1>3. Op(k).name = Values(graph)[placed + 1]
  BY <1>1, <1>2, ShapeFacts, GraphFacts, OwnOrder DEF PlanShape
<1>4. /\ \A i \in 1..placed : Home(i)' = Home(i)
      /\ plan'.placements[entry + k].storage = s
      /\ schedule' = schedule
  BY <1>1, <1>2, <1>3, Placing
<1>5. /\ graph' = graph /\ entry' = entry /\ Op(k)' = Op(k)
      /\ Requirements(Op(k).name)' = Requirements(Op(k).name)
  BY <1>1, <1>4 DEF graph, entry, Op, Requirements
<1>6. Home(entry + k)' = s
  BY <1>4, <1>5 DEF Home
<1>7. Earlier(s, k) = {i \in 1..placed : Home(i) = s}
  BY DEF Earlier
<1>8. Earlier(Home(entry + k), k)' = Earlier(s, k)
  BY <1>1, <1>4, <1>5, <1>6, <1>7 DEF Earlier
<1>9. CASE Requirements(Op(k).name) # {}
  BY <1>5, <1>9 DEF SafelyPlaced
<1>10. CASE s \notin StoragesOf(plan)
  <2>1. Earlier(s, k) = {}
    BY <1>1, <1>7, <1>10, ShapeFacts
  <2> QED  BY <2>1, <1>8 DEF SafelyPlaced
<1>11. CASE /\ s = At(Op(k).inputs[1])
            /\ LastUseAt(graph, schedule, Op(k).inputs[1], k)
            /\ Op(k).kind \notin RevisitingKinds
  <2>1. PICK i \in 1..placed : Values(graph)[i] = Op(k).inputs[1]
    BY <1>1, LeftOperandPlaced
  <2>2. i \in Earlier(s, k)
    BY <1>1, <1>7, <1>11, <2>1, PlacedAt
  <2> QED  BY <2>1, <2>2, <1>4, <1>5, <1>8, <1>11 DEF SafelyPlaced
<1>12. CASE s \in StoragesOf(plan) /\ ~Needed(graph, schedule, owners[s], k)
  <2>1. PICK i \in 1..placed : /\ Home(i) = s /\ owners[s] = Values(graph)[i]
                              /\ \A j \in 1..placed : j > i => Home(j) # s
    BY <1>12 DEF MappingInv, OwnersAreLast
  <2>2. i \in Earlier(s, k)
    BY <1>7, <2>1
  <2>3. \A j \in Earlier(s, k) : j <= i
    BY <1>1, <1>7, <2>1
  <2> QED  BY <2>1, <2>2, <2>3, <1>4, <1>5, <1>8, <1>12 DEF SafelyPlaced
<1> QED  BY <1>9, <1>10, <1>11, <1>12

(* Placing the result of an operation. *)
LEMMA MapOperationKeeps ==
  ASSUME MappingInv, MapOperation
  PROVE  MappingInv'
<1> DEFINE k == step
           op == Op(step)
           size == Slots(request, op.name)
           lists == Replenished(step)
           usable == Usable(lists[size], step)
<1>1. /\ Mapping /\ placed >= entry /\ step <= OperationCount /\ step' = step + 1
      /\ PlanShape
  BY DEF MapOperation, placed, entry, MappingInv
<1>2. /\ placed \in Nat /\ entry \in Nat /\ OperationCount \in Nat
      /\ Len(Values(graph)) = entry + OperationCount
  BY <1>1, ShapeFacts, GraphFacts DEF PlanShape
<1>3. step \in 1..OperationCount /\ placed = entry + step - 1 /\ placed + 1 = entry + step
  BY <1>1, <1>2 DEF MappingInv
<1>4. op.name = Values(graph)[placed + 1] /\ placed < Len(Values(graph))
  <2>1. request \in MappingRequests /\ schedule = GraphOrder
    BY <1>1, ShapeFacts DEF PlanShape
  <2>2. Op(step) = graph.operations[step]
    BY <1>3, <2>1, OwnOrder
  <2>3. Values(graph)[entry + step] = graph.operations[step].name
    BY <1>3, <2>1, GraphFacts
  <2>4. QED
    BY <1>2, <1>3, <2>2, <2>3
<1>5. /\ DOMAIN lists = DOMAIN free
      /\ \A n \in DOMAIN free : lists[n] \in Seq(StoragesOf(plan))
  <2>1. step \in DOMAIN expirations
    <3>1. OperationCount = Len(graph.operations)
      BY DEF OperationCount
    <3> QED  BY <1>2, <1>3, <3>1 DEF MappingInv, ListsPlaced, ExpirySteps
  <2> QED  BY <2>1, ReplenishedPlaced DEF MappingInv
<1>6. size \in DOMAIN free => /\ usable # <<>> =>
                                 /\ Last(usable) \in StoragesOf(plan)
                                 /\ ~Needed(graph, schedule, owners[Last(usable)], k)
                                 /\ Front(usable) \in Seq(StoragesOf(plan))
  BY <1>5, UsableIsDead
<1> DEFINE Chosen(s) ==
             \/ Requirements(op.name) # {}
             \/ s \notin StoragesOf(plan)
             \/ /\ s = At(op.inputs[1])
                /\ LastUseAt(graph, schedule, op.inputs[1], k)
                /\ op.kind \notin RevisitingKinds
             \/ s \in StoragesOf(plan) /\ ~Needed(graph, schedule, owners[s], k)
           Kept1 == /\ DOMAIN free' = DOMAIN free
                    /\ \A n \in DOMAIN free : free'[n] \in Seq(StoragesOf(plan))
<1>7. size \in DOMAIN free
  <2>1. placed + 1 \in DOMAIN Values(graph)
    BY <1>1, <1>2, <1>4, ShapeFacts, GraphFacts DEF PlanShape
  <2>2. op.name \in ValueNames(graph)
    BY <1>1, <1>4, <2>1, ShapeFacts, GraphFacts DEF PlanShape, SeqRange
  <2> QED  BY <2>2 DEF MappingInv, ListsPlaced
<1>8. \E s : Place(op.name, s) /\ Chosen(s) /\ Kept1
  <2>1. CASE Requirements(op.name) # {} /\ Place(op.name, Forced(op.name)) /\ free' = lists
    BY <2>1, <1>5
  <2>2. CASE ReusesLeft(op, step) /\ Place(op.name, At(op.inputs[1])) /\ free' = lists
    BY <2>2, <1>5 DEF ReusesLeft
  <2>3. CASE /\ usable # <<>> /\ Place(op.name, Last(usable))
             /\ free' = [lists EXCEPT ![size] = Front(usable)]
    BY <2>3, <1>5, <1>6, <1>7
  <2>4. CASE /\ Place(op.name, FreshStorage(op.name, reserved))
             /\ free' = [lists EXCEPT ![size] = <<>>]
    <3>1. FreshStorage(op.name, reserved) \notin StoragesOf(plan)
      BY <1>1, ReservedFinite, FreshStorageIsFresh
    <3>2. Kept1
      BY <2>4, <1>5
    <3> QED  BY <2>4, <3>1, <3>2
  <2> QED  BY <2>1, <2>2, <2>3, <2>4 DEF MapOperation
<1>9. PICK s : Place(op.name, s) /\ Chosen(s) /\ Kept1
  BY <1>8
<1>10. /\ PlanShape' /\ OwnersAreLast' /\ ListsPlaced'
       /\ placed' = placed + 1 /\ entry' = entry /\ OperationCount' = OperationCount
       /\ \A j \in 1..(step - 1) : SafelyPlaced(j)'
  BY <1>1, <1>4, <1>9, PlacingKeeps
<1>11. \A j \in 1..OperationCount : j = step => SafelyPlaced(j)'
  BY <1>1, <1>3, <1>9, ChoiceIsSafe
<1>12. \A j \in 1..(step' - 1) : SafelyPlaced(j)'
  <2>1. \A j \in 1..(step' - 1) : j \in 1..(step - 1) \/ (j \in 1..OperationCount /\ j = step)
    BY <1>1, <1>2, <1>3
  <2> QED  BY <2>1, <1>10, <1>11
<1>13. /\ step' \in 1..(OperationCount' + 1)
       /\ placed' = entry' + step' - 1
  BY <1>1, <1>2, <1>3, <1>10
<1>14. verdict' = "none"
  BY <1>1 DEF Mapping, MappingInv
<1> QED  BY <1>10, <1>12, <1>13, <1>14 DEF MappingInv

-----------------------------------------------------------------------------

(* The plan of a finished mapping is given to the verifier. *)
LEMMA FinishMappingHandsOver ==
  ASSUME MappingInv, FinishMapping
  PROVE  MappedInv' /\ phase' = "check"
<1>1. /\ PlanShape /\ placed = Len(Values(graph))
      /\ phase' = "check" /\ step' = 1 /\ verdict' = "none" /\ request' = request
      /\ \E x : plan' = [plan EXCEPT !.accumulators = x]
  BY DEF FinishMapping, FinishMappingWith, MappingInv, placed
<1>2. /\ placed \in Nat /\ entry \in Nat /\ OperationCount \in Nat
      /\ Len(Values(graph)) = entry + OperationCount
  BY <1>1, ShapeFacts, GraphFacts DEF PlanShape
<1>3. /\ plan'.placements = plan.placements /\ plan'.schedule = plan.schedule
      /\ plan' = [placements |-> plan'.placements, accumulators |-> plan'.accumulators,
                  schedule |-> GraphOrder]
  <2>1. PICK x : plan' = [plan EXCEPT !.accumulators = x]
    BY <1>1
  <2> DEFINE ps == plan.placements
             registers == plan.accumulators
             order == GraphOrder
             old == plan
  <2>2. old = [placements |-> ps, accumulators |-> registers, schedule |-> order]
    BY <1>1 DEF PlanShape
  <2>3. plan' = [old EXCEPT !.accumulators = x] /\ old.placements = ps
    BY <2>1
  <2> HIDE DEF old, ps, registers, order
  <2>4. plan' = [placements |-> ps, accumulators |-> x, schedule |-> order]
    BY <2>2, <2>3
  <2>5. plan'.placements = ps /\ plan'.accumulators = x /\ plan'.schedule = order
    BY <2>4
  <2>6. plan.schedule = order
    BY <2>2 DEF old
  <2> QED  BY <2>4, <2>5, <2>6 DEF order, ps
<1>4. /\ graph' = graph /\ schedule' = schedule /\ entry' = entry /\ placed' = placed
      /\ OperationCount' = OperationCount /\ GraphOrder' = GraphOrder
  BY <1>1, <1>3 DEF graph, schedule, entry, placed, OperationCount, GraphOrder
<1>5. PlanShape'
  BY <1>1, <1>3, <1>4 DEF PlanShape, Home
<1>6. step = OperationCount + 1 \/ OperationCount = 0
  BY <1>1, <1>2 DEF MappingInv
<1>7. ASSUME NEW k \in 1..OperationCount
      PROVE  SafelyPlaced(k)'
  <2>1. SafelyPlaced(k)
    BY <1>2, <1>6 DEF MappingInv
  <2>2. /\ Op(k)' = Op(k) /\ Requirements(Op(k).name)' = Requirements(Op(k).name)
        /\ Home(entry + k)' = Home(entry + k)
        /\ Earlier(Home(entry + k), k)' = Earlier(Home(entry + k), k)
    BY <1>1, <1>3, <1>4 DEF Op, Requirements, Home, Earlier
  <2> QED  BY <1>4, <2>1, <2>2 DEF SafelyPlaced
<1>8. VerifierInv'
  <2>1. Len(schedule) = OperationCount /\ DOMAIN schedule = 1..OperationCount
    BY <1>1, ShapeFacts, OwnOrder DEF PlanShape
  <2>2. Checked'
    BY <1>1, <1>2, <1>4, <2>1, MappingAssumption DEF Checked, PlanShape, graph
  <2>3. step' \in 1..(Len(schedule') + 1)
    BY <1>1, <1>2, <1>4, <2>1
  <2> QED  BY <1>1, <2>2, <2>3 DEF VerifierInv, Verdicts
<1> QED  BY <1>1, <1>2, <1>4, <1>5, <1>7, <1>8 DEF MappedInv

-----------------------------------------------------------------------------

(* What the mapper fixed stays fixed while the verifier runs. *)
LEMMA PlanFixed ==
  ASSUME request' = request, plan' = plan
  PROVE  /\ PlanShape' <=> PlanShape
         /\ placed' = placed /\ entry' = entry /\ OperationCount' = OperationCount
         /\ \A k : SafelyPlaced(k)' <=> SafelyPlaced(k)
         /\ \A k : Op(k)' = Op(k)
         /\ \A v : Requirements(v)' = Requirements(v)
         /\ \A s, k : Earlier(s, k)' = Earlier(s, k)
         /\ \A i : Home(i)' = Home(i)
         /\ graph' = graph /\ StoragesOf(plan') = StoragesOf(plan)
<1>1. graph' = graph /\ schedule' = schedule /\ placed' = placed /\ entry' = entry
      /\ OperationCount' = OperationCount /\ GraphOrder' = GraphOrder
  BY DEF graph, schedule, placed, entry, OperationCount, GraphOrder
<1>2. \A i : Home(i)' = Home(i)
  BY DEF Home
<1>3. \A k : Op(k)' = Op(k)
  BY <1>1 DEF Op
<1>4. \A v : Requirements(v)' = Requirements(v)
  BY DEF Requirements
<1>5. \A s, k : Earlier(s, k)' = Earlier(s, k)
  BY <1>1 DEF Earlier, Home
<1>6. \A k : SafelyPlaced(k)' <=> SafelyPlaced(k)
  BY <1>1, <1>3 DEF SafelyPlaced, Home, Requirements, Earlier
<1>7. PlanShape' <=> PlanShape
  BY <1>1 DEF PlanShape, Home
<1> QED  BY <1>1, <1>2, <1>3, <1>4, <1>5, <1>6, <1>7

(* At entry the verifier's map names the inputs. *)
LEMMA EntryIsLast ==
  ASSUME VerifierInv, PlanShape, StaticFault(request, plan) = "none",
         placed = entry + OperationCount,
         NEW s \in StoragesOf(plan)
  PROVE  /\ Earlier(s, 1) = {} => InputsPlaced[s] = None
         /\ \A i \in Earlier(s, 1) : InputsPlaced[s] = Values(graph)[i]
<1>1. /\ entry \in Nat /\ OperationCount \in Nat
      /\ \A i \in 1..entry : Values(graph)[i] = graph.inputs[i]
  BY ShapeFacts, GraphFacts DEF PlanShape
<1>2. DOMAIN graph.inputs = 1..entry
  BY <1>1, MapperAssumption DEF PlanShape, IsSequence, entry, graph
<1>3. \A i \in 1..entry : At(graph.inputs[i]) = Home(i)
  BY <1>1, PlacedAt
<1>4. Earlier(s, 1) = {i \in 1..entry : At(graph.inputs[i]) = s}
  BY <1>1, <1>3 DEF Earlier
<1>5. SeqRange(graph.inputs) = {graph.inputs[i] : i \in 1..entry}
  BY <1>2 DEF SeqRange
<1>6. ASSUME Earlier(s, 1) = {}
      PROVE  InputsPlaced[s] = None
  BY <1>4, <1>5, <1>6 DEF InputsPlaced
<1>7. ASSUME NEW i \in Earlier(s, 1)
      PROVE  InputsPlaced[s] = Values(graph)[i]
  <2>1. i \in 1..entry /\ At(graph.inputs[i]) = s
    BY <1>4
  <2>2. graph.inputs[i] \in SeqRange(graph.inputs)
    BY <1>5, <2>1
  <2>3. HoldsNeeded(InputsPlaced, 1)
    BY InputsInPlace DEF VerifierInv
  <2> DEFINE v == CHOOSE v \in SeqRange(graph.inputs) : At(v) = s
  <2>4. v \in SeqRange(graph.inputs) /\ At(v) = s
    BY <2>1, <2>2
  <2>5. \A j \in 1..entry : At(graph.inputs[j]) = s => j = i
    BY <1>2, <2>1, StaticFacts DEF InputsApart, At, graph
  <2>6. v = graph.inputs[i]
    BY <2>4, <2>5, <1>5
  <2>7. InputsPlaced[s] = v
    BY <2>1, <2>2 DEF InputsPlaced
  <2> QED  BY <1>1, <2>1, <2>6, <2>7
<1> QED  BY <1>6, <1>7

(* Where the result of operation k goes. *)
LEMMA ResultHome ==
  ASSUME PlanShape, placed = entry + OperationCount, NEW k \in 1..OperationCount
  PROVE  /\ Op(k).name = Values(graph)[entry + k]
         /\ At(Op(k).name) = Home(entry + k)
         /\ Home(entry + k) \in StoragesOf(plan)
<1>1. entry \in Nat /\ OperationCount \in Nat /\ entry + k \in 1..placed
  BY ShapeFacts, GraphFacts DEF PlanShape
<1>2. Op(k).name = Values(graph)[entry + k]
  BY ShapeFacts, GraphFacts, OwnOrder DEF PlanShape
<1> QED  BY <1>1, <1>2, PlacedAt, ShapeFacts

(* A step of the walk makes the result the last value in its object. *)
LEMMA LiveFollows ==
  ASSUME MappedInv, phase = "walk", NEW k \in 1..OperationCount, step = k,
         WalkOperation
  PROVE  LiveIsLast'
<1>1. /\ PlanShape /\ placed = entry + OperationCount /\ LiveIsLast
      /\ live \in Contents
  BY DEF MappedInv, VerifierInv
<1>2. /\ request' = request /\ plan' = plan /\ step' = k + 1
      /\ live' = [live EXCEPT ![At(Op(k).name)] = Op(k).name]
  BY DEF WalkOperation
<1>3. entry \in Nat /\ k \in Nat
  BY <1>1, ShapeFacts, GraphFacts DEF PlanShape
<1> DEFINE home == Home(entry + k)
<1>4. /\ live'[home] = Values(graph)[entry + k]
      /\ \A s \in StoragesOf(plan) : s # home => live'[s] = live[s]
  BY <1>1, <1>2, ResultHome DEF Contents
<1>5. \A i \in 1..(entry + k) : i \in 1..(entry + k - 1) \/ i = entry + k
  BY <1>3
<1>6. 1..(entry + (k + 1) - 1) = 1..(entry + k) /\ 1..(entry + k - 1) \subseteq 1..(entry + k)
      /\ entry + k \in 1..(entry + k)
  BY <1>3
<1>7. /\ \A s : s # home => Earlier(s, k + 1) = Earlier(s, k)
      /\ entry + k \in Earlier(home, k + 1)
      /\ Earlier(home, k + 1) \subseteq Earlier(home, k) \cup {entry + k}
  BY <1>5, <1>6 DEF Earlier
<1>8. ASSUME NEW s \in StoragesOf(plan)
      PROVE  /\ Earlier(s, k + 1) = {} => live'[s] = None
             /\ \A i \in Earlier(s, k + 1) :
                  (\A j \in Earlier(s, k + 1) : j <= i) => live'[s] = Values(graph)[i]
  <2>1. CASE s = home
    <3>1. \A i \in Earlier(home, k + 1) :
            (\A j \in Earlier(home, k + 1) : j <= i) => i = entry + k
      <4>1. \A i \in Earlier(home, k + 1) : i \in 1..(entry + k)
        BY <1>6 DEF Earlier
      <4> QED  BY <4>1, <1>3, <1>7
    <3> QED  BY <2>1, <3>1, <1>4, <1>7
  <2>2. CASE s # home
    BY <2>2, <1>1, <1>4, <1>7 DEF LiveIsLast
  <2> QED  BY <2>1, <2>2
<1> QED  BY <1>2, <1>8, PlanFixed DEF LiveIsLast

(* A result the walk refuses is one whose placement was required. *)
LEMMA RefusedWasRequired ==
  ASSUME MappedInv, phase = "walk", NEW k \in 1..OperationCount, step = k,
         ~ResultStorageFree(k)
  PROVE  Requirements(Op(k).name) # {}
<1> SUFFICES ASSUME Requirements(Op(k).name) = {} PROVE ResultStorageFree(k)
  OBVIOUS
<1> DEFINE home == Home(entry + k)
           occupant == live[At(Op(k).name)]
<1>1. /\ PlanShape /\ placed = entry + OperationCount /\ LiveIsLast /\ SafelyPlaced(k)
      /\ VerifierInv /\ StaticFault(request, plan) = "none" /\ HoldsNeeded(live, k) /\ Checked
  BY DEF MappedInv, VerifierInv
<1>2. occupant = live[home] /\ home \in StoragesOf(plan)
  BY <1>1, ResultHome
<1>3. k \in DOMAIN schedule
  BY <1>1, ShapeFacts, OwnOrder DEF PlanShape
<1>4. CASE Earlier(home, k) = {}
  BY <1>1, <1>2, <1>4 DEF LiveIsLast, ResultStorageFree
<1>5. CASE \E i \in Earlier(home, k) : /\ Values(graph)[i] = Op(k).inputs[1]
                                      /\ LastUseAt(graph, schedule, Op(k).inputs[1], k)
                                      /\ Op(k).kind \notin RevisitingKinds
  <2> DEFINE left == Op(k).inputs[1]
  <2>1. PICK i \in Earlier(home, k) : Values(graph)[i] = left
    BY <1>5
  <2>2. i \in 1..placed /\ Home(i) = home
    BY <1>1, ShapeFacts, GraphFacts DEF Earlier, PlanShape
  <2>3. At(left) = home
    BY <1>1, <2>1, <2>2, PlacedAt
  <2>4. left \in SeqRange(Op(k).inputs)
    BY <1>1, <1>3, StepFacts DEF SeqRange
  <2>5. live[At(left)] = left
    BY <1>1, <1>3, <2>4, OperandsAlwaysLive
  <2> QED  BY <1>2, <1>5, <2>3, <2>5 DEF ResultStorageFree, Handoff
<1>6. CASE \E i \in Earlier(home, k) : /\ \A j \in Earlier(home, k) : j <= i
                                      /\ ~Needed(graph, schedule, Values(graph)[i], k)
  BY <1>1, <1>2, <1>6 DEF LiveIsLast, ResultStorageFree
<1> QED  BY <1>1, <1>4, <1>5, <1>6 DEF SafelyPlaced

(* The steps of verify_mapping and of the execution on the mapper's plan. *)
LEMMA VerifierStepKeeps ==
  ASSUME MappedInv, phase # "map", VerifierNext
  PROVE  MappedInv' /\ phase' # "map"
<1>1. VerifierInv'
  BY VerifierNextInv DEF MappedInv
<1>2. request' = request /\ plan' = plan
  BY DEF VerifierNext, CheckPlan, RejectStep, Reject, WalkOperation, AcceptPlan, AcceptPlanAt,
         RunOperation, ReturnOutputs
<1>3. /\ PlanShape' /\ placed' = entry' + OperationCount'
      /\ \A k \in 1..OperationCount' : SafelyPlaced(k)'
  BY <1>2, PlanFixed DEF MappedInv
<1>4. phase' # "map"
  BY <1>1 DEF VerifierInv
<1>5. /\ PlanShape /\ placed = entry + OperationCount /\ Len(schedule) = OperationCount
      /\ DOMAIN schedule = 1..OperationCount
  BY ShapeFacts, OwnOrder DEF MappedInv, PlanShape
<1>6. phase' = "walk" => LiveIsLast'
  <2> SUFFICES ASSUME phase' = "walk" PROVE LiveIsLast'
    OBVIOUS
  <2>1. CASE CheckPlan
    <3>1. /\ StaticFault(request, plan) = "none" /\ step' = 1 /\ live' = InputsPlaced
      BY <2>1 DEF CheckPlan, Reject
    <3>2. VerifierInv
      BY DEF MappedInv
    <3>3. \A s \in StoragesOf(plan) :
            /\ Earlier(s, 1) = {} => InputsPlaced[s] = None
            /\ \A i \in Earlier(s, 1) : InputsPlaced[s] = Values(graph)[i]
      BY <1>5, <3>1, <3>2, EntryIsLast
    <3> QED  BY <1>2, <3>1, <3>3, PlanFixed DEF LiveIsLast
  <2>2. CASE WalkOperation
    <3>1. phase = "walk" /\ step \in 1..OperationCount
      BY <1>5, <2>2 DEF WalkOperation, Walking
    <3> QED  BY <2>2, <3>1, LiveFollows
  <2>3. phase' # "walk" \/ CheckPlan \/ WalkOperation
    BY DEF VerifierNext, RejectStep, Reject, AcceptPlan, AcceptPlanAt, RunOperation,
           ReturnOutputs
  <2> QED  BY <2>1, <2>2, <2>3
<1>7. verdict' = "alias" => Requirements(Op(step).name)' # {}
  <2> SUFFICES ASSUME verdict' = "alias" PROVE Requirements(Op(step).name)' # {}
    OBVIOUS
  <2>1. CASE RejectStep
    <3>1. phase = "walk" /\ step \in 1..OperationCount /\ step' = step
          /\ ~(OperandsLive(step) /\ ResultStorageFree(step))
      BY <1>5, <2>1 DEF RejectStep, Walking, Reject
    <3>2. OperandsLive(step)
      BY <2>1 DEF RejectStep, Reject
    <3>3. Requirements(Op(step).name) # {}
      BY <3>1, <3>2, RefusedWasRequired
    <3>4. Op(step)' = Op(step)
      BY <1>2, <3>1 DEF Op, graph, schedule
    <3> QED  BY <1>2, <3>3, <3>4 DEF Requirements
  <2>2. CASE ~RejectStep
    <3>1. verdict = "alias"
      BY <2>2 DEF VerifierNext, CheckPlan, StaticFault, Reject, WalkOperation, AcceptPlan,
                  AcceptPlanAt, RunOperation, ReturnOutputs
    <3>2. phase = "rejected"
      BY <3>1 DEF MappedInv, VerifierInv
    <3> QED  BY <3>2, <2>2 DEF VerifierNext, CheckPlan, WalkOperation, Walking, AcceptPlan,
                AcceptPlanAt, RunOperation, ReturnOutputs
  <2> QED  BY <2>1, <2>2
<1> QED  BY <1>1, <1>3, <1>4, <1>6, <1>7 DEF MappedInv

-----------------------------------------------------------------------------

(* The strengthening holds when baseline_mapping starts. *)
THEOREM MapperInitInv == MapperInit => MapperInv
<1> SUFFICES ASSUME MapperInit PROVE MapperInv
  OBVIOUS
<1>1. /\ request \in MappingRequests /\ phase = "map" /\ verdict = "none" /\ step = 1
      /\ plan = [placements |-> <<>>, accumulators |-> <<>>, schedule |-> GraphOrder]
      /\ owners = <<>>
      /\ expirations = [k \in ExpirySteps(graph) |-> <<>>]
      /\ free = [n \in {Slots(request, v) : v \in ValueNames(graph)} |-> <<>>]
  BY DEF MapperInit, GraphOrder, graph
<1>2. plan.placements = <<>> /\ plan.accumulators = <<>> /\ schedule = GraphOrder /\ placed = 0
  BY <1>1 DEF schedule, placed
<1>3. entry \in Nat /\ OperationCount \in Nat /\ Len(Values(graph)) = entry + OperationCount
  BY <1>1, <1>2, GraphFacts
<1>4. PlanShape
  BY <1>1, <1>2, <1>3 DEF PlanShape, IsSequence
<1>5. StoragesOf(plan) = {}
  BY <1>2 DEF StoragesOf
<1>6. OwnersAreLast
  BY <1>1, <1>5 DEF OwnersAreLast
<1>7. ListsPlaced
  BY <1>1 DEF ListsPlaced
<1>8. step \in 1..(OperationCount + 1) /\ step = 1 /\ placed <= entry
  BY <1>1, <1>2, <1>3
<1>9. \A k \in 1..(step - 1) : SafelyPlaced(k)
  BY <1>1
<1> QED  BY <1>1, <1>4, <1>6, <1>7, <1>8, <1>9 DEF MapperInv, MappingInv

(* Every step of the mapper and of the verifier preserves it. *)
THEOREM MapperNextInv == MapperInv /\ [MapperNext]_vars => MapperInv'
<1> SUFFICES ASSUME MapperInv, [MapperNext]_vars PROVE MapperInv'
  OBVIOUS
<1>1. CASE MapInput
  BY <1>1, MapInputKeeps DEF MapperInv, MapInput, Mapping
<1>2. CASE MapOperation
  BY <1>2, MapOperationKeeps DEF MapperInv, MapOperation, Mapping
<1>3. CASE FinishMapping
  BY <1>3, FinishMappingHandsOver DEF MapperInv, FinishMapping, FinishMappingWith
<1>4. CASE VerifierNext
  <2>1. phase # "map"
    BY <1>4 DEF VerifierNext, CheckPlan, RejectStep, WalkOperation, Walking, AcceptPlan,
                AcceptPlanAt, RunOperation, ReturnOutputs
  <2> QED  BY <1>4, <2>1, VerifierStepKeeps DEF MapperInv
<1>5. CASE UNCHANGED vars
  <2>1. /\ request' = request /\ plan' = plan /\ phase' = phase /\ verdict' = verdict
        /\ step' = step /\ live' = live /\ contents' = contents
        /\ owners' = owners /\ expirations' = expirations /\ free' = free
    BY <1>5 DEF vars, verifierVars, mapperVars
  <2>2. CASE phase = "map"
    <3>1. OwnersAreLast' <=> OwnersAreLast
      BY <2>1, PlanFixed DEF OwnersAreLast
    <3>2. ListsPlaced' <=> ListsPlaced
      BY <2>1 DEF ListsPlaced, graph
    <3> QED  BY <2>1, <2>2, <3>1, <3>2, PlanFixed DEF MapperInv, MappingInv
  <2>3. CASE phase # "map"
    <3>1. MappedInv
      BY <2>3 DEF MapperInv
    <3>2. VerifierInv'
      BY <2>1, <3>1, VerifierNextInv DEF MappedInv, verifierVars
    <3>3. LiveIsLast' <=> LiveIsLast
      BY <2>1, PlanFixed DEF LiveIsLast
    <3>4. Op(step)' = Op(step)
      BY <2>1 DEF Op, graph, schedule
    <3>5. MappedInv'
      BY <2>1, <3>1, <3>2, <3>3, <3>4, PlanFixed DEF MappedInv
    <3> QED  BY <2>1, <2>3, <3>5 DEF MapperInv
  <2> QED  BY <2>2, <2>3
<1> QED  BY <1>1, <1>2, <1>3, <1>4, <1>5 DEF MapperNext

(* The strengthening is an invariant of every behaviour. *)
THEOREM MapperInvariance == MapperSpec => []MapperInv
  BY MapperInitInv, MapperNextInv, PTL DEF MapperSpec

(***************************************************************************)
(* The mapper never gives away a storage object that is still needed: its  *)
(* plan is refused for an overwritten value only at a result whose         *)
(* placement the caller required.                                          *)
(***************************************************************************)
THEOREM MapperKeepsNeededStorage == MapperSpec => []OnlyRequiredPlacementsClash
<1>1. MapperInv => OnlyRequiredPlacementsClash
  <2> SUFFICES ASSUME MapperInv, verdict \in {"operand", "alias"}
               PROVE  Requirements(Op(step).name) # {}
    BY DEF OnlyRequiredPlacementsClash
  <2>1. phase # "map"
    BY DEF MapperInv, MappingInv
  <2>2. MappedInv
    BY <2>1 DEF MapperInv
  <2>3. verdict # "operand"
    BY <2>2 DEF MappedInv, VerifierInv
  <2> QED  BY <2>2, <2>3 DEF MappedInv
<1> QED  BY <1>1, MapperInvariance, PTL

-----------------------------------------------------------------------------

(* A value needed from a step on is needed from every earlier step on. *)
LEMMA NeededEarlier ==
  ASSUME NEW v, NEW j \in Int, NEW k \in Int, j <= k, DOMAIN schedule \subseteq Int,
         Needed(graph, schedule, v, k)
  PROVE  Needed(graph, schedule, v, j)
<1>1. \A i \in DOMAIN schedule : i >= k => i >= j
  OBVIOUS
<1> QED  BY <1>1 DEF Needed

(* The step at which the contents of a value expire. *)
LEMMA ExpiryStep ==
  ASSUME PlanShape, NEW v
  PROVE  /\ ExpiresAt(v) \in 1..(OperationCount + 2)
         /\ \A k \in 1..(OperationCount + 1) :
              ExpiresAt(v) <= k <=> ~Needed(graph, schedule, v, k)
<1>1. /\ OperationCount \in Nat /\ DOMAIN schedule = 1..OperationCount
      /\ ExpirySteps(graph) = 1..(OperationCount + 2)
  BY ShapeFacts, GraphFacts, OwnOrder DEF PlanShape, ExpirySteps, OperationCount
<1>2. CASE v \in SeqRange(graph.outputs)
  BY <1>1, <1>2 DEF ExpiresAt, Needed
<1>3. CASE v \notin SeqRange(graph.outputs)
  <2> DEFINE Dead == {k \in 1..(OperationCount + 2) : ~Needed(graph, schedule, v, k)}
  <2>1. ~Needed(graph, schedule, v, OperationCount + 1)
    BY <1>1, <1>3 DEF Needed
  <2>2. OperationCount + 1 \in Dead
    BY <1>1, <2>1
  <2>3. PICK m \in Dead : \A k \in Dead : m <= k
    <3>1. Dead \subseteq Nat
      OBVIOUS
    <3> HIDE DEF Dead
    <3> QED  BY <3>1, <2>2, LeastNatural
  <2>4. m > 1 => Needed(graph, schedule, v, m - 1)
    <3> SUFFICES ASSUME m > 1, ~Needed(graph, schedule, v, m - 1) PROVE FALSE
      OBVIOUS
    <3>1. m - 1 \in Dead
      BY <1>1
    <3> QED  BY <3>1, <2>3
  <2>5. m \in 1..(OperationCount + 2) /\ ~Needed(graph, schedule, v, m)
    OBVIOUS
  <2>6. ExpiresAt(v) = CHOOSE k \in 1..(OperationCount + 2) :
                         /\ ~Needed(graph, schedule, v, k)
                         /\ k > 1 => Needed(graph, schedule, v, k - 1)
    BY <1>1, <1>3 DEF ExpiresAt
  <2> DEFINE c == ExpiresAt(v)
  <2>7. /\ c \in 1..(OperationCount + 2) /\ ~Needed(graph, schedule, v, c)
        /\ c > 1 => Needed(graph, schedule, v, c - 1)
    BY <2>4, <2>5, <2>6
  <2> HIDE DEF c, Dead
  <2>8. ASSUME NEW k \in 1..(OperationCount + 1)
        PROVE  c <= k <=> ~Needed(graph, schedule, v, k)
    <3>1. ASSUME c <= k PROVE ~Needed(graph, schedule, v, k)
      BY <1>1, <2>7, <3>1, NeededEarlier
    <3>2. ASSUME ~(c <= k) PROVE Needed(graph, schedule, v, k)
      <4>1. c > 1 /\ k <= c - 1 /\ c - 1 \in Int /\ k \in Int
        BY <1>1, <2>7, <3>2
      <4> QED  BY <1>1, <2>7, <4>1, NeededEarlier
    <3> QED  BY <3>1, <3>2
  <2> QED  BY <2>7, <2>8 DEF c
<1> QED  BY <1>2, <1>3

(* The result of an operation is needed at its own step. *)
LEMMA ResultNeeded ==
  ASSUME PlanShape, NEW k \in 1..OperationCount
  PROVE  Needed(graph, schedule, Op(k).name, k)
<1>1. DOMAIN schedule = 1..OperationCount /\ OperationCount \in Nat
  BY ShapeFacts, GraphFacts, OwnOrder DEF PlanShape
<1>2. Touches(Operation(graph, schedule[k]), Op(k).name) /\ k >= k
  BY <1>1 DEF Touches, Op
<1> QED  BY <1>1, <1>2 DEF Needed

-----------------------------------------------------------------------------

(***************************************************************************)
(* Without required placements more is true.  Objects are named after the  *)
(* value they were created for and the inputs are in objects of their own; *)
(* the values of an object have one size; a value that is still needed is  *)
(* the last one in its object; every placement has its entry at the step   *)
(* where its value expires; and the lists hold what has expired.           *)
(***************************************************************************)
NamesOwn == \A i \in 1..placed : \E j \in 1..i : Home(i) = Named(Values(graph)[j])

InputsOwn == \A i \in 1..placed : i <= entry => \A j \in 1..(i - 1) : Home(j) # Home(i)

SizesAgree ==
  /\ DOMAIN sizes = StoragesOf(plan)
  /\ \A i \in 1..placed : sizes[Home(i)] = Slots(request, Values(graph)[i])

NeededOwned ==
  \A i \in 1..placed :
    Needed(graph, schedule, Values(graph)[i], step) => owners[Home(i)] = Values(graph)[i]

EntriesExact ==
  \A k \in ExpirySteps(graph) :
    /\ Injective(expirations[k])
    /\ SeqRange(expirations[k])
         = {<<Home(i), Values(graph)[i]>> :
              i \in {j \in 1..placed : ExpiresAt(Values(graph)[j]) = k}}

(* The lists hold once, by size, what expired before step k. *)
ListsExact(lists, k) ==
  /\ \A n \in DOMAIN free : Injective(lists[n])
  /\ \A n \in DOMAIN free : \A s \in SeqRange(lists[n]) : sizes[s] = n
  /\ \A s \in StoragesOf(plan) :
       s \in SeqRange(lists[sizes[s]]) <=> ExpiresAt(owners[s]) < k

UnconstrainedInv ==
  /\ NamesOwn /\ InputsOwn /\ SizesAgree /\ NeededOwned /\ EntriesExact
  /\ ListsExact(free, step)

(* Sequences put together and shortened keep their elements apart. *)
LEMMA InjectiveConcat ==
  ASSUME NEW S, NEW s \in Seq(S), NEW t \in Seq(S), Injective(s), Injective(t),
         SeqRange(s) \cap SeqRange(t) = {}
  PROVE  Injective(s \o t) /\ SeqRange(s \o t) = SeqRange(s) \cup SeqRange(t)
<1> DEFINE u == s \o t
<1>1. /\ u \in Seq(S) /\ Len(u) = Len(s) + Len(t) /\ Len(s) \in Nat /\ Len(t) \in Nat
      /\ \A i \in 1..(Len(s) + Len(t)) : u[i] = IF i <= Len(s) THEN s[i] ELSE t[i - Len(s)]
  BY ConcatProperties
<1>2. DOMAIN u = 1..(Len(s) + Len(t)) /\ DOMAIN s = 1..Len(s) /\ DOMAIN t = 1..Len(t)
  BY <1>1
<1> HIDE DEF u
<1>3. \A i \in DOMAIN u : \/ i \in DOMAIN s /\ u[i] = s[i]
                          \/ i - Len(s) \in DOMAIN t /\ u[i] = t[i - Len(s)] /\ i \in Int
  BY <1>1, <1>2
<1>4. \A i \in DOMAIN s : i \in DOMAIN u /\ u[i] = s[i]
  BY <1>1, <1>2
<1>5. \A i \in DOMAIN t : i + Len(s) \in DOMAIN u /\ u[i + Len(s)] = t[i]
  BY <1>1, <1>2
<1>6. SeqRange(u) = SeqRange(s) \cup SeqRange(t)
  BY <1>3, <1>4, <1>5 DEF SeqRange
<1>7. ASSUME NEW i \in DOMAIN u, NEW j \in DOMAIN u, u[i] = u[j]
      PROVE  i = j
  <2>1. CASE i \in DOMAIN s /\ u[i] = s[i] /\ j \in DOMAIN s /\ u[j] = s[j]
    BY <2>1, <1>7 DEF Injective
  <2>2. CASE /\ i - Len(s) \in DOMAIN t /\ u[i] = t[i - Len(s)] /\ i \in Int
             /\ j - Len(s) \in DOMAIN t /\ u[j] = t[j - Len(s)] /\ j \in Int
    <3>1. i - Len(s) = j - Len(s)
      BY <2>2, <1>7 DEF Injective
    <3> QED  BY <3>1, <2>2, <1>1
  <2>3. \A x \in DOMAIN s : \A y \in DOMAIN t : s[x] # t[y]
    BY DEF SeqRange
  <2> QED  BY <2>1, <2>2, <2>3, <1>3, <1>7
<1> QED  BY <1>6, <1>7 DEF Injective, u

(* Front drops the last element only. *)
LEMMA InjectiveFront ==
  ASSUME NEW S, NEW s \in Seq(S), Injective(s), s # <<>>
  PROVE  /\ Injective(Front(s)) /\ SeqRange(Front(s)) = SeqRange(s) \ {Last(s)}
         /\ Last(s) \in SeqRange(s)
<1> DEFINE f == Front(s)
           n == Len(s) - 1
<1>1. Len(s) \in Nat /\ Len(s) >= 1 /\ DOMAIN s = 1..Len(s)
  OBVIOUS
<1>2. f = SubSeq(s, 1, n) /\ n \in Nat
  BY <1>1 DEF Front
<1>3. Len(f) = n /\ DOMAIN f = 1..n /\ \A i \in 1..n : f[i] = s[i]
  BY <1>1, <1>2
<1>4. Last(s) = s[n + 1] /\ DOMAIN s = 1..(n + 1)
  BY <1>1 DEF Last
<1> HIDE DEF f, n
<1>5. 1..n \subseteq 1..(n + 1) /\ n + 1 \in 1..(n + 1) /\ n + 1 \notin 1..n
      /\ \A i \in 1..(n + 1) : i \in 1..n \/ i = n + 1
  BY <1>2
<1>6. \A i \in 1..n : s[i] # s[n + 1]
  BY <1>4, <1>5 DEF Injective
<1> QED  BY <1>3, <1>4, <1>5, <1>6 DEF Injective, SeqRange, f

(* What expires at a step: the objects whose contents expire there. *)
LEMMA ReleasedExactly ==
  ASSUME MappingInv, UnconstrainedInv, NEW k \in ExpirySteps(graph)
  PROVE  /\ Released(k) \in Seq(StoragesOf(plan))
         /\ Injective(Released(k))
         /\ SeqRange(Released(k)) = {s \in StoragesOf(plan) : ExpiresAt(owners[s]) = k}
<1> DEFINE entries == expirations[k]
           pairs == StoragesOf(plan) \X ValueNames(graph)
           keep == {i \in DOMAIN entries : owners[entries[i][1]] = entries[i][2]}
           current == Kept(entries, keep)
           released == Released(k)
<1>1. /\ entries \in Seq(pairs) /\ Injective(entries)
      /\ SeqRange(entries) = {<<Home(i), Values(graph)[i]>> :
                                i \in {j \in 1..placed : ExpiresAt(Values(graph)[j]) = k}}
  BY DEF MappingInv, ListsPlaced, UnconstrainedInv, EntriesExact
<1> DEFINE Due == {j \in 1..placed : ExpiresAt(Values(graph)[j]) = k}
<1> HIDE DEF pairs
<1>2. /\ current \in Seq(pairs) /\ Injective(current)
      /\ SeqRange(current) = {entries[i] : i \in keep \cap DOMAIN entries}
  <2> HIDE DEF entries, keep
  <2>1. \A i, j \in keep \cap DOMAIN entries : entries[i] = entries[j] => i = j
    BY <1>1 DEF Injective
  <2> QED  BY <1>1, <2>1, KeptElements, KeptInjective
<1>3. released = [i \in DOMAIN current |-> current[i][1]]
  BY DEF Released
<1>4. \A i \in DOMAIN current : owners[current[i][1]] = current[i][2]
                                /\ current[i] = <<current[i][1], current[i][2]>>
                                /\ current[i][1] \in StoragesOf(plan)
  <2>1. \A i \in DOMAIN current : \E j \in keep : current[i] = entries[j]
    BY <1>2 DEF SeqRange
  <2>2. \A j \in keep : owners[entries[j][1]] = entries[j][2] /\ entries[j] \in pairs
    BY <1>1
  <2> HIDE DEF current, entries, keep
  <2> QED  BY <2>1, <2>2 DEF pairs
<1>5. SeqRange(current) = {<<s, owners[s]>> : s \in {t \in StoragesOf(plan) : ExpiresAt(owners[t]) = k}}
  <2>1. SeqRange(current) = {e \in SeqRange(entries) : owners[e[1]] = e[2]}
    BY <1>2 DEF SeqRange
  <2>2. \A s \in StoragesOf(plan) : \E i \in 1..placed : Home(i) = s /\ owners[s] = Values(graph)[i]
    BY DEF MappingInv, OwnersAreLast
  <2>3. \A i \in 1..placed : Home(i) \in StoragesOf(plan)
    BY ShapeFacts DEF MappingInv
  <2>4. ASSUME NEW e \in SeqRange(current)
        PROVE  e \in {<<s, owners[s]>> : s \in {t \in StoragesOf(plan) : ExpiresAt(owners[t]) = k}}
    <3>1. e \in SeqRange(entries) /\ owners[e[1]] = e[2]
      BY <2>1, <2>4
    <3>2. PICK i \in Due : e = <<Home(i), Values(graph)[i]>>
      BY <3>1, <1>1
    <3>3. owners[Home(i)] = Values(graph)[i]
      BY <3>1, <3>2
    <3> QED  BY <3>2, <3>3, <2>3
  <2>5. ASSUME NEW s \in StoragesOf(plan), ExpiresAt(owners[s]) = k
        PROVE  <<s, owners[s]>> \in SeqRange(current)
    <3>1. PICK i \in 1..placed : Home(i) = s /\ owners[s] = Values(graph)[i]
      BY <2>2
    <3>2. <<s, owners[s]>> \in SeqRange(entries)
      BY <1>1, <2>5, <3>1
    <3> QED  BY <2>1, <3>2
  <2> QED  BY <2>4, <2>5
<1> HIDE DEF current, released
<1>6. DOMAIN current = 1..Len(current) /\ Len(current) \in Nat /\ DOMAIN released = DOMAIN current
  BY <1>2, <1>3
<1>7. released \in Seq(StoragesOf(plan))
  <2>1. released \in [1..Len(current) -> StoragesOf(plan)]
    BY <1>3, <1>4, <1>6
  <2> QED  BY <2>1, <1>6
<1>8. Injective(released)
  <2> SUFFICES ASSUME NEW i \in DOMAIN current, NEW j \in DOMAIN current, released[i] = released[j]
               PROVE  i = j
    BY <1>6 DEF Injective
  <2>1. current[i] = current[j]
    BY <1>3, <1>4
  <2> QED  BY <2>1, <1>2 DEF Injective
<1>9. SeqRange(released) = {s \in StoragesOf(plan) : ExpiresAt(owners[s]) = k}
  <2>1. SeqRange(released) = {e[1] : e \in SeqRange(current)}
    BY <1>3, <1>6 DEF SeqRange
  <2> DEFINE Expired == {s \in StoragesOf(plan) : ExpiresAt(owners[s]) = k}
  <2>2. SeqRange(current) = {<<s, owners[s]>> : s \in Expired}
    BY <1>5
  <2> HIDE DEF Expired
  <2>3. ASSUME NEW s PROVE s \in {e[1] : e \in SeqRange(current)} <=> s \in Expired
    <3>1. ASSUME NEW e \in SeqRange(current), s = e[1] PROVE s \in Expired
      BY <2>2, <3>1
    <3>2. ASSUME s \in Expired PROVE \E e \in SeqRange(current) : s = e[1]
      <4>1. <<s, owners[s]>> \in SeqRange(current) /\ s = <<s, owners[s]>>[1]
        BY <2>2, <3>2
      <4> QED  BY <4>1
    <3> QED  BY <3>1, <3>2
  <2> QED  BY <2>1, <2>3 DEF Expired
<1> QED  BY <1>7, <1>8, <1>9 DEF released

(* The lists at a step, replenished, hold what expired up to that step. *)
LEMMA ReplenishedExactly ==
  ASSUME MappingInv, UnconstrainedInv, step \in 1..OperationCount
  PROVE  ListsExact(Replenished(step), step + 1)
<1> DEFINE released == Released(step)
           ofSize(n) == {i \in DOMAIN released : sizes[released[i]] = n}
           added(n) == Kept(released, ofSize(n))
           lists == Replenished(step)
<1>1. step \in ExpirySteps(graph) /\ step \in Nat
  BY GraphFacts, ShapeFacts DEF MappingInv, PlanShape, ExpirySteps, OperationCount
<1>2. /\ released \in Seq(StoragesOf(plan)) /\ Injective(released)
      /\ SeqRange(released) = {s \in StoragesOf(plan) : ExpiresAt(owners[s]) = step}
  BY <1>1, ReleasedExactly
<1>3. lists = [n \in DOMAIN free |-> free[n] \o added(n)]
  BY DEF Replenished
<1> HIDE DEF released
<1>4. ASSUME NEW n \in DOMAIN free
      PROVE  /\ added(n) \in Seq(StoragesOf(plan)) /\ Injective(added(n))
             /\ SeqRange(added(n)) = {s \in SeqRange(released) : sizes[s] = n}
  <2> DEFINE keep == ofSize(n)
  <2>1. /\ added(n) \in Seq(StoragesOf(plan))
        /\ SeqRange(added(n)) = {released[i] : i \in keep \cap DOMAIN released}
    <3>1. added(n) = Kept(released, keep)
      OBVIOUS
    <3> HIDE DEF keep, added
    <3> QED  BY <1>2, <3>1, KeptElements
  <2>2. Injective(added(n))
    <3>1. \A i, j \in keep \cap DOMAIN released : released[i] = released[j] => i = j
      BY <1>2 DEF Injective
    <3>2. added(n) = Kept(released, keep)
      OBVIOUS
    <3> HIDE DEF keep, added
    <3> QED  BY <1>2, <3>1, <3>2, KeptInjective
  <2>3. {released[i] : i \in keep \cap DOMAIN released} = {s \in SeqRange(released) : sizes[s] = n}
    BY DEF SeqRange
  <2> QED  BY <2>1, <2>2, <2>3
<1> HIDE DEF added
<1>5. /\ \A n \in DOMAIN free : free[n] \in Seq(StoragesOf(plan))
      /\ \A n \in DOMAIN free : Injective(free[n])
      /\ \A n \in DOMAIN free : \A s \in SeqRange(free[n]) : sizes[s] = n
      /\ \A s \in StoragesOf(plan) :
           s \in SeqRange(free[sizes[s]]) <=> ExpiresAt(owners[s]) < step
  BY DEF MappingInv, ListsPlaced, UnconstrainedInv, ListsExact
<1>6. \A n \in DOMAIN free : SeqRange(free[n]) \subseteq StoragesOf(plan)
  BY <1>5 DEF SeqRange
<1>7. ASSUME NEW n \in DOMAIN free
      PROVE  Injective(lists[n]) /\ SeqRange(lists[n]) = SeqRange(free[n]) \cup SeqRange(added(n))
  <2>1. SeqRange(free[n]) \cap SeqRange(added(n)) = {}
    <3> SUFFICES ASSUME NEW s \in SeqRange(free[n]), s \in SeqRange(added(n)) PROVE FALSE
      OBVIOUS
    <3>1. s \in StoragesOf(plan) /\ sizes[s] = n /\ ExpiresAt(owners[s]) < step
      BY <1>5, <1>6
    <3>2. ExpiresAt(owners[s]) = step
      BY <1>2, <1>4
    <3> QED  BY <3>1, <3>2, <1>1
  <2>2. lists[n] = free[n] \o added(n)
    BY <1>3
  <2> QED  BY <2>1, <2>2, <1>4, <1>5, InjectiveConcat
<1>8. \A s \in StoragesOf(plan) : sizes[s] \in DOMAIN free
  <2>1. \A i \in 1..placed : Values(graph)[i] \in ValueNames(graph)
    BY ShapeFacts, GraphFacts DEF MappingInv, PlanShape, SeqRange
  <2>2. \A i \in 1..placed : sizes[Home(i)] \in DOMAIN free
    BY <2>1 DEF MappingInv, ListsPlaced, UnconstrainedInv, SizesAgree
  <2> QED  BY <2>2, ShapeFacts DEF MappingInv
<1> HIDE DEF lists
<1>9. ASSUME NEW s \in StoragesOf(plan)
      PROVE  s \in SeqRange(lists[sizes[s]]) <=> ExpiresAt(owners[s]) < step + 1
  <2>1. ExpiresAt(owners[s]) \in Nat
    BY ExpiryStep, ShapeFacts, GraphFacts DEF MappingInv, PlanShape
  <2>2. s \in SeqRange(lists[sizes[s]])
          <=> s \in SeqRange(free[sizes[s]]) \/ s \in SeqRange(added(sizes[s]))
    BY <1>7, <1>8
  <2>3. s \in SeqRange(added(sizes[s])) <=> ExpiresAt(owners[s]) = step
    BY <1>2, <1>4, <1>8
  <2>4. s \in SeqRange(free[sizes[s]]) <=> ExpiresAt(owners[s]) < step
    BY <1>5
  <2> QED  BY <2>1, <2>2, <2>3, <2>4, <1>1
<1>10. \A n \in DOMAIN free : \A s \in SeqRange(lists[n]) : sizes[s] = n
  BY <1>4, <1>5, <1>7
<1> QED  BY <1>7, <1>9, <1>10 DEF ListsExact, lists

(***************************************************************************)
(* One placement without requirements.  The lists before it hold what      *)
(* expired before the next step; the object taken from them, if one is, is *)
(* of the right size and holds nothing needed from that step on.           *)
(***************************************************************************)
LEMMA UnconstrainedPlacing ==
  ASSUME MappingInv, UnconstrainedInv, Mapping, placed < Len(Values(graph)),
         NEW v, v = Values(graph)[placed + 1], NEW s, Place(v, s),
         NEW next \in 1..(OperationCount + 1), step <= next, step' = next, ExpiresAt(v) >= next,
         NEW lists, ListsExact(lists, next),
         \A n \in DOMAIN free : SeqRange(lists[n]) \subseteq StoragesOf(plan),
         DOMAIN free' = DOMAIN free,
         \A n \in DOMAIN free : /\ Injective(free'[n])
                               /\ SeqRange(free'[n]) = SeqRange(lists[n]) \ {s},
         s \in StoragesOf(plan) => /\ placed >= entry
                                  /\ sizes[s] = Slots(request, v)
                                  /\ ~Needed(graph, schedule, owners[s], next),
         s \notin StoragesOf(plan) => s = Named(v)
  PROVE  UnconstrainedInv'
<1>1. /\ PlanShape /\ request' = request
      /\ entry \in Nat /\ OperationCount \in Nat /\ placed \in Nat /\ step \in Nat
      /\ Len(Values(graph)) = entry + OperationCount
      /\ DOMAIN Values(graph) = 1..(entry + OperationCount) /\ Injective(Values(graph))
      /\ DOMAIN schedule = 1..OperationCount
  BY ShapeFacts, GraphFacts, OwnOrder DEF MappingInv, PlanShape, Mapping
<1>2. /\ PlanShape' /\ placed' = placed + 1
      /\ \A i \in 1..placed : Home(i)' = Home(i)
      /\ plan'.placements[placed + 1].storage = s
      /\ StoragesOf(plan') = StoragesOf(plan) \cup {s}
      /\ schedule' = schedule /\ graph' = graph /\ entry' = entry
      /\ OperationCount' = OperationCount
  BY <1>1, Placing DEF graph, entry, OperationCount
<1>3. \A i \in 1..placed' : i \in 1..placed \/ i = placed + 1
  BY <1>1, <1>2
<1>4. /\ 1..placed \subseteq 1..placed' /\ placed + 1 \in 1..placed'
      /\ \A i \in 1..placed : i < placed + 1
  BY <1>1, <1>2
<1>5. /\ \A i \in 1..placed : Home(i) \in StoragesOf(plan)
      /\ \A t \in StoragesOf(plan) : \E i \in 1..placed : Home(i) = t
  BY <1>1, ShapeFacts
<1>6. /\ DOMAIN owners = StoragesOf(plan) /\ DOMAIN sizes = StoragesOf(plan)
  BY DEF MappingInv, OwnersAreLast, UnconstrainedInv, SizesAgree
<1>7. /\ owners'[s] = v /\ sizes'[s] = Slots(request, v)
      /\ DOMAIN sizes' = StoragesOf(plan')
      /\ \A t \in StoragesOf(plan) : t # s => owners'[t] = owners[t] /\ sizes'[t] = sizes[t]
  <2>1. owners' = Assigned(owners, s, v) /\ sizes' = Assigned(sizes, s, Slots(request, v))
    BY Bookkeeping
  <2> QED  BY <2>1, <1>2, <1>6 DEF Assigned
<1>8. \A u : ExpiresAt(u)' = ExpiresAt(u)
  BY <1>2 DEF ExpiresAt, OperationCount, ExpirySteps
<1>9. \A i \in 1..placed : Values(graph)[i] # v
  <2>1. \A i \in 1..placed : i \in DOMAIN Values(graph) /\ placed + 1 \in DOMAIN Values(graph)
    BY <1>1
  <2> QED  BY <2>1, <1>1, <1>4 DEF Injective
<1>10. NamesOwn'
  <2> SUFFICES ASSUME NEW i \in 1..placed'
               PROVE  \E j \in 1..i : Home(i)' = Named(Values(graph)[j])
    BY <1>2 DEF NamesOwn
  <2>1. CASE i \in 1..placed
    BY <2>1, <1>2 DEF UnconstrainedInv, NamesOwn
  <2>2. CASE i = placed + 1 /\ s \in StoragesOf(plan)
    <3>1. PICK k \in 1..placed : Home(k) = s
      BY <2>2, <1>5
    <3>2. PICK j \in 1..k : Home(k) = Named(Values(graph)[j])
      BY DEF UnconstrainedInv, NamesOwn
    <3>3. j \in 1..i
      BY <2>2, <1>1
    <3> QED  BY <2>2, <3>1, <3>2, <3>3, <1>2 DEF Home
  <2>3. CASE i = placed + 1 /\ s \notin StoragesOf(plan)
    <3>1. i \in 1..i
      BY <2>3, <1>1
    <3> QED  BY <2>3, <3>1, <1>2 DEF Home
  <2> QED  BY <2>1, <2>2, <2>3, <1>3
<1>11. InputsOwn'
  <2> SUFFICES ASSUME NEW i \in 1..placed', i <= entry, NEW j \in 1..(i - 1)
               PROVE  Home(j)' # Home(i)'
    BY <1>2 DEF InputsOwn
  <2>1. CASE i \in 1..placed
    <3>1. j \in 1..placed
      BY <2>1, <1>1
    <3> QED  BY <2>1, <3>1, <1>2 DEF UnconstrainedInv, InputsOwn
  <2>2. CASE i = placed + 1
    <3>1. s \notin StoragesOf(plan) /\ j \in 1..placed
      BY <2>2, <1>1
    <3> QED  BY <2>2, <3>1, <1>2, <1>5 DEF Home
  <2> QED  BY <2>1, <2>2, <1>3
<1>12. SizesAgree'
  <2> SUFFICES ASSUME NEW i \in 1..placed'
               PROVE  sizes'[Home(i)'] = Slots(request, Values(graph)[i])
    BY <1>1, <1>2, <1>7 DEF SizesAgree
  <2>1. CASE i \in 1..placed
    <3>1. Home(i)' = Home(i) /\ Home(i) \in StoragesOf(plan)
          /\ sizes[Home(i)] = Slots(request, Values(graph)[i])
      BY <2>1, <1>2, <1>5 DEF UnconstrainedInv, SizesAgree
    <3> QED  BY <3>1, <1>7
  <2>2. CASE i = placed + 1
    BY <2>2, <1>2, <1>7 DEF Home
  <2> QED  BY <2>1, <2>2, <1>3
<1>13. NeededOwned'
  <2> SUFFICES ASSUME NEW i \in 1..placed', Needed(graph, schedule, Values(graph)[i], next)
               PROVE  owners'[Home(i)'] = Values(graph)[i]
    BY <1>1, <1>2 DEF NeededOwned
  <2>1. CASE i \in 1..placed
    <3>1. Needed(graph, schedule, Values(graph)[i], step)
      BY <1>1, NeededEarlier
    <3>2. owners[Home(i)] = Values(graph)[i] /\ Home(i)' = Home(i) /\ Home(i) \in StoragesOf(plan)
      BY <2>1, <3>1, <1>2, <1>5 DEF UnconstrainedInv, NeededOwned
    <3> QED  BY <3>2, <1>7
  <2>2. CASE i = placed + 1
    BY <2>2, <1>2, <1>7 DEF Home
  <2> QED  BY <2>1, <2>2, <1>3
<1>14. EntriesExact'
  <2> DEFINE Due(k) == {j \in 1..placed : ExpiresAt(Values(graph)[j]) = k}
             DueNow(k) == {j \in 1..placed' : ExpiresAt(Values(graph)[j]) = k}
             c == ExpiresAt(v)
  <2>1. /\ DOMAIN expirations = ExpirySteps(graph)
        /\ expirations' = [expirations EXCEPT ![c] = Append(@, <<s, v>>)]
        /\ \A k \in ExpirySteps(graph) :
             /\ expirations[k] \in Seq(StoragesOf(plan) \X ValueNames(graph))
             /\ Injective(expirations[k])
             /\ SeqRange(expirations[k]) = {<<Home(i), Values(graph)[i]>> : i \in Due(k)}
    BY Bookkeeping DEF MappingInv, ListsPlaced, UnconstrainedInv, EntriesExact
  <2> SUFFICES ASSUME NEW k \in ExpirySteps(graph)
               PROVE  /\ Injective(expirations'[k])
                      /\ SeqRange(expirations'[k])
                           = {<<plan'.placements[i].storage, Values(graph)[i]>> : i \in DueNow(k)}
    BY <1>2, <1>8 DEF EntriesExact, Home, ExpirySteps
  <2>2. \A i \in Due(k) : plan'.placements[i].storage = Home(i)
    BY <1>2 DEF Home
  <2>3. CASE k # c
    <3>1. DueNow(k) = Due(k)
      BY <2>3, <1>3, <1>4
    <3>2. expirations'[k] = expirations[k]
      BY <2>1, <2>3
    <3>3. {<<plan'.placements[i].storage, Values(graph)[i]>> : i \in DueNow(k)}
            = {<<Home(i), Values(graph)[i]>> : i \in Due(k)}
      <4> HIDE DEF Due, DueNow
      <4> QED  BY <2>2, <3>1
    <3> HIDE DEF Due, DueNow
    <3> QED  BY <2>1, <3>2, <3>3
  <2>4. CASE k = c
    <3>1. DueNow(k) = Due(k) \cup {placed + 1}
      BY <2>4, <1>3, <1>4
    <3>2. expirations'[k] = Append(expirations[k], <<s, v>>)
      BY <2>1, <2>4
    <3>3. <<s, v>> \notin SeqRange(expirations[k])
      BY <2>1, <1>9
    <3>4. ASSUME NEW S, NEW t \in Seq(S), Injective(t), NEW x, x \notin SeqRange(t)
          PROVE  Injective(Append(t, x)) /\ SeqRange(Append(t, x)) = SeqRange(t) \cup {x}
      <4> DEFINE u == Append(t, x)
      <4>1. /\ DOMAIN t = 1..Len(t) /\ Len(t) \in Nat /\ DOMAIN u = 1..(Len(t) + 1)
            /\ u[Len(t) + 1] = x /\ \A i \in 1..Len(t) : u[i] = t[i]
        <5>1. t \in Seq(S \cup {x}) /\ x \in S \cup {x}
          BY <3>4
        <5> QED  BY <5>1
      <4>2. \A i \in 1..(Len(t) + 1) : i \in 1..Len(t) \/ i = Len(t) + 1
        BY <4>1
      <4>3. \A i \in 1..Len(t) : i \in 1..(Len(t) + 1)
        BY <4>1
      <4>4. Len(t) + 1 \in 1..(Len(t) + 1)
        BY <4>1
      <4> HIDE DEF u
      <4>5. \A i \in 1..Len(t) : t[i] # x
        BY <3>4, <4>1 DEF SeqRange
      <4> QED  BY <3>4, <4>1, <4>2, <4>3, <4>4, <4>5 DEF Injective, SeqRange, u
    <3>5. /\ Injective(expirations'[k])
          /\ SeqRange(expirations'[k]) = SeqRange(expirations[k]) \cup {<<s, v>>}
      BY <2>1, <3>2, <3>3, <3>4
    <3>6. {<<plan'.placements[i].storage, Values(graph)[i]>> : i \in DueNow(k)}
            = {<<Home(i), Values(graph)[i]>> : i \in Due(k)} \cup {<<s, v>>}
      <4> HIDE DEF Due, DueNow
      <4> QED  BY <2>2, <3>1, <1>2
    <3> QED  BY <2>1, <3>5, <3>6
  <2> QED  BY <2>3, <2>4
<1>15. ListsExact(free, step)'
  <2>1. \A n \in DOMAIN free : Injective(lists[n]) /\ \A t \in SeqRange(lists[n]) : sizes[t] = n
    BY DEF ListsExact
  <2>2. ASSUME NEW n \in DOMAIN free, NEW t \in SeqRange(free'[n])
        PROVE  sizes'[t] = n
    <3>1. t \in SeqRange(lists[n]) /\ t # s /\ t \in StoragesOf(plan)
      BY <2>2
    <3> QED  BY <2>1, <3>1, <1>7
  <2>3. \A t \in StoragesOf(plan') : sizes'[t] \in DOMAIN free
    <3>1. \A i \in 1..placed' : Values(graph)[i] \in ValueNames(graph)
      <4>1. \A i \in 1..placed' : i \in DOMAIN Values(graph)
        BY <1>1, <1>2
      <4> QED  BY <4>1, <1>1, GraphFacts, ShapeFacts DEF PlanShape, SeqRange
    <3>2. \A i \in 1..placed' : sizes'[Home(i)'] \in DOMAIN free
      BY <3>1, <1>1, <1>2, <1>12 DEF SizesAgree, MappingInv, ListsPlaced
    <3>3. \A i \in 1..placed' : sizes'[plan'.placements[i].storage] \in DOMAIN free
      BY <3>2 DEF Home
    <3>4. \A t \in StoragesOf(plan') : \E i \in 1..placed' : plan'.placements[i].storage = t
      BY <1>2, <1>4, <1>5 DEF Home
    <3> QED  BY <3>3, <3>4
  <2>4. ASSUME NEW t \in StoragesOf(plan')
        PROVE  t \in SeqRange(free'[sizes'[t]]) <=> ExpiresAt(owners'[t]) < next
    <3>1. CASE t = s
      <4>1. t \notin SeqRange(free'[sizes'[t]])
        BY <3>1, <2>3
      <4>2. ExpiresAt(owners'[t]) >= next /\ ExpiresAt(v) \in Int
        BY <3>1, <1>1, <1>7, ExpiryStep
      <4> QED  BY <4>1, <4>2, <3>1, <1>7
    <3>2. CASE t # s
      <4>1. t \in StoragesOf(plan) /\ owners'[t] = owners[t] /\ sizes'[t] = sizes[t]
        BY <3>2, <1>2, <1>7
      <4>2. t \in SeqRange(lists[sizes[t]]) <=> ExpiresAt(owners[t]) < next
        BY <4>1 DEF ListsExact
      <4>3. sizes[t] \in DOMAIN free
        BY <4>1, <2>3
      <4> QED  BY <3>2, <4>1, <4>2, <4>3
    <3> QED  BY <3>1, <3>2
  <2> QED  BY <2>2, <2>4, <1>8 DEF ListsExact
<1> QED  BY <1>10, <1>11, <1>12, <1>13, <1>14, <1>15 DEF UnconstrainedInv

(* The name of a value is not taken before the value is placed. *)
LEMMA OwnNameFree ==
  ASSUME MappingInv, NamesOwn, request.constraints = <<>>, placed < Len(Values(graph)),
         NEW v, v = Values(graph)[placed + 1]
  PROVE  FreshStorage(v, reserved) = Named(v) /\ Named(v) \notin StoragesOf(plan)
<1>1. /\ PlanShape /\ placed \in Nat /\ Injective(Values(graph))
      /\ DOMAIN Values(graph) = 1..Len(Values(graph)) /\ Len(Values(graph)) \in Nat
      /\ StoragesOf(plan) = {Home(i) : i \in 1..placed}
  BY ShapeFacts, GraphFacts DEF MappingInv, PlanShape
<1>2. Named(v) \notin StoragesOf(plan)
  <2> SUFFICES ASSUME NEW i \in 1..placed, Home(i) = Named(v) PROVE FALSE
    BY <1>1
  <2>1. PICK j \in 1..i : Named(v) = Named(Values(graph)[j])
    BY DEF NamesOwn
  <2>2. v = Values(graph)[j]
    BY <2>1 DEF Named, Suffixed
  <2>3. j \in DOMAIN Values(graph) /\ placed + 1 \in DOMAIN Values(graph) /\ j # placed + 1
    BY <1>1
  <2> QED  BY <2>2, <2>3, <1>1 DEF Injective
<1>3. reserved = StoragesOf(plan)
  BY DEF reserved
<1> QED  BY <1>2, <1>3 DEF FreshStorage

(* Placing an input without requirements. *)
LEMMA UnconstrainedInput ==
  ASSUME MappingInv, UnconstrainedInv, request.constraints = <<>>, MapInput
  PROVE  UnconstrainedInv'
<1> DEFINE v == Values(graph)[placed + 1]
           s == Named(v)
<1>1. /\ PlanShape /\ Mapping /\ placed < entry /\ step' = step /\ free' = free
      /\ placed \in Nat /\ entry \in Nat /\ OperationCount \in Nat
      /\ Len(Values(graph)) = entry + OperationCount
  BY ShapeFacts, GraphFacts DEF MapInput, placed, entry, MappingInv, PlanShape
<1>2. placed < Len(Values(graph)) /\ graph.inputs[placed + 1] = v
  BY <1>1, ShapeFacts, GraphFacts DEF PlanShape
<1>3. Requirements(v) = {}
  BY DEF Requirements
<1>4. FreshStorage(v, reserved) = s /\ s \notin StoragesOf(plan)
  BY <1>2, OwnNameFree DEF UnconstrainedInv
<1>5. Place(v, s)
  <2>1. Place(graph.inputs[placed + 1],
              IF Requirements(graph.inputs[placed + 1]) # {}
              THEN Forced(graph.inputs[placed + 1])
              ELSE FreshStorage(graph.inputs[placed + 1], reserved))
    BY DEF MapInput, placed
  <2> QED  BY <2>1, <1>2, <1>3, <1>4
<1>6. step = 1 /\ step \in 1..(OperationCount + 1)
  BY <1>1 DEF MappingInv
<1>7. ExpiresAt(v) >= step
  BY <1>1, <1>6, ExpiryStep
<1>8. \A n \in DOMAIN free : SeqRange(free[n]) \subseteq StoragesOf(plan)
  <2>1. \A n \in DOMAIN free : free[n] \in Seq(StoragesOf(plan))
    BY DEF MappingInv, ListsPlaced
  <2> QED  BY <2>1 DEF SeqRange
<1>9. /\ ListsExact(free, step) /\ step <= step
      /\ \A n \in DOMAIN free : /\ Injective(free'[n])
                               /\ SeqRange(free'[n]) = SeqRange(free[n]) \ {s}
  BY <1>1, <1>4, <1>6, <1>8 DEF UnconstrainedInv, ListsExact
<1> HIDE DEF v, s
<1>10. v = Values(graph)[placed + 1] /\ s = Named(v)
  BY DEF v, s
<1> QED  BY <1>1, <1>2, <1>4, <1>5, <1>6, <1>7, <1>8, <1>9, <1>10, UnconstrainedPlacing

(* When nothing in a list is needed the list is taken from as it is. *)
LEMMA UsableWhole ==
  ASSUME NEW S, NEW candidates \in Seq(S), NEW k,
         \A s \in SeqRange(candidates) : ~Needed(graph, schedule, owners[s], k)
  PROVE  Usable(candidates, k) = candidates
<1> DEFINE usable == {i \in DOMAIN candidates :
                        ~Needed(graph, schedule, owners[candidates[i]], k)}
           last == CHOOSE i \in usable : \A j \in usable : j <= i
<1>1. DOMAIN candidates = 1..Len(candidates) /\ Len(candidates) \in Nat
  OBVIOUS
<1>2. usable = 1..Len(candidates)
  BY <1>1 DEF SeqRange
<1>3. Usable(candidates, k) = IF usable = {} THEN <<>> ELSE SubSeq(candidates, 1, last)
  BY DEF Usable
<1> HIDE DEF usable
<1>4. CASE Len(candidates) = 0
  BY <1>1, <1>2, <1>3, <1>4
<1>5. CASE Len(candidates) > 0
  <2>1. Len(candidates) \in usable /\ \A j \in usable : j <= Len(candidates)
    BY <1>1, <1>2, <1>5
  <2>2. last \in usable /\ \A j \in usable : j <= last
    BY <2>1
  <2> HIDE DEF last
  <2>3. last = Len(candidates)
    <3>1. Len(candidates) <= last
      BY <2>1, <2>2
    <3>2. last \in 1..Len(candidates)
      BY <1>2, <2>2
    <3>3. Len(candidates) \in Nat
      BY <1>1
    <3> DEFINE n == Len(candidates)
    <3> HIDE DEF n
    <3>4. n <= last /\ last \in 1..n /\ n \in Nat
      BY <3>1, <3>2, <3>3 DEF n
    <3> QED  BY <3>4 DEF n
  <2> QED  BY <1>1, <1>3, <2>1, <2>3
<1> QED  BY <1>1, <1>4, <1>5

(* Placing a result without requirements. *)
LEMMA UnconstrainedOperation ==
  ASSUME MappingInv, UnconstrainedInv, request.constraints = <<>>, MapOperation
  PROVE  UnconstrainedInv'
<1> DEFINE k == step
           op == Op(step)
           v == op.name
           left == op.inputs[1]
           size == Slots(request, v)
           lists == Replenished(step)
           usable == Usable(lists[size], step)
<1>1. /\ PlanShape /\ Mapping /\ placed >= entry /\ step <= OperationCount
      /\ step' = step + 1
      /\ placed \in Nat /\ entry \in Nat /\ OperationCount \in Nat
      /\ Len(Values(graph)) = entry + OperationCount
  BY ShapeFacts, GraphFacts DEF MapOperation, placed, entry, MappingInv, PlanShape
<1>2. step \in 1..OperationCount /\ placed = entry + step - 1 /\ placed + 1 = entry + step
      /\ placed < Len(Values(graph)) /\ step + 1 \in 1..(OperationCount + 1)
      /\ step <= step + 1
  BY <1>1 DEF MappingInv
<1>3. v = Values(graph)[placed + 1]
  BY <1>1, <1>2, ShapeFacts, GraphFacts, OwnOrder DEF PlanShape
<1>4. /\ DOMAIN lists = DOMAIN free
      /\ \A n \in DOMAIN free : lists[n] \in Seq(StoragesOf(plan))
  <2>1. step \in DOMAIN expirations
    <3>1. OperationCount = Len(graph.operations)
      BY DEF OperationCount
    <3> QED  BY <1>1, <1>2, <3>1 DEF MappingInv, ListsPlaced, ExpirySteps
  <2> QED  BY <2>1, ReplenishedPlaced DEF MappingInv
<1>5. size \in DOMAIN free
  <2>1. placed + 1 \in DOMAIN Values(graph)
    BY <1>1, <1>2, ShapeFacts, GraphFacts DEF PlanShape
  <2>2. v \in ValueNames(graph)
    BY <1>1, <1>3, <2>1, ShapeFacts, GraphFacts DEF PlanShape, SeqRange
  <2> QED  BY <2>2 DEF MappingInv, ListsPlaced
<1>6. ListsExact(lists, step + 1)
  BY <1>2, ReplenishedExactly
<1>7. ExpiresAt(v) >= step + 1
  <2>1. Needed(graph, schedule, v, step)
    BY <1>1, <1>2, ResultNeeded
  <2> HIDE DEF v
  <2>2. ExpiresAt(v) \in 1..(OperationCount + 2)
    BY <1>1, ExpiryStep
  <2>3. ~(ExpiresAt(v) <= step)
    BY <1>1, <1>2, <2>1, ExpiryStep
  <2> QED  BY <1>1, <1>2, <2>2, <2>3
<1>8. \A n \in DOMAIN free : SeqRange(lists[n]) \subseteq StoragesOf(plan)
  BY <1>4 DEF SeqRange
<1>9. /\ \A n \in DOMAIN free : Injective(lists[n])
      /\ \A n \in DOMAIN free : \A t \in SeqRange(lists[n]) : sizes[t] = n
      /\ \A t \in StoragesOf(plan) :
           t \in SeqRange(lists[sizes[t]]) <=> ExpiresAt(owners[t]) < step + 1
  BY <1>6 DEF ListsExact
<1>10. ASSUME NEW n \in DOMAIN free, NEW t \in SeqRange(lists[n])
       PROVE  /\ ~Needed(graph, schedule, owners[t], step)
              /\ ~Needed(graph, schedule, owners[t], step + 1)
  <2>1. ExpiresAt(owners[t]) < step + 1
    BY <1>8, <1>9
  <2>2. ExpiresAt(owners[t]) \in 1..(OperationCount + 2)
    BY <1>1, ExpiryStep
  <2>3. ExpiresAt(owners[t]) <= step /\ ExpiresAt(owners[t]) <= step + 1
    BY <1>1, <1>2, <2>1, <2>2
  <2> QED  BY <1>1, <1>2, <2>3, ExpiryStep
<1>11. usable = lists[size]
  BY <1>4, <1>5, <1>10, UsableWhole
<1>12. Requirements(v) = {}
  BY DEF Requirements
<1> DEFINE Choice(s) ==
             /\ Place(v, s) /\ DOMAIN free' = DOMAIN free
             /\ \A n \in DOMAIN free : /\ Injective(free'[n])
                                      /\ SeqRange(free'[n]) = SeqRange(lists[n]) \ {s}
             /\ s \in StoragesOf(plan) =>
                  /\ sizes[s] = size
                  /\ ~Needed(graph, schedule, owners[s], step + 1)
             /\ s \notin StoragesOf(plan) => s = Named(v)
<1>13. ASSUME ReusesLeft(op, step), Place(v, At(left)), free' = lists
       PROVE  \E s : Choice(s)
  <2> DEFINE s == At(left)
  <2>1. PICK i \in 1..placed : Values(graph)[i] = left
    BY <1>1, <1>2, LeftOperandPlaced
  <2>2. s = Home(i) /\ s \in StoragesOf(plan)
    BY <1>1, <2>1, PlacedAt, ShapeFacts
  <2>3. /\ Needed(graph, schedule, left, step) /\ ~Needed(graph, schedule, left, step + 1)
        /\ sizes[s] = size
    BY <1>13 DEF ReusesLeft, LastUseAt
  <2>4. owners[s] = left
    BY <2>1, <2>2, <2>3 DEF UnconstrainedInv, NeededOwned
  <2> HIDE DEF s, lists, size, v
  <2>5. \A n \in DOMAIN free : s \notin SeqRange(lists[n])
    BY <1>10, <2>3, <2>4
  <2>6. Place(v, s) /\ free' = lists
    BY <1>13 DEF s
  <2>7. \A n \in DOMAIN free : /\ Injective(free'[n])
                               /\ SeqRange(free'[n]) = SeqRange(lists[n]) \ {s}
    BY <1>9, <2>5, <2>6
  <2>8. Choice(s)
    BY <1>4, <2>2, <2>3, <2>4, <2>6, <2>7
  <2> QED  BY <2>8
<1>14. ASSUME usable # <<>>, Place(v, Last(usable)),
              free' = [lists EXCEPT ![size] = Front(usable)]
       PROVE  \E s : Choice(s)
  <2> DEFINE list == lists[size]
             s == Last(list)
  <2>1. list \in Seq(StoragesOf(plan)) /\ Injective(list) /\ list # <<>>
    BY <1>4, <1>5, <1>9, <1>11, <1>14
  <2>2. /\ Injective(Front(list)) /\ SeqRange(Front(list)) = SeqRange(list) \ {s}
        /\ s \in SeqRange(list)
    <3> HIDE DEF list
    <3> QED  BY <2>1, InjectiveFront
  <2>3. Place(v, s) /\ free' = [lists EXCEPT ![size] = Front(list)]
    BY <1>11, <1>14
  <2> HIDE DEF s
  <2>4. s \in StoragesOf(plan) /\ sizes[s] = size /\ ~Needed(graph, schedule, owners[s], step + 1)
    BY <1>5, <1>8, <1>9, <1>10, <2>2
  <2>5. \A n \in DOMAIN free : n # size => s \notin SeqRange(lists[n])
    BY <1>9, <2>4
  <2> HIDE DEF lists, size
  <2>6. \A n \in DOMAIN free : free'[n] = IF n = size THEN Front(list) ELSE lists[n]
    BY <1>4, <2>3
  <2>7. DOMAIN free' = DOMAIN free
    BY <1>4, <2>3
  <2>8. ASSUME NEW n \in DOMAIN free
        PROVE  Injective(free'[n]) /\ SeqRange(free'[n]) = SeqRange(lists[n]) \ {s}
    <3>1. CASE n = size
      BY <3>1, <2>2, <2>6
    <3>2. CASE n # size
      BY <3>2, <1>9, <2>5, <2>6
    <3> QED  BY <3>1, <3>2
  <2> HIDE DEF v
  <2>9. Choice(s)
    BY <2>3, <2>4, <2>7, <2>8
  <2> QED  BY <2>9
<1>15. ASSUME usable = <<>>, Place(v, FreshStorage(v, reserved)),
              free' = [lists EXCEPT ![size] = <<>>]
       PROVE  \E s : Choice(s)
  <2> DEFINE s == Named(v)
  <2>1. FreshStorage(v, reserved) = s /\ s \notin StoragesOf(plan)
    BY <1>2, <1>3, OwnNameFree DEF UnconstrainedInv
  <2> HIDE DEF s, lists, size
  <2>2. DOMAIN free' = DOMAIN free /\ \A n \in DOMAIN free : free'[n] = lists[n]
    BY <1>4, <1>11, <1>15
  <2>3. \A n \in DOMAIN free : s \notin SeqRange(lists[n])
    BY <1>8, <2>1
  <2>4. \A n \in DOMAIN free : /\ Injective(free'[n])
                               /\ SeqRange(free'[n]) = SeqRange(lists[n]) \ {s}
    BY <1>9, <2>2, <2>3
  <2>5. Place(v, s) /\ s = Named(v)
    BY <1>15, <2>1 DEF s
  <2> HIDE DEF v
  <2>6. Choice(s)
    BY <2>1, <2>2, <2>4, <2>5
  <2> QED  BY <2>6
<1>16. \E s : Choice(s)
  <2> HIDE DEF Choice, usable
  <2>1. IF ReusesLeft(op, step) THEN Place(v, At(left)) /\ free' = lists
        ELSE IF usable # <<>>
        THEN Place(v, Last(usable)) /\ free' = [lists EXCEPT ![size] = Front(usable)]
        ELSE /\ Place(v, FreshStorage(v, reserved))
             /\ free' = [lists EXCEPT ![size] = <<>>]
    BY <1>12 DEF MapOperation, usable
  <2> QED  BY <2>1, <1>13, <1>14, <1>15
<1>17. PICK s : Choice(s)
  BY <1>16
<1> DEFINE next == step + 1
<1> HIDE DEF v, lists
<1>18. /\ v = Values(graph)[placed + 1] /\ Place(v, s) /\ ListsExact(lists, next)
       /\ next \in 1..(OperationCount + 1) /\ step <= next /\ step' = next
       /\ ExpiresAt(v) >= next /\ placed >= entry
       /\ \A n \in DOMAIN free : SeqRange(lists[n]) \subseteq StoragesOf(plan)
       /\ DOMAIN free' = DOMAIN free
       /\ \A n \in DOMAIN free : /\ Injective(free'[n])
                                /\ SeqRange(free'[n]) = SeqRange(lists[n]) \ {s}
       /\ s \in StoragesOf(plan) => /\ placed >= entry
                                   /\ sizes[s] = Slots(request, v)
                                   /\ ~Needed(graph, schedule, owners[s], next)
       /\ s \notin StoragesOf(plan) => s = Named(v)
  BY <1>1, <1>2, <1>3, <1>6, <1>7, <1>8, <1>17
<1> HIDE DEF next
<1> QED  BY <1>1, <1>2, <1>18, UnconstrainedPlacing

-----------------------------------------------------------------------------

(* What verify_mapping checks before its walk, the contract and the        *)
(* capacity apart.                                                         *)
SoundPlan ==
  /\ AccumulatorsCover(request, plan) /\ RegistersExist(request, plan)
  /\ ScheduleComplete(request, plan)
  /\ PlacementsComplete(request, plan)
  /\ ConstraintsHonoured(request, plan)
  /\ ProducersFirst(request, plan)
  /\ SharersAgreeOnSize(request, plan)
  /\ InputsApart(request, plan)

(* A sound plan is refused for its contract or its capacity only. *)
LEMMA SoundPlanFault ==
  SoundPlan => StaticFault(request, plan) \in {"none", "contract", "capacity"}
BY DEF SoundPlan, StaticFault

(* The graph's own order schedules every operation after its producers. *)
LEMMA OwnOrderSound ==
  ASSUME PlanShape
  PROVE  ScheduleComplete(request, plan) /\ ProducersFirst(request, plan)
<1>1. /\ WellFormed(graph) /\ IsSequence(graph.operations)
      /\ schedule = GraphOrder /\ request \in MappingRequests
  BY MappingAssumption, MapperAssumption, ShapeFacts DEF PlanShape, graph
<1>2. /\ DOMAIN graph.operations = 1..OperationCount /\ OperationCount \in Nat
      /\ Len(schedule) = OperationCount /\ DOMAIN schedule = 1..OperationCount
      /\ \A k \in 1..OperationCount : Op(k) = graph.operations[k]
      /\ \A k \in 1..OperationCount : schedule[k] = graph.operations[k].name
  BY <1>1, OwnOrder DEF IsSequence, OperationCount
<1>3. SeqRange(schedule) = OperationNames(graph)
  BY <1>2 DEF SeqRange, OperationNames
<1>4. ASSUME NEW k \in 1..OperationCount
      PROVE  SeqRange(Op(k).inputs) \subseteq SeqRange(graph.inputs) \cup {schedule[j] : j \in 1..(k - 1)}
  <2>1. OperationWellFormed(graph, k)
    BY <1>1, <1>2 DEF WellFormed
  <2>2. SeqRange(graph.operations[k].inputs)
          \subseteq SeqRange(graph.inputs)
                    \cup {graph.operations[j].name : j \in {i \in DOMAIN graph.operations : i < k}}
    BY <2>1 DEF OperationWellFormed
  <2>3. \A j \in {i \in DOMAIN graph.operations : i < k} :
          j \in 1..(k - 1) /\ schedule[j] = graph.operations[j].name
    BY <1>2
  <2>4. Op(k).inputs = graph.operations[k].inputs
    BY <1>2
  <2>5. {graph.operations[j].name : j \in {i \in DOMAIN graph.operations : i < k}}
          \subseteq {schedule[j] : j \in 1..(k - 1)}
    BY <2>3
  <2> QED  BY <2>2, <2>4, <2>5
<1>5. ProducersFirst(request, plan)
  BY <1>2, <1>4 DEF ProducersFirst, Op, graph, schedule
<1>6. ScheduleComplete(request, plan)
  BY <1>2, <1>3 DEF ScheduleComplete, graph, schedule, OperationCount
<1> QED  BY <1>5, <1>6

(* A finished plan places every value once, values of one size together,   *)
(* and keeps the inputs apart.                                             *)
LEMMA PlacementsSound ==
  ASSUME PlanShape, placed = entry + OperationCount, NamesOwn, InputsOwn, SizesAgree
  PROVE  /\ PlacementsComplete(request, plan)
         /\ SharersAgreeOnSize(request, plan)
         /\ InputsApart(request, plan)
<1>1. /\ entry \in Nat /\ OperationCount \in Nat /\ request \in MappingRequests
      /\ DOMAIN Values(graph) = 1..placed /\ Injective(Values(graph))
      /\ SeqRange(Values(graph)) = ValueNames(graph)
      /\ DOMAIN plan.placements = 1..placed
      /\ StoragesOf(plan) = {Home(i) : i \in 1..placed}
      /\ \A i \in 1..entry : Values(graph)[i] = graph.inputs[i]
  BY ShapeFacts, GraphFacts DEF PlanShape
<1>2. \A i \in 1..placed : plan.placements[i].value = Values(graph)[i]
  <2>1. ASSUME NEW i \in 1..placed PROVE plan.placements[i].value = Values(graph)[i]
    <3>1. plan.placements[i] = [value |-> Values(graph)[i], storage |-> Home(i)]
      BY DEF PlanShape
    <3> QED  BY <3>1
  <2> QED  BY <2>1
<1>3. PlacementsComplete(request, plan)
  <2>1. \A i, j \in 1..placed : plan.placements[i].value = plan.placements[j].value => i = j
    BY <1>1, <1>2 DEF Injective
  <2>2. {plan.placements[i].value : i \in 1..placed} = ValueNames(graph)
    BY <1>1, <1>2 DEF SeqRange
  <2>3. ASSUME NEW i \in 1..placed PROVE Home(i) # Unnamed
    <3>1. PICK j \in 1..i : Home(i) = Named(Values(graph)[j])
      BY DEF NamesOwn
    <3>2. j \in 1..placed
      BY <1>1
    <3>3. Values(graph)[j] \in ValueNames(graph)
      BY <1>1, <3>2 DEF SeqRange
    <3> QED  BY <1>1, <3>1, <3>3, MapperAssumption DEF graph
  <2>4. Unnamed \notin StoragesOf(plan)
    BY <1>1, <2>3
  <2> QED  BY <1>1, <2>1, <2>2, <2>4 DEF PlacementsComplete, graph
<1>4. \A v \in ValueNames(graph) : \E i \in 1..placed : Values(graph)[i] = v /\ At(v) = Home(i)
  BY <1>1, PlacedAt DEF SeqRange
<1>5. SharersAgreeOnSize(request, plan)
  <2> SUFFICES ASSUME NEW u \in ValueNames(graph), NEW v \in ValueNames(graph), At(u) = At(v)
               PROVE  Slots(request, u) = Slots(request, v)
    BY DEF SharersAgreeOnSize, At, graph
  <2>1. PICK i \in 1..placed : Values(graph)[i] = u /\ At(u) = Home(i)
    BY <1>4
  <2>2. PICK j \in 1..placed : Values(graph)[j] = v /\ At(v) = Home(j)
    BY <1>4
  <2> QED  BY <2>1, <2>2 DEF SizesAgree
<1>6. InputsApart(request, plan)
  <2>1. IsSequence(graph.inputs)
    BY <1>1, MapperAssumption DEF graph
  <2>2. DOMAIN graph.inputs = 1..entry
    BY <2>1 DEF IsSequence, entry
  <2>3. \A i \in 1..entry : At(graph.inputs[i]) = Home(i)
    <3>1. \A i \in 1..entry : i \in 1..placed
      BY <1>1
    <3> QED  BY <1>1, <3>1, PlacedAt
  <2>4. ASSUME NEW i \in 1..entry, NEW j \in 1..entry, Home(i) = Home(j)
        PROVE  i = j
    <3>1. i \in 1..placed /\ i <= entry /\ j \in 1..placed /\ j <= entry
      BY <1>1
    <3>2. ~(j \in 1..(i - 1)) /\ ~(i \in 1..(j - 1))
      BY <2>4, <3>1 DEF InputsOwn
    <3> QED  BY <1>1, <3>2
  <2> QED  BY <2>2, <2>3, <2>4 DEF InputsApart, At, graph
<1> QED  BY <1>3, <1>5, <1>6

(* Each accumulating operation has one register that exists. *)
LEMMA RegistersGiven ==
  ASSUME PlanShape, FinishMapping, PlanShape'
  PROVE  AccumulatorsCover(request, plan') /\ RegistersExist(request, plan')
<1> DEFINE steps == [k \in 1..OperationCount |-> k]
           using == {k \in DOMAIN steps : graph.operations[k].kind \in AccumulatorKinds}
           users == Kept(steps, using)
           R == request.target.registers
           name(k) == graph.operations[k].name
           given == [i \in DOMAIN users |->
                       [operation |-> name(users[i]), register |-> (users[i] - 1) % R]]
<1>1. /\ OperationCount \in Nat /\ DOMAIN graph.operations = 1..OperationCount
      /\ R \in Nat \ {0} /\ WellFormed(graph) /\ request \in MappingRequests
  <2>1. IsSequence(graph.operations)
    BY MapperAssumption DEF PlanShape, graph
  <2> QED  BY <2>1, MapperAssumption, MappingAssumption
           DEF PlanShape, graph, IsSequence, OperationCount
<1>2. plan' = [plan EXCEPT !.accumulators = given]
  BY DEF FinishMapping, FinishMappingWith
<1>3. steps \in Seq(Nat) /\ Len(steps) = OperationCount /\ DOMAIN steps = 1..OperationCount
      /\ \A k \in 1..OperationCount : steps[k] = k
  BY <1>1
<1> HIDE DEF steps
<1>4. users \in Seq(Nat) /\ \E p : Selected(users, p, steps, using, OperationCount)
  <2> HIDE DEF using
  <2> QED  BY <1>3, KeptSelects
<1>5. PICK p : Selected(users, p, steps, using, OperationCount)
  BY <1>4
<1>6. DOMAIN users = 1..Len(users)
  BY <1>4
<1> HIDE DEF users, given, R
<1>7. \A j \in DOMAIN users : users[j] = p[j] /\ users[j] \in 1..OperationCount /\ users[j] \in using
  <2>1. \A j \in DOMAIN users : p[j] \in using \cap (1..OperationCount) /\ users[j] = steps[p[j]]
    BY <1>5, <1>6 DEF Selected
  <2> QED  BY <2>1, <1>3
<1>8. \A i, j \in DOMAIN users : users[i] = users[j] => i = j
  BY <1>5, <1>6, <1>7 DEF Selected
<1>9. \A k \in using : \E j \in DOMAIN users : users[j] = k
  <2>1. \A k \in using : k \in using \cap (1..OperationCount)
    BY <1>3
  <2> QED  BY <2>1, <1>5, <1>6, <1>7 DEF Selected
<1>10. plan'.accumulators = given
  <2> DEFINE ps == plan.placements
             order == GraphOrder
             registers == plan.accumulators
             old == plan
  <2>1. old = [placements |-> ps, accumulators |-> registers, schedule |-> order]
    BY DEF PlanShape
  <2>2. plan' = [old EXCEPT !.accumulators = given]
    BY <1>2
  <2> HIDE DEF old, ps, order, registers
  <2> QED  BY <2>1, <2>2
<1>11. DOMAIN given = DOMAIN users
       /\ \A i \in DOMAIN users : /\ given[i].operation = name(users[i])
                                 /\ given[i].register = (users[i] - 1) % R
  BY DEF given
<1>12. \A j, k \in 1..OperationCount : name(j) = name(k) => j = k
  <2> SUFFICES ASSUME NEW j \in 1..OperationCount, NEW k \in 1..OperationCount, name(j) = name(k)
               PROVE  j = k
    OBVIOUS
  <2>1. /\ entry \in Nat /\ Injective(Values(graph))
        /\ DOMAIN Values(graph) = 1..(entry + OperationCount)
        /\ Values(graph)[entry + j] = name(j) /\ Values(graph)[entry + k] = name(k)
    BY ShapeFacts, GraphFacts DEF PlanShape
  <2>2. entry + j \in DOMAIN Values(graph) /\ entry + k \in DOMAIN Values(graph)
    BY <2>1, <1>1
  <2>3. entry + j = entry + k
    BY <2>1, <2>2 DEF Injective
  <2> QED  BY <2>1, <2>3
<1>13. \A k \in 1..OperationCount : Operation(graph, name(k)) = graph.operations[k]
  <2>1. \A k \in 1..OperationCount : Op(k) = graph.operations[k] /\ schedule[k] = Op(k).name
    BY ShapeFacts, OwnOrder DEF PlanShape
  <2> QED  BY <2>1 DEF Op
<1> HIDE DEF name
<1>14. AccumulatorsCover(request, plan')
  <2>1. \A i, j \in DOMAIN given : given[i].operation = given[j].operation => i = j
    BY <1>7, <1>8, <1>11, <1>12
  <2>2. {given[i].operation : i \in DOMAIN given}
          = {n \in OperationNames(graph) : Operation(graph, n).kind \in AccumulatorKinds}
    <3>1. OperationNames(graph) = {name(k) : k \in 1..OperationCount}
      BY <1>1 DEF OperationNames, name
    <3>2. {given[i].operation : i \in DOMAIN given} = {name(k) : k \in using}
      BY <1>7, <1>9, <1>11
    <3>3. \A k \in 1..OperationCount :
            k \in using <=> Operation(graph, name(k)).kind \in AccumulatorKinds
      BY <1>3, <1>13
    <3>4. using \subseteq 1..OperationCount
      BY <1>3
    <3> HIDE DEF using
    <3> QED  BY <3>1, <3>2, <3>3, <3>4
  <2> QED  BY <1>10, <2>1, <2>2 DEF AccumulatorsCover, graph
<1>15. RegistersExist(request, plan')
  <2>1. \A i \in DOMAIN given : given[i].register \in 0..(R - 1)
    BY <1>1, <1>7, <1>11
  <2> QED  BY <1>10, <2>1 DEF RegistersExist, R
<1> QED  BY <1>14, <1>15

(* A mapping without requirements hands over a sound plan. *)
LEMMA FinishMappingSound ==
  ASSUME MappingInv, UnconstrainedInv, request.constraints = <<>>, FinishMapping
  PROVE  SoundPlan'
<1>1. /\ PlanShape /\ PlanShape' /\ request' = request
      /\ placed = entry + OperationCount
  BY FinishMappingHandsOver, ShapeFacts, GraphFacts
     DEF FinishMapping, FinishMappingWith, MappingInv, MappedInv, PlanShape, placed
<1>2. plan'.placements = plan.placements
  <2>1. PICK x : plan' = [plan EXCEPT !.accumulators = x]
    BY DEF FinishMapping, FinishMappingWith
  <2> DEFINE ps == plan.placements
             order == GraphOrder
             registers == plan.accumulators
             old == plan
  <2>2. old = [placements |-> ps, accumulators |-> registers, schedule |-> order]
    BY <1>1 DEF PlanShape
  <2>3. plan' = [old EXCEPT !.accumulators = x]
    BY <2>1
  <2> HIDE DEF old, ps, order, registers
  <2>4. plan'.placements = ps
    BY <2>2, <2>3
  <2> QED  BY <2>4 DEF ps
<1>3. /\ PlacementsComplete(request, plan)
      /\ SharersAgreeOnSize(request, plan)
      /\ InputsApart(request, plan)
  BY <1>1, PlacementsSound DEF UnconstrainedInv
<1>4. PlacementsComplete(request, plan') /\ SharersAgreeOnSize(request, plan')
      /\ InputsApart(request, plan')
  <2>1. \A v : StorageOf(plan', v) = StorageOf(plan, v)
    BY <1>2 DEF StorageOf
  <2>2. StoragesOf(plan') = StoragesOf(plan)
    BY <1>2 DEF StoragesOf
  <2>3. PlacementsComplete(request, plan')
    BY <1>2, <1>3, <2>2 DEF PlacementsComplete
  <2>4. SharersAgreeOnSize(request, plan') /\ InputsApart(request, plan')
    BY <1>3, <2>1 DEF SharersAgreeOnSize, InputsApart
  <2> QED  BY <2>3, <2>4
<1>5. ScheduleComplete(request, plan') /\ ProducersFirst(request, plan')
  <2>1. ScheduleComplete(request, plan) /\ ProducersFirst(request, plan)
    BY <1>1, OwnOrderSound
  <2>2. plan'.schedule = plan.schedule
    <3>1. plan.schedule = GraphOrder /\ plan'.schedule = GraphOrder' /\ GraphOrder' = GraphOrder
      BY <1>1, ShapeFacts DEF PlanShape, GraphOrder, graph
    <3> QED  BY <3>1
  <2> QED  BY <2>1, <2>2 DEF ScheduleComplete, ProducersFirst
<1>6. ConstraintsHonoured(request, plan')
  BY DEF ConstraintsHonoured
<1>7. AccumulatorsCover(request, plan') /\ RegistersExist(request, plan')
  BY <1>1, RegistersGiven
<1> QED  BY <1>1, <1>4, <1>5, <1>6, <1>7 DEF SoundPlan

-----------------------------------------------------------------------------

(* The strengthening for requests without requirements. *)
UnhinderedInv ==
  /\ MapperInv
  /\ request.constraints = <<>> =>
       /\ phase = "map" => UnconstrainedInv
       /\ phase # "map" => SoundPlan /\ verdict \in {"none", "contract", "capacity"}

(* It holds when baseline_mapping starts. *)
THEOREM UnhinderedInitInv == MapperInit => UnhinderedInv
<1> SUFFICES ASSUME MapperInit PROVE UnhinderedInv
  OBVIOUS
<1>1. /\ request \in MappingRequests /\ phase = "map" /\ step = 1
      /\ plan.placements = <<>> /\ schedule = GraphOrder
      /\ owners = <<>> /\ sizes = <<>>
      /\ expirations = [k \in ExpirySteps(graph) |-> <<>>]
      /\ free = [n \in {Slots(request, v) : v \in ValueNames(graph)} |-> <<>>]
  BY DEF MapperInit, GraphOrder, graph, schedule
<1>2. placed = 0 /\ StoragesOf(plan) = {} /\ 1..placed = {}
  BY <1>1 DEF placed, StoragesOf
<1>3. NamesOwn /\ InputsOwn /\ NeededOwned
  BY <1>2 DEF NamesOwn, InputsOwn, NeededOwned
<1>4. SizesAgree
  BY <1>1, <1>2 DEF SizesAgree
<1>5. EntriesExact
  BY <1>1, <1>2 DEF EntriesExact, Injective, SeqRange
<1>6. ListsExact(free, step)
  BY <1>1, <1>2 DEF ListsExact, Injective, SeqRange
<1> QED  BY <1>1, <1>3, <1>4, <1>5, <1>6, MapperInitInv DEF UnhinderedInv, UnconstrainedInv

(* Every step preserves it. *)
THEOREM UnhinderedNextInv == UnhinderedInv /\ [MapperNext]_vars => UnhinderedInv'
<1> SUFFICES ASSUME UnhinderedInv, [MapperNext]_vars PROVE UnhinderedInv'
  OBVIOUS
<1>1. MapperInv /\ MapperInv'
  BY MapperNextInv DEF UnhinderedInv
<1> SUFFICES ASSUME request'.constraints = <<>>
             PROVE  /\ phase' = "map" => UnconstrainedInv'
                    /\ phase' # "map" => SoundPlan' /\ verdict' \in {"none", "contract", "capacity"}
  BY <1>1 DEF UnhinderedInv
<1>2. request' = request
  BY DEF MapperNext, MapInput, MapOperation, Mapping, FinishMapping, FinishMappingWith,
         VerifierNext, CheckPlan, RejectStep, Reject, WalkOperation, AcceptPlan, AcceptPlanAt,
         RunOperation, ReturnOutputs, vars, verifierVars
<1>3. CASE MapInput
  <2>1. phase = "map" /\ phase' = "map"
    BY <1>3 DEF MapInput, Mapping
  <2> QED  BY <1>1, <1>2, <1>3, <2>1, UnconstrainedInput DEF UnhinderedInv, MapperInv
<1>4. CASE MapOperation
  <2>1. phase = "map" /\ phase' = "map"
    BY <1>4 DEF MapOperation, Mapping
  <2> QED  BY <1>1, <1>2, <1>4, <2>1, UnconstrainedOperation DEF UnhinderedInv, MapperInv
<1>5. CASE FinishMapping
  <2>1. phase = "map" /\ phase' = "check" /\ verdict' = verdict
    BY <1>5 DEF FinishMapping, FinishMappingWith
  <2>2. verdict = "none"
    BY <1>1, <2>1 DEF MapperInv, MappingInv
  <2> QED  BY <1>1, <1>2, <1>5, <2>1, <2>2, FinishMappingSound DEF UnhinderedInv, MapperInv
<1>6. CASE VerifierNext
  <2>1. phase # "map" /\ plan' = plan
    BY <1>6 DEF VerifierNext, CheckPlan, RejectStep, Reject, WalkOperation, Walking, AcceptPlan,
                AcceptPlanAt, RunOperation, ReturnOutputs
  <2>2. phase' # "map" /\ MappedInv'
    BY <1>1, <1>6, <2>1, VerifierStepKeeps DEF MapperInv
  <2>3. SoundPlan /\ verdict \in {"none", "contract", "capacity"}
    BY <1>2, <2>1 DEF UnhinderedInv
  <2>4. SoundPlan'
    BY <1>2, <2>1, <2>3 DEF SoundPlan
  <2>5. verdict' \in {"none", "contract", "capacity"}
    <3>1. CASE CheckPlan
      BY <3>1, <2>3, SoundPlanFault DEF CheckPlan, Reject
    <3>2. CASE RejectStep
      <4>1. verdict' \in {"alias", "operand"}
        BY <3>2 DEF RejectStep, Reject
      <4>2. verdict' # "operand" /\ (verdict' = "alias" => Requirements(Op(step).name)' # {})
        BY <2>2 DEF MappedInv, VerifierInv
      <4>3. Requirements(Op(step).name)' = {}
        BY <1>2 DEF Requirements
      <4> QED  BY <4>1, <4>2, <4>3
    <3>3. CASE ~CheckPlan /\ ~RejectStep
      BY <1>6, <3>3, <2>3 DEF VerifierNext, WalkOperation, AcceptPlan, AcceptPlanAt,
                              RunOperation, ReturnOutputs
    <3> QED  BY <3>1, <3>2, <3>3
  <2> QED  BY <2>2, <2>4, <2>5
<1>7. CASE UNCHANGED vars
  <2>1. /\ request' = request /\ plan' = plan /\ phase' = phase /\ verdict' = verdict
        /\ step' = step /\ owners' = owners /\ sizes' = sizes
        /\ expirations' = expirations /\ free' = free
    BY <1>7 DEF vars, verifierVars, mapperVars
  <2>2. /\ placed' = placed /\ entry' = entry /\ graph' = graph /\ schedule' = schedule
        /\ \A i : Home(i)' = Home(i)
        /\ \A v : ExpiresAt(v)' = ExpiresAt(v)
    BY <2>1, PlanFixed DEF graph, schedule, ExpiresAt, OperationCount
  <2>3. UnconstrainedInv' <=> UnconstrainedInv
    BY <2>1, <2>2 DEF UnconstrainedInv, NamesOwn, InputsOwn, SizesAgree, NeededOwned,
                      EntriesExact, ListsExact, Home
  <2>4. SoundPlan' <=> SoundPlan
    BY <2>1 DEF SoundPlan
  <2> QED  BY <2>1, <2>3, <2>4 DEF UnhinderedInv
<1> QED  BY <1>3, <1>4, <1>5, <1>6, <1>7 DEF MapperNext

(* The strengthening is an invariant of every behaviour. *)
THEOREM UnhinderedInvariance == MapperSpec => []UnhinderedInv
  BY UnhinderedInitInv, UnhinderedNextInv, PTL DEF MapperSpec

(***************************************************************************)
(* Without required placements the mapper's plan is refused only for what  *)
(* no choice of storage can help: the execution contract or the capacity.  *)
(***************************************************************************)
THEOREM UnconstrainedAccepted == MapperSpec => []UnconstrainedPlanAccepted
<1>1. UnhinderedInv => UnconstrainedPlanAccepted
  BY DEF UnhinderedInv, UnconstrainedPlanAccepted, MapperInv, MappingInv
<1> QED  BY <1>1, UnhinderedInvariance, PTL

(***************************************************************************)
(* Without required placements the free lists hold exactly the objects     *)
(* whose contents have expired, each once and under its own size.          *)
(***************************************************************************)
THEOREM MapperListsExact == MapperSpec => []FreeListsExact
<1>1. UnhinderedInv => FreeListsExact
  <2> SUFFICES ASSUME UnhinderedInv, phase = "map", request.constraints = <<>>
               PROVE  /\ \A n \in DOMAIN free : Injective(free[n])
                      /\ \A n \in DOMAIN free : \A s \in SeqRange(free[n]) : sizes[s] = n
                      /\ \A s \in DOMAIN owners :
                           s \in SeqRange(free[sizes[s]])
                             <=> step > 1 /\ ~Needed(graph, schedule, owners[s], step - 1)
    BY DEF FreeListsExact
  <2>1. MappingInv /\ ListsExact(free, step)
    BY DEF UnhinderedInv, MapperInv, UnconstrainedInv
  <2>2. /\ PlanShape /\ DOMAIN owners = StoragesOf(plan) /\ OperationCount \in Nat
        /\ step \in 1..(OperationCount + 1)
    BY <2>1, ShapeFacts, GraphFacts DEF MappingInv, OwnersAreLast, PlanShape
  <2>3. ASSUME NEW s \in StoragesOf(plan)
        PROVE  ExpiresAt(owners[s]) < step
                 <=> step > 1 /\ ~Needed(graph, schedule, owners[s], step - 1)
    <3> DEFINE c == ExpiresAt(owners[s])
    <3>1. c \in 1..(OperationCount + 2)
      BY <2>2, ExpiryStep
    <3>2. CASE step = 1
      BY <2>2, <3>1, <3>2
    <3>3. CASE step > 1
      <4>1. step - 1 \in 1..(OperationCount + 1)
        BY <2>2, <3>3
      <4>2. c <= step - 1 <=> ~Needed(graph, schedule, owners[s], step - 1)
        BY <2>2, <4>1, ExpiryStep
      <4> HIDE DEF c
      <4>3. c < step <=> c <= step - 1
        BY <2>2, <3>1
      <4> QED  BY <3>3, <4>2, <4>3 DEF c
    <3> QED  BY <2>2, <3>2, <3>3
  <2> QED  BY <2>1, <2>2, <2>3 DEF ListsExact
<1> QED  BY <1>1, UnhinderedInvariance, PTL

(***************************************************************************)
(* The mapper's own plans, once accepted, run correctly: every operation   *)
(* finds its operands, no command computes from an overwritten one, and    *)
(* every output is in its storage at the end.                              *)
(***************************************************************************)
THEOREM MappedPlansRunCorrectly ==
  MapperSpec => [](OperandsIntact /\ NothingRuined /\ OutputsSurvive)
<1>1. MapperInv => OperandsIntact /\ NothingRuined /\ OutputsSurvive
  <2>1. MapperInv /\ phase # "map" => OperandsIntact /\ NothingRuined /\ OutputsSurvive
    BY InvariantProtects DEF MapperInv, MappedInv
  <2>2. phase = "map" => OperandsIntact /\ NothingRuined /\ OutputsSurvive
    BY DEF OperandsIntact, NothingRuined, OutputsSurvive
  <2> QED  BY <2>1, <2>2
<1> QED  BY <1>1, MapperInvariance, PTL
=============================================================================
