--------------------------- MODULE BaselineMapper ---------------------------
(***************************************************************************)
(* baseline_mapping (pipeline/mapping.py), one step per input and per      *)
(* operation, followed by MappingVerifier on the plan it built.            *)
(*                                                                         *)
(* While the mapper runs, plan holds the placements made so far and the    *)
(* graph's own order, and step is the operation placed next.               *)
(***************************************************************************)
EXTENDS MappingVerifier, SequencesExt

(***************************************************************************)
(* Graphs and constraints are tuples; names of values are not empty        *)
(* (legalize and Function.verify); a bank has an accumulator               *)
(* (CentHardwareSpec).                                                     *)
(***************************************************************************)
ASSUME MapperAssumption ==
  \A r \in MappingRequests :
    /\ IsSequence(r.graph.inputs) /\ IsSequence(r.graph.operations)
    /\ IsSequence(r.graph.outputs) /\ IsSequence(r.constraints)
    /\ \A v \in ValueNames(r.graph) : Named(v) # Unnamed
    /\ r.target.registers \in Nat \ {0}

VARIABLES
  owners,        \* storage -> value placed in it last
  sizes,         \* storage -> slots
  expirations,   \* step -> <<storage, value>> whose contents expire there
  free           \* slots -> storage objects that may be reused, last first

mapperVars == <<owners, sizes, expirations, free>>
vars == <<verifierVars, mapperVars>>

OperationCount == Len(graph.operations)

(* Steps at which a value can expire; outputs expire after the program. *)
ExpirySteps(g) == 1..(Len(g.operations) + 2)

ExpiresAt(v) ==
  IF v \in SeqRange(graph.outputs) THEN OperationCount + 2
  ELSE CHOOSE k \in ExpirySteps(graph) :
         /\ ~Needed(graph, schedule, v, k)
         /\ k > 1 => Needed(graph, schedule, v, k - 1)

(* The placement a caller requires; the last one when it names two. *)
Requirements(v) == {i \in DOMAIN request.constraints : request.constraints[i].value = v}
Forced(v) ==
  request.constraints[CHOOSE i \in Requirements(v) :
                        \A j \in Requirements(v) : j <= i].storage

reserved ==
  {request.constraints[i].storage : i \in DOMAIN request.constraints} \cup StoragesOf(plan)

-----------------------------------------------------------------------------

MapperInit ==
  /\ request \in MappingRequests
  /\ plan = [placements |-> <<>>, accumulators |-> <<>>,
             schedule |-> [k \in DOMAIN request.graph.operations |->
                             request.graph.operations[k].name]]
  /\ phase = "map" /\ verdict = "none" /\ step = 1
  /\ live = <<>> /\ contents = <<>>
  /\ owners = <<>> /\ sizes = <<>>
  /\ expirations = [k \in ExpirySteps(request.graph) |-> <<>>]
  /\ free = [n \in {Slots(request, v) : v \in ValueNames(request.graph)} |-> <<>>]

(* The bookkeeping of both loops: v now occupies storage, whose name TLC   *)
(* computes once for the quantifier.                                       *)
Place(v, storage) ==
  \E s \in {storage} :
    /\ plan' = [plan EXCEPT !.placements = Append(@, [value |-> v, storage |-> s])]
    /\ owners' = Assigned(owners, s, v)
    /\ sizes' = Assigned(sizes, s, Slots(request, v))
    /\ expirations' = [expirations EXCEPT ![ExpiresAt(v)] = Append(@, <<s, v>>)]

Mapping == phase = "map" /\ UNCHANGED <<request, phase, verdict, live, contents>>

MapInput ==
  /\ Mapping
  /\ Len(plan.placements) < Len(graph.inputs)
  /\ LET v == graph.inputs[Len(plan.placements) + 1]
     IN  Place(v, IF Requirements(v) # {} THEN Forced(v) ELSE FreshStorage(v, reserved))
  /\ UNCHANGED <<step, free>>

(* Entries of this step whose storage still holds the value they name. *)
ReleasedUnchecked(k) ==
  [i \in DOMAIN expirations[k] |-> expirations[k][i][1]]

Released(k) ==
  LET entries == expirations[k]
      current == Kept(entries, {i \in DOMAIN entries : owners[entries[i][1]] = entries[i][2]})
  IN  [i \in DOMAIN current |-> current[i][1]]

Replenished(k) ==
  LET released == Released(k)
  IN  [n \in DOMAIN free |->
         free[n] \o Kept(released, {i \in DOMAIN released : sizes[released[i]] = n})]

UsableUnchecked(candidates, k) == candidates

(* Stale entries at the end of the list, whose storage was reused by a     *)
(* required placement and is needed again, are discarded.                  *)
Usable(candidates, k) ==
  LET usable == {i \in DOMAIN candidates :
                   ~Needed(graph, schedule, owners[candidates[i]], k)}
  IN  IF usable = {} THEN <<>>
      ELSE SubSeq(candidates, 1, CHOOSE i \in usable : \A j \in usable : j <= i)

ReusesLeftOfAnyKind(op, k) ==
  /\ LastUseAt(graph, schedule, op.inputs[1], k)
  /\ sizes[At(op.inputs[1])] = Slots(request, op.name)

ReusesLeft(op, k) ==
  /\ LastUseAt(graph, schedule, op.inputs[1], k)
  /\ sizes[At(op.inputs[1])] = Slots(request, op.name)
  /\ op.kind \notin RevisitingKinds

MapOperation ==
  /\ Mapping
  /\ Len(plan.placements) >= Len(graph.inputs)
  /\ step <= OperationCount
  /\ LET op == Op(step)
         size == Slots(request, op.name)
         lists == Replenished(step)
         usable == Usable(lists[size], step)
     IN  IF Requirements(op.name) # {}
         THEN Place(op.name, Forced(op.name)) /\ free' = lists
         ELSE IF ReusesLeft(op, step)
         THEN Place(op.name, At(op.inputs[1])) /\ free' = lists
         ELSE IF usable # <<>>
         THEN /\ Place(op.name, Last(usable))
              /\ free' = [lists EXCEPT ![size] = Front(usable)]
         ELSE /\ Place(op.name, FreshStorage(op.name, reserved))
              /\ free' = [lists EXCEPT ![size] = <<>>]
  /\ step' = step + 1

FinishMappingWith(placed) ==
  /\ phase = "map"
  /\ Len(plan.placements) = placed
  /\ LET steps == [k \in 1..OperationCount |-> k]
         users == Kept(steps, {k \in DOMAIN steps :
                                 graph.operations[k].kind \in AccumulatorKinds})
     IN  plan' = [plan EXCEPT !.accumulators =
                    [i \in DOMAIN users |->
                       [operation |-> graph.operations[users[i]].name,
                        register |-> (users[i] - 1) % request.target.registers]]]
  /\ phase' = "check" /\ step' = 1
  /\ UNCHANGED <<request, verdict, live, contents, mapperVars>>

FinishMappingEarly == FinishMappingWith(Len(Values(graph)) - 1)

(* The plan is complete: registers in turn, then verify_mapping. *)
FinishMapping == FinishMappingWith(Len(Values(graph)))

MapperNext ==
  \/ MapInput \/ MapOperation \/ FinishMapping
  \/ VerifierNext /\ UNCHANGED mapperVars

MapperSpec == MapperInit /\ [][MapperNext]_vars /\ WF_vars(MapperNext)

-----------------------------------------------------------------------------

(***************************************************************************)
(* Without required placements the mapper's plan is refused only for what  *)
(* no choice of storage can help: the execution contract or the capacity.  *)
(***************************************************************************)
UnconstrainedPlanAccepted ==
  request.constraints = <<>> => verdict \in {"none", "contract", "capacity"}

(***************************************************************************)
(* The mapper never gives away a storage object that is still needed: when *)
(* its plan is refused for an overwritten value, the first overwriting     *)
(* result is one whose placement the caller required.  Stale entries of    *)
(* the free lists and expirations of replaced values do no harm.           *)
(***************************************************************************)
OnlyRequiredPlacementsClash ==
  verdict \in {"operand", "alias"} => Requirements(Op(step).name) # {}

(***************************************************************************)
(* Without required placements the free lists hold exactly the objects     *)
(* whose contents have expired, each once and under its own size.          *)
(***************************************************************************)
FreeListsExact ==
  phase = "map" /\ request.constraints = <<>> =>
    /\ \A n \in DOMAIN free : Injective(free[n])
    /\ \A n \in DOMAIN free : \A s \in SeqRange(free[n]) : sizes[s] = n
    /\ \A s \in DOMAIN owners :
         s \in SeqRange(free[sizes[s]])
           <=> step > 1 /\ ~Needed(graph, schedule, owners[s], step - 1)

(* baseline_mapping returns a plan or raises. *)
MappingSettles == <>(phase \in {"done", "rejected"})
=============================================================================
