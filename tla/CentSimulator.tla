--------------------------- MODULE CentSimulator ---------------------------
(***************************************************************************)
(* Functional execution (simulator/api.py, simulator/execution.py) over    *)
(* the staged commits of CentDevice.                                       *)
(*                                                                         *)
(* A caller runs an executable with execute_functionally: a fresh device,  *)
(* preflight of the whole program, the host values checked and loaded,     *)
(* each instruction prepared and committed in order, the outputs read.  Or *)
(* it keeps a device: host writes and execute_program on that device.      *)
(***************************************************************************)
EXTENDS CentInstructions, SequencesExt, FiniteSetsExt

CONSTANTS
  Requests,     \* [program, inputs, outputs, values, traced]: candidates for a
                \* CentExecutable, with the host values and the trace level
  Programs,     \* programs run with execute_program on a kept device
  HostWrites,   \* effects a host writes to a kept device
  MaxCalls      \* bound on the number of calls of a behaviour

(* The fields CentExecutionManifest and CentProgram keep as Python tuples. *)
IsTuple(s) == Len(s) \in Nat /\ s = [k \in 1..Len(s) |-> s[k]]

(* What a host supplies is converted before it is written                  *)
(* (_store_host_values), so the model starts from stored scalars.          *)
ASSUME CallsAssumption ==
  /\ \A r \in Requests :
       /\ IsTuple(r.program) /\ IsTuple(r.inputs) /\ IsTuple(r.outputs)
       /\ \A k \in DOMAIN r.values : r.values[k].values \in Seq(Value)
  /\ \A p \in Programs : IsTuple(p)
  /\ \A e \in HostWrites : IsEffect(e)

VARIABLES
  memory, effects, status, copied, prepared, next,    \* CentDevice
  phase,      \* what the call in progress does
  call,       \* its executable, values and trace level
  pc,         \* binding or instruction in progress
  outcome,    \* result of the last call
  outputs,    \* values extracted so far
  trace,      \* effects of the instructions committed by this call
  loaded,     \* memory when this call's first instruction runs
  calls       \* calls made

deviceVars == <<memory, effects, status, copied, prepared, next>>
callVars == <<phase, call, pc, outcome, outputs, trace, loaded, calls>>
vars == <<deviceVars, callVars>>

Device == INSTANCE CentDevice WITH EffectTuples <- {}

program == call.program

-----------------------------------------------------------------------------
(* CentExecutionManifest and CentExecutable.  A binding is [name, span].   *)

UniqueNames(bindings) ==
  \A j, k \in DOMAIN bindings : bindings[j].name = bindings[k].name => j = k

(* Without the burst length every Shared Buffer binding looks one slot long. *)
NoInputOverlapsBySlot(inputs) ==
  \A j, k \in DOMAIN inputs :
    j # k => inputs[j].span.space # inputs[k].span.space
             \/ inputs[j].span.start # inputs[k].span.start

NoInputOverlaps(inputs) ==
  \A j, k \in DOMAIN inputs :
    j # k => inputs[j].span.space # inputs[k].span.space
             \/ inputs[j].span.start >= inputs[k].span.start + inputs[k].span.count
             \/ inputs[k].span.start >= inputs[j].span.start + inputs[j].span.count

HostSpace(span) == span.space \in Space /\ span.space[1] # "accumulator"

ValidManifest(exe) ==
  /\ UniqueNames(exe.inputs) /\ UniqueNames(exe.outputs)
  /\ \A k \in DOMAIN exe.inputs :
       HostSpace(exe.inputs[k].span) /\ SpanInBounds(exe.inputs[k].span)
  /\ \A k \in DOMAIN exe.outputs :
       HostSpace(exe.outputs[k].span) /\ SpanInBounds(exe.outputs[k].span)
  /\ NoInputOverlaps(exe.inputs)

RefusedInstructions(p) == {k \in DOMAIN p : ~ValidInstruction(p[k])}

ValidProgram(p) == RefusedInstructions(p) = {}

ValidExecutable(exe) == ValidProgram(exe.program) /\ ValidManifest(exe)

(* order_input_values *)
Supplied(values, name) == {k \in DOMAIN values : values[k].name = name}

AcceptsValues(exe, values) ==
  /\ \A j, k \in DOMAIN values : values[j].name = values[k].name => j = k
  /\ {exe.inputs[k].name : k \in DOMAIN exe.inputs}
       = {values[k].name : k \in DOMAIN values}
  /\ \A k \in DOMAIN exe.inputs : \A j \in Supplied(values, exe.inputs[k].name) :
       Len(values[j].values) = exe.inputs[k].span.count

ValuesFor(name) ==
  call.values[CHOOSE k \in Supplied(call.values, name) : TRUE].values

-----------------------------------------------------------------------------

NoCall == [program |-> <<>>, inputs |-> <<>>, outputs |-> <<>>,
           values |-> <<>>, fresh |-> FALSE, traced |-> TRUE]

Init ==
  /\ Device!DeviceInit
  /\ phase = "idle" /\ call = NoCall /\ pc = 1
  /\ outcome = "none" /\ outputs = <<>> /\ trace = <<>>
  /\ loaded = Blank /\ calls = 0

Finish(result) ==
  /\ phase' = "idle"
  /\ outcome' = result

CallOf(request) ==
  [program |-> request.program, inputs |-> request.inputs, outputs |-> request.outputs,
   values |-> request.values, fresh |-> TRUE, traced |-> request.traced]

StartCall(c) ==
  /\ phase = "idle"
  /\ calls < MaxCalls
  /\ calls' = calls + 1
  /\ phase' = "preflight"
  /\ call' = c
  /\ pc' = 1
  /\ outcome' = "none"
  /\ outputs' = <<>>
  /\ trace' = <<>>

ExecuteFunctionallyKeepingDevice(request) ==
  /\ ValidExecutable(request)
  /\ StartCall(CallOf(request))
  /\ UNCHANGED <<deviceVars, loaded>>

(* execute_functionally on a device of its own. *)
ExecuteFunctionally(request) ==
  /\ ValidExecutable(request)
  /\ StartCall(CallOf(request))
  /\ memory' = Blank /\ prepared' = Blank /\ effects' = <<>>
  /\ status' = "idle" /\ copied' = {} /\ next' = 1
  /\ loaded' = Blank

(* execute_program on the device the caller kept. *)
ExecuteProgram(p) ==
  /\ ValidProgram(p)
  /\ StartCall([NoCall EXCEPT !.program = p])
  /\ loaded' = memory
  /\ UNCHANGED deviceVars

(* A host write to the kept device, complete or refused (write_dram,       *)
(* write_shared_buffer, write_global_buffer, write_accumulator).           *)
HostWrite(e) ==
  /\ phase = "idle"
  /\ calls < MaxCalls
  /\ calls' = calls + 1
  /\ phase' = "host"
  /\ Device!BeginCommit(<<e>>)
  /\ outcome' = "none"
  /\ trace' = <<>>
  /\ UNCHANGED <<call, pc, outputs, loaded>>

(* preflight_program: one instruction. *)
Preflight ==
  /\ phase = "preflight"
  /\ pc \in DOMAIN program
  /\ IF Supported(program[pc])
     THEN pc' = pc + 1 /\ UNCHANGED <<phase, outcome>>
     ELSE Finish("unsupported") /\ UNCHANGED pc
  /\ UNCHANGED <<deviceVars, call, outputs, trace, loaded, calls>>

PreflightBy(reached) ==
  /\ phase = "preflight"
  /\ reached
  /\ pc' = 1
  /\ \/ call.fresh /\ AcceptsValues(call, call.values)
        /\ phase' = "load" /\ UNCHANGED outcome
     \/ call.fresh /\ ~AcceptsValues(call, call.values) /\ Finish("manifest")
     \/ ~call.fresh /\ phase' = "run" /\ UNCHANGED outcome
  /\ UNCHANGED <<deviceVars, call, outputs, trace, loaded, calls>>

PreflightFirstOnly == PreflightBy(pc = 2)
PreflightDone == PreflightBy(pc = Len(program) + 1)

(* _materialize_input: one host write per binding, in manifest order. *)
LoadInput ==
  /\ phase = "load"
  /\ status # "committing"
  /\ pc \in DOMAIN call.inputs
  /\ LET input == call.inputs[pc]
     IN  Device!BeginCommit(
           <<Effect(input.span.space, input.span.start, ValuesFor(input.name))>>)
  /\ UNCHANGED callVars

LoadDoneAt(start) ==
  /\ phase = "load"
  /\ status # "committing"
  /\ pc = Len(call.inputs) + 1
  /\ phase' = "run" /\ pc' = start
  /\ loaded' = memory
  /\ UNCHANGED <<deviceVars, call, outcome, outputs, trace, calls>>

LoadDoneKeepingIndex == LoadDoneAt(pc)
LoadDone == LoadDoneAt(1)

(* _execute_instruction: the kernel reads every source and proposes its    *)
(* effects, or raises and the call ends with what was committed before.    *)
(* With several things wrong, the loop over the banks meets either first.  *)
Faults(i) ==
  {f \in {"unsupported", "uninitialized", "arithmetic"} :
     CASE f = "unsupported"   -> i.op \in Kernelless
       [] f = "uninitialized" -> ~Readable(i, memory)
       [] f = "arithmetic"    -> Rejects(i.op, Operands(i, memory))}

Propose(es) ==
  /\ phase = "run"
  /\ status # "committing"
  /\ pc \in DOMAIN program
  /\ Faults(program[pc]) = {}
  /\ Device!BeginCommit(es)

PrepareInstructionTracingEarly ==
  /\ Propose(ProposedEffects(program[pc], memory))
  /\ trace' = Append(trace, ProposedEffects(program[pc], memory))
  /\ UNCHANGED <<phase, call, pc, outcome, outputs, loaded, calls>>

PrepareInstruction ==
  /\ Propose(ProposedEffects(program[pc], memory))
  /\ UNCHANGED callVars

InstructionFault ==
  /\ phase = "run"
  /\ status # "committing"
  /\ pc \in DOMAIN program
  /\ \E f \in Faults(program[pc]) : Finish(f)
  /\ UNCHANGED <<deviceVars, call, pc, outputs, trace, loaded, calls>>

StageEffect == Device!StageEffect /\ UNCHANGED callVars

CommitDone ==
  /\ Device!Publish
  /\ IF phase = "host"
     THEN phase' = "idle" /\ UNCHANGED <<pc, trace>>
     ELSE /\ pc' = pc + 1
          /\ trace' = IF phase = "run" /\ call.traced
                      THEN Append(trace, effects) ELSE trace
          /\ UNCHANGED phase
  /\ UNCHANGED <<call, outcome, outputs, loaded, calls>>

CommitFaultSwallowed ==
  /\ Device!RejectCommit
  /\ UNCHANGED callVars

(* The "validated destination guard" of _execute_instruction, or a host    *)
(* write that is out of bounds.                                            *)
CommitFault ==
  /\ Device!RejectCommit
  /\ Finish(IF phase = "host" THEN outcome ELSE "destination")
  /\ UNCHANGED <<call, pc, outputs, trace, loaded, calls>>

ProgramDoneBy(reached) ==
  /\ phase = "run"
  /\ status # "committing"
  /\ reached
  /\ pc' = 1
  /\ IF call.fresh THEN phase' = "extract" /\ UNCHANGED outcome ELSE Finish("completed")
  /\ UNCHANGED <<deviceVars, call, outputs, trace, loaded, calls>>

ProgramDoneEarly == ProgramDoneBy(pc = Len(program))
ProgramDone == ProgramDoneBy(pc = Len(program) + 1)

(* _extract_output *)
ExtractOutput ==
  /\ phase = "extract"
  /\ pc \in DOMAIN call.outputs
  /\ LET span == call.outputs[pc].span
     IN  IF Initialized(memory, span)
         THEN /\ outputs' = Append(outputs, Contents(memory, span))
              /\ pc' = pc + 1
              /\ UNCHANGED <<phase, outcome>>
         ELSE Finish("uninitialized") /\ UNCHANGED <<outputs, pc>>
  /\ UNCHANGED <<deviceVars, call, trace, loaded, calls>>

ReturnResult ==
  /\ phase = "extract"
  /\ pc = Len(call.outputs) + 1
  /\ Finish("result")
  /\ UNCHANGED <<deviceVars, call, pc, outputs, trace, loaded, calls>>

Caller ==
  \/ \E request \in Requests : ExecuteFunctionally(request)
  \/ \E p \in Programs : ExecuteProgram(p)
  \/ \E e \in HostWrites : HostWrite(e)

Simulator ==
  \/ Preflight \/ PreflightDone \/ LoadInput \/ LoadDone
  \/ PrepareInstruction \/ InstructionFault
  \/ StageEffect \/ CommitDone \/ CommitFault
  \/ ProgramDone \/ ExtractOutput \/ ReturnResult

Next == Caller \/ Simulator

(* A call is one synchronous Python call: it runs until it returns. *)
Spec == Init /\ [][Next]_vars /\ WF_vars(Simulator)
-----------------------------------------------------------------------------

Phases == {"idle", "host", "preflight", "load", "run", "extract"}
CallOutcomes == {"completed", "result", "uninitialized", "arithmetic"}
Outcomes == {"none", "unsupported", "manifest", "destination"} \cup CallOutcomes

(* The state of a call is well typed: its indices stay within what they    *)
(* index, and a commit is pending only where a call makes one.             *)
TypeOK ==
  /\ Device!DeviceTypeOK
  /\ phase \in Phases /\ outcome \in Outcomes
  /\ loaded \in Memory
  /\ phase \in {"preflight", "run"} => pc \in 1..(Len(program) + 1)
  /\ phase = "load" => pc \in 1..(Len(call.inputs) + 1)
  /\ phase = "extract" => pc = Len(outputs) + 1
  /\ status = "committing" => phase \in {"host", "load", "run"}
  /\ Len(trace) <= Len(program)

(***************************************************************************)
(* No destination of a validated instruction, and no binding of a validated*)
(* manifest, is refused by the commit: the "validated destination guard"   *)
(* of _execute_instruction is unreachable.                                 *)
(***************************************************************************)
DestinationGuardUnreachable == outcome # "destination"

(***************************************************************************)
(* When the first instruction of execute_functionally runs, the device     *)
(* holds every input binding complete and unspoiled by the bindings loaded *)
(* after it, and nothing else: no cell survives from an earlier call.      *)
(***************************************************************************)
InputsLoadedIntact ==
  call.fresh /\ (phase \in {"run", "extract"} \/ outcome \in CallOutcomes) =>
    /\ \A k \in DOMAIN call.inputs :
         Contents(loaded, call.inputs[k].span) = ValuesFor(call.inputs[k].name)
    /\ \A l \in Location :
         loaded[l] # Uninit => \E k \in DOMAIN call.inputs : l \in Cells(call.inputs[k].span)

(***************************************************************************)
(* The trace accounts for memory at every moment, in the middle of a       *)
(* commit and after a failure too: the live contents are the contents      *)
(* before the first instruction with the traced effects of the completed   *)
(* instructions applied in order.                                          *)
(***************************************************************************)
Replayed ==
  LET replay[n \in 0..Len(trace)] ==
        IF n = 0 THEN loaded ELSE Overlay(replay[n - 1], trace[n])
  IN  replay[Len(trace)]

TraceExplainsMemory ==
  call.traced /\ (phase \in {"run", "extract"} \/ outcome \in CallOutcomes)
    => memory = Replayed

(***************************************************************************)
(* A program refused by preflight, or a request refused for its host       *)
(* values, has changed nothing, however late in the program the offending  *)
(* instruction is.                                                         *)
(***************************************************************************)
RefusedBeforeAnyEffect ==
  outcome \in {"unsupported", "manifest"} => memory = loaded /\ trace = <<>>

(***************************************************************************)
(* A result carries one value per output scalar, read after the last       *)
(* instruction, and one trace event per instruction.                       *)
(***************************************************************************)
ResultIsComplete ==
  outcome = "result" =>
    /\ outputs = [k \in DOMAIN call.outputs |-> Contents(memory, call.outputs[k].span)]
    /\ \A k \in DOMAIN call.outputs : Initialized(memory, call.outputs[k].span)
    /\ call.traced => Len(trace) = Len(program)

(***************************************************************************)
(* An instruction takes effect in one step, and what it writes is what its *)
(* kernel computes from the memory it takes effect on: no kernel sees part *)
(* of its own writes, and no write of a failing instruction is seen.       *)
(***************************************************************************)
InstructionsAtomic ==
  [][phase = "run" /\ memory' # memory =>
       /\ pc' = pc + 1
       /\ Supported(program[pc])
       /\ memory' = Overlay(memory, ProposedEffects(program[pc], memory))]_vars

(* Every call returns, with a result or with an error. *)
CallsReturn == phase # "idle" ~> phase = "idle"
=============================================================================
