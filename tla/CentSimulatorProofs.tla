------------------------ MODULE CentSimulatorProofs ------------------------
(***************************************************************************)
(* Proofs about CentSimulator, for every device, every program, every      *)
(* manifest and every sequence of calls: no destination of a validated     *)
(* instruction is refused, a refused request changed nothing, the inputs   *)
(* are loaded intact, a result is complete, and an instruction takes       *)
(* effect at once.                                                         *)
(***************************************************************************)
EXTENDS CentSimulator, CentInstructionProofs

(* The operators of the device instance are those of this module.          *)
LEMMA DeviceOperators ==
  /\ \A e : Device!EffectInBounds(e) <=> EffectInBounds(e)
  /\ \A mem, e : Device!Write(mem, e) = Write(mem, e)
  /\ \A s : Device!Component(s) = Component(s)
  /\ Device!Location = Location
  /\ Device!Blank = Blank
BY DEF Device!EffectInBounds, EffectInBounds, Device!Write, Write, Device!Covers, Covers,
       Device!ValueWritten, ValueWritten, Device!Component, Component, Device!Blank, Blank,
       Device!Location, Location, Device!Space, Space, Device!Capacity, Capacity,
       Device!DramRow, DramRow, Device!SharedBuffer, SharedBuffer,
       Device!GlobalBuffer, GlobalBuffer, Device!Accumulators, Accumulators,
       Device!Channels, Channels, Device!Banks, Banks, Device!Rows, Rows

-----------------------------------------------------------------------------
(* The inductive invariant. *)

IsMap(mem) == mem = [l \in Location |-> mem[l]]

(* The pending commit has staged a prefix of its effects over the memory.  *)
DevicePart ==
  /\ IsMap(memory) /\ IsMap(prepared)
  /\ status = "committing" =>
       /\ Len(effects) \in Nat /\ DOMAIN effects = 1..Len(effects)
       /\ next \in 1..(Len(effects) + 1)
       /\ prepared = OverlayPrefix(memory, effects, next - 1)
       /\ \A k \in 1..(next - 1) : Component(effects[k].space) \in copied

(* Where a call is, and the outcomes it can have there.                    *)
ControlPart ==
  /\ status = "committing" => phase \in {"host", "load", "run"}
  /\ phase # "idle" => outcome = "none"
  /\ phase \in {"preflight", "run"} => pc \in 1..(Len(program) + 1)
  /\ phase = "load" => pc \in 1..(Len(call.inputs) + 1)
  /\ phase \in {"load", "extract"} => call.fresh
  /\ outcome # "destination"

(* What the checks made before a phase establish about the call in it.     *)
CallPart ==
  /\ IsTuple(program) /\ IsTuple(call.inputs) /\ IsTuple(call.outputs)
  /\ \A k \in DOMAIN call.values : IsTuple(call.values[k].values)
  /\ ValidProgram(program)
  /\ call.fresh => ValidManifest(call)
  /\ phase = "preflight" => \A k \in 1..(pc - 1) : Supported(program[k])
  /\ phase \in {"load", "run"} => \A k \in DOMAIN program : Supported(program[k])
  /\ phase = "load" => AcceptsValues(call, call.values)

InputEffect(c, k) ==
  Effect(c.inputs[k].span.space, c.inputs[k].span.start,
         c.values[CHOOSE j \in Supplied(c.values, c.inputs[k].name) : TRUE].values)

(* A pending commit is the one its phase makes, from the live memory.      *)
CommitPart ==
  /\ status = "committing" /\ phase = "load" =>
       pc \in DOMAIN call.inputs /\ effects = <<InputEffect(call, pc)>>
  /\ status = "committing" /\ phase = "run" =>
       pc \in DOMAIN program /\ effects = ProposedEffects(program[pc], memory)

(* Nothing has happened before the first load, or before a refusal.        *)
UntouchedPart ==
  /\ phase = "preflight" =>
       memory = loaded /\ trace = <<>> /\ (call.fresh => memory = Blank)
  /\ outcome \in {"unsupported", "manifest"} => memory = loaded /\ trace = <<>>

(* The first n inputs of a call are in mem, and nothing else is.           *)
Holds(c, mem, n) ==
  /\ \A k \in 1..n : Contents(mem, c.inputs[k].span) = InputEffect(c, k).values
  /\ \A l \in Location :
       mem[l] # Uninit => \E k \in 1..n : l \in Cells(c.inputs[k].span)

LoadedPart ==
  call.fresh =>
    /\ phase = "load" => Holds(call, memory, pc - 1)
    /\ phase \in {"run", "extract"} \/ outcome \in CallOutcomes =>
         Holds(call, loaded, Len(call.inputs))

(* How much of the result exists.                                          *)
ResultPart ==
  /\ IsTuple(trace)
  /\ phase \in {"preflight", "load"} => trace = <<>>
  /\ phase \in {"preflight", "load", "run"} => outputs = <<>>
  /\ phase = "run" /\ call.traced => Len(trace) = pc - 1
  /\ phase = "extract" =>
       /\ pc \in 1..(Len(call.outputs) + 1)
       /\ outputs = [k \in 1..(pc - 1) |-> Contents(memory, call.outputs[k].span)]
       /\ \A k \in 1..(pc - 1) : Initialized(memory, call.outputs[k].span)
       /\ call.traced => Len(trace) = Len(program)
  /\ ResultIsComplete

SimulatorInv ==
  /\ DevicePart /\ ControlPart /\ CallPart /\ CommitPart
  /\ UntouchedPart /\ LoadedPart /\ ResultPart

-----------------------------------------------------------------------------
(* Facts about one state. *)

(* A tuple is indexed from 1 to its length.                                *)
LEMMA TupleDomain ==
  ASSUME NEW s, IsTuple(s)
  PROVE  Len(s) \in Nat /\ DOMAIN s = 1..Len(s)
BY DEF IsTuple

\* A sequence of scalars is a tuple.
LEMMA ScalarsAreTuple ==
  ASSUME NEW s, s \in Seq(Value)
  PROVE  IsTuple(s)
BY DEF IsTuple

\* A tuple that grew by one: the trace, or the outputs, after one more append.
LEMMA TupleAppend ==
  ASSUME NEW s, IsTuple(s), NEW x
  PROVE  /\ IsTuple(Append(s, x)) /\ Len(Append(s, x)) = Len(s) + 1
         /\ Append(s, x)[Len(s) + 1] = x
         /\ \A k \in 1..Len(s) : Append(s, x)[k] = s[k]
<1> DEFINE S == {s[k] : k \in 1..Len(s)} \cup {x}
<1>1. Len(s) \in Nat /\ s = [k \in 1..Len(s) |-> s[k]]
  BY DEF IsTuple
<1>2. s \in Seq(S) /\ x \in S
  <2>1. x \in S /\ \A k \in 1..Len(s) : s[k] \in S
    OBVIOUS
  <2> HIDE DEF S
  <2>2. s \in [1..Len(s) -> S]
    BY <1>1, <2>1
  <2>3. QED
    BY <1>1, <2>1, <2>2
<1> HIDE DEF S
<1>3. /\ Append(s, x) \in Seq(S)
      /\ Len(Append(s, x)) = Len(s) + 1
      /\ \A k \in 1..Len(s) : Append(s, x)[k] = s[k]
      /\ Append(s, x)[Len(s) + 1] = x
  BY <1>2, AppendProperties
<1>4. Append(s, x) = [k \in 1..(Len(s) + 1) |-> Append(s, x)[k]]
  <2>1. Append(s, x) \in [1..(Len(s) + 1) -> S]
    BY <1>3, LenProperties
  <2>2. QED
    BY <2>1
<1>5. QED
  BY <1>1, <1>3, <1>4 DEF IsTuple

(* The effect of an input binding: as many values as the binding has cells *)
(* (order_input_values), in bounds (CentTensorBinding).                    *)
LEMMA InputFits ==
  ASSUME CallPart, call.fresh, phase = "load", NEW k \in DOMAIN call.inputs
  PROVE  /\ EffectInBounds(InputEffect(call, k))
         /\ IsTuple(InputEffect(call, k).values)
         /\ Len(InputEffect(call, k).values) = call.inputs[k].span.count
         /\ SpanInBounds(call.inputs[k].span)
         /\ InputEffect(call, k).space = call.inputs[k].span.space
         /\ InputEffect(call, k).start = call.inputs[k].span.start
<1> DEFINE supplied == Supplied(call.values, call.inputs[k].name)
           j == CHOOSE m \in supplied : TRUE
<1>1. SpanInBounds(call.inputs[k].span) /\ AcceptsValues(call, call.values)
  BY DEF CallPart, ValidManifest
<1>2. supplied # {}
  <2>1. call.inputs[k].name \in {call.values[m].name : m \in DOMAIN call.values}
    BY <1>1 DEF AcceptsValues
  <2>2. QED
    BY <2>1 DEF Supplied
<1>3. j \in supplied /\ j \in DOMAIN call.values
  BY <1>2 DEF Supplied
<1>4. Len(call.values[j].values) = call.inputs[k].span.count
  BY <1>1, <1>3 DEF AcceptsValues
<1>5. InputEffect(call, k) =
        Effect(call.inputs[k].span.space, call.inputs[k].span.start, call.values[j].values)
  BY DEF InputEffect
<1>6. IsTuple(call.values[j].values)
  BY <1>3 DEF CallPart
<1> HIDE DEF j, supplied
<1>7. call.values[j].values # <<>>
  BY <1>1, <1>4 DEF SpanInBounds
<1>8. QED
  BY <1>1, <1>4, <1>5, <1>6, <1>7 DEF EffectInBounds, SpanInBounds, Effect

(* No effect of a validated call is refused.                               *)
LEMMA CallEffectsFit ==
  ASSUME SimulatorInv, status = "committing", phase \in {"load", "run"}
  PROVE  FittingEffects(effects)
<1>1. CASE phase = "load"
  BY <1>1, InputFits, OneEffect DEF SimulatorInv, CommitPart, ControlPart
<1>2. CASE phase = "run"
  <2>1. pc \in DOMAIN program /\ effects = ProposedEffects(program[pc], memory)
    BY <1>2 DEF SimulatorInv, CommitPart
  <2>2. ValidInstruction(program[pc]) /\ Supported(program[pc])
    BY <1>2, <2>1 DEF SimulatorInv, CallPart, ValidProgram, RefusedInstructions
  <2>3. QED
    BY <2>1, <2>2, KernelsFit
<1>3. QED
  BY <1>1, <1>2

-----------------------------------------------------------------------------
(* Steps of the device. *)

\* Entering commit_effects (state.py:405): nothing is staged yet.
LEMMA BeginPart ==
  ASSUME DevicePart, NEW es, Len(es) \in Nat, DOMAIN es = 1..Len(es), Device!BeginCommit(es)
  PROVE  DevicePart'
<1>1. OverlayPrefix(memory, es, 0) = memory
  BY OverlayNothing DEF DevicePart, IsMap
<1>2. /\ memory' = memory /\ prepared' = memory /\ effects' = es
      /\ status' = "committing" /\ next' = 1
  BY DEF Device!BeginCommit
<1>3. QED
  BY <1>1, <1>2 DEF DevicePart, IsMap

(* Cells of objects without a private copy still have their live contents. *)
LEMMA UncopiedIsLive ==
  ASSUME DevicePart, status = "committing",
         NEW l \in Location, Component(l[1]) \notin copied
  PROVE  prepared[l] = memory[l]
<1>1. /\ prepared = OverlayPrefix(memory, effects, next - 1)
      /\ \A k \in 1..(next - 1) : Component(effects[k].space) \in copied
  BY DEF DevicePart
<1>2. Writers(effects, next - 1, l) = {}
  BY <1>1 DEF Writers, Covers
<1>3. QED
  BY <1>1, <1>2 DEF OverlayPrefix

\* Staging one effect (state.py:438-481) extends the staged prefix by it.
LEMMA StagePart ==
  ASSUME DevicePart, Device!StageEffect
  PROVE  DevicePart'
<1> DEFINE e == effects[next]
<1>1. /\ status = "committing" /\ next \in DOMAIN effects
      /\ prepared' = Write(Device!WriteTarget(e), e)
      /\ copied' = copied \cup {Component(e.space)}
      /\ next' = next + 1
      /\ UNCHANGED <<memory, effects, status>>
  BY DeviceOperators DEF Device!StageEffect
<1>2. Device!WriteTarget(e) = prepared
  <2>1. Device!WriteTarget(e) =
          IF Component(e.space) \in copied THEN prepared
          ELSE [l \in Location |-> IF Component(l[1]) = Component(e.space)
                                   THEN memory[l] ELSE prepared[l]]
    BY DeviceOperators DEF Device!WriteTarget
  <2>2. prepared = [l \in Location |-> prepared[l]]
    BY DEF DevicePart, IsMap
  <2>3. CASE Component(e.space) \notin copied
    <3>1. \A l \in Location : Component(l[1]) = Component(e.space) =>
                                memory[l] = prepared[l]
      BY <1>1, <2>3, UncopiedIsLive
    <3>2. QED
      BY <2>1, <2>2, <2>3, <3>1
  <2>4. QED
    BY <2>1, <2>3
<1>3. /\ Len(effects) \in Nat /\ DOMAIN effects = 1..Len(effects)
      /\ next \in 1..Len(effects)
      /\ next - 1 \in Nat /\ (next - 1) + 1 = next /\ next' - 1 = next
  BY <1>1 DEF DevicePart
<1>4. prepared' = OverlayPrefix(memory, effects, next)
  <2>1. prepared = OverlayPrefix(memory, effects, next - 1)
    BY <1>1 DEF DevicePart
  <2>2. QED
    BY <1>1, <1>2, <1>3, <2>1, OverlayStep
<1>5. IsMap(prepared')
  BY <1>4 DEF IsMap, OverlayPrefix
<1>6. \A k \in 1..next : Component(effects[k].space) \in copied'
  BY <1>1, <1>3 DEF DevicePart
<1>7. IsMap(memory') /\ next' \in 1..(Len(effects) + 1)
  BY <1>1, <1>3 DEF DevicePart, IsMap
<1>8. QED
  BY <1>1, <1>3, <1>4, <1>5, <1>6, <1>7 DEF DevicePart

\* Publishing the replacements (state.py:482-503) applies the whole tuple.
LEMMA PublishPart ==
  ASSUME DevicePart, Device!Publish
  PROVE  DevicePart' /\ memory' = Overlay(memory, effects) /\ IsMap(memory')
<1>1. /\ status = "committing" /\ next = Len(effects) + 1 /\ status' = "committed"
      /\ memory' = [l \in Location |->
                      IF Component(l[1]) \in copied THEN prepared[l] ELSE memory[l]]
      /\ prepared' = prepared
  BY DeviceOperators DEF Device!Publish
<1>2. memory' = prepared
  <2>1. \A l \in Location : Component(l[1]) \notin copied => prepared[l] = memory[l]
    BY <1>1, UncopiedIsLive
  <2>2. prepared = [l \in Location |-> prepared[l]]
    BY DEF DevicePart, IsMap
  <2>3. QED
    BY <1>1, <2>1, <2>2
<1>3. next - 1 = Len(effects)
  BY <1>1 DEF DevicePart
<1>4. memory' = Overlay(memory, effects)
  BY <1>1, <1>2, <1>3 DEF DevicePart, Overlay
<1>5. QED
  BY <1>1, <1>2, <1>4 DEF DevicePart, IsMap

\* A refused commit (state.py:426-436) drops what it staged.
LEMMA RejectPart ==
  ASSUME DevicePart, Device!RejectCommit
  PROVE  DevicePart' /\ memory' = memory /\ status' = "rejected"
BY DEF DevicePart, Device!RejectCommit, IsMap

(* Tuples of one effect: what they mean, and their length. *)
LEMMA OverlayOne ==
  ASSUME NEW mem, IsMap(mem), NEW e
  PROVE  Overlay(mem, <<e>>) = Write(mem, e)
<1>1. OverlayPrefix(mem, <<e>>, 0) = mem
  BY OverlayNothing DEF IsMap
<1>2. Write(OverlayPrefix(mem, <<e>>, 0), <<e>>[0 + 1]) = OverlayPrefix(mem, <<e>>, 0 + 1)
  BY OverlayStep
<1>3. QED
  BY <1>1, <1>2 DEF Overlay

(* A step that leaves the device alone keeps its part of the invariant.    *)
LEMMA DeviceKept ==
  ASSUME DevicePart, UNCHANGED deviceVars
  PROVE  DevicePart'
BY DEF DevicePart, IsMap, deviceVars

-----------------------------------------------------------------------------
(* Loading the inputs. *)

\* The cells of a span are the interval from its start, and intervals that do not
\* meet share no cell.
LEMMA Intervals ==
  ASSUME NEW a \in Nat, NEW n \in Nat \ {0}
  PROVE  /\ \A x \in a..(a + n - 1) : \E j \in 0..(n - 1) : x = a + j
         /\ \A j \in 0..(n - 1) : a + j \in a..(a + n - 1)
         /\ \A j \in 1..n : a + j - 1 \in a..(a + n - 1) /\ (a + j - 1) - a + 1 = j
         /\ \A b \in Nat, m \in Nat \ {0} :
              a >= b + m \/ b >= a + n =>
                \A j \in 1..n : a + j - 1 \notin b..(b + m - 1)
<1>1. ASSUME NEW x \in a..(a + n - 1) PROVE \E j \in 0..(n - 1) : x = a + j
  <2>1. x - a \in 0..(n - 1) /\ x = a + (x - a)
    OBVIOUS
  <2>2. QED
    BY <2>1
<1>2. QED
  BY <1>1

Disjoint(one, other) ==
  \/ one.space # other.space
  \/ one.start >= other.start + other.count
  \/ other.start >= one.start + one.count

(* An effect that starts where a span does and has as many values covers   *)
(* only cells of the span.                                                 *)
LEMMA CoversOnlySpan ==
  ASSUME NEW span, SpanInBounds(span), NEW e,
         Len(e.values) = span.count, e.space = span.space, e.start = span.start,
         NEW l \in Location, Covers(e, l)
  PROVE  l \in Cells(span)
<1>1. span.count \in Nat \ {0} /\ span.start \in Nat
  BY DEF SpanInBounds
<1>2. l = <<l[1], l[2]>>
  BY DEF Location
<1>3. l[1] = span.space /\ l[2] \in span.start..(span.start + span.count - 1)
  BY DEF Covers
<1>4. PICK j \in 0..(span.count - 1) : l[2] = span.start + j
  <2>1. \A x \in span.start..(span.start + span.count - 1) :
          \E j \in 0..(span.count - 1) : x = span.start + j
    BY <1>1, Intervals
  <2>2. QED
    BY <1>3, <2>1
<1>5. QED
  BY <1>2, <1>3, <1>4 DEF Cells

(* Writing as many values as a span has cells fills the span and leaves    *)
(* the spans disjoint from it alone.                                       *)
LEMMA FillSpan ==
  ASSUME NEW mem, NEW span, SpanInBounds(span), NEW e, IsTuple(e.values),
         Len(e.values) = span.count, e.space = span.space, e.start = span.start
  PROVE  /\ Contents(Write(mem, e), span) = e.values
         /\ \A other : SpanInBounds(other) /\ Disjoint(other, span) =>
              Contents(Write(mem, e), other) = Contents(mem, other)
<1> DEFINE after == Write(mem, e)
<1>1. span.count \in Nat \ {0} /\ span.start \in Nat
  BY DEF SpanInBounds
<1>3. ASSUME NEW other, SpanInBounds(other), NEW m \in 1..other.count
      PROVE  <<other.space, other.start + m - 1>> \in Location
  <2>1. /\ other.space \in Space /\ other.count \in Nat \ {0} /\ other.start \in Nat
        /\ other.start + other.count <= Capacity(other.space) /\ Capacity(other.space) \in Nat
    BY <1>3, SpaceShape DEF SpanInBounds
  <2>2. other.start + m - 1 \in 0..(Capacity(other.space) - 1)
    BY <2>1
  <2>3. QED
    BY <2>1, <2>2 DEF Location
<1>4. Contents(after, span) = e.values
  <2>1. ASSUME NEW m \in 1..span.count
        PROVE  after[<<span.space, span.start + m - 1>>] = e.values[m]
    <3>1. /\ span.start + m - 1 \in span.start..(span.start + span.count - 1)
          /\ (span.start + m - 1) - span.start + 1 = m
      BY <1>1, Intervals
    <3>2. Covers(e, <<span.space, span.start + m - 1>>)
      BY <3>1 DEF Covers
    <3>3. ValueWritten(e, <<span.space, span.start + m - 1>>) = e.values[m]
      BY <3>1 DEF ValueWritten
    <3>4. QED
      BY <1>3, <3>2, <3>3 DEF Write
  <2>2. e.values = [m \in 1..span.count |-> e.values[m]]
    BY DEF IsTuple
  <2>3. Contents(after, span) = [m \in 1..span.count |-> e.values[m]]
    BY <2>1 DEF Contents
  <2>4. QED
    BY <2>2, <2>3
<1>5. ASSUME NEW other, SpanInBounds(other), Disjoint(other, span)
      PROVE  Contents(after, other) = Contents(mem, other)
  <2>1. other.count \in Nat \ {0} /\ other.start \in Nat
    BY <1>5 DEF SpanInBounds
  <2>2. ASSUME NEW m \in 1..other.count
        PROVE  after[<<other.space, other.start + m - 1>>]
                 = mem[<<other.space, other.start + m - 1>>]
    <3>1. CASE other.space # span.space
      BY <1>3, <1>5, <3>1 DEF Covers, Write
    <3>2. CASE other.start >= span.start + span.count \/ span.start >= other.start + other.count
      <4>1. other.start + m - 1 \notin span.start..(span.start + span.count - 1)
        <5> DEFINE a == other.start
                   n == other.count
                   b == span.start
                   c == span.count
        <5>1. /\ a \in Nat /\ n \in Nat \ {0} /\ b \in Nat /\ c \in Nat \ {0}
              /\ a >= b + c \/ b >= a + n
          BY <1>1, <2>1, <3>2
        <5> HIDE DEF a, n, b, c
        <5>2. \A j \in 1..n : a + j - 1 \notin b..(b + c - 1)
          BY <5>1
        <5>3. QED
          BY <5>2 DEF a, n, b, c
      <4>2. ~Covers(e, <<other.space, other.start + m - 1>>)
        BY <4>1 DEF Covers
      <4>3. QED
        BY <1>3, <1>5, <4>2 DEF Write
    <3>3. QED
      BY <1>5, <3>1, <3>2 DEF Disjoint
  <2>3. QED
    BY <2>2 DEF Contents
<1>6. QED
  BY <1>4, <1>5

(* Writing input k after the first k - 1, in a manifest without overlaps,  *)
(* leaves those intact and adds only the cells of input k.                 *)
LEMMA LoadOne ==
  ASSUME NEW c, ValidManifest(c), NEW mem, NEW k \in Nat \ {0},
         1..k \subseteq DOMAIN c.inputs,
         Holds(c, mem, k - 1),
         SpanInBounds(c.inputs[k].span),
         IsTuple(InputEffect(c, k).values),
         Len(InputEffect(c, k).values) = c.inputs[k].span.count,
         InputEffect(c, k).space = c.inputs[k].span.space,
         InputEffect(c, k).start = c.inputs[k].span.start
  PROVE  Holds(c, Write(mem, InputEffect(c, k)), k)
<1> DEFINE e == InputEffect(c, k)
           span == c.inputs[k].span
           after == Write(mem, e)
<1>1. /\ \A l \in Location : Covers(e, l) => l \in Cells(span)
      /\ Contents(after, span) = e.values
      /\ \A other : SpanInBounds(other) /\ Disjoint(other, span) =>
           Contents(after, other) = Contents(mem, other)
  <2>1. /\ SpanInBounds(span) /\ IsTuple(e.values) /\ Len(e.values) = span.count
        /\ e.space = span.space /\ e.start = span.start
    OBVIOUS
  <2> HIDE DEF e, span
  <2>2. QED
    BY <2>1, FillSpan, CoversOnlySpan
<1>2. ASSUME NEW j \in 1..k
      PROVE  Contents(after, c.inputs[j].span) = InputEffect(c, j).values
  <2>1. CASE j = k
    BY <1>1, <2>1
  <2>2. CASE j # k
    <3>1. j \in 1..(k - 1) /\ j \in DOMAIN c.inputs /\ k \in DOMAIN c.inputs
      BY <2>2
    <3>2. Contents(mem, c.inputs[j].span) = InputEffect(c, j).values
      BY <3>1 DEF Holds
    <3>3. SpanInBounds(c.inputs[j].span) /\ Disjoint(c.inputs[j].span, span)
      BY <2>2, <3>1 DEF ValidManifest, NoInputOverlaps, Disjoint
    <3>4. QED
      BY <1>1, <3>2, <3>3
  <2>3. QED
    BY <2>1, <2>2
<1>3. ASSUME NEW l \in Location, after[l] # Uninit
      PROVE  \E j \in 1..k : l \in Cells(c.inputs[j].span)
  <2>1. CASE Covers(e, l)
    BY <1>1, <2>1
  <2>2. CASE ~Covers(e, l)
    <3>1. mem[l] # Uninit
      BY <1>3, <2>2 DEF Write
    <3>2. PICK j \in 1..(k - 1) : l \in Cells(c.inputs[j].span)
      BY <3>1 DEF Holds
    <3>3. QED
      BY <3>2
  <2>3. QED
    BY <2>1, <2>2
<1>4. QED
  BY <1>2, <1>3 DEF Holds

-----------------------------------------------------------------------------
(* The initial state, and the calls a caller makes. *)

\* The program and the bindings of no call are empty.
LEMMA EmptyTuple == ValidProgram(<<>>) /\ IsTuple(<<>>) /\ DOMAIN <<>> = {}
BY DEF ValidProgram, RefusedInstructions, IsTuple

\* Before any call (no program, no bindings, a fresh device) the invariant holds.
LEMMA InitSimulator == Init => SimulatorInv
<1> SUFFICES ASSUME Init PROVE SimulatorInv
  OBVIOUS
<1>1. /\ memory = Blank /\ prepared = Blank /\ status = "idle" /\ loaded = Blank
      /\ phase = "idle" /\ call = NoCall /\ pc = 1 /\ outcome = "none"
      /\ outputs = <<>> /\ trace = <<>>
  BY DeviceOperators DEF Init, Device!DeviceInit
<1>2. DevicePart
  BY <1>1 DEF DevicePart, IsMap, Blank
<1>3. /\ program = <<>> /\ call.inputs = <<>> /\ call.outputs = <<>> /\ call.values = <<>>
      /\ call.fresh = FALSE
  BY <1>1 DEF program, NoCall
<1>4. ControlPart /\ CommitPart /\ UntouchedPart /\ LoadedPart
  BY <1>1, <1>3 DEF ControlPart, CommitPart, UntouchedPart, LoadedPart
<1>5. CallPart
  BY <1>1, <1>3, EmptyTuple DEF CallPart
<1>6. ResultPart
  BY <1>1, <1>3, EmptyTuple DEF ResultPart, ResultIsComplete
<1>7. QED
  BY <1>2, <1>4, <1>5, <1>6 DEF SimulatorInv

\* A validated executable is run on a fresh device (api.py).
LEMMA ExecuteFunctionallyInv ==
  ASSUME SimulatorInv, NEW request \in Requests, ExecuteFunctionally(request)
  PROVE  SimulatorInv'
<1>1. /\ memory' = Blank /\ prepared' = Blank /\ status' = "idle" /\ loaded' = Blank
      /\ phase' = "preflight" /\ call' = CallOf(request) /\ pc' = 1 /\ outcome' = "none"
      /\ outputs' = <<>> /\ trace' = <<>>
      /\ ValidProgram(request.program) /\ ValidManifest(request)
  BY DEF ExecuteFunctionally, StartCall, ValidExecutable
<1>2. DevicePart'
  BY <1>1 DEF DevicePart, IsMap, Blank
<1>3. /\ program' = request.program /\ call'.inputs = request.inputs
      /\ call'.outputs = request.outputs /\ call'.values = request.values
  BY <1>1 DEF program, CallOf
<1>4. IsTuple(request.program) /\ IsTuple(request.inputs) /\ IsTuple(request.outputs)
      /\ \A k \in DOMAIN request.values : IsTuple(request.values[k].values)
  BY CallsAssumption, ScalarsAreTuple
<1>5. ValidManifest(call')
  BY <1>1, <1>3 DEF ValidManifest
<1>6. ControlPart' /\ CommitPart' /\ UntouchedPart' /\ LoadedPart'
  <2>1. Len(program') \in Nat
    BY <1>3, <1>4 DEF IsTuple
  <2>2. QED
    BY <1>1, <2>1 DEF ControlPart, CommitPart, UntouchedPart, LoadedPart, CallOutcomes
<1>7. CallPart'
  BY <1>1, <1>3, <1>4, <1>5 DEF CallPart
<1>8. ResultPart'
  BY <1>1, EmptyTuple DEF ResultPart, ResultIsComplete
<1>9. QED
  BY <1>2, <1>6, <1>7, <1>8 DEF SimulatorInv

\* A validated program is run on the device the caller kept (execution.py).
LEMMA ExecuteProgramInv ==
  ASSUME SimulatorInv, NEW p \in Programs, ExecuteProgram(p)
  PROVE  SimulatorInv'
<1>1. /\ loaded' = memory /\ phase = "idle" /\ phase' = "preflight"
      /\ call' = [NoCall EXCEPT !.program = p] /\ pc' = 1
      /\ outcome' = "none" /\ outputs' = <<>> /\ trace' = <<>> /\ ValidProgram(p)
      /\ UNCHANGED deviceVars
  BY DEF ExecuteProgram, StartCall
<1>2. memory' = memory /\ status' = status /\ DevicePart'
  BY <1>1, DeviceKept DEF SimulatorInv, deviceVars
<1>3. /\ program' = p /\ call'.inputs = <<>> /\ call'.outputs = <<>> /\ call'.values = <<>>
      /\ call'.fresh = FALSE
  BY <1>1 DEF program, NoCall
<1>4. IsTuple(p)
  BY CallsAssumption
<1>5. status' # "committing"
  BY <1>1, <1>2 DEF SimulatorInv, ControlPart
<1>6. ControlPart' /\ CommitPart' /\ UntouchedPart' /\ LoadedPart'
  <2>1. Len(program') \in Nat
    BY <1>3, <1>4 DEF IsTuple
  <2>2. QED
    BY <1>1, <1>2, <1>3, <1>5, <2>1 DEF ControlPart, CommitPart, UntouchedPart, LoadedPart
<1>7. CallPart'
  BY <1>1, <1>3, <1>4, EmptyTuple DEF CallPart
<1>8. ResultPart'
  BY <1>1, EmptyTuple DEF ResultPart, ResultIsComplete
<1>9. QED
  BY <1>2, <1>6, <1>7, <1>8 DEF SimulatorInv

\* A host write to the kept device enters commit_effects (state.py:405).
LEMMA HostWriteInv ==
  ASSUME SimulatorInv, NEW e \in HostWrites, HostWrite(e)
  PROVE  SimulatorInv'
<1>1. /\ phase = "idle" /\ phase' = "host" /\ outcome' = "none" /\ trace' = <<>>
      /\ UNCHANGED <<call, pc, outputs, loaded>> /\ Device!BeginCommit(<<e>>)
  BY DEF HostWrite
<1>2. DevicePart'
  BY <1>1, BeginPart DEF SimulatorInv
<1>3. ControlPart' /\ CommitPart' /\ UntouchedPart' /\ LoadedPart'
  BY <1>1 DEF ControlPart, CommitPart, UntouchedPart, LoadedPart, CallOutcomes
<1>4. CallPart'
  BY <1>1 DEF SimulatorInv, CallPart, program
<1>5. ResultPart'
  BY <1>1, EmptyTuple DEF ResultPart, ResultIsComplete
<1>6. QED
  BY <1>2, <1>3, <1>4, <1>5 DEF SimulatorInv

-----------------------------------------------------------------------------
(* Steps of a call that leave the device alone. *)

\* preflight_program: one instruction accepted, or the call refused (execution.py).
LEMMA PreflightInv ==
  ASSUME SimulatorInv, Preflight
  PROVE  SimulatorInv'
<1>1. /\ phase = "preflight" /\ pc \in DOMAIN program
      /\ UNCHANGED <<deviceVars, call, outputs, trace, loaded, calls>>
      /\ \/ Supported(program[pc]) /\ pc' = pc + 1 /\ UNCHANGED <<phase, outcome>>
         \/ phase' = "idle" /\ outcome' = "unsupported" /\ UNCHANGED pc
  BY DEF Preflight, Finish
<1>2. memory' = memory /\ status' = status /\ DevicePart' /\ program' = program
  BY <1>1, DeviceKept DEF SimulatorInv, deviceVars, program
<1>3. Len(program) \in Nat /\ DOMAIN program = 1..Len(program)
  BY DEF SimulatorInv, CallPart, IsTuple
<1>4. ControlPart'
  BY <1>1, <1>2, <1>3 DEF SimulatorInv, ControlPart
<1>5. CallPart'
  BY <1>1, <1>2, <1>3 DEF SimulatorInv, CallPart
<1>6. CommitPart' /\ UntouchedPart' /\ LoadedPart'
  BY <1>1, <1>2 DEF SimulatorInv, ControlPart, CommitPart, UntouchedPart, LoadedPart,
                    CallOutcomes
<1>7. ResultPart'
  BY <1>1, <1>2 DEF SimulatorInv, ControlPart, ResultPart, ResultIsComplete
<1>8. QED
  BY <1>2, <1>4, <1>5, <1>6, <1>7 DEF SimulatorInv

\* Preflight is over: inputs are loaded, or refused, or the program runs (api.py).
LEMMA PreflightDoneInv ==
  ASSUME SimulatorInv, PreflightDone
  PROVE  SimulatorInv'
<1>1. /\ phase = "preflight" /\ pc = Len(program) + 1 /\ pc' = 1
      /\ UNCHANGED <<deviceVars, call, outputs, trace, loaded, calls>>
      /\ \/ call.fresh /\ AcceptsValues(call, call.values) /\ phase' = "load"
            /\ UNCHANGED outcome
         \/ call.fresh /\ phase' = "idle" /\ outcome' = "manifest"
         \/ ~call.fresh /\ phase' = "run" /\ UNCHANGED outcome
  BY DEF PreflightDone, PreflightBy, Finish
<1>2. memory' = memory /\ status' = status /\ DevicePart' /\ program' = program
  BY <1>1, DeviceKept DEF SimulatorInv, deviceVars, program
<1>3. /\ Len(program) \in Nat /\ DOMAIN program = 1..Len(program)
      /\ Len(call.inputs) \in Nat
  BY DEF SimulatorInv, CallPart, IsTuple
<1>4. outcome = "none" /\ status # "committing" /\ trace = <<>> /\ outputs = <<>>
      /\ memory = loaded /\ (call.fresh => memory = Blank)
  BY <1>1 DEF SimulatorInv, ControlPart, UntouchedPart, ResultPart
<1>5. ControlPart' /\ CommitPart' /\ UntouchedPart'
  BY <1>1, <1>2, <1>3, <1>4 DEF ControlPart, CommitPart, UntouchedPart
<1>6. CallPart'
  <2>1. \A k \in DOMAIN program : Supported(program[k])
    BY <1>1, <1>3 DEF SimulatorInv, CallPart
  <2>2. QED
    BY <1>1, <1>2, <2>1 DEF SimulatorInv, CallPart
<1>7. LoadedPart'
  <2>1. Holds(call, Blank, 0)
    BY DEF Holds, Blank
  <2>2. QED
    BY <1>1, <1>2, <1>4, <2>1 DEF LoadedPart, CallOutcomes
<1>8. ResultPart'
  BY <1>1, <1>2, <1>4, EmptyTuple DEF ResultPart, ResultIsComplete
<1>9. QED
  BY <1>2, <1>5, <1>6, <1>7, <1>8 DEF SimulatorInv

\* Every input is loaded: the program runs (api.py).
LEMMA LoadDoneInv ==
  ASSUME SimulatorInv, LoadDone
  PROVE  SimulatorInv'
<1>1. /\ phase = "load" /\ status # "committing" /\ pc = Len(call.inputs) + 1
      /\ phase' = "run" /\ pc' = 1 /\ loaded' = memory
      /\ UNCHANGED <<deviceVars, call, outcome, outputs, trace, calls>>
  BY DEF LoadDone, LoadDoneAt
<1>2. memory' = memory /\ status' = status /\ DevicePart' /\ program' = program
  BY <1>1, DeviceKept DEF SimulatorInv, deviceVars, program
<1>3. Len(program) \in Nat /\ Len(call.inputs) \in Nat
  BY DEF SimulatorInv, CallPart, IsTuple
<1>4. outcome = "none" /\ trace = <<>> /\ outputs = <<>>
  BY <1>1 DEF SimulatorInv, ControlPart, ResultPart
<1>5. ControlPart' /\ CommitPart' /\ UntouchedPart'
  BY <1>1, <1>2, <1>3, <1>4 DEF ControlPart, CommitPart, UntouchedPart
<1>6. CallPart'
  BY <1>1, <1>2 DEF SimulatorInv, CallPart
<1>7. LoadedPart'
  <2>1. call.fresh => Holds(call, memory, Len(call.inputs))
    <3>1. pc - 1 = Len(call.inputs)
      BY <1>1, <1>3
    <3>2. QED
      BY <1>1, <3>1 DEF SimulatorInv, LoadedPart
  <2>2. QED
    BY <1>1, <1>2, <2>1 DEF LoadedPart
<1>8. ResultPart'
  BY <1>1, <1>2, <1>4, EmptyTuple DEF ResultPart, ResultIsComplete
<1>9. QED
  BY <1>2, <1>5, <1>6, <1>7, <1>8 DEF SimulatorInv

\* A kernel raises (execution.py): the call ends with what was committed before.
LEMMA InstructionFaultInv ==
  ASSUME SimulatorInv, InstructionFault
  PROVE  SimulatorInv'
<1>1. /\ phase = "run" /\ status # "committing" /\ pc \in DOMAIN program
      /\ phase' = "idle"
      /\ UNCHANGED <<deviceVars, call, pc, outputs, trace, loaded, calls>>
  BY DEF InstructionFault, Finish
<1>2. outcome' \in {"uninitialized", "arithmetic"}
  <2>1. program[pc].op \notin Kernelless
    BY <1>1 DEF SimulatorInv, CallPart, Supported
  <2>2. QED
    BY <2>1 DEF InstructionFault, Finish, Faults
<1>3. memory' = memory /\ status' = status /\ DevicePart' /\ program' = program
  BY <1>1, DeviceKept DEF SimulatorInv, deviceVars, program
<1>4. ControlPart' /\ CommitPart' /\ UntouchedPart'
  BY <1>1, <1>2, <1>3 DEF ControlPart, CommitPart, UntouchedPart
<1>5. CallPart' /\ LoadedPart'
  BY <1>1, <1>3 DEF SimulatorInv, CallPart, LoadedPart
<1>6. ResultPart'
  BY <1>1, <1>2, <1>3 DEF SimulatorInv, ResultPart, ResultIsComplete
<1>7. QED
  BY <1>3, <1>4, <1>5, <1>6 DEF SimulatorInv

\* The program is over: the outputs are read, or the kept device is returned to (api.py).
LEMMA ProgramDoneInv ==
  ASSUME SimulatorInv, ProgramDone
  PROVE  SimulatorInv'
<1>1. /\ phase = "run" /\ status # "committing" /\ pc = Len(program) + 1 /\ pc' = 1
      /\ UNCHANGED <<deviceVars, call, outputs, trace, loaded, calls>>
      /\ \/ call.fresh /\ phase' = "extract" /\ UNCHANGED outcome
         \/ ~call.fresh /\ phase' = "idle" /\ outcome' = "completed"
  BY DEF ProgramDone, ProgramDoneBy, Finish
<1>2. memory' = memory /\ status' = status /\ DevicePart' /\ program' = program
  BY <1>1, DeviceKept DEF SimulatorInv, deviceVars, program
<1>3. Len(program) \in Nat /\ Len(call.outputs) \in Nat
  BY DEF SimulatorInv, CallPart, IsTuple
<1>4. outcome = "none" /\ outputs = <<>> /\ (call.traced => Len(trace) = Len(program))
  BY <1>1, <1>3 DEF SimulatorInv, ControlPart, ResultPart
<1>5. ControlPart' /\ CommitPart' /\ UntouchedPart'
  BY <1>1, <1>2, <1>3, <1>4 DEF ControlPart, CommitPart, UntouchedPart
<1>6. CallPart' /\ LoadedPart'
  BY <1>1, <1>2 DEF SimulatorInv, CallPart, LoadedPart
<1>7. ResultPart'
  <2>1. IsTuple(trace)
    BY DEF SimulatorInv, ResultPart
  <2>2. [k \in 1..0 |-> Contents(memory, call.outputs[k].span)] = <<>>
    OBVIOUS
  <2>3. QED
    BY <1>1, <1>2, <1>3, <1>4, <2>1, <2>2 DEF ResultPart, ResultIsComplete
<1>8. QED
  BY <1>2, <1>5, <1>6, <1>7 DEF SimulatorInv

\* _extract_output (api.py): one output is read, or found unwritten.
LEMMA ExtractOutputInv ==
  ASSUME SimulatorInv, ExtractOutput
  PROVE  SimulatorInv'
<1> DEFINE span == call.outputs[pc].span
<1>1. /\ phase = "extract" /\ pc \in DOMAIN call.outputs
      /\ UNCHANGED <<deviceVars, call, trace, loaded, calls>>
      /\ \/ /\ Initialized(memory, span) /\ outputs' = Append(outputs, Contents(memory, span))
            /\ pc' = pc + 1 /\ UNCHANGED <<phase, outcome>>
         \/ phase' = "idle" /\ outcome' = "uninitialized" /\ UNCHANGED <<outputs, pc>>
  BY DEF ExtractOutput, Finish
<1>2. memory' = memory /\ status' = status /\ DevicePart' /\ program' = program
  BY <1>1, DeviceKept DEF SimulatorInv, deviceVars, program
<1>3. /\ Len(call.outputs) \in Nat /\ DOMAIN call.outputs = 1..Len(call.outputs)
      /\ status # "committing" /\ outcome = "none"
      /\ outputs = [k \in 1..(pc - 1) |-> Contents(memory, call.outputs[k].span)]
      /\ \A k \in 1..(pc - 1) : Initialized(memory, call.outputs[k].span)
      /\ (call.traced => Len(trace) = Len(program)) /\ IsTuple(trace)
  BY <1>1 DEF SimulatorInv, CallPart, IsTuple, ControlPart, ResultPart
<1>4. ControlPart' /\ CommitPart' /\ UntouchedPart'
  BY <1>1, <1>2, <1>3 DEF SimulatorInv, ControlPart, CommitPart, UntouchedPart
<1>5. CallPart' /\ LoadedPart'
  BY <1>1, <1>2 DEF SimulatorInv, CallPart, LoadedPart
<1>6. ResultPart'
  <2>1. CASE phase' = "idle" /\ outcome' = "uninitialized"
    BY <1>1, <1>2, <1>3, <2>1 DEF ResultPart, ResultIsComplete
  <2>2. CASE /\ Initialized(memory, span) /\ outputs' = Append(outputs, Contents(memory, span))
             /\ pc' = pc + 1 /\ UNCHANGED <<phase, outcome>>
    <3>1. pc \in 1..Len(call.outputs) /\ pc' - 1 = pc /\ pc' \in 1..(Len(call.outputs) + 1)
          /\ pc - 1 \in Nat /\ (pc - 1) + 1 = pc
      <4>1. Len(call.outputs) \in Nat /\ pc \in 1..Len(call.outputs) /\ pc' = pc + 1
        BY <1>1, <1>3, <2>2
      <4>2. \A n \in Nat : \A k \in 1..n :
              (k + 1) - 1 = k /\ k + 1 \in 1..(n + 1) /\ k - 1 \in Nat /\ (k - 1) + 1 = k
        OBVIOUS
      <4>3. QED
        BY <4>1, <4>2
    <3>2. Len(outputs) = pc - 1 /\ IsTuple(outputs)
      BY <1>3, <3>1 DEF IsTuple
    <3>3. /\ outputs' = [k \in 1..pc |-> outputs'[k]]
          /\ outputs'[pc] = Contents(memory, span)
          /\ \A k \in 1..(pc - 1) : outputs'[k] = outputs[k]
      BY <2>2, <3>1, <3>2, TupleAppend DEF IsTuple
    <3>4. \A k \in 1..pc : outputs'[k] = Contents(memory, call.outputs[k].span)
      <4>1. \A k \in 1..(pc - 1) : outputs'[k] = Contents(memory, call.outputs[k].span)
        BY <1>3, <3>3
      <4>2. \A k \in 1..pc : k \in 1..(pc - 1) \/ k = pc
        BY <3>1
      <4>3. QED
        BY <3>3, <4>1, <4>2
    <3>5. outputs' = [k \in 1..pc |-> Contents(memory, call.outputs[k].span)]
      BY <3>3, <3>4
    <3>6. \A k \in 1..pc : Initialized(memory, call.outputs[k].span)
      <4>1. \A k \in 1..pc : k \in 1..(pc - 1) \/ k = pc
        BY <3>1
      <4>2. QED
        BY <1>3, <2>2, <4>1
    <3>7. QED
      BY <1>1, <1>2, <1>3, <2>2, <3>1, <3>5, <3>6 DEF ResultPart, ResultIsComplete
  <2>3. QED
    BY <1>1, <2>1, <2>2
<1>7. QED
  BY <1>2, <1>4, <1>5, <1>6 DEF SimulatorInv

\* Every output is read: the result is returned (api.py).
LEMMA ReturnResultInv ==
  ASSUME SimulatorInv, ReturnResult
  PROVE  SimulatorInv'
<1>1. /\ phase = "extract" /\ pc = Len(call.outputs) + 1
      /\ phase' = "idle" /\ outcome' = "result"
      /\ UNCHANGED <<deviceVars, call, pc, outputs, trace, loaded, calls>>
  BY DEF ReturnResult, Finish
<1>2. memory' = memory /\ status' = status /\ DevicePart' /\ program' = program
  BY <1>1, DeviceKept DEF SimulatorInv, deviceVars, program
<1>3. /\ Len(call.outputs) \in Nat /\ DOMAIN call.outputs = 1..Len(call.outputs)
      /\ pc - 1 = Len(call.outputs) /\ status # "committing"
  BY <1>1 DEF SimulatorInv, CallPart, IsTuple, ControlPart
<1>4. ControlPart' /\ CommitPart' /\ UntouchedPart'
  BY <1>1, <1>2, <1>3 DEF ControlPart, CommitPart, UntouchedPart
<1>5. CallPart' /\ LoadedPart'
  BY <1>1, <1>2 DEF SimulatorInv, CallPart, LoadedPart
<1>6. ResultPart'
  BY <1>1, <1>2, <1>3 DEF SimulatorInv, ResultPart, ResultIsComplete
<1>7. QED
  BY <1>2, <1>4, <1>5, <1>6 DEF SimulatorInv

-----------------------------------------------------------------------------
(* Steps of a call that commit. *)

\* _materialize_input (api.py): the write of one input binding.
LEMMA LoadInputInv ==
  ASSUME SimulatorInv, LoadInput
  PROVE  SimulatorInv'
<1>1. /\ phase = "load" /\ status # "committing" /\ pc \in DOMAIN call.inputs
      /\ Device!BeginCommit(<<InputEffect(call, pc)>>)
      /\ UNCHANGED callVars
  BY DEF LoadInput, InputEffect, ValuesFor
<1>2. DevicePart'
  BY <1>1, BeginPart DEF SimulatorInv
<1>3. /\ memory' = memory /\ status' = "committing" /\ program' = program
      /\ effects' = <<InputEffect(call, pc)>>
      /\ UNCHANGED <<phase, call, pc, outcome, outputs, trace, loaded>>
  BY <1>1 DEF Device!BeginCommit, callVars, program
<1>4. ControlPart' /\ CommitPart' /\ UntouchedPart'
  BY <1>1, <1>3 DEF SimulatorInv, ControlPart, CommitPart, UntouchedPart
<1>5. CallPart' /\ LoadedPart'
  BY <1>1, <1>3 DEF SimulatorInv, CallPart, LoadedPart
<1>6. ResultPart'
  BY <1>1, <1>3 DEF SimulatorInv, ControlPart, ResultPart, ResultIsComplete
<1>7. QED
  BY <1>2, <1>4, <1>5, <1>6 DEF SimulatorInv

\* _execute_instruction (execution.py): a kernel proposes its effects.
LEMMA PrepareInstructionInv ==
  ASSUME SimulatorInv, PrepareInstruction
  PROVE  SimulatorInv'
<1> DEFINE es == ProposedEffects(program[pc], memory)
<1>1. /\ phase = "run" /\ status # "committing" /\ pc \in DOMAIN program
      /\ Device!BeginCommit(es) /\ UNCHANGED callVars
  BY DEF PrepareInstruction, Propose
<1>2. FittingEffects(es)
  <2>1. ValidInstruction(program[pc]) /\ Supported(program[pc])
    BY <1>1 DEF SimulatorInv, CallPart, ValidProgram, RefusedInstructions
  <2>2. QED
    BY <2>1, KernelsFit
<1> HIDE DEF es
<1>3. DevicePart'
  BY <1>1, <1>2, BeginPart DEF SimulatorInv, FittingEffects
<1>4. /\ memory' = memory /\ status' = "committing" /\ program' = program /\ effects' = es
      /\ UNCHANGED <<phase, call, pc, outcome, outputs, trace, loaded>>
  BY <1>1 DEF Device!BeginCommit, callVars, program
<1>5. CommitPart'
  BY <1>1, <1>4 DEF CommitPart, es
<1>6. ControlPart' /\ UntouchedPart'
  BY <1>1, <1>4 DEF SimulatorInv, ControlPart, UntouchedPart
<1>7. CallPart' /\ LoadedPart'
  BY <1>1, <1>4 DEF SimulatorInv, CallPart, LoadedPart
<1>8. ResultPart'
  BY <1>1, <1>4 DEF SimulatorInv, ControlPart, ResultPart, ResultIsComplete
<1>9. QED
  BY <1>3, <1>5, <1>6, <1>7, <1>8 DEF SimulatorInv

\* commit_effects stages one effect (state.py:438-481).
LEMMA StageEffectInv ==
  ASSUME SimulatorInv, StageEffect
  PROVE  SimulatorInv'
<1>1. /\ UNCHANGED <<memory, effects, status>> /\ UNCHANGED callVars
      /\ Device!StageEffect
  BY DEF StageEffect, Device!StageEffect
<1>2. DevicePart'
  BY <1>1, StagePart DEF SimulatorInv
<1>3. program' = program /\ UNCHANGED <<phase, call, pc, outcome, outputs, trace, loaded>>
  BY <1>1 DEF callVars, program
<1>4. ControlPart' /\ CommitPart' /\ UntouchedPart'
  BY <1>1, <1>3 DEF SimulatorInv, ControlPart, CommitPart, UntouchedPart
<1>5. CallPart' /\ LoadedPart'
  BY <1>1, <1>3 DEF SimulatorInv, CallPart, LoadedPart
<1>6. ResultPart'
  BY <1>1, <1>3 DEF SimulatorInv, ResultPart, ResultIsComplete
<1>7. QED
  BY <1>2, <1>4, <1>5, <1>6 DEF SimulatorInv

(* What is published during a load is the next input, during a run what    *)
(* the kernel of the instruction proposed.                                 *)
LEMMA CommitDoneInv ==
  ASSUME SimulatorInv, CommitDone
  PROVE  SimulatorInv'
<1>1. /\ Device!Publish /\ UNCHANGED <<call, outcome, outputs, loaded, calls>>
      /\ status = "committing" /\ status' = "committed"
      /\ phase \in {"host", "load", "run"} /\ outcome = "none" /\ program' = program
  BY DEF CommitDone, Device!Publish, SimulatorInv, ControlPart, program
<1>2. DevicePart' /\ memory' = Overlay(memory, effects)
  BY <1>1, PublishPart DEF SimulatorInv
<1>3. CASE phase = "host"
  <2>1. phase' = "idle" /\ UNCHANGED <<pc, trace>>
    BY <1>3 DEF CommitDone
  <2>2. ControlPart' /\ CommitPart' /\ UntouchedPart' /\ LoadedPart'
    BY <1>1, <2>1 DEF ControlPart, CommitPart, UntouchedPart, LoadedPart, CallOutcomes
  <2>3. CallPart'
    BY <1>1, <2>1 DEF SimulatorInv, CallPart
  <2>4. ResultPart'
    BY <1>1, <2>1 DEF SimulatorInv, ResultPart, ResultIsComplete
  <2>5. QED
    BY <1>2, <2>2, <2>3, <2>4 DEF SimulatorInv
<1>4. CASE phase = "load"
  <2>1. phase' = "load" /\ pc' = pc + 1 /\ trace' = trace
    BY <1>4 DEF CommitDone
  <2>2. /\ pc \in DOMAIN call.inputs /\ effects = <<InputEffect(call, pc)>>
        /\ call.fresh /\ trace = <<>> /\ outputs = <<>>
    BY <1>1, <1>4 DEF SimulatorInv, CommitPart, ControlPart, ResultPart
  <2>3. Len(call.inputs) \in Nat /\ DOMAIN call.inputs = 1..Len(call.inputs)
    BY DEF SimulatorInv, CallPart, IsTuple
  <2>4. /\ pc \in Nat \ {0} /\ pc' - 1 = pc /\ pc' \in 1..(Len(call.inputs) + 1)
        /\ 1..pc \subseteq DOMAIN call.inputs
    BY <2>1, <2>2, <2>3
  <2>5. ControlPart' /\ CommitPart' /\ UntouchedPart'
    BY <1>1, <2>1, <2>2, <2>4 DEF ControlPart, CommitPart, UntouchedPart
  <2>6. CallPart'
    BY <1>1, <1>4, <2>1 DEF SimulatorInv, CallPart
  <2>7. LoadedPart'
    <3>1. memory' = Write(memory, InputEffect(call, pc))
      BY <1>2, <2>2, OverlayOne DEF SimulatorInv, DevicePart
    <3>2. Holds(call, memory, pc - 1) /\ ValidManifest(call)
      BY <1>4, <2>2 DEF SimulatorInv, LoadedPart, CallPart
    <3>3. Holds(call, memory', pc)
      <4>1. /\ SpanInBounds(call.inputs[pc].span)
            /\ IsTuple(InputEffect(call, pc).values)
            /\ Len(InputEffect(call, pc).values) = call.inputs[pc].span.count
            /\ InputEffect(call, pc).space = call.inputs[pc].span.space
            /\ InputEffect(call, pc).start = call.inputs[pc].span.start
        BY <1>4, <2>2, InputFits DEF SimulatorInv
      <4>2. QED
        BY <2>4, <3>1, <3>2, <4>1, LoadOne
    <3>4. QED
      BY <1>1, <2>1, <2>4, <3>3 DEF LoadedPart, CallOutcomes
  <2>8. ResultPart'
    BY <1>1, <2>1, <2>2, EmptyTuple DEF ResultPart, ResultIsComplete
  <2>9. QED
    BY <1>2, <2>5, <2>6, <2>7, <2>8 DEF SimulatorInv
<1>5. CASE phase = "run"
  <2>1. /\ phase' = "run" /\ pc' = pc + 1
        /\ trace' = IF call.traced THEN Append(trace, effects) ELSE trace
    BY <1>5 DEF CommitDone
  <2>2. pc \in DOMAIN program
    BY <1>1, <1>5 DEF SimulatorInv, CommitPart
  <2>3. Len(program) \in Nat /\ DOMAIN program = 1..Len(program)
    BY DEF SimulatorInv, CallPart, IsTuple
  <2>4. pc' - 1 = pc /\ pc' \in 1..(Len(program) + 1) /\ (pc - 1) + 1 = pc
    BY <2>1, <2>2, <2>3
  <2>5. ControlPart' /\ CommitPart' /\ UntouchedPart'
    BY <1>1, <2>1, <2>4 DEF ControlPart, CommitPart, UntouchedPart
  <2>6. CallPart' /\ LoadedPart'
    BY <1>1, <1>5, <2>1 DEF SimulatorInv, CallPart, LoadedPart
  <2>7. ResultPart'
    <3>1. IsTuple(trace) /\ outputs = <<>> /\ (call.traced => Len(trace) = pc - 1)
      BY <1>5 DEF SimulatorInv, ResultPart
    <3>2. IsTuple(trace') /\ (call.traced => Len(trace') = pc)
      BY <2>1, <2>4, <3>1, TupleAppend
    <3>3. QED
      BY <1>1, <2>1, <2>4, <3>1, <3>2 DEF ResultPart, ResultIsComplete
  <2>8. QED
    BY <1>2, <2>5, <2>6, <2>7 DEF SimulatorInv
<1>6. QED
  BY <1>1, <1>3, <1>4, <1>5

(* Only a host write is ever refused: the effects of a call fit.           *)
LEMMA RefusalIsOfHostWrite ==
  ASSUME SimulatorInv, CommitFault
  PROVE  phase = "host"
<1>1. /\ status = "committing"
      /\ \/ effects = <<>>
         \/ next \in DOMAIN effects /\ ~EffectInBounds(effects[next])
  BY DeviceOperators DEF CommitFault, Device!RejectCommit
<1>2. ~FittingEffects(effects)
  BY <1>1 DEF FittingEffects
<1>3. QED
  BY <1>1, <1>2, CallEffectsFit DEF SimulatorInv, ControlPart

\* A refused host write ends its call with nothing changed (state.py:426-436).
LEMMA CommitFaultInv ==
  ASSUME SimulatorInv, CommitFault
  PROVE  SimulatorInv'
<1>1. phase = "host"
  BY RefusalIsOfHostWrite
<1>2. /\ Device!RejectCommit /\ phase' = "idle" /\ outcome' = outcome
      /\ UNCHANGED <<call, pc, outputs, trace, loaded, calls>>
      /\ outcome = "none" /\ program' = program
  BY <1>1 DEF CommitFault, Finish, SimulatorInv, ControlPart, program
<1>3. DevicePart' /\ status' = "rejected"
  BY <1>2, RejectPart DEF SimulatorInv
<1>4. ControlPart' /\ CommitPart' /\ UntouchedPart' /\ LoadedPart'
  BY <1>2, <1>3 DEF ControlPart, CommitPart, UntouchedPart, LoadedPart, CallOutcomes
<1>5. CallPart'
  BY <1>2 DEF SimulatorInv, CallPart
<1>6. ResultPart'
  BY <1>2 DEF SimulatorInv, ResultPart, ResultIsComplete
<1>7. QED
  BY <1>3, <1>4, <1>5, <1>6 DEF SimulatorInv

\* A step that changes nothing keeps the invariant.
LEMMA UnchangedInv ==
  ASSUME SimulatorInv, UNCHANGED vars
  PROVE  SimulatorInv'
<1>1. UNCHANGED <<memory, effects, status, phase, call, pc, outcome, outputs, trace, loaded>>
      /\ program' = program /\ DevicePart'
  BY DeviceKept DEF SimulatorInv, vars, deviceVars, callVars, program
<1>2. ControlPart' /\ CommitPart' /\ UntouchedPart'
  BY <1>1 DEF SimulatorInv, ControlPart, CommitPart, UntouchedPart
<1>3. CallPart' /\ LoadedPart' /\ ResultPart'
  BY <1>1 DEF SimulatorInv, CallPart, LoadedPart, ResultPart, ResultIsComplete
<1>4. QED
  BY <1>1, <1>2, <1>3 DEF SimulatorInv

\* Every step of the simulator and of its caller keeps the inductive invariant.
LEMMA NextSimulator == SimulatorInv /\ [Next]_vars => SimulatorInv'
<1> SUFFICES ASSUME SimulatorInv, [Next]_vars PROVE SimulatorInv'
  OBVIOUS
<1>1. CASE Caller
  BY <1>1, ExecuteFunctionallyInv, ExecuteProgramInv, HostWriteInv DEF Caller
<1>2. CASE Preflight \/ PreflightDone \/ LoadInput \/ LoadDone
  BY <1>2, PreflightInv, PreflightDoneInv, LoadInputInv, LoadDoneInv
<1>3. CASE PrepareInstruction \/ InstructionFault \/ StageEffect \/ CommitDone \/ CommitFault
  BY <1>3, PrepareInstructionInv, InstructionFaultInv, StageEffectInv, CommitDoneInv,
     CommitFaultInv
<1>4. CASE ProgramDone \/ ExtractOutput \/ ReturnResult
  BY <1>4, ProgramDoneInv, ExtractOutputInv, ReturnResultInv
<1>5. CASE UNCHANGED vars
  BY <1>5, UnchangedInv
<1>6. QED
  BY <1>1, <1>2, <1>3, <1>4, <1>5 DEF Next, Simulator

\* The inductive invariant holds in every state a call can reach.
LEMMA SimulatorInvariant == Spec => []SimulatorInv
BY InitSimulator, NextSimulator, PTL DEF Spec

-----------------------------------------------------------------------------
(* The theorems. *)

(***************************************************************************)
(* No destination of a validated instruction, and no binding of a          *)
(* validated manifest, is refused by the commit: the "validated            *)
(* destination guard" of _execute_instruction is unreachable, on every     *)
(* device and for every program.                                           *)
(***************************************************************************)
THEOREM DestinationGuardNeverFires == Spec => []DestinationGuardUnreachable
<1>1. SimulatorInv => DestinationGuardUnreachable
  BY DEF SimulatorInv, ControlPart, DestinationGuardUnreachable
<1>2. QED
  BY <1>1, SimulatorInvariant, PTL

(* A program refused by preflight, or a request refused for its host       *)
(* values, has changed nothing (execution.py, api.py).                     *)
THEOREM RefusalsChangeNothing == Spec => []RefusedBeforeAnyEffect
<1>1. SimulatorInv => RefusedBeforeAnyEffect
  BY DEF SimulatorInv, UntouchedPart, RefusedBeforeAnyEffect
<1>2. QED
  BY <1>1, SimulatorInvariant, PTL

(* When the first instruction of execute_functionally runs, the device     *)
(* holds every input binding and nothing else (_materialize_input).        *)
THEOREM InputsArriveIntact == Spec => []InputsLoadedIntact
<1>1. SimulatorInv => InputsLoadedIntact
  <2> SUFFICES ASSUME SimulatorInv, call.fresh,
                      phase \in {"run", "extract"} \/ outcome \in CallOutcomes
               PROVE  /\ \A k \in DOMAIN call.inputs :
                           Contents(loaded, call.inputs[k].span) = ValuesFor(call.inputs[k].name)
                      /\ \A l \in Location : loaded[l] # Uninit =>
                           \E k \in DOMAIN call.inputs : l \in Cells(call.inputs[k].span)
    BY DEF InputsLoadedIntact
  <2>1. Holds(call, loaded, Len(call.inputs))
    BY DEF SimulatorInv, LoadedPart
  <2>2. DOMAIN call.inputs = 1..Len(call.inputs)
    BY DEF SimulatorInv, CallPart, IsTuple
  <2>3. \A k \in DOMAIN call.inputs :
          InputEffect(call, k).values = ValuesFor(call.inputs[k].name)
    BY DEF InputEffect, ValuesFor, Effect
  <2>4. QED
    BY <2>1, <2>2, <2>3 DEF Holds
<1>2. QED
  BY <1>1, SimulatorInvariant, PTL

(* A result carries one value per output scalar, read after the last       *)
(* instruction, and one trace event per instruction (_extract_output).     *)
THEOREM ResultsAreComplete == Spec => []ResultIsComplete
<1>1. SimulatorInv => ResultIsComplete
  BY DEF SimulatorInv, ResultPart
<1>2. QED
  BY <1>1, SimulatorInvariant, PTL

(***************************************************************************)
(* An instruction takes effect in one step, and what it writes is what its *)
(* kernel computes from the memory it takes effect on                      *)
(* (_execute_instruction, commit_effects).                                 *)
(***************************************************************************)
THEOREM InstructionsTakeEffectAtOnce == Spec => InstructionsAtomic
<1> DEFINE Atomically ==
      phase = "run" /\ memory' # memory =>
        /\ pc' = pc + 1
        /\ Supported(program[pc])
        /\ memory' = Overlay(memory, ProposedEffects(program[pc], memory))
<1>1. SimulatorInv /\ [Next]_vars => [Atomically]_vars
  <2> SUFFICES ASSUME SimulatorInv, Next, phase = "run", memory' # memory
               PROVE  /\ pc' = pc + 1
                      /\ Supported(program[pc])
                      /\ memory' = Overlay(memory, ProposedEffects(program[pc], memory))
    OBVIOUS
  <2>1. CommitDone
    <3>1. ~Caller
      BY DEF Caller, ExecuteFunctionally, ExecuteProgram, HostWrite, StartCall
    <3>2. ~(Preflight \/ PreflightDone \/ LoadInput \/ LoadDone \/ ExtractOutput \/ ReturnResult)
      BY DEF Preflight, PreflightDone, PreflightBy, LoadInput, LoadDone, LoadDoneAt,
             ExtractOutput, ReturnResult
    <3>3. ~(PrepareInstruction \/ InstructionFault \/ StageEffect \/ CommitFault \/ ProgramDone)
      BY DEF PrepareInstruction, Propose, Device!BeginCommit, InstructionFault, StageEffect,
             Device!StageEffect, CommitFault, Device!RejectCommit, ProgramDone,
             ProgramDoneBy, deviceVars
    <3>4. QED
      BY <3>1, <3>2, <3>3 DEF Next, Simulator
  <2>2. status = "committing" /\ pc' = pc + 1
    BY <2>1 DEF CommitDone, Device!Publish
  <2>3. memory' = Overlay(memory, effects)
    BY <2>1, PublishPart DEF CommitDone, SimulatorInv
  <2>4. pc \in DOMAIN program /\ effects = ProposedEffects(program[pc], memory)
    BY <2>2 DEF SimulatorInv, CommitPart
  <2>5. Supported(program[pc])
    BY <2>4 DEF SimulatorInv, CallPart
  <2>6. QED
    BY <2>2, <2>3, <2>4, <2>5
<1>2. QED
  BY <1>1, SimulatorInvariant, PTL DEF Spec, InstructionsAtomic

-----------------------------------------------------------------------------
(* The trace. *)

(* from becomes to by the traced effects es: history[k] is the memory      *)
(* after the first k instructions.                                         *)
Replays(from, es, to) ==
  \E history :
    /\ history[0] = from /\ history[Len(es)] = to
    /\ \A k \in 1..Len(es) : history[k] = Overlay(history[k - 1], es[k])

TraceReplays ==
  call.traced /\ (phase \in {"run", "extract"} \/ outcome \in CallOutcomes)
    => Replays(loaded, trace, memory)

\* A memory is reached from itself by no effects.
LEMMA ReplayNothing == \A mem : Replays(mem, <<>>, mem)
<1> SUFFICES ASSUME NEW mem PROVE Replays(mem, <<>>, mem)
  OBVIOUS
<1> DEFINE history == [k \in {0} |-> mem]
<1>1. history[0] = mem /\ Len(<<>>) = 0 /\ 1..0 = {}
  OBVIOUS
<1> HIDE DEF history
<1>2. QED
  BY <1>1 DEF Replays

\* Appending what an instruction committed extends the replay by it (execution.py).
LEMMA ReplayOneMore ==
  ASSUME NEW from, NEW es, IsTuple(es), NEW to, Replays(from, es, to), NEW e
  PROVE  Replays(from, Append(es, e), Overlay(to, e))
<1>1. PICK history :
        /\ history[0] = from /\ history[Len(es)] = to
        /\ \A k \in 1..Len(es) : history[k] = Overlay(history[k - 1], es[k])
  BY DEF Replays
<1> DEFINE longer == [k \in 0..(Len(es) + 1) |->
                        IF k = Len(es) + 1 THEN Overlay(to, e) ELSE history[k]]
<1>2. Len(es) \in Nat /\ Len(Append(es, e)) = Len(es) + 1
      /\ Append(es, e)[Len(es) + 1] = e
      /\ \A k \in 1..Len(es) : Append(es, e)[k] = es[k]
  BY TupleAppend DEF IsTuple
<1>3. \A n \in Nat :
        /\ 0 \in 0..(n + 1) /\ 0 # n + 1 /\ n + 1 \in 0..(n + 1) /\ (n + 1) - 1 = n
        /\ n \in 0..(n + 1) /\ n # n + 1
        /\ \A k \in 1..(n + 1) : k = n + 1 \/ k \in 1..n
        /\ \A k \in 1..n : /\ k \in 0..(n + 1) /\ k # n + 1
                           /\ k - 1 \in 0..(n + 1) /\ k - 1 # n + 1
  OBVIOUS
<1>4. /\ longer[0] = from /\ longer[Len(es) + 1] = Overlay(to, e) /\ longer[Len(es)] = to
      /\ \A k \in 1..Len(es) : longer[k] = history[k] /\ longer[k - 1] = history[k - 1]
  BY <1>1, <1>2, <1>3
<1> HIDE DEF longer
<1>5. ASSUME NEW k \in 1..(Len(es) + 1)
      PROVE  longer[k] = Overlay(longer[k - 1], Append(es, e)[k])
  <2>1. CASE k = Len(es) + 1
    BY <1>2, <1>3, <1>4, <2>1
  <2>2. CASE k \in 1..Len(es)
    BY <1>1, <1>2, <1>4, <2>2
  <2>3. QED
    BY <1>2, <1>3, <2>1, <2>2
<1>6. QED
  BY <1>2, <1>4, <1>5 DEF Replays

(* A step that leaves memory, trace and loaded alone keeps the replay, and *)
(* a step to another phase starts from nothing traced.                     *)
LEMMA ReplayStep ==
  ASSUME SimulatorInv, TraceReplays, [Next]_vars
  PROVE  TraceReplays'
<1>1. CASE Caller
  BY <1>1 DEF Caller, ExecuteFunctionally, ExecuteProgram, HostWrite, StartCall,
              TraceReplays, CallOutcomes
<1>2. CASE Preflight
  BY <1>2 DEF Preflight, Finish, TraceReplays, CallOutcomes, SimulatorInv, ControlPart
<1>3. CASE PreflightDone
  <2>1. memory = loaded /\ trace = <<>> /\ outcome = "none"
        /\ UNCHANGED <<memory, loaded, trace>>
    BY <1>3 DEF PreflightDone, PreflightBy, SimulatorInv, UntouchedPart, ControlPart, deviceVars
  <2>2. QED
    BY <2>1, ReplayNothing DEF TraceReplays
<1>4. CASE LoadDone
  <2>1. trace = <<>> /\ trace' = <<>> /\ loaded' = memory /\ memory' = memory
    BY <1>4 DEF LoadDone, LoadDoneAt, SimulatorInv, ResultPart, deviceVars
  <2>2. QED
    BY <2>1, ReplayNothing DEF TraceReplays
<1>5. CASE CommitDone
  <2>1. UNCHANGED <<call, outcome, loaded>> /\ outcome = "none" /\ status = "committing"
    BY <1>5 DEF CommitDone, Device!Publish, SimulatorInv, ControlPart
  <2>2. CASE phase = "run"
    <3>1. phase' = "run" /\ (call.traced => trace' = Append(trace, effects))
      BY <1>5, <2>2 DEF CommitDone
    <3>2. memory' = Overlay(memory, effects) /\ IsTuple(trace)
      BY <1>5, PublishPart DEF CommitDone, SimulatorInv, ResultPart
    <3>3. call.traced => Replays(loaded, trace, memory)
      BY <2>2 DEF TraceReplays
    <3>4. QED
      BY <2>1, <3>1, <3>2, <3>3, ReplayOneMore DEF TraceReplays
  <2>3. CASE phase # "run"
    <3>1. phase' \in {"idle", "load"}
      BY <1>5, <2>1, <2>3 DEF CommitDone, SimulatorInv, ControlPart
    <3>2. QED
      BY <2>1, <3>1 DEF TraceReplays, CallOutcomes
  <2>4. QED
    BY <2>2, <2>3
<1>6. CASE CommitFault
  <2>1. phase = "host"
    BY <1>6, RefusalIsOfHostWrite
  <2>2. phase' = "idle" /\ outcome' = "none"
    BY <1>6, <2>1 DEF CommitFault, Finish, SimulatorInv, ControlPart
  <2>3. QED
    BY <2>2 DEF TraceReplays, CallOutcomes
<1>7. CASE LoadInput \/ PrepareInstruction \/ StageEffect \/ UNCHANGED vars
  <2>1. UNCHANGED <<memory, loaded, trace, call, phase, outcome>>
    BY <1>7 DEF LoadInput, PrepareInstruction, Propose, Device!BeginCommit, StageEffect,
                Device!StageEffect, callVars, deviceVars, vars
  <2>2. QED
    BY <2>1 DEF TraceReplays
<1>8. CASE InstructionFault \/ ProgramDone \/ ExtractOutput \/ ReturnResult
  <2>1. UNCHANGED <<memory, loaded, trace, call>> /\ phase \in {"run", "extract"}
    BY <1>8 DEF InstructionFault, ProgramDone, ProgramDoneBy, ExtractOutput, ReturnResult,
                deviceVars
  <2>2. QED
    BY <2>1 DEF TraceReplays
<1>9. QED
  BY <1>1, <1>2, <1>3, <1>4, <1>5, <1>6, <1>7, <1>8 DEF Next, Simulator

(* The recursive function inside Replayed. *)
ReplayFunction(f) ==
  f = [n \in 0..Len(trace) |-> IF n = 0 THEN loaded ELSE Overlay(f[n - 1], trace[n])]

(***************************************************************************)
(* Applying the traced effects in order leads where a replay ends: the     *)
(* history of a replay solves the equation of the recursive function, and  *)
(* the least index at which two solutions differ would be neither zero nor *)
(* the successor of one at which they agree.                               *)
(***************************************************************************)
LEMMA ReplayedIsReached ==
  ASSUME Len(trace) \in Nat, NEW to, Replays(loaded, trace, to)
  PROVE  Replayed = to
<1>1. PICK history :
        /\ history[0] = loaded /\ history[Len(trace)] = to
        /\ \A k \in 1..Len(trace) : history[k] = Overlay(history[k - 1], trace[k])
  BY DEF Replays
<1> DEFINE L == Len(trace)
           h == [k \in 0..L |-> history[k]]
           f == CHOOSE g : ReplayFunction(g)
           Differ == {k \in 0..L : f[k] # h[k]}
<1>2. h[0] = loaded /\ h[L] = to /\ \A k \in 1..L : h[k] = Overlay(h[k - 1], trace[k])
  <2>1. 0 \in 0..L /\ L \in 0..L /\ \A k \in 1..L : k \in 0..L /\ k - 1 \in 0..L
    OBVIOUS
  <2>2. h[0] = history[0] /\ h[L] = history[L]
        /\ \A k \in 1..L : h[k] = history[k] /\ h[k - 1] = history[k - 1]
    BY <2>1
  <2> HIDE DEF h
  <2> QED  BY <1>1, <2>2
<1>3. ReplayFunction(h)
  <2>1. h = [k \in 0..L |-> h[k]]
    OBVIOUS
  <2> HIDE DEF h
  <2>2. ASSUME NEW k \in 0..L
        PROVE  h[k] = IF k = 0 THEN loaded ELSE Overlay(h[k - 1], trace[k])
    <3>1. k = 0 \/ k \in 1..L
      OBVIOUS
    <3> QED  BY <3>1, <1>2
  <2> QED  BY <2>1, <2>2 DEF ReplayFunction
<1>4. ReplayFunction(f)
  BY <1>3
<1>5. Replayed = f[L]
  BY DEF Replayed, ReplayFunction
<1> HIDE DEF f, h
<1>6. \A k \in 0..L : f[k] = IF k = 0 THEN loaded ELSE Overlay(f[k - 1], trace[k])
  BY <1>4 DEF ReplayFunction
<1>7. Differ = {}
  <2> SUFFICES ASSUME Differ # {} PROVE FALSE
    OBVIOUS
  <2>1. PICK m \in Differ : \A k \in Differ : m <= k
    <3>1. Differ \subseteq Nat
      OBVIOUS
    <3> HIDE DEF Differ
    <3> QED  BY <3>1, LeastNatural
  <2>2. m \in 0..L /\ f[m] # h[m]
    OBVIOUS
  <2>3. m # 0
    <3>1. 0 \in 0..L
      OBVIOUS
    <3>2. f[0] = loaded
      BY <1>6, <3>1
    <3> QED  BY <2>2, <3>2, <1>2
  <2>4. m - 1 \in 0..L /\ m \in 1..L /\ m - 1 \notin Differ
    BY <2>1, <2>2, <2>3
  <2>5. f[m - 1] = h[m - 1]
    BY <2>4
  <2>6. f[m] = Overlay(f[m - 1], trace[m])
    BY <1>6, <2>2, <2>3
  <2>7. h[m] = Overlay(h[m - 1], trace[m])
    BY <1>2, <2>4
  <2> QED  BY <2>2, <2>5, <2>6, <2>7
<1>8. L \in 0..L
  OBVIOUS
<1> QED  BY <1>2, <1>5, <1>7, <1>8

(***************************************************************************)
(* The trace accounts for memory at every moment of a call, in the middle  *)
(* of a commit and after a failure too: the live contents are reached from *)
(* the contents before the first instruction by the traced effects of the  *)
(* completed instructions, in order (execution.py).                        *)
(***************************************************************************)
THEOREM TraceAccountsForMemory == Spec => []TraceExplainsMemory
<1>1. Init => TraceReplays
  BY DEF Init, TraceReplays, CallOutcomes
<1>2. SimulatorInv /\ TraceReplays /\ [Next]_vars => TraceReplays'
  BY ReplayStep
<1>3. SimulatorInv /\ TraceReplays => TraceExplainsMemory
  <2> SUFFICES ASSUME SimulatorInv, TraceReplays, call.traced,
                      phase \in {"run", "extract"} \/ outcome \in CallOutcomes
               PROVE  memory = Replayed
    BY DEF TraceExplainsMemory
  <2>1. Len(trace) \in Nat
    BY DEF SimulatorInv, ResultPart, IsTuple
  <2>2. Replays(loaded, trace, memory)
    BY DEF TraceReplays
  <2> QED  BY <2>1, <2>2, ReplayedIsReached
<1>4. QED
  BY <1>1, <1>2, <1>3, SimulatorInvariant, PTL DEF Spec

-----------------------------------------------------------------------------
(* The types of the state.  They are kept apart from the inductive         *)
(* invariant above because they alone need the formulas to return stored   *)
(* scalars.                                                                *)

DeviceTyped ==
  /\ memory \in Memory /\ prepared \in Memory
  /\ IsEffectTuple(effects)
  /\ status \in {"idle", "committing", "committed", "rejected"}
  /\ copied \subseteq {Component(s) : s \in Space}
  /\ next \in 1..(Len(effects) + 1)

CallTyped ==
  /\ phase \in Phases /\ outcome \in Outcomes
  /\ loaded \in Memory
  /\ \A k \in DOMAIN call.values : call.values[k].values \in Seq(Value)
  /\ Len(trace) <= Len(program)

(* The types of the device instance are those of this module.              *)
LEMMA DeviceTypes == DeviceTyped <=> Device!DeviceTypeOK
BY DEF DeviceTyped, Device!DeviceTypeOK, Memory, Device!Memory, IsEffectTuple,
       Device!IsEffectTuple, IsEffect, Device!IsEffect, Component, Device!Component,
       Location, Device!Location, Space, Device!Space, Capacity, Device!Capacity,
       DramRow, Device!DramRow, SharedBuffer, Device!SharedBuffer,
       GlobalBuffer, Device!GlobalBuffer, Accumulators, Device!Accumulators,
       Channels, Device!Channels, Banks, Device!Banks, Rows, Device!Rows

\* A fresh device (state.py:65) is well typed.
LEMMA BlankTyped == Blank \in Memory /\ IsEffectTuple(<<>>) /\ Len(<<>>) = 0
BY DEF Blank, Memory, IsEffectTuple

\* Entering commit_effects (state.py:405) with typed effects keeps the types.
LEMMA BeginTyped ==
  ASSUME DeviceTyped, NEW es, IsEffectTuple(es), Device!BeginCommit(es)
  PROVE  DeviceTyped'
<1>1. /\ memory' = memory /\ prepared' = memory /\ effects' = es
      /\ status' = "committing" /\ next' = 1 /\ copied' = {}
  BY DEF Device!BeginCommit
<1>2. Len(es) \in Nat
  BY DEF IsEffectTuple
<1>3. QED
  BY <1>1, <1>2 DEF DeviceTyped

\* Staging one effect (state.py:438-481) writes scalars only.
LEMMA StageTyped ==
  ASSUME DeviceTyped, Device!StageEffect
  PROVE  DeviceTyped'
<1> DEFINE e == effects[next]
<1>1. /\ next \in DOMAIN effects /\ EffectInBounds(e)
      /\ prepared' = Write(Device!WriteTarget(e), e)
      /\ copied' = copied \cup {Component(e.space)}
      /\ next' = next + 1
      /\ UNCHANGED <<memory, effects, status>>
  BY DeviceOperators DEF Device!StageEffect
<1>2. IsEffect(e) /\ e.space \in Space /\ Len(effects) \in Nat /\ next \in 1..Len(effects)
  BY <1>1 DEF DeviceTyped, IsEffectTuple, EffectInBounds
<1>3. Device!WriteTarget(e) \in Memory
  BY DeviceOperators DEF Device!WriteTarget, DeviceTyped, Memory
<1>4. prepared' \in Memory
  BY <1>1, <1>2, <1>3, WriteType
<1>5. next' \in 1..(Len(effects) + 1)
  BY <1>1, <1>2
<1> HIDE DEF e
<1>6. QED
  BY <1>1, <1>2, <1>4, <1>5 DEF DeviceTyped

\* Publishing the replacements (state.py:482-503) keeps the types.
LEMMA PublishTyped ==
  ASSUME DeviceTyped, Device!Publish
  PROVE  DeviceTyped'
<1>1. memory' \in Memory
  BY DeviceOperators DEF Device!Publish, DeviceTyped, Memory
<1>2. QED
  BY <1>1 DEF Device!Publish, DeviceTyped

\* A refused commit leaves the contents alone (state.py:426-436).
LEMMA RejectTyped ==
  ASSUME DeviceTyped, Device!RejectCommit
  PROVE  DeviceTyped'
BY DEF Device!RejectCommit, DeviceTyped

\* A call begins on a typed device, with the host's values as scalars.
LEMMA CallerTyped ==
  ASSUME SimulatorInv, DeviceTyped, CallTyped, Caller
  PROVE  DeviceTyped' /\ CallTyped'
<1>1. Len(program) \in Nat
  BY DEF SimulatorInv, CallPart, IsTuple
<1>2. ASSUME NEW request \in Requests, ExecuteFunctionally(request)
      PROVE  DeviceTyped' /\ CallTyped'
  <2>1. /\ memory' = Blank /\ prepared' = Blank /\ effects' = <<>> /\ status' = "idle"
        /\ copied' = {} /\ next' = 1 /\ loaded' = Blank /\ phase' = "preflight"
        /\ outcome' = "none" /\ trace' = <<>> /\ call' = CallOf(request)
    BY <1>2 DEF ExecuteFunctionally, StartCall
  <2>2. program' = request.program /\ call'.values = request.values
    BY <2>1 DEF program, CallOf
  <2>3. /\ Len(request.program) \in Nat
        /\ \A k \in DOMAIN request.values : request.values[k].values \in Seq(Value)
    BY CallsAssumption DEF IsTuple
  <2>4. Len(trace') <= Len(program')
    BY <2>1, <2>2, <2>3, BlankTyped
  <2>5. QED
    BY <2>1, <2>2, <2>3, <2>4, BlankTyped DEF DeviceTyped, CallTyped, Phases, Outcomes
<1>3. ASSUME NEW p \in Programs, ExecuteProgram(p)
      PROVE  DeviceTyped' /\ CallTyped'
  <2>1. /\ UNCHANGED deviceVars /\ loaded' = memory /\ phase' = "preflight"
        /\ outcome' = "none" /\ trace' = <<>> /\ call' = [NoCall EXCEPT !.program = p]
    BY <1>3 DEF ExecuteProgram, StartCall
  <2>2. program' = p /\ call'.values = <<>>
    BY <2>1 DEF program, NoCall
  <2>3. Len(p) \in Nat
    BY CallsAssumption DEF IsTuple
  <2>4. Len(trace') <= Len(program')
    BY <2>1, <2>2, <2>3, BlankTyped
  <2>5. QED
    BY <2>1, <2>2, <2>4, EmptyTuple DEF DeviceTyped, CallTyped, Phases, Outcomes, deviceVars
<1>4. ASSUME NEW e \in HostWrites, HostWrite(e)
      PROVE  DeviceTyped' /\ CallTyped'
  <2>1. /\ Device!BeginCommit(<<e>>) /\ phase' = "host" /\ outcome' = "none"
        /\ trace' = <<>> /\ UNCHANGED <<call, pc, outputs, loaded>> /\ program' = program
    BY <1>4 DEF HostWrite, program
  <2>2. IsEffectTuple(<<e>>)
    BY CallsAssumption DEF IsEffectTuple
  <2>3. DeviceTyped'
    BY <2>1, <2>2, BeginTyped
  <2>4. Len(trace') <= Len(program')
    BY <1>1, <2>1, BlankTyped
  <2>5. QED
    BY <2>1, <2>3, <2>4 DEF CallTyped, Phases, Outcomes
<1>5. QED
  BY <1>2, <1>3, <1>4 DEF Caller

\* The steps of a call that leave the contents of the device alone.
LEMMA ControlTyped ==
  ASSUME SimulatorInv, DeviceTyped, CallTyped,
         \/ Preflight \/ PreflightDone \/ LoadDone \/ InstructionFault
         \/ ProgramDone \/ ExtractOutput \/ ReturnResult \/ UNCHANGED vars
  PROVE  DeviceTyped' /\ CallTyped'
<1>1. UNCHANGED <<deviceVars, call, trace>>
  BY DEF Preflight, PreflightDone, PreflightBy, LoadDone, LoadDoneAt, InstructionFault,
         ProgramDone, ProgramDoneBy, ExtractOutput, ReturnResult, vars, callVars, deviceVars
<1>2. loaded' \in {loaded, memory}
  BY DEF Preflight, PreflightDone, PreflightBy, LoadDone, LoadDoneAt, InstructionFault,
         ProgramDone, ProgramDoneBy, ExtractOutput, ReturnResult, vars, callVars
<1>3. phase' \in Phases
  BY DEF Preflight, PreflightDone, PreflightBy, LoadDone, LoadDoneAt, InstructionFault,
         ProgramDone, ProgramDoneBy, ExtractOutput, ReturnResult, vars, callVars, Finish,
         Phases, CallTyped
<1>4. outcome' \in Outcomes
  BY DEF Preflight, PreflightDone, PreflightBy, LoadDone, LoadDoneAt, InstructionFault,
         ProgramDone, ProgramDoneBy, ExtractOutput, ReturnResult, vars, callVars, Finish,
         Outcomes, CallOutcomes, Faults, CallTyped
<1>5. program' = program
  BY <1>1 DEF program
<1>6. QED
  BY <1>1, <1>2, <1>3, <1>4, <1>5 DEF DeviceTyped, CallTyped, deviceVars

\* A binding is loaded with the host's scalars (api.py _materialize_input).
LEMMA LoadTyped ==
  ASSUME SimulatorInv, DeviceTyped, CallTyped, LoadInput
  PROVE  DeviceTyped' /\ CallTyped'
<1>1. /\ phase = "load" /\ pc \in DOMAIN call.inputs
      /\ Device!BeginCommit(<<InputEffect(call, pc)>>)
      /\ UNCHANGED callVars
  BY DEF LoadInput, InputEffect, ValuesFor
<1> DEFINE supplied == Supplied(call.values, call.inputs[pc].name)
           j == CHOOSE m \in supplied : TRUE
<1>2. call.fresh /\ AcceptsValues(call, call.values) /\ ValidManifest(call)
  BY <1>1 DEF SimulatorInv, ControlPart, CallPart
<1>3. supplied # {}
  <2>1. call.inputs[pc].name \in {call.values[m].name : m \in DOMAIN call.values}
    BY <1>1, <1>2 DEF AcceptsValues
  <2>2. QED
    BY <2>1 DEF Supplied
<1>4. j \in DOMAIN call.values
  BY <1>3 DEF Supplied
<1>5. InputEffect(call, pc) =
        Effect(call.inputs[pc].span.space, call.inputs[pc].span.start, call.values[j].values)
  BY DEF InputEffect
<1>6. call.values[j].values \in Seq(Value) /\ call.inputs[pc].span.start \in Nat
  <2>1. SpanInBounds(call.inputs[pc].span)
    BY <1>1, <1>2 DEF ValidManifest
  <2> HIDE DEF j, supplied
  <2>2. QED
    BY <1>4, <2>1 DEF CallTyped, SpanInBounds
<1> HIDE DEF j, supplied
<1>7. IsEffectTuple(<<InputEffect(call, pc)>>)
  BY <1>5, <1>6 DEF IsEffectTuple, IsEffect, Effect
<1>8. DeviceTyped'
  BY <1>1, <1>7, BeginTyped
<1>9. QED
  BY <1>1, <1>8 DEF CallTyped, callVars, program

\* A kernel proposes scalars: its sources were found initialized (execution.py).
LEMMA PrepareTyped ==
  ASSUME ServiceIsStored, SimulatorInv, DeviceTyped, CallTyped, PrepareInstruction
  PROVE  DeviceTyped' /\ CallTyped'
<1> DEFINE es == ProposedEffects(program[pc], memory)
<1>1. /\ phase = "run" /\ pc \in DOMAIN program /\ Faults(program[pc]) = {}
      /\ Device!BeginCommit(es) /\ UNCHANGED callVars
  BY DEF PrepareInstruction, Propose
<1>2. ValidInstruction(program[pc]) /\ Supported(program[pc])
  BY <1>1 DEF SimulatorInv, CallPart, ValidProgram, RefusedInstructions
<1>3. Readable(program[pc], memory)
  BY <1>1 DEF Faults
<1>4. IsEffectTuple(es)
  BY <1>2, <1>3, KernelsStoreScalars DEF DeviceTyped
<1> HIDE DEF es
<1>5. DeviceTyped'
  BY <1>1, <1>4, BeginTyped
<1>6. QED
  BY <1>1, <1>5 DEF CallTyped, callVars, program

(* The commit of an instruction adds one event to the trace, and the       *)
(* instructions completed are among those of the program.                  *)
LEMMA CommitTyped ==
  ASSUME SimulatorInv, DeviceTyped, CallTyped, StageEffect \/ CommitDone \/ CommitFault
  PROVE  DeviceTyped' /\ CallTyped'
<1>1. CASE StageEffect
  <2>1. Device!StageEffect /\ UNCHANGED callVars
    BY <1>1 DEF StageEffect
  <2>2. QED
    BY <2>1, StageTyped DEF CallTyped, callVars, program
<1>2. CASE CommitFault
  <2>1. /\ Device!RejectCommit /\ phase' = "idle"
        /\ outcome' = IF phase = "host" THEN outcome ELSE "destination"
        /\ UNCHANGED <<call, trace, loaded>> /\ program' = program
    BY <1>2 DEF CommitFault, Finish, program
  <2>2. QED
    BY <2>1, RejectTyped DEF CallTyped, Phases, Outcomes
<1>3. CASE CommitDone
  <2>1. /\ Device!Publish /\ phase' \in {"idle", phase} /\ program' = program
        /\ UNCHANGED <<call, outcome, loaded>>
        /\ trace' = trace \/ (phase = "run" /\ call.traced /\ trace' = Append(trace, effects))
    BY <1>3 DEF CommitDone, program
  <2>2. Len(trace') <= Len(program)
    <3>1. CASE trace' = trace
      BY <3>1 DEF CallTyped
    <3>2. CASE phase = "run" /\ call.traced /\ trace' = Append(trace, effects)
      <4>1. status = "committing"
        BY <2>1 DEF Device!Publish
      <4>2. pc \in DOMAIN program /\ Len(trace) = pc - 1 /\ IsTuple(trace) /\ IsTuple(program)
        BY <3>2, <4>1 DEF SimulatorInv, CommitPart, ResultPart, CallPart
      <4>3. pc \in 1..Len(program) /\ Len(program) \in Nat
        BY <4>2, TupleDomain
      <4>4. Len(trace') = Len(trace) + 1
        BY <3>2, <4>2, TupleAppend
      <4>5. QED
        BY <4>2, <4>3, <4>4
    <3>3. QED
      BY <2>1, <3>1, <3>2
  <2>3. QED
    BY <2>1, <2>2, PublishTyped DEF CallTyped, Phases
<1>4. QED
  BY <1>1, <1>2, <1>3

(***************************************************************************)
(* The state is well typed in every state of every sequence of calls: the  *)
(* memory holds stored scalars and nothing else, and the indices of a call *)
(* stay within what they index (execution.py, api.py, state.py).           *)
(***************************************************************************)
THEOREM SimulatorTypeCorrect ==
  ASSUME ServiceIsStored
  PROVE  Spec => []TypeOK
<1>1. Init => DeviceTyped /\ CallTyped
  <2> SUFFICES ASSUME Init PROVE DeviceTyped /\ CallTyped
    OBVIOUS
  <2>1. /\ memory = Blank /\ prepared = Blank /\ effects = <<>> /\ status = "idle"
        /\ copied = {} /\ next = 1 /\ loaded = Blank /\ phase = "idle" /\ outcome = "none"
        /\ trace = <<>> /\ call = NoCall
    BY DeviceOperators DEF Init, Device!DeviceInit
  <2>2. program = <<>> /\ call.values = <<>>
    BY <2>1 DEF program, NoCall
  <2>3. QED
    BY <2>1, <2>2, BlankTyped, EmptyTuple DEF DeviceTyped, CallTyped, Phases, Outcomes
<1>2. SimulatorInv /\ DeviceTyped /\ CallTyped /\ [Next]_vars => DeviceTyped' /\ CallTyped'
  BY CallerTyped, ControlTyped, LoadTyped, PrepareTyped, CommitTyped DEF Next, Simulator
<1>3. SimulatorInv /\ DeviceTyped /\ CallTyped => TypeOK
  <2> SUFFICES ASSUME SimulatorInv, DeviceTyped, CallTyped PROVE TypeOK
    OBVIOUS
  <2>1. Device!DeviceTypeOK
    BY DeviceTypes
  <2>2. phase = "extract" => pc = Len(outputs) + 1
    <3> SUFFICES ASSUME phase = "extract" PROVE pc = Len(outputs) + 1
      OBVIOUS
    <3>1. /\ pc \in 1..(Len(call.outputs) + 1) /\ Len(call.outputs) \in Nat
          /\ outputs = [k \in 1..(pc - 1) |-> Contents(memory, call.outputs[k].span)]
      BY DEF SimulatorInv, ResultPart, CallPart, IsTuple
    <3>2. pc - 1 \in Nat /\ pc = (pc - 1) + 1
      BY <3>1
    <3>3. ASSUME NEW n \in Nat, NEW f, f = [k \in 1..n |-> Contents(memory, call.outputs[k].span)]
          PROVE  Len(f) = n
      BY <3>3
    <3>4. Len(outputs) = pc - 1
      BY <3>1, <3>2, <3>3
    <3>5. QED
      BY <3>2, <3>4
  <2>3. QED
    BY <2>1, <2>2 DEF TypeOK, CallTyped, SimulatorInv, ControlPart
<1>4. QED
  BY <1>1, <1>2, <1>3, SimulatorInvariant, PTL DEF Spec
=============================================================================
