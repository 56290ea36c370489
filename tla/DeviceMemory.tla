---------------------------- MODULE DeviceMemory ----------------------------
(***************************************************************************)
(* The contents of a device, the spans that are read and the write effects *)
(* that are committed (simulator/storage.py, simulator/effects.py).        *)
(***************************************************************************)
EXTENDS CentHardware

CONSTANTS
  Value,    \* the scalars a cell can hold
  Uninit    \* the content of a cell that was never written

ASSUME UninitAssumption == Uninit \notin Value

Memory == [Location -> Value \cup {Uninit}]
Blank == [l \in Location |-> Uninit]

-----------------------------------------------------------------------------

(* Spans: count consecutive cells of a space. *)
Span(space, start, count) == [space |-> space, start |-> start, count |-> count]

SpanInBounds(span) ==
  /\ span.space \in Space
  /\ span.count \in Nat \ {0}
  /\ span.start \in Nat
  /\ span.start + span.count <= Capacity(span.space)

Cells(span) == {<<span.space, span.start + k>> : k \in 0..(span.count - 1)}

Initialized(mem, span) == \A l \in Cells(span) : mem[l] # Uninit

Contents(mem, span) ==
  [k \in 1..span.count |-> mem[<<span.space, span.start + k - 1>>]]

-----------------------------------------------------------------------------

(* Write effects: values for consecutive cells of a space. *)
Effect(space, start, values) ==
  [space |-> space, start |-> start, values |-> values]

(* What a caller can construct: values are stored scalars, in any span. *)
IsEffect(e) == e.start \in Nat /\ e.values \in Seq(Value)

IsEffectTuple(es) ==
  /\ Len(es) \in Nat
  /\ DOMAIN es = 1..Len(es)
  /\ \A i \in DOMAIN es : IsEffect(es[i])

EffectInBounds(e) ==
  /\ e.values # <<>>
  /\ e.space \in Space
  /\ e.start + Len(e.values) <= Capacity(e.space)

Covers(e, l) ==
  /\ l[1] = e.space
  /\ l[2] \in e.start..(e.start + Len(e.values) - 1)

ValueWritten(e, l) == e.values[l[2] - e.start + 1]

(* One storage write: the span is replaced, every other cell is kept. *)
Write(mem, e) ==
  [l \in Location |-> IF Covers(e, l) THEN ValueWritten(e, l) ELSE mem[l]]

(***************************************************************************)
(* What the first n effects of a tuple mean: a cell written by several of  *)
(* them takes the value of the last, a cell written by none is kept.       *)
(***************************************************************************)
Writers(es, n, l) == {i \in 1..n : Covers(es[i], l)}

LastWriter(es, n, l) ==
  CHOOSE i \in Writers(es, n, l) : \A j \in Writers(es, n, l) : j <= i

OverlayPrefix(mem, es, n) ==
  [l \in Location |->
     IF Writers(es, n, l) = {} THEN mem[l]
     ELSE ValueWritten(es[LastWriter(es, n, l)], l)]

Overlay(mem, es) == OverlayPrefix(mem, es, Len(es))
=============================================================================
