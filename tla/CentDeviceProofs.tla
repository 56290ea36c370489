-------------------------- MODULE CentDeviceProofs --------------------------
(***************************************************************************)
(* Proofs about CentDevice: the staged commit keeps its type and its       *)
(* prefix invariant, and implements the atomic commit of AtomicMemory, for *)
(* every device, every set of values and every proposed tuple of effects.  *)
(***************************************************************************)
EXTENDS CentDevice, CentInstructionProofs

(* The inductive invariant: type and staged prefix together, with the      *)
(* length of the pending tuple.                                            *)
DeviceInv == DeviceTypeOK /\ StagedPrefix

\* A fresh device (state.py:65) satisfies the inductive invariant.
LEMMA InitInv == DeviceInit => DeviceInv
<1> SUFFICES ASSUME DeviceInit PROVE DeviceInv
  OBVIOUS
<1>1. Blank \in Memory
  BY DEF Blank, Memory
<1>2. IsEffectTuple(<<>>) /\ Len(<<>>) = 0
  BY DEF IsEffectTuple
<1>3. QED
  BY <1>1, <1>2 DEF DeviceInit, DeviceInv, DeviceTypeOK, StagedPrefix

\* Entering commit_effects (state.py:405) keeps the inductive invariant.
LEMMA BeginInv ==
  ASSUME DeviceInv, NEW es \in EffectTuples, BeginCommit(es)
  PROVE  DeviceInv'
<1>1. IsEffectTuple(es)
  BY EffectTuplesAssumption
<1>2. DeviceTypeOK'
  BY <1>1 DEF DeviceInv, DeviceTypeOK, BeginCommit, IsEffectTuple
<1>3. OverlayPrefix(memory, es, 0) = memory
  <2>1. memory = [l \in Location |-> memory[l]]
    BY DEF DeviceInv, DeviceTypeOK, Memory
  <2>2. QED
    BY <2>1, OverlayNothing
<1>4. StagedPrefix'
  BY <1>3 DEF StagedPrefix, BeginCommit
<1>5. QED
  BY <1>2, <1>4 DEF DeviceInv

(* While staging, cells of objects without a copy still have their live    *)
(* contents in prepared.                                                   *)
LEMMA UncopiedIsLive ==
  ASSUME DeviceInv, status = "committing",
         NEW l \in Location, Component(l[1]) \notin copied
  PROVE  prepared[l] = memory[l]
<1>1. /\ prepared = OverlayPrefix(memory, effects, next - 1)
      /\ \A i \in 1..(next - 1) : Component(effects[i].space) \in copied
  BY DEF DeviceInv, StagedPrefix
<1>2. Writers(effects, next - 1, l) = {}
  BY <1>1 DEF Writers, Covers
<1>3. QED
  BY <1>1, <1>2 DEF OverlayPrefix

\* The copy an effect is written to already holds every earlier effect on its object
\* (state.py:484, the reuse of a replacement that exists).
LEMMA WriteTargetIsPrepared ==
  ASSUME DeviceInv, status = "committing", NEW e
  PROVE  WriteTarget(e) = prepared
<1>1. prepared \in Memory
  BY DEF DeviceInv, DeviceTypeOK
<1>2. ASSUME Component(e.space) \notin copied
      PROVE  WriteTarget(e) = prepared
  <2>1. \A l \in Location : Component(l[1]) = Component(e.space) =>
                              memory[l] = prepared[l]
    BY <1>2, UncopiedIsLive
  <2>2. prepared = [l \in Location |-> prepared[l]]
    BY <1>1 DEF Memory
  <2>3. WriteTarget(e) =
          [l \in Location |-> IF Component(l[1]) = Component(e.space)
                              THEN memory[l] ELSE prepared[l]]
    BY <1>2 DEF WriteTarget
  <2>4. QED
    BY <2>1, <2>2, <2>3
<1>3. QED
  BY <1>2 DEF WriteTarget

\* Staging one effect (state.py:438-481) keeps the inductive invariant.
LEMMA StageInv ==
  ASSUME DeviceInv, StageEffect
  PROVE  DeviceInv'
<1> DEFINE e == effects[next]
<1>1. /\ status = "committing" /\ next \in DOMAIN effects /\ EffectInBounds(e)
      /\ prepared' = Write(prepared, e)
      /\ copied' = copied \cup {Component(e.space)}
      /\ next' = next + 1
      /\ UNCHANGED <<memory, effects, status>>
  BY WriteTargetIsPrepared DEF StageEffect
<1>2. /\ IsEffectTuple(effects) /\ IsEffect(e) /\ Len(effects) \in Nat
      /\ next \in 1..Len(effects) /\ e.space \in Space
  BY <1>1 DEF DeviceInv, DeviceTypeOK, IsEffectTuple, EffectInBounds
<1>3. prepared' \in Memory
  BY <1>1, <1>2, WriteType DEF DeviceInv, DeviceTypeOK
<1>4. DeviceTypeOK'
  <2>1. next' \in 1..(Len(effects') + 1)
    BY <1>1, <1>2
  <2>2. copied' \subseteq {Component(s) : s \in Space}
    BY <1>1, <1>2 DEF DeviceInv, DeviceTypeOK
  <2>3. QED
    BY <1>1, <1>3, <2>1, <2>2 DEF DeviceInv, DeviceTypeOK
<1>5. StagedPrefix'
  <2>1. prepared = OverlayPrefix(memory, effects, next - 1)
    BY <1>1 DEF DeviceInv, StagedPrefix
  <2>2. next - 1 \in Nat /\ (next - 1) + 1 = next
    BY <1>2
  <2>3. prepared' = OverlayPrefix(memory, effects, next)
    BY <1>1, <2>1, <2>2, OverlayStep
  <2>4. \A i \in 1..next : EffectInBounds(effects[i])
                            /\ Component(effects[i].space) \in copied'
    BY <1>1, <1>2 DEF DeviceInv, StagedPrefix
  <2>5. next' - 1 = next
    BY <1>1, <1>2
  <2>6. QED
    BY <1>1, <2>3, <2>4, <2>5 DEF StagedPrefix
<1>6. QED
  BY <1>4, <1>5 DEF DeviceInv

(* What is published is the private copies, the live object elsewhere.     *)
LEMMA PublishedIsPrepared ==
  ASSUME DeviceInv, Publish
  PROVE  memory' = prepared
<1>1. prepared = [l \in Location |-> prepared[l]]
  BY DEF DeviceInv, DeviceTypeOK, Memory
<1>2. \A l \in Location : Component(l[1]) \notin copied => prepared[l] = memory[l]
  BY UncopiedIsLive DEF Publish
<1>3. memory' = [l \in Location |->
                   IF Component(l[1]) \in copied THEN prepared[l] ELSE memory[l]]
  BY DEF Publish
<1>4. QED
  BY <1>1, <1>2, <1>3

\* Publishing the replacements (state.py:482-503) keeps the inductive invariant.
LEMMA PublishInv ==
  ASSUME DeviceInv, Publish
  PROVE  DeviceInv'
<1>1. memory' \in Memory
  BY PublishedIsPrepared DEF DeviceInv, DeviceTypeOK
<1>2. QED
  BY <1>1 DEF DeviceInv, DeviceTypeOK, StagedPrefix, Publish

\* A commit refused during preparation (state.py:426-436) keeps the inductive invariant.
LEMMA RejectInv ==
  ASSUME DeviceInv, RejectCommit
  PROVE  DeviceInv'
BY DEF DeviceInv, DeviceTypeOK, StagedPrefix, RejectCommit

\* Every step of the device keeps the inductive invariant.
LEMMA NextInv == DeviceInv /\ [DeviceNext]_deviceVars => DeviceInv'
<1> SUFFICES ASSUME DeviceInv, [DeviceNext]_deviceVars PROVE DeviceInv'
  OBVIOUS
<1>1. CASE \E es \in EffectTuples : BeginCommit(es)
  BY <1>1, BeginInv
<1>2. CASE StageEffect
  BY <1>2, StageInv
<1>3. CASE Publish
  BY <1>3, PublishInv
<1>4. CASE RejectCommit
  BY <1>4, RejectInv
<1>5. CASE UNCHANGED deviceVars
  BY <1>5 DEF DeviceInv, DeviceTypeOK, StagedPrefix, deviceVars
<1>6. QED
  BY <1>1, <1>2, <1>3, <1>4, <1>5 DEF DeviceNext, CommitStep

(* The live contents and the private copies only ever hold scalars, and    *)
(* the staging index never leaves the tuple (commit_effects).              *)
THEOREM DeviceTypeCorrect == DeviceSpec => []DeviceTypeOK
<1>1. DeviceInv => DeviceTypeOK
  BY DEF DeviceInv
<1>2. QED
  BY <1>1, InitInv, NextInv, PTL DEF DeviceSpec

(* Private copies are the live contents with exactly the effects applied   *)
(* so far, in order, also when one object is written several times.        *)
THEOREM StagedPrefixCorrect == DeviceSpec => []StagedPrefix
<1>1. DeviceInv => StagedPrefix
  BY DEF DeviceInv
<1>2. QED
  BY <1>1, InitInv, NextInv, PTL DEF DeviceSpec

-----------------------------------------------------------------------------

(* The abstract specification's operators are those of this module.        *)
LEMMA SameOperators ==
  /\ \A es : Atomic!Acceptable(es) <=>
              es # <<>> /\ \A i \in DOMAIN es : EffectInBounds(es[i])
  /\ \A mem, es : Atomic!Overlay(mem, es) = Overlay(mem, es)
  /\ Atomic!Blank = Blank
BY DEF Atomic!Blank, Blank, Atomic!Acceptable, Atomic!EffectInBounds, EffectInBounds,
       Atomic!Overlay, Atomic!OverlayPrefix, Atomic!Writers, Atomic!LastWriter,
       Atomic!Covers, Atomic!ValueWritten, Atomic!Location,
       Overlay, OverlayPrefix, Writers, LastWriter, Covers, ValueWritten, Location,
       Atomic!Space, Atomic!Capacity, Atomic!DramRow, Atomic!SharedBuffer,
       Atomic!GlobalBuffer, Atomic!Accumulators, Atomic!Channels, Atomic!Banks,
       Atomic!Rows, Space, Capacity, DramRow, SharedBuffer, GlobalBuffer,
       Accumulators, Channels, Banks, Rows

\* Publication is one atomic application of the whole tuple (state.py:482-503).
LEMMA PublishIsApply ==
  ASSUME DeviceInv, Publish
  PROVE  Atomic!Apply
<1>1. /\ status = "committing" /\ effects # <<>> /\ next = Len(effects) + 1
      /\ Len(effects) \in Nat /\ DOMAIN effects = 1..Len(effects)
  BY DEF DeviceInv, DeviceTypeOK, IsEffectTuple, Publish
<1>2. next - 1 = Len(effects)
  BY <1>1
<1>3. \A i \in DOMAIN effects : EffectInBounds(effects[i])
  BY <1>1, <1>2 DEF DeviceInv, StagedPrefix
<1>4. memory' = OverlayPrefix(memory, effects, Len(effects))
  BY <1>1, <1>2, PublishedIsPrepared DEF DeviceInv, StagedPrefix
<1>5. QED
  BY <1>1, <1>3, <1>4, SameOperators DEF Atomic!Apply, Overlay, Publish

\* A refusal, at any effect, leaves the memory as it was (state.py:426-436).
LEMMA RejectIsRefuse ==
  ASSUME DeviceInv, RejectCommit
  PROVE  Atomic!Refuse
BY SameOperators DEF RejectCommit, Atomic!Refuse

(* All or nothing: every commit of CentDeviceState.commit_effects is, as   *)
(* seen by a reader of the live memory, one atomic step that applies all   *)
(* of its effects with later ones winning, or changes nothing.             *)
THEOREM CommitIsAtomic == DeviceSpec => AtomicCommit
<1>1. DeviceInit => Atomic!Init
  BY SameOperators DEF DeviceInit, Atomic!Init
<1>2. DeviceInv /\ [DeviceNext]_deviceVars => [Atomic!Next]_Atomic!vars
  <2> SUFFICES ASSUME DeviceInv, [DeviceNext]_deviceVars
               PROVE  [Atomic!Next]_Atomic!vars
    OBVIOUS
  <2>1. ASSUME NEW es \in EffectTuples, BeginCommit(es)
        PROVE  Atomic!Next
    BY <2>1 DEF BeginCommit, Atomic!Next, Atomic!Call
  <2>2. CASE StageEffect
    BY <2>2 DEF StageEffect, Atomic!vars
  <2>3. CASE Publish
    BY <2>3, PublishIsApply DEF Atomic!Next
  <2>4. CASE RejectCommit
    BY <2>4, RejectIsRefuse DEF Atomic!Next
  <2>5. CASE UNCHANGED deviceVars
    BY <2>5 DEF deviceVars, Atomic!vars
  <2>6. QED
    BY <2>1, <2>2, <2>3, <2>4, <2>5 DEF DeviceNext, CommitStep
<1>3. QED
  BY <1>1, <1>2, InitInv, NextInv, PTL DEF DeviceSpec, AtomicCommit, Atomic!Spec
=============================================================================
