----------------------------- MODULE CentDevice -----------------------------
(***************************************************************************)
(* CentDeviceState.commit_effects, one step per effect.                    *)
(*                                                                         *)
(* The effects of one instruction are first written to private copies of   *)
(* the storage objects they touch, each object being copied at its first   *)
(* write.  An effect that fails a check abandons the call with the live    *)
(* objects untouched; after the last effect the copies replace them.       *)
(***************************************************************************)
EXTENDS DeviceMemory

CONSTANT EffectTuples   \* the tuples callers propose

ASSUME EffectTuplesAssumption == \A es \in EffectTuples : IsEffectTuple(es)

VARIABLES
  memory,     \* live contents
  effects,    \* tuple proposed by the pending call
  status,     \* "idle", "committing", and the result: "committed", "rejected"
  copied,     \* components that have a private copy
  prepared,   \* contents of the private copies (of the live objects elsewhere)
  next        \* index of the effect to apply next

deviceVars == <<memory, effects, status, copied, prepared, next>>

DeviceInit ==
  /\ memory = Blank
  /\ effects = <<>>
  /\ status = "idle"
  /\ copied = {}
  /\ prepared = Blank
  /\ next = 1

-----------------------------------------------------------------------------

BeginCommitKeepingIndex(es) ==
  /\ status # "committing"
  /\ status' = "committing"
  /\ effects' = es
  /\ copied' = {}
  /\ prepared' = memory
  /\ UNCHANGED <<memory, next>>

(* commit_effects is entered; nothing is copied yet. *)
BeginCommit(es) ==
  /\ status # "committing"
  /\ status' = "committing"
  /\ effects' = es
  /\ copied' = {}
  /\ prepared' = memory
  /\ next' = 1
  /\ UNCHANGED memory

WriteTargetRecloned(e) ==
  [l \in Location |->
     IF Component(l[1]) = Component(e.space) THEN memory[l] ELSE prepared[l]]

(* The object an effect is written to: its private copy, or a fresh clone  *)
(* of the live object at the first write.                                  *)
WriteTarget(e) ==
  IF Component(e.space) \in copied THEN prepared
  ELSE [l \in Location |->
          IF Component(l[1]) = Component(e.space) THEN memory[l] ELSE prepared[l]]

(* A check fails: ValueError, the private copies are dropped. *)
RejectCommit ==
  /\ status = "committing"
  /\ \/ effects = <<>>
     \/ next \in DOMAIN effects /\ ~EffectInBounds(effects[next])
  /\ status' = "rejected"
  /\ UNCHANGED <<memory, effects, copied, prepared, next>>

StageEffectInPlace ==
  /\ status = "committing"
  /\ next \in DOMAIN effects
  /\ EffectInBounds(effects[next])
  /\ prepared' = Write(prepared, effects[next])
  /\ memory' = Write(memory, effects[next])
  /\ copied' = copied \cup {Component(effects[next].space)}
  /\ next' = next + 1
  /\ UNCHANGED <<effects, status>>

StageEffect ==
  /\ status = "committing"
  /\ next \in DOMAIN effects
  /\ EffectInBounds(effects[next])
  /\ prepared' = Write(WriteTarget(effects[next]), effects[next])
  /\ copied' = copied \cup {Component(effects[next].space)}
  /\ next' = next + 1
  /\ UNCHANGED <<memory, effects, status>>

(* Every effect succeeded: the copies become the live objects. *)
Publish ==
  /\ status = "committing"
  /\ effects # <<>>
  /\ next = Len(effects) + 1
  /\ memory' = [l \in Location |->
                  IF Component(l[1]) \in copied THEN prepared[l] ELSE memory[l]]
  /\ status' = "committed"
  /\ UNCHANGED <<effects, copied, prepared, next>>

CommitStep == RejectCommit \/ StageEffect \/ Publish

DeviceNext == (\E es \in EffectTuples : BeginCommit(es)) \/ CommitStep

(***************************************************************************)
(* commit_effects is a plain loop: once entered it is run to its end.      *)
(***************************************************************************)
DeviceSpec == DeviceInit /\ [][DeviceNext]_deviceVars /\ WF_deviceVars(CommitStep)

-----------------------------------------------------------------------------

(* The types of the device's state: every cell holds a scalar or nothing. *)
DeviceTypeOK ==
  /\ memory \in Memory
  /\ prepared \in Memory
  /\ IsEffectTuple(effects)
  /\ status \in {"idle", "committing", "committed", "rejected"}
  /\ copied \subseteq {Component(s) : s \in Space}
  /\ next \in 1..(Len(effects) + 1)

(***************************************************************************)
(* While a call is staging, the private copies hold the effects applied so *)
(* far over the live contents, and an object without a copy is the live    *)
(* one: a later write to an object that was already copied keeps the       *)
(* earlier writes of the same call.                                        *)
(***************************************************************************)
StagedPrefix ==
  status = "committing" =>
    /\ prepared = OverlayPrefix(memory, effects, next - 1)
    /\ \A i \in 1..(next - 1) :
         EffectInBounds(effects[i]) /\ Component(effects[i].space) \in copied

(***************************************************************************)
(* The staged commit implements the atomic one.                            *)
(***************************************************************************)
Atomic == INSTANCE AtomicMemory
AtomicCommit == Atomic!Spec
=============================================================================
