---------------------------- MODULE AtomicMemory ----------------------------
(***************************************************************************)
(* What CentDeviceState promises of a commit: a tuple of effects is        *)
(* applied completely, in one step, later effects winning where they       *)
(* overlap, or it is refused and the memory is what it was.                *)
(***************************************************************************)
EXTENDS DeviceMemory

CONSTANT EffectTuples   \* the tuples callers propose

VARIABLES
  memory,     \* live contents
  effects,    \* tuple proposed by the pending call
  status      \* "idle", "committing", and the result: "committed", "rejected"

vars == <<memory, effects, status>>

Acceptable(es) == es # <<>> /\ \A i \in DOMAIN es : EffectInBounds(es[i])

Init == memory = Blank /\ effects = <<>> /\ status = "idle"

Call(es) ==
  /\ status # "committing"
  /\ status' = "committing"
  /\ effects' = es
  /\ UNCHANGED memory

Apply ==
  /\ status = "committing"
  /\ Acceptable(effects)
  /\ memory' = Overlay(memory, effects)
  /\ status' = "committed"
  /\ UNCHANGED effects

Refuse ==
  /\ status = "committing"
  /\ ~Acceptable(effects)
  /\ status' = "rejected"
  /\ UNCHANGED <<memory, effects>>

Next == (\E es \in EffectTuples : Call(es)) \/ Apply \/ Refuse

Spec == Init /\ [][Next]_vars
=============================================================================
