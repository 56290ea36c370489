SPECIFICATION Spec
CONSTANTS
  Modulus <- MCModulus
  Exp <- MCExp
  Divide <- MCDivide
  Sigmoid <- MCSigmoid
  RmsScale <- MCRmsScale
  Sources <- MCSources
INVARIANTS
  IrTypeOK
  PassesKeepMeaning
  ValuesMoveOnce
  DirectOpsAreLowered
