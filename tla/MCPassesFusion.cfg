SPECIFICATION Spec
CONSTANTS
  Modulus <- MCModulus
  Exp <- MCExp
  Divide <- MCDivide
  Sigmoid <- MCSigmoid
  RmsScale <- MCRmsScale
  Sources <- MCSources
INVARIANT FusionNeverFails
