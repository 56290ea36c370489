\* Two-lane slots, six of them, one accumulator.
CONSTANTS
  MappingRequests <- MCRequests
  Plans <- MCPlans
  None = None
  Garbage = Garbage
  Unnamed = Unnamed
SPECIFICATION VerifierSpec
INVARIANTS
  VerifierTypeOK
  OperandsIntact
  NothingRuined
  OutputsSurvive
  OperandCheckRedundant
PROPERTY
  EveryPlanSettled
CHECK_DEADLOCK FALSE
