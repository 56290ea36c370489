\* Two-lane slots, two accumulators, tight and ample Shared Buffers.
CONSTANTS
  MappingRequests <- MCRequests
  Plans <- MCPlans
  None = None
  Garbage = Garbage
  Unnamed = Unnamed
SPECIFICATION MapperSpec
INVARIANTS
  UnconstrainedPlanAccepted
  OnlyRequiredPlacementsClash
  FreeListsExact
PROPERTY
  MappingSettles
CHECK_DEADLOCK FALSE
