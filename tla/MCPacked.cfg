\* Slots of two to five lanes, vectors of up to fourteen values.
CONSTANTS
  Bursts = {2, 3, 4, 5}
  MaxValues = 14
  Pad = Pad
SPECIFICATION PackSpec
INVARIANTS
  PackedVectorIsWhole
  ContiguityIsExact
CHECK_DEADLOCK FALSE
