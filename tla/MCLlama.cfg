SPECIFICATION Spec
CONSTANTS
  NumChannels = 4
  NumBanks = 4
  DramRows = 150
  DramColumns = 8
  BurstLength = 2
  AccumulatorSlots = 2
  SharedBufferSlots = 80
  GlobalBufferColumns = 8
  ChannelsPerBlock = 2
  PartOf <- MCPart
  Value <- MCValues
  Uninit = Uninit
  Zero = 0
  Masked = 1
  Add <- MCAdd
  Multiply <- MCAdd
  Rejects <- MCRejects
  Service <- MCService
  Requests <- MCRequests
  FaultyRequests <- MCFaultyRequests
INVARIANTS
  
  RefusedLowererAddsNothing
  AttentionSlotsKept
  RowsKept
  WeightRowsMeetTheirInput
PROPERTY
  RefusedBatchAddsNothing
CHECK_DEADLOCK FALSE
