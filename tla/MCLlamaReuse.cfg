SPECIFICATION Spec
CONSTANTS
  NumChannels = 4
  NumBanks = 4
  DramRows = 150
  DramColumns = 4
  BurstLength = 4
  AccumulatorSlots = 2
  SharedBufferSlots = 60
  GlobalBufferColumns = 4
  ChannelsPerBlock = 2
  PartOf <- MCPart
  Value <- MCValues
  Uninit = Uninit
  Zero = 0
  Masked = 1
  Add <- MCAdd
  Multiply <- MCAdd
  Rejects <- MCRejects
  Service <- MCService
  Requests <- MCReuseRequests
  FaultyRequests <- MCNoRequests
INVARIANT
  BlockSlotsKept
CHECK_DEADLOCK FALSE
