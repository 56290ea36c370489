SPECIFICATION CacheSpec
CONSTANTS
  NumChannels = 4
  NumBanks = 4
  DramRows = 150
  DramColumns = 8
  BurstLength = 2
  AccumulatorSlots = 2
  SharedBufferSlots = 60
  GlobalBufferColumns = 8
  ChannelsPerBlock = 2
  PartOf <- MCPart
  Value <- MCValues
  Uninit = Uninit
  Zero = 0
  Masked = 1
  Add <- MCAdd
  Multiply <- MCAdd
  Rejects <- MCRejects
  Service <- MCService
  CachedRequests <- MCCachedRequests
  MaxSequences = 2
INVARIANTS
  EveryKeyIsScored
  ValuesMeetTheirLane
PROPERTY
  CacheIsTokenLog
CHECK_DEADLOCK FALSE
