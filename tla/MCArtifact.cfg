\* One channel of eight banks, two-lane bursts, 48 Shared Buffer slots.
CONSTANTS
  NumChannels = 1
  NumBanks = 8
  DramRows = 1
  DramColumns = 4
  BurstLength = 2
  AccumulatorSlots = 2
  SharedBufferSlots = 48
  GlobalBufferColumns = 2
  MaxAccumulateSlots = 3
  Uninit = Uninit
  Value <- MCValue
  Zero = 0
  Masked = 7
  Add <- MCAdd
  Multiply <- MCMultiply
  Service <- MCService
  Rejects <- MCRejects
  Requests = {}
  Programs = {}
  HostWrites = {}
  MaxCalls = 2
  MappingRequests <- MCRequests
  Tensors <- MCTensors
  None = None
  Garbage = Garbage
  Unnamed = Unnamed
SPECIFICATION ArtifactSpec
INVARIANTS
  OutputsAreMeanings
  NeededValuesInPlace
  AcceptedGraphsRun
PROPERTY
  OperationsWriteTheirOwn
CHECK_DEADLOCK FALSE
