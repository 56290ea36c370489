\* Two channels of four banks, two-lane bursts, four Shared Buffer slots.
CONSTANTS
  NumChannels = 2
  NumBanks = 4
  DramRows = 1
  DramColumns = 2
  BurstLength = 2
  AccumulatorSlots = 1
  SharedBufferSlots = 4
  GlobalBufferColumns = 2
  Uninit = Uninit
  Value <- MCValue
  Zero = 0
  Masked = 3
  Add <- MCAdd
  Multiply <- MCMultiply
  Service <- MCService
  Rejects <- MCRejects
  Requests <- MCRequests
  Programs <- MCKeptPrograms
  HostWrites <- MCHostWrites
  MaxCalls = 2
SPECIFICATION Spec
INVARIANTS
  TypeOK
  DestinationGuardUnreachable
  InputsLoadedIntact
  TraceExplainsMemory
  RefusedBeforeAnyEffect
  ResultIsComplete
PROPERTIES
  InstructionsAtomic
  CallsReturn
CHECK_DEADLOCK FALSE
