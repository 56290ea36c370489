\* One channel of four banks; two columns, one row, one register and one slot.
CONSTANTS
  NumChannels = 1
  NumBanks = 4
  DramRows = 1
  DramColumns = 2
  BurstLength = 2
  AccumulatorSlots = 1
  SharedBufferSlots = 1
  GlobalBufferColumns = 2
  v1 = v1
  v2 = v2
  Uninit = Uninit
  Value <- MCValue
  EffectTuples <- MCEffectTuples
SPECIFICATION DeviceSpec
INVARIANTS
  DeviceTypeOK
  StagedPrefix
PROPERTY
  AtomicCommit
