---------------------------- MODULE CentHardware ----------------------------
(***************************************************************************)
(* The dimensions of one CENT device (cent/hardware.py) and the storage    *)
(* they imply (simulator/state.py, simulator/storage.py).                  *)
(*                                                                         *)
(* Every storage region of a device is a linear sequence of scalar cells:  *)
(* a DRAM row, the Shared Buffer, the Global Buffer of a channel, and the  *)
(* accumulation registers of a bank.  A region is called a space here, and *)
(* a scalar cell is a pair <<space, offset>>.                              *)
(***************************************************************************)
EXTENDS Integers, Sequences

CONSTANTS
  NumChannels,          \* channels of the device, 1 to 32
  NumBanks,             \* banks per channel, a multiple of four
  DramRows,             \* rows per bank
  DramColumns,          \* scalar columns per row
  BurstLength,          \* scalars moved by one micro-operation, lanes of a slot
  AccumulatorSlots,     \* accumulation registers per bank
  SharedBufferSlots,    \* slots of the Shared Buffer
  GlobalBufferColumns   \* scalar columns of one channel's Global Buffer

BanksPerGroup == 4

(* CentHardwareSpec.__post_init__ *)
ValidHardware ==
  /\ NumChannels \in 1..32
  /\ NumBanks \in Nat /\ NumBanks >= BanksPerGroup /\ NumBanks % BanksPerGroup = 0
  /\ DramRows \in Nat \ {0}
  /\ DramColumns \in Nat \ {0}
  /\ BurstLength \in 1..DramColumns
  /\ DramColumns % BurstLength = 0
  /\ AccumulatorSlots \in Nat \ {0}
  /\ SharedBufferSlots \in Nat \ {0}
  /\ GlobalBufferColumns \in Nat \ {0}
  /\ GlobalBufferColumns % BurstLength = 0

ASSUME HardwareAssumption == ValidHardware

Channels == 0..(NumChannels - 1)
Banks == 0..(NumBanks - 1)
Rows == 0..(DramRows - 1)

-----------------------------------------------------------------------------

DramRow(channel, bank, row) == <<"dram", channel, bank, row>>
SharedBuffer == <<"shared">>
GlobalBuffer(channel) == <<"global", channel>>
Accumulators(channel, bank) == <<"accumulator", channel, bank>>

Space ==
       {DramRow(c, b, r) : c \in Channels, b \in Banks, r \in Rows}
  \cup {SharedBuffer}
  \cup {GlobalBuffer(c) : c \in Channels}
  \cup {Accumulators(c, b) : c \in Channels, b \in Banks}

(* Scalar cells of a space. *)
Capacity(space) ==
  CASE space[1] = "dram"        -> DramColumns
    [] space[1] = "shared"      -> SharedBufferSlots * BurstLength
    [] space[1] = "global"      -> GlobalBufferColumns
    [] space[1] = "accumulator" -> AccumulatorSlots

Location == UNION {{s} \X (0..(Capacity(s) - 1)) : s \in Space}

(***************************************************************************)
(* The storage object that owns a space.  CentDeviceState holds one DRAM   *)
(* object, one Shared Buffer, one register file, and one Global Buffer     *)
(* object per channel; a commit copies whole objects.                      *)
(***************************************************************************)
Component(space) == IF space[1] = "global" THEN space ELSE <<space[1]>>
=============================================================================
