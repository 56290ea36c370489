--------------------------- MODULE ProgramBuilder ---------------------------
(***************************************************************************)
(* CentProgramBuilder (cent/builder.py): the instructions its transfer     *)
(* helpers make of a logical transfer, and what appending a batch does.    *)
(*                                                                         *)
(* Besides the operands CentInstructions names, an instruction carries two *)
(* fields the program has not: needs, the values its lowerer expects in    *)
(* the storage it reads (none named: anything), and makes, the value it    *)
(* leaves in the storage it writes.  MAC_ABK also has streams, the values  *)
(* it expects in the Global Buffer, and expects needs in the rows.         *)
(***************************************************************************)
EXTENDS CentInstructions, VectorLayouts

CONSTANT ChannelsPerBlock    \* CentBlockPlacementSpec: channels of one copy

ASSUME PlacementAssumption == ChannelsPerBlock \in Nat \ {0}

(* CentProgramBuilder.__init__ *)
ValidPlacement ==
  ChannelsPerBlock <= NumChannels /\ NumChannels % ChannelsPerBlock = 0

TotalBanks == ChannelsPerBlock * NumBanks
Copies == NumChannels \div ChannelsPerBlock
AllChannels == [k \in 1..NumChannels |-> k - 1]

(* channels_for_matrix: every complete copy, from channel zero on. *)
ChannelsForMatrix(banks) ==
  LET perMatrix == CeilDiv(banks, NumBanks)
  IN  [k \in 1..((NumChannels \div perMatrix) * perMatrix) |-> k - 1]

(* bank_index, for a bank of the block. *)
BankChannel(bank) == bank \div NumBanks
BankNumber(bank) == bank % NumBanks

-----------------------------------------------------------------------------

(***************************************************************************)
(* _single_bank_transfers: as many bursts as the row still has, then whole *)
(* rows from column zero, the slots running on.                            *)
(***************************************************************************)
SingleBankTransfers(op, channel, bank, row, column, count, slot) ==
  LET bursts == CeilDiv(count, BurstLength)
      first  == (DramColumns - column) \div BurstLength
      whole  == DramColumns \div BurstLength
      done(k) == IF k = 0 THEN 0 ELSE first + (k - 1) * whole
      pieces == 1 + (IF bursts <= first THEN 0 ELSE CeilDiv(bursts - first, whole))
  IN  [k \in 1..pieces |->
         [op |-> op, channel |-> channel, bank |-> bank, row |-> row + k - 1,
          column |-> IF k = 1 THEN column ELSE 0,
          size |-> Lesser(bursts, done(k)) - done(k - 1),
          slot |-> slot + done(k - 1)]]

(* A transfer repeated in the same banks of every copy of the block. *)
TransferPartitions(op, partitions, stride, position, row, count, slot) ==
  Each(partitions, LAMBDA p :
    Each(Copies, LAMBDA copy :
      SingleBankTransfers(op,
        BankChannel(p * stride + position) + ChannelsPerBlock * copy,
        BankNumber(p * stride + position), row, 0, count,
        slot + p * CeilDiv(count, BurstLength))))

NeighborBankTransfer(op, values, position, row, count, slot) ==
  TransferPartitions(op, CeilDiv(values, count), 2, position, row, count, slot)

BankGroupTransfer(op, partitions, position, row, count, slot) ==
  TransferPartitions(op, partitions, BanksPerGroup, position, row, count, slot)

(* A record or function f, with what g adds to it. *)
Extended(f, g) ==
  [x \in DOMAIN f \cup DOMAIN g |-> IF x \in DOMAIN f THEN f[x] ELSE g[x]]

Tagged(batch, needs, makes) ==
  [k \in DOMAIN batch |-> Extended(batch[k], [needs |-> needs, makes |-> makes])]

-----------------------------------------------------------------------------

(***************************************************************************)
(* _append_all: the batch is made in full and every instruction of it is   *)
(* validated before the first is kept.  A refused batch keeps nothing.     *)
(***************************************************************************)
BatchAccepted(batch) == {k \in DOMAIN batch : ~ValidInstruction(batch[k])} = {}

(* A builder that validates and keeps one instruction after the other. *)
AppendWhileValidating(program, batch) ==
  program \o (IF BatchAccepted(batch) THEN batch
              ELSE SubSeq(batch, 1,
                          (CHOOSE k \in DOMAIN batch :
                             /\ ~ValidInstruction(batch[k])
                             /\ \A j \in 1..(k - 1) : ValidInstruction(batch[j])) - 1))

AppendAll(program, batch) == IF BatchAccepted(batch) THEN program \o batch ELSE program

=============================================================================
