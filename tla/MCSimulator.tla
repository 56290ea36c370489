----------------------------- MODULE MCSimulator -----------------------------
(***************************************************************************)
(* CentSimulator on a device of two channels with four banks each.  The    *)
(* scalars are the integers modulo five; the poison scalar makes softmax   *)
(* and the numeric policy of ACC raise.  Programs put every kernel after   *)
(* the data it needs, and before it, so that each both runs and fails.     *)
(***************************************************************************)
EXTENDS CentSimulator

MCValue == 0..4
Poison == 4
MCAdd(x, y) == (x + y) % 5
MCMultiply(x, y) == (x * y) % 5
MCService(name, operands, k) == (operands[1] + k) % 5
MCRejects(op, operands) == op \in {"SOFTMAX", "ACC", "ROPE"} /\ Poison \in operands

Move(op, bank, slot, size) ==
  [op |-> op, channel |-> 1, bank |-> bank, row |-> 0, column |-> 0,
   size |-> size, slot |-> slot]
OnBanks(op, chs, bank) ==
  [op |-> op, channels |-> chs, bank |-> bank, row |-> 0, column |-> 0, size |-> 1,
   slot |-> 0, register |-> 0, source |-> "NEXT_BANK"]
Pair(op, source, destination, size) ==
  [op |-> op, source |-> source, destination |-> destination, size |-> size]
Service1(op, source, destination, count) ==
  [op |-> op, source |-> source, destination |-> destination, count |-> count,
   source_offset |-> 0, destination_count |-> count, rows |-> 1, columns |-> count,
   width |-> count, has_mask |-> FALSE, limit |-> 0]

WriteBank(b) == Move("WR_SBK", b, 0, 1)
ReadBank(b) == Move("RD_SBK", b, 2, 1)
Mac(source) == [OnBanks("MAC_ABK", <<0, 1>>, 0) EXCEPT !.source = source]
InitAcc == [op |-> "INIT_ACC", channels |-> <<0, 1>>, register |-> 0, value |-> 1]
ReadAcc == [op |-> "READ_ACC", channels |-> <<1>>, register |-> 0, destination |-> 1]
Fill(slot, count, value) ==
  [op |-> "FILL", destination |-> slot, count |-> count, value |-> value]
StoreSlice(offset, count) ==
  [op |-> "STORE_SLICE", source |-> 0, source_offset |-> 0, count |-> count,
   destination |-> 1, destination_offset |-> offset, destination_count |-> 4]
Rope == [op |-> "ROPE", source |-> 0, destination |-> 2, position |-> 1, table |-> 0,
         tokens |-> 1, heads |-> 1, head_dim |-> 2, positions |-> 1, rotary |-> 2]
Scores == [Service1("SCORES", 0, 1, 2) EXCEPT !.has_mask = FALSE, !.limit = 0]

(* A program that reaches every unit, from one loaded Shared Buffer slot. *)
CrossUnit ==
  <<WriteBank(0), WriteBank(1), OnBanks("COPY_BKGB", <<1>>, 0),
    OnBanks("WR_GB", <<0, 1>>, 0), OnBanks("COPY_GBBK", <<0, 1>>, 3), InitAcc,
    ReadAcc, ReadBank(3), Pair("ACC", 2, 0, 1)>>

(* Every bank of both channels holds data: the bank-parallel kernels run. *)
AllBanks == <<OnBanks("WR_GB", <<0, 1>>, 0)>>
            \o [b \in 1..4 |-> OnBanks("COPY_GBBK", <<0, 1>>, b - 1)]

SlotPrograms ==
  { <<Fill(0, 4, 2), Pair("ACC", 0, 2, 1), Fill(3, 1, 1)>>,      \* disjoint, slot 2 unwritten
    <<Fill(0, 4, 3), Pair("ACC", 1, 1, 1)>>,                      \* exact alias
    <<Fill(0, 6, 3), Pair("ACC", 0, 1, 2)>>,                      \* partial overlap
    <<Fill(1, 2, Poison), Pair("ACC", 0, 1, 1), Fill(3, 2, 0)>>,  \* policy raises
    <<Fill(1, 4, 1), StoreSlice(1, 2), StoreSlice(3, 1)>>,
    <<StoreSlice(1, 2)>>,                                         \* neighbours unwritten
    <<Service1("COPY", 0, 1, 2), Service1("TRANSPOSE", 0, 2, 3), Scores>>,
    <<Service1("BROADCAST", 0, 1, 3), Service1("REDUCE_SUM", 1, 3, 3),
      Service1("RMS_SCALE", 3, 0, 1), Service1("ACTIVATION", 0, 2, 1)>>,
    <<Service1("SOFTMAX", 0, 1, 2), Fill(1, 2, 0), Rope>>,
    <<Fill(3, 3, 1)>>,                                            \* invalid: past the last slot
    <<Fill(2, 2, 1), Pair("EXP", 0, 2, 1)>> }                     \* no kernel

MCPrograms ==
  SlotPrograms \cup
  { CrossUnit, <<WriteBank(0), OnBanks("EW_MUL", <<1>>, 0)>>,
    AllBanks \o <<OnBanks("EW_MUL", <<0, 1>>, 0), ReadBank(2)>>,
    AllBanks \o <<Mac("NEXT_BANK")>>,
    AllBanks \o <<InitAcc, Mac("NEXT_BANK"), Mac("GLOBAL_BUFFER"), ReadAcc>> }

Binding(name, span) == [name |-> name, span |-> span]

OneInput == <<Binding("x", Span(SharedBuffer, 0, 2))>>
InTwoSpaces == OneInput \o <<Binding("y", Span(DramRow(1, 0, 0), 0, 2))>>
Overlapping == <<Binding("x", Span(SharedBuffer, 0, 3)), Binding("y", Span(SharedBuffer, 2, 2))>>
OneOutput == <<Binding("z", Span(SharedBuffer, 4, 2))>>

Given(name, values) == [name |-> name, values |-> values]

Request(p, ins, outs, given, traced) ==
  [program |-> p, inputs |-> ins, outputs |-> outs, values |-> given, traced |-> traced]

(* Every program; then bindings, host values and trace levels on three. *)
MCRequests ==
  {Request(p, OneInput, OneOutput, <<Given("x", <<1, 2>>)>>, TRUE) : p \in MCPrograms}
  \cup
  {Request(p, ins, outs, given, traced) :
     p \in { CrossUnit, <<Fill(0, 6, 3), Pair("ACC", 0, 1, 2)>>, <<Fill(2, 2, 1)>> },
     ins \in {OneInput, InTwoSpaces, Overlapping},
     outs \in {<<>>, OneOutput},
     given \in { <<Given("x", <<3, Poison>>)>>,
                 <<Given("y", <<2, 3>>), Given("x", <<1, 0>>)>>,
                 <<Given("x", <<1, 2, 3>>), Given("y", <<2, 1>>)>> },
     traced \in BOOLEAN}

(* On the kept device: programs that read what an earlier call left. *)
MCKeptPrograms ==
  { <<Fill(0, 4, 3), Pair("ACC", 0, 1, 1)>>,
    <<Fill(2, 2, 2), Pair("EXP", 0, 2, 1)>>,
    <<Fill(3, 1, 1), WriteBank(2)>> }

MCHostWrites ==
  { Effect(SharedBuffer, 0, <<1, 2>>), Effect(SharedBuffer, 7, <<1, 1>>) }
=============================================================================
