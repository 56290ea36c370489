-------------------------- MODULE LlamaBlockProofs --------------------------
(***************************************************************************)
(* The compilation of a Llama block, for every request and geometry: a     *)
(* refused builder call leaves the program alone, and in the program of    *)
(* every request the planner accepts, each row of each weight matrix meets *)
(* the piece of the input that belongs to it once, and its sum goes to the *)
(* slot of its output.                                                     *)
(*                                                                         *)
(* First the steps of every lowerer are a list of builder calls, spoiled   *)
(* plans included.  Then what the calls of a weight projection are.  Last  *)
(* how they end up in the program, one call of the builder at a time.      *)
(***************************************************************************)
EXTENDS LlamaBlock, CentInstructionProofs

-----------------------------------------------------------------------------
(* The steps of a lowerer: each raises or appends a list of instructions. *)
Lowered(s) == IsListing(s) /\ \A x : In(x, s) => IsListing(x.batch)

\* A function over the first numbers is a list.
LEMMA ListingOf ==
  ASSUME NEW n \in Int, NEW f, f = [k \in 1..n |-> f[k]]
  PROVE  IsListing(f) /\ (n \in Nat => Len(f) = n)
<1>0. \A m \in Nat : \A g : g = [k \in 1..m |-> g[k]] => Len(g) = m
  OBVIOUS
<1>1. CASE n \in Nat
  <2>1. Len(f) = n
    BY <1>0, <1>1
  <2> QED  BY <1>1, <2>1 DEF IsListing
<1>2. CASE n \notin Nat
  <2>1. 1..n = 1..0
    BY <1>2
  <2>2. f = [k \in 1..0 |-> f[k]] /\ 0 \in Nat
    BY <2>1
  <2>3. Len(f) = 0
    BY <1>0, <2>2
  <2> QED  BY <1>2, <2>2, <2>3 DEF IsListing
<1> QED  BY <1>1, <1>2

\* A loop that ends before it starts has no turns.
LEMMA ListingLoop ==
  ASSUME NEW n \in Int, NEW seqs, seqs = [i \in 1..n |-> seqs[i]],
         \A i \in 1..n : IsListing(seqs[i])
  PROVE  /\ IsListing(FlattenSeq(seqs))
         /\ \A x : In(x, FlattenSeq(seqs)) => \E i \in 1..n : In(x, seqs[i])
<1>1. CASE n \in Nat
  BY <1>1, InFlatten
<1>2. CASE n \notin Nat
  <2>1. 1..n = 1..0
    BY <1>2
  <2>2. seqs = [i \in 1..0 |-> seqs[i]] /\ \A i \in 1..0 : IsListing(seqs[i])
    BY <2>1
  <2>3. /\ IsListing(FlattenSeq(seqs))
        /\ \A x : In(x, FlattenSeq(seqs)) => \E i \in 1..0 : In(x, seqs[i])
    <3>1. 0 \in Nat
      OBVIOUS
    <3> QED  BY <2>2, <3>1, InFlatten
  <2> QED  BY <2>1, <2>3
<1> QED  BY <1>1, <1>2

\* The three kinds of a step.
LEMMA LoweredStep ==
  ASSUME NEW ok, NEW i, NEW b, IsListing(b)
  PROVE  Lowered(Check(ok)) /\ Lowered(Append1(i)) /\ Lowered(AppendBatch(b)) /\ Lowered(<<>>)
<1>1. ASSUME NEW x, IsListing(x.batch) PROVE Lowered(<<x>>)
  <2>1. IsListing(<<x>>) /\ \A s : In(s, <<x>>) <=> s = x
    BY DEF IsListing, In
  <2> QED  BY <1>1, <2>1 DEF Lowered
<1>2. IsListing(<<>>) /\ IsListing(<<i>>) /\ Lowered(<<>>)
  BY DEF IsListing, Lowered, In
<1>3. Lowered(Check(ok))
  <2>1. [ok |-> ok, batch |-> <<>>].batch = <<>>
    OBVIOUS
  <2> QED  BY <1>1, <1>2, <2>1 DEF Check
<1>4. Lowered(Append1(i))
  <2>1. [ok |-> TRUE, batch |-> <<i>>].batch = <<i>>
    OBVIOUS
  <2> QED  BY <1>1, <1>2, <2>1 DEF Append1
<1>5. Lowered(AppendBatch(b))
  <2>1. [ok |-> TRUE, batch |-> b].batch = b
    OBVIOUS
  <2> QED  BY <1>1, <2>1 DEF AppendBatch
<1> QED  BY <1>2, <1>3, <1>4, <1>5

\* One part of a lowerer after the other.
LEMMA LoweredConcat ==
  \A s, t : Lowered(s) /\ Lowered(t) => Lowered(s \o t)
BY InConcat DEF Lowered

\* Several parts of a lowerer, one after the other.
LEMMA LoweredParts ==
  ASSUME NEW a, NEW b, NEW c, NEW d, NEW e, NEW f,
         Lowered(a), Lowered(b), Lowered(c), Lowered(d), Lowered(e), Lowered(f)
  PROVE  /\ Lowered(a \o b \o c) /\ Lowered(a \o b \o c \o d)
         /\ Lowered(a \o b \o c \o d \o e) /\ Lowered(a \o b \o c \o d \o e \o f)
<1>1. Lowered(a \o b)
  BY LoweredConcat
<1>2. Lowered(a \o b \o c)
  BY <1>1, LoweredConcat
<1>3. Lowered(a \o b \o c \o d)
  BY <1>2, LoweredConcat
<1>4. Lowered(a \o b \o c \o d \o e)
  BY <1>3, LoweredConcat
<1>5. Lowered(a \o b \o c \o d \o e \o f)
  BY <1>4, LoweredConcat
<1> QED  BY <1>2, <1>3, <1>4, <1>5

\* The turns of a loop of a lowerer.
LEMMA LoweredLoop ==
  ASSUME NEW n \in Int, NEW seqs, seqs = [i \in 1..n |-> seqs[i]],
         \A i \in 1..n : Lowered(seqs[i])
  PROVE  Lowered(FlattenSeq(seqs))
<1>1. \A i \in 1..n : IsListing(seqs[i])
  BY DEF Lowered
<1>2. /\ IsListing(FlattenSeq(seqs))
      /\ \A x : In(x, FlattenSeq(seqs)) => \E i \in 1..n : In(x, seqs[i])
  BY <1>1, ListingLoop
<1> QED  BY <1>2 DEF Lowered

-----------------------------------------------------------------------------
\* The sizes of the device the lowerers divide by.
LEMMA DeviceSizes ==
  /\ BurstLength \in Nat \ {0} /\ DramColumns \in Nat \ {0}
  /\ NumBanks \in Nat \ {0} /\ NumChannels \in Nat \ {0}
  /\ ChannelsPerBlock \in Nat \ {0}
  /\ DramColumns \div BurstLength \in Nat \ {0}
  /\ TotalBanks \in Nat \ {0} /\ Groups \in Nat \ {0} /\ Copies \in Nat
  /\ NumBanks \div BanksPerGroup \in Nat \ {0}
<1>1. /\ NumChannels \in Nat \ {0} /\ NumBanks \in Nat \ {0} /\ DramColumns \in Nat \ {0}
      /\ BurstLength \in Nat \ {0} /\ DramColumns % BurstLength = 0 /\ BurstLength <= DramColumns
      /\ NumBanks >= 4 /\ NumBanks % 4 = 0 /\ ChannelsPerBlock \in Nat \ {0}
  BY HardwareAssumption, PlacementAssumption DEF ValidHardware, BanksPerGroup
<1>2. \A c, n \in Nat \ {0} : c <= n => n \div c \in Nat \ {0}
  OBVIOUS
<1>3. \A c, n \in Nat \ {0} : c * n \in Nat \ {0} /\ c * n >= n /\ n \div c \in Nat
  OBVIOUS
<1>4. TotalBanks \in Nat \ {0} /\ TotalBanks >= 4
  BY <1>1, <1>3 DEF TotalBanks
<1>5. Groups \in Nat \ {0} /\ NumBanks \div BanksPerGroup \in Nat \ {0}
  BY <1>1, <1>2, <1>4 DEF Groups, BanksPerGroup
<1> QED  BY <1>1, <1>2, <1>3, <1>4, <1>5 DEF Copies

\* Rounding up integers.
LEMMA CeilDivInt ==
  ASSUME NEW a \in Int, NEW b \in Nat \ {0}
  PROVE  CeilDiv(a, b) \in Int /\ (a \in Nat => CeilDiv(a, b) \in Nat)
         /\ (a \in Nat \ {0} => CeilDiv(a, b) \in Nat \ {0})
<1>1. (a + b - 1) \div b \in Int /\ (a \in Nat => (a + b - 1) \div b \in Nat)
      /\ (a \in Nat \ {0} => (a + b - 1) \div b \in Nat \ {0})
  OBVIOUS
<1> QED  BY <1>1 DEF CeilDiv

\* A transfer of one bank.
LEMMA BankTransferListing ==
  ASSUME NEW op, NEW channel, NEW bank, NEW row, NEW count \in Int, NEW slot
  PROVE  IsListing(SingleBankTransfers(op, channel, bank, row, 0, count, slot))
<1> DEFINE bursts == CeilDiv(count, BurstLength)
           first == (DramColumns - 0) \div BurstLength
           whole == DramColumns \div BurstLength
           done(k) == IF k = 0 THEN 0 ELSE first + (k - 1) * whole
           pieces == 1 + (IF bursts <= first THEN 0 ELSE CeilDiv(bursts - first, whole))
           piece(k) == [op |-> op, channel |-> channel, bank |-> bank, row |-> row + k - 1,
                        column |-> IF k = 1 THEN 0 ELSE 0,
                        size |-> Lesser(bursts, done(k)) - done(k - 1),
                        slot |-> slot + done(k - 1)]
           b == [k \in 1..pieces |-> piece(k)]
<1>1. SingleBankTransfers(op, channel, bank, row, 0, count, slot) = b
  BY DEF SingleBankTransfers
<1>2. pieces \in Int
  <2>1. bursts \in Int /\ first \in Int /\ whole \in Nat \ {0}
    <3>1. DramColumns - 0 = DramColumns
      BY DeviceSizes
    <3> QED  BY <3>1, DeviceSizes, CeilDivInt
  <2> HIDE DEF bursts, first, whole
  <2>2. bursts - first \in Int
    BY <2>1
  <2>3. CeilDiv(bursts - first, whole) \in Int
    BY <2>1, <2>2, CeilDivInt
  <2> QED  BY <2>3
<1> HIDE DEF pieces, piece
<1>3. b = [k \in 1..pieces |-> b[k]]
  OBVIOUS
<1> HIDE DEF b
<1>4. IsListing(b)
  BY <1>2, <1>3, ListingOf
<1> QED  BY <1>1, <1>4

\* A transfer of every partition, in every copy of the block.
LEMMA PartitionsListing ==
  ASSUME NEW op, NEW partitions \in Int, NEW stride, NEW position, NEW row,
         NEW count \in Int, NEW slot
  PROVE  IsListing(TransferPartitions(op, partitions, stride, position, row, count, slot))
<1> DEFINE One(p, copy) ==
             SingleBankTransfers(op,
               BankChannel(p * stride + position) + ChannelsPerBlock * copy,
               BankNumber(p * stride + position), row, 0, count,
               slot + p * CeilDiv(count, BurstLength))
           copies(p) == [i \in 1..Copies |-> One(p, i - 1)]
           all == [i \in 1..partitions |-> FlattenSeq(copies(i - 1))]
<1>1. TransferPartitions(op, partitions, stride, position, row, count, slot) = FlattenSeq(all)
  BY DEF TransferPartitions, Each
<1>2. \A p, copy : IsListing(One(p, copy))
  BY BankTransferListing
<1> HIDE DEF One
<1>3. \A p : IsListing(FlattenSeq(copies(p)))
  <2> SUFFICES ASSUME NEW p PROVE IsListing(FlattenSeq(copies(p)))
    OBVIOUS
  <2> DEFINE s == copies(p)
  <2>1. s = [i \in 1..Copies |-> s[i]] /\ \A i \in 1..Copies : IsListing(s[i])
    BY <1>2
  <2>2. Copies \in Int
    BY DeviceSizes
  <2> HIDE DEF s
  <2> QED  BY <2>1, <2>2, ListingLoop DEF s
<1> HIDE DEF copies
<1>4. all = [i \in 1..partitions |-> all[i]] /\ \A i \in 1..partitions : IsListing(all[i])
  BY <1>3
<1> HIDE DEF all
<1> QED  BY <1>1, <1>4, ListingLoop

\* A step that appends such a transfer.
LEMMA LoweredTransfer ==
  ASSUME NEW op, NEW partitions \in Int, NEW stride, NEW position, NEW row,
         NEW count \in Int, NEW slot, NEW needs, NEW makes
  PROVE  Lowered(AppendBatch(Tagged(
           TransferPartitions(op, partitions, stride, position, row, count, slot),
           needs, makes)))
<1> DEFINE b == TransferPartitions(op, partitions, stride, position, row, count, slot)
           t == Tagged(b, needs, makes)
<1>1. IsListing(b)
  BY PartitionsListing
<1> HIDE DEF b
<1>2. t = [k \in 1..Len(b) |-> t[k]] /\ Len(b) \in Int
  BY <1>1 DEF Tagged, IsListing
<1> HIDE DEF t
<1>3. IsListing(t)
  BY <1>2, ListingOf
<1> QED  BY <1>3, LoweredStep DEF t, b

-----------------------------------------------------------------------------
(* What every lowerer does for a plan whose sizes are numbers. *)

\* The operations of a transfer, row by row.
LEMMA RowSizesCount ==
  ASSUME NEW values \in Int
  PROVE  Len(RowSizes(values)) \in Int
<1> DEFINE n == CeilDiv(CeilDiv(values, BurstLength), DramColumns \div BurstLength)
           s == RowSizes(values)
<1>1. n \in Int
  BY DeviceSizes, CeilDivInt
<1>2. s = [k \in 1..n |-> s[k]]
  BY DEF RowSizes
<1> HIDE DEF n, s
<1>3. IsListing(s)
  BY <1>1, <1>2, ListingOf
<1> QED  BY <1>3 DEF IsListing, s

\* A loop over one builder call.
LEMMA LoweredCalls ==
  ASSUME NEW n \in Int, NEW x
  PROVE  Lowered(FlattenSeq([k \in 1..n |-> Append1(x[k])]))
<1> DEFINE s == [k \in 1..n |-> Append1(x[k])]
<1>1. s = [k \in 1..n |-> s[k]] /\ \A k \in 1..n : Lowered(s[k])
  <2>1. \A i : Lowered(Append1(i))
    <3>1. IsListing(<<>>)
      BY DEF IsListing
    <3> QED  BY <3>1, LoweredStep
  <2> QED  BY <2>1
<1> HIDE DEF s
<1> QED  BY <1>1, LoweredLoop DEF s

\* One vector added to another.
LEMMA AccumulateLowered ==
  ASSUME NEW p
  PROVE  Lowered(Accumulate(p))
<1>1. IsListing(<<>>)
  BY DEF IsListing
<1> QED  BY <1>1, LoweredStep DEF Accumulate

\* A vector between the buffer and the banks.
LEMMA TransferVectorLowered ==
  ASSUME NEW p, p.layout.partitions \in Int, PhysicalValuesPerPartition(p.layout) \in Int
  PROVE  Lowered(TransferVector(p))
<1> DEFINE physical == PhysicalValuesPerPartition(p.layout)
           n == p.layout.partitions
           move == AppendBatch(Tagged(
                     TransferPartitions(p.op, n, BanksPerGroup, FirstOperand, p.rows.start,
                                        physical, p.buffer.start),
                     {p.buffer.value}, p.buffer.value))
<1>1. \E ok : TransferVector(p) = Check(ok) \o move
  BY DEF TransferVector, BankGroupTransfer
<1>2. Lowered(move)
  <2> HIDE DEF physical, n
  <2>1. physical \in Int /\ n \in Int
    BY DEF physical, n
  <2> QED  BY <2>1, LoweredTransfer
<1>3. \A ok : Lowered(Check(ok))
  <2>1. IsListing(<<>>)
    BY DEF IsListing
  <2> QED  BY <2>1, LoweredStep
<1> HIDE DEF move
<1> QED  BY <1>1, <1>2, <1>3, LoweredConcat

(* A layout whose transfers are a number of instructions. *)
LaidOut(l) ==
  /\ l.partitions \in Int /\ PhysicalValues(l) \in Int
  /\ PhysicalValuesPerPartition(l) \in Nat \ {0}

\* The sum of squares of a norm.
LEMMA SumOfSquaresLowered ==
  ASSUME NEW p, LaidOut(p.layout)
  PROVE  Lowered(SumOfSquares(p))
<1> DEFINE physical == PhysicalValuesPerPartition(p.layout)
           sizes == RowSizes(physical)
           copy(position) ==
             AppendBatch(Tagged(
               TransferPartitions("WR_SBK", CeilDiv(PhysicalValues(p.layout), physical), 2,
                                  position, p.input_rows.start, physical, p.input.start),
               {p.input.value}, p.input.value))
           bias == Append1(WriteBias(AllChannels, p.partial.start, {}))
           mac(k) == Mac(AllChannels, p.input_rows.start + k, 0, sizes[k + 1], 0,
                         "NEXT_BANK", {p.input.value, "host"}, {})
           x == [k \in 1..Len(sizes) |-> mac(k - 1)]
           macs == FlattenSeq([k \in 1..Len(sizes) |-> Append1(mac(k - 1))])
           result == Append1(ReadResult("RD_MAC", AllChannels, p.partial.start, 0,
                                        p.partial.value))
<1>1. \E ok : SumOfSquares(p) = Check(ok) \o copy(0) \o copy(1) \o bias \o macs \o result
  BY DEF SumOfSquares, NeighborBankTransfer, Each
<1>2. \A position : Lowered(copy(position))
  <2>1. physical \in Int /\ CeilDiv(PhysicalValues(p.layout), physical) \in Int
    BY CeilDivInt DEF LaidOut
  <2> HIDE DEF physical
  <2> QED  BY <2>1, LoweredTransfer
<1>3. Len(sizes) \in Int
  BY RowSizesCount DEF LaidOut
<1>4. Lowered(macs)
  <2>1. Lowered(FlattenSeq([k \in 1..Len(sizes) |-> Append1(x[k])]))
    <3> HIDE DEF x, sizes
    <3> QED  BY <1>3, LoweredCalls
  <2>2. [k \in 1..Len(sizes) |-> Append1(x[k])] = [k \in 1..Len(sizes) |-> Append1(mac(k - 1))]
    <3> HIDE DEF mac
    <3> QED  OBVIOUS
  <2> HIDE DEF x, mac, sizes
  <2> QED  BY <2>1, <2>2
<1>5. (\A ok : Lowered(Check(ok))) /\ Lowered(bias) /\ Lowered(result)
  <2>1. IsListing(<<>>)
    BY DEF IsListing
  <2> QED  BY <2>1, LoweredStep
<1>6. PICK ok : SumOfSquares(p) = Check(ok) \o copy(0) \o copy(1) \o bias \o macs \o result
  BY <1>1
<1>7. Lowered(copy(0)) /\ Lowered(copy(1)) /\ Lowered(Check(ok))
  BY <1>2, <1>5
<1> HIDE DEF copy, bias, macs, result
<1> QED  BY <1>4, <1>5, <1>6, <1>7, LoweredParts

\* One builder call, and a check.
LEMMA LoweredCall ==
  /\ \A i : Lowered(Append1(i))
  /\ \A ok : Lowered(Check(ok))
  /\ Lowered(<<>>)
<1>1. IsListing(<<>>)
  BY DEF IsListing
<1> QED  BY <1>1, LoweredStep

\* A result bank copied by the Global Buffer.
LEMMA CopyResultLowered ==
  ASSUME NEW channels, NEW bank, NEW from, NEW to, NEW size, NEW value
  PROVE  Lowered(CopyResult(channels, bank, from, to, size, value))
BY LoweredCall, LoweredConcat DEF CopyResult

\* As many result banks as bank groups.
LEMMA ResultBanksCount == Len(ResultBanks) \in Int
<1> DEFINE n == NumBanks \div BanksPerGroup
           s == ResultBanks
<1>1. n \in Int
  BY DeviceSizes
<1>2. s = [k \in 1..n |-> s[k]]
  BY DEF ResultBanks
<1> HIDE DEF n, s
<1>3. IsListing(s)
  BY <1>1, <1>2, ListingOf
<1> QED  BY <1>3 DEF IsListing, s

\* The scaling of a vector by its norm.
LEMMA L2NormLowered ==
  ASSUME NEW p, LaidOut(p.layout)
  PROVE  Lowered(L2Norm(p))
<1> DEFINE physical == PhysicalValuesPerPartition(p.layout)
           n == p.layout.partitions
           sizes == RowSizes(physical)
           copy(position, span) ==
             AppendBatch(Tagged(
               TransferPartitions("WR_SBK", n, BanksPerGroup, position, p.work_rows.start,
                                  physical, span.start),
               {span.value}, span.value))
           a == copy(FirstOperand, p.input)
           b == copy(SecondOperand, p.scale)
           mul(k) == EwMul(AllChannels, p.work_rows.start + k, sizes[k + 1],
                           {p.input.value, p.scale.value, "host"}, "scaled")
           x == [k \in 1..Len(sizes) |-> mul(k - 1)]
           muls == FlattenSeq([k \in 1..Len(sizes) |-> Append1(mul(k - 1))])
<1>1. PICK ok : L2Norm(p) = Check(ok) \o SumOfSquares(p) \o a \o b \o muls
  BY DEF L2Norm, BankGroupTransfer, Each
<1>2. \A position, span : Lowered(copy(position, span))
  <2>1. physical \in Int /\ n \in Int
    BY DEF LaidOut
  <2> HIDE DEF physical, n
  <2> QED  BY <2>1, LoweredTransfer
<1>3. Len(sizes) \in Int
  BY RowSizesCount DEF LaidOut
<1>4. Lowered(muls)
  <2>1. Lowered(FlattenSeq([k \in 1..Len(sizes) |-> Append1(x[k])]))
    <3> HIDE DEF x, sizes
    <3> QED  BY <1>3, LoweredCalls
  <2>2. [k \in 1..Len(sizes) |-> Append1(x[k])] = [k \in 1..Len(sizes) |-> Append1(mul(k - 1))]
    <3> HIDE DEF mul
    <3> QED  OBVIOUS
  <2> HIDE DEF x, mul, sizes
  <2> QED  BY <2>1, <2>2
<1>5. Lowered(a) /\ Lowered(b) /\ Lowered(Check(ok)) /\ Lowered(SumOfSquares(p))
  <2> HIDE DEF copy
  <2> QED  BY <1>2, LoweredCall, SumOfSquaresLowered
<1> HIDE DEF a, b, muls
<1>6. Lowered(Check(ok) \o SumOfSquares(p) \o a)
  BY <1>5, LoweredConcat
<1>7. Lowered(Check(ok) \o SumOfSquares(p) \o a \o b)
  BY <1>5, <1>6, LoweredConcat
<1>8. Lowered(Check(ok) \o SumOfSquares(p) \o a \o b \o muls)
  BY <1>4, <1>7, LoweredConcat
<1> QED  BY <1>1, <1>8

\* The weights of a norm.
LEMMA ApplyNormWeightsLowered ==
  ASSUME NEW p, LaidOut(p.layout)
  PROVE  Lowered(ApplyNormWeights(p))
<1> DEFINE physical == PhysicalValuesPerPartition(p.layout)
           n == p.layout.partitions
           sizes == RowSizes(physical)
           copy(k, b) == CopyResult(AllChannels, ResultBanks[b + 1], p.work_rows.start + k,
                                    p.weight_rows.start + k, sizes[k + 1], "scaled")
           copies(k) == [b \in 1..Len(ResultBanks) |-> copy(k, b - 1)]
           mul(k) == Append1(EwMul(AllChannels, p.weight_rows.start + k, sizes[k + 1],
                                   {"scaled", "host"}, p.output.value))
           turns == [k \in 1..Len(sizes) |-> FlattenSeq(copies(k - 1)) \o mul(k - 1)]
           read == AppendBatch(Tagged(
                     TransferPartitions("RD_SBK", n, BanksPerGroup, ResultPosition,
                                        p.weight_rows.start, physical, p.output.start),
                     {p.output.value}, p.output.value))
<1>1. ApplyNormWeights(p) = FlattenSeq(turns) \o read
  BY DEF ApplyNormWeights, BankGroupTransfer, Each
<1>2. Lowered(read)
  <2>1. physical \in Int /\ n \in Int
    BY DEF LaidOut
  <2> HIDE DEF physical, n
  <2> QED  BY <2>1, LoweredTransfer
<1>3. Len(sizes) \in Int
  BY RowSizesCount DEF LaidOut
<1>4. \A k : Lowered(FlattenSeq(copies(k)))
  <2> SUFFICES ASSUME NEW k PROVE Lowered(FlattenSeq(copies(k)))
    OBVIOUS
  <2> DEFINE s == copies(k)
             m == Len(ResultBanks)
  <2>1. s = [b \in 1..m |-> s[b]] /\ \A b \in 1..m : Lowered(s[b])
    BY CopyResultLowered
  <2>2. m \in Int
    BY ResultBanksCount
  <2> HIDE DEF s, m
  <2>3. Lowered(FlattenSeq(s))
    BY <2>1, <2>2, LoweredLoop
  <2> QED  BY <2>3 DEF s
<1>5. \A k : Lowered(mul(k))
  BY LoweredCall
<1> HIDE DEF copies, mul, sizes
<1>6. turns = [k \in 1..Len(sizes) |-> turns[k]] /\ \A k \in 1..Len(sizes) : Lowered(turns[k])
  BY <1>4, <1>5, LoweredConcat
<1> HIDE DEF turns, read
<1>7. Lowered(FlattenSeq(turns))
  BY <1>3, <1>6, LoweredLoop
<1> QED  BY <1>1, <1>2, <1>7, LoweredConcat

\* The whole norm.
LEMMA RmsNormLowered ==
  ASSUME NEW p, LaidOut(p.layout)
  PROVE  Lowered(RmsNorm(p))
<1>1. RmsNorm(p) = Check(WeightRowsFit(p)) \o L2Norm(p) \o ApplyNormWeights(p)
  BY DEF RmsNorm
<1>2. Lowered(Check(WeightRowsFit(p))) /\ Lowered(L2Norm(p)) /\ Lowered(ApplyNormWeights(p))
  BY LoweredCall, L2NormLowered, ApplyNormWeightsLowered
<1> QED  BY <1>1, <1>2, LoweredParts

\* One transfer of a chunk, and one product.
LEMMA SiluStepsLowered ==
  ASSUME NEW p, NEW chunk, chunk.partitions \in Int, chunk.per_partition \in Int,
         NEW op, NEW position
  PROVE  Lowered(SiluTransfer(p, op, position, chunk)) /\ Lowered(SiluMultiply(chunk))
<1>1. Lowered(SiluTransfer(p, op, position, chunk))
  BY LoweredTransfer DEF SiluTransfer, BankGroupTransfer
<1> QED  BY <1>1, LoweredCall DEF SiluMultiply

(* Chunks whose transfers are a number of instructions. *)
Chunked(p) ==
  /\ Len(p.chunks) \in Int
  /\ \A k \in 1..Len(p.chunks) :
       p.chunks[k].partitions \in Int /\ p.chunks[k].per_partition \in Int

\* The gated product of the feed-forward network.
LEMMA SiluProductLowered ==
  ASSUME NEW p, Chunked(p)
  PROVE  Lowered(SiluProduct(p))
<1> DEFINE n == Len(p.chunks)
           m == Len(ResultBanks)
           copy(chunk, b) == CopyResult(AllChannels, ResultBanks[b + 1], chunk.row, chunk.row,
                                        ChunkSize(chunk), "gated")
           copies(chunk) == [b \in 1..m |-> copy(chunk, b - 1)]
           first(chunk) == SiluTransfer(p, "WR_SBK", FirstOperand, chunk)
           second(chunk) == SiluTransfer(p, "WR_SBK", SecondOperand, chunk)
           last(chunk) == SiluTransfer(p, "RD_SBK", ResultPosition, chunk)
           a == [k \in 1..n |->
                   LET chunk == p.chunks[(k - 1) + 1]
                   IN  first(chunk) \o second(chunk) \o SiluMultiply(chunk)
                       \o FlattenSeq(copies(chunk))]
           b == [k \in 1..n |-> first(p.chunks[(k - 1) + 1])]
           c == [k \in 1..n |-> SiluMultiply(p.chunks[(k - 1) + 1])]
           d == [k \in 1..n |-> last(p.chunks[(k - 1) + 1])]
<1>1. PICK ok : SiluProduct(p) = Check(ok) \o FlattenSeq(a) \o FlattenSeq(b) \o FlattenSeq(c)
                                   \o FlattenSeq(d)
  BY DEF SiluProduct, Each
<1>2. n \in Int
  BY DEF Chunked
<1>3. \A k \in 1..n : (k - 1) + 1 = k
  BY <1>2
<1>4. \A k \in 1..n :
        /\ Lowered(first(p.chunks[k])) /\ Lowered(second(p.chunks[k]))
        /\ Lowered(last(p.chunks[k])) /\ Lowered(SiluMultiply(p.chunks[k]))
  BY SiluStepsLowered DEF Chunked
<1>5. \A chunk : Lowered(FlattenSeq(copies(chunk)))
  <2> SUFFICES ASSUME NEW chunk PROVE Lowered(FlattenSeq(copies(chunk)))
    OBVIOUS
  <2> DEFINE s == copies(chunk)
  <2>1. s = [i \in 1..m |-> s[i]] /\ \A i \in 1..m : Lowered(s[i])
    BY CopyResultLowered
  <2>2. m \in Int
    BY ResultBanksCount
  <2> HIDE DEF s, m
  <2>3. Lowered(FlattenSeq(s))
    BY <2>1, <2>2, LoweredLoop
  <2> QED  BY <2>3 DEF s
<1> HIDE DEF copies, first, second, last, n
<1>6. a = [k \in 1..n |-> a[k]] /\ \A k \in 1..n : Lowered(a[k])
  <2>1. \A k \in 1..n :
          Lowered(first(p.chunks[k]) \o second(p.chunks[k]) \o SiluMultiply(p.chunks[k])
                    \o FlattenSeq(copies(p.chunks[k])))
    <3> SUFFICES ASSUME NEW k \in 1..n
                 PROVE  Lowered(first(p.chunks[k]) \o second(p.chunks[k])
                                  \o SiluMultiply(p.chunks[k])
                                  \o FlattenSeq(copies(p.chunks[k])))
      OBVIOUS
    <3>1. Lowered(first(p.chunks[k]) \o second(p.chunks[k]))
      BY <1>4, LoweredConcat
    <3>2. Lowered(first(p.chunks[k]) \o second(p.chunks[k]) \o SiluMultiply(p.chunks[k]))
      BY <1>4, <3>1, LoweredConcat
    <3> QED  BY <1>5, <3>2, LoweredConcat
  <2>2. \A k \in 1..n :
          a[k] = first(p.chunks[k]) \o second(p.chunks[k]) \o SiluMultiply(p.chunks[k])
                    \o FlattenSeq(copies(p.chunks[k]))
    BY <1>3
  <2> QED  BY <2>1, <2>2
<1>7. /\ b = [k \in 1..n |-> b[k]] /\ \A k \in 1..n : Lowered(b[k])
      /\ c = [k \in 1..n |-> c[k]] /\ \A k \in 1..n : Lowered(c[k])
      /\ d = [k \in 1..n |-> d[k]] /\ \A k \in 1..n : Lowered(d[k])
  <2>1. b = [k \in 1..n |-> b[k]] /\ c = [k \in 1..n |-> c[k]] /\ d = [k \in 1..n |-> d[k]]
    OBVIOUS
  <2>2. \A k \in 1..n : b[k] = first(p.chunks[k])
    BY <1>3
  <2>3. \A k \in 1..n : c[k] = SiluMultiply(p.chunks[k])
    BY <1>3
  <2>4. \A k \in 1..n : d[k] = last(p.chunks[k])
    BY <1>3
  <2> HIDE DEF b, c, d
  <2> QED  BY <1>4, <2>1, <2>2, <2>3, <2>4
<1> HIDE DEF a, b, c, d
<1>8. Lowered(FlattenSeq(a)) /\ Lowered(FlattenSeq(b)) /\ Lowered(FlattenSeq(c))
      /\ Lowered(FlattenSeq(d)) /\ Lowered(Check(ok))
  BY <1>2, <1>6, <1>7, LoweredLoop, LoweredCall
<1>9. Lowered(Check(ok) \o FlattenSeq(a) \o FlattenSeq(b) \o FlattenSeq(c) \o FlattenSeq(d))
  <2>1. Lowered(Check(ok) \o FlattenSeq(a) \o FlattenSeq(b))
    BY <1>8, LoweredConcat
  <2>2. Lowered(Check(ok) \o FlattenSeq(a) \o FlattenSeq(b) \o FlattenSeq(c))
    BY <1>8, <2>1, LoweredConcat
  <2> QED  BY <1>8, <2>2, LoweredConcat
<1> QED  BY <1>1, <1>9

\* One part of the rotary embedding.
LEMMA RotaryPartLowered ==
  ASSUME NEW part, part.layout.partitions \in Int, part.layout.per_partition \in Int
  PROVE  /\ \A op, position, needs, makes :
              Lowered(RotaryTransfer(part, op, position, needs, makes))
         /\ Lowered(RotaryMultiply(part))
<1>1. \A op, position, needs, makes : Lowered(RotaryTransfer(part, op, position, needs, makes))
  BY LoweredTransfer DEF RotaryTransfer, BankGroupTransfer
<1> DEFINE sizes == RowSizes(part.layout.per_partition)
           mul(k) == EwMul(AllChannels, part.rows.start + k, sizes[k + 1], {}, part.rotated)
           x == [k \in 1..Len(sizes) |-> mul(k - 1)]
           muls == FlattenSeq([k \in 1..Len(sizes) |-> Append1(mul(k - 1))])
<1>2. RotaryMultiply(part) = muls
  BY DEF RotaryMultiply, Each
<1>3. Len(sizes) \in Int
  BY RowSizesCount
<1>4. Lowered(muls)
  <2>1. Lowered(FlattenSeq([k \in 1..Len(sizes) |-> Append1(x[k])]))
    <3> HIDE DEF x, sizes
    <3> QED  BY <1>3, LoweredCalls
  <2>2. [k \in 1..Len(sizes) |-> Append1(x[k])] = [k \in 1..Len(sizes) |-> Append1(mul(k - 1))]
    <3> HIDE DEF mul
    <3> QED  OBVIOUS
  <2> HIDE DEF x, mul, sizes
  <2> QED  BY <2>1, <2>2
<1> QED  BY <1>1, <1>2, <1>4

\* The rotary embedding of the query and the key.
LEMMA RotaryLowered ==
  ASSUME NEW p, p.query.partitions \in Int, p.query.per_partition \in Int,
         p.key.partitions \in Int, p.key.per_partition \in Int
  PROVE  Lowered(RotaryEmbedding(p))
<1> DEFINE query == RotaryPart(p, "query")
           key == RotaryPart(p, "key")
           a(part) == RotaryTransfer(part, "WR_SBK", SecondOperand,
                                     {part.span.value}, part.span.value)
           c(part) == RotaryTransfer(part, "RD_SBK", ResultPosition,
                                     {part.rotated}, part.rotated)
<1>1. PICK ok : RotaryEmbedding(p) =
                  Check(ok) \o (a(query) \o a(key))
                    \o (RotaryMultiply(query) \o RotaryMultiply(key)) \o (c(query) \o c(key))
  BY DEF RotaryEmbedding
<1>2. query.layout = p.query /\ key.layout = p.key
  BY DEF RotaryPart
<1> HIDE DEF query, key
<1>3. /\ Lowered(a(query)) /\ Lowered(a(key)) /\ Lowered(c(query)) /\ Lowered(c(key))
      /\ Lowered(RotaryMultiply(query)) /\ Lowered(RotaryMultiply(key))
  BY <1>2, RotaryPartLowered
<1> HIDE DEF a, c
<1>4. /\ Lowered(a(query) \o a(key)) /\ Lowered(c(query) \o c(key))
      /\ Lowered(RotaryMultiply(query) \o RotaryMultiply(key)) /\ Lowered(Check(ok))
  BY <1>3, LoweredConcat, LoweredCall
<1> QED  BY <1>1, <1>4, LoweredParts

\* The keys of a token.
LEMMA KeyWritesLowered ==
  ASSUME NEW p, p.key_rows \in Int, Len(p.key_offsets) \in Int, p.spec.kv_width \in Int
  PROVE  Lowered(KeyWrites(p))
<1> DEFINE n == p.key_rows
           m == Len(p.key_offsets)
           one(k, o) == SingleBankTransfers("WR_SBK",
                          BankChannel(p.key_bank) + p.key_offsets[o + 1], BankNumber(p.key_bank),
                          p.rows.key_cache.start + p.key_group * p.key_rows + k,
                          0, InRow(p.spec.kv_width, k),
                          p.buffers.key.start + k * (DramColumns \div BurstLength))
           write(k, o) == AppendBatch(Tagged(one(k, o), {p.buffers.key.value}, "key"))
           writes(k) == [o \in 1..m |-> write(k, o - 1)]
           all == [k \in 1..n |-> FlattenSeq(writes(k - 1))]
<1>1. KeyWrites(p) = FlattenSeq(all)
  BY DEF KeyWrites, Each
<1>2. ASSUME NEW k \in Int, NEW o
      PROVE  Lowered(write(k, o))
  <2> DEFINE t == Tagged(one(k, o), {p.buffers.key.value}, "key")
             count == InRow(p.spec.kv_width, k)
  <2>1. count \in Int
    <3>1. \A a, b \in Int : a * b \in Int
      OBVIOUS
    <3> QED  BY <3>1, DeviceSizes DEF InRow, Lesser
  <2> HIDE DEF count
  <2>2. IsListing(one(k, o))
    BY <2>1, BankTransferListing DEF count
  <2> HIDE DEF one
  <2>3. t = [j \in 1..Len(one(k, o)) |-> t[j]] /\ Len(one(k, o)) \in Int
    BY <2>2 DEF Tagged, IsListing
  <2> HIDE DEF t
  <2>4. IsListing(t)
    BY <2>3, ListingOf
  <2> QED  BY <2>4, LoweredStep DEF t
<1> HIDE DEF write
<1>3. \A k \in Int : Lowered(FlattenSeq(writes(k)))
  <2> SUFFICES ASSUME NEW k \in Int PROVE Lowered(FlattenSeq(writes(k)))
    OBVIOUS
  <2> DEFINE s == writes(k)
  <2>1. s = [o \in 1..m |-> s[o]] /\ \A o \in 1..m : Lowered(s[o])
    BY <1>2
  <2> HIDE DEF s, m
  <2>2. m \in Int
    BY DEF m
  <2> QED  BY <2>1, <2>2, LoweredLoop DEF s
<1> HIDE DEF writes, n
<1>4. n \in Int
  BY DEF n
<1>5. all = [k \in 1..n |-> all[k]] /\ \A k \in 1..n : Lowered(all[k])
  <2>1. \A k \in 1..n : k - 1 \in Int
    BY <1>4
  <2> QED  BY <1>3, <2>1
<1> HIDE DEF all
<1> QED  BY <1>1, <1>4, <1>5, LoweredLoop

\* The values of a token.
LEMMA ValueWritesLowered ==
  ASSUME NEW p, p.value_heads \in Int, p.value_dimensions \in Int,
         Len(p.value_channels) \in Int
  PROVE  Lowered(ValueWrites(p))
<1> DEFINE n == p.value_heads
           m == p.value_dimensions
           w == Len(p.value_channels)
           head(h, c) == c * p.value_heads + h
           write(h, d, c) == IF head(h, c) >= p.spec.kv_heads THEN <<>>
                             ELSE Append1(ValueWrite(p, p.value_channels[c + 1], h, head(h, c), d))
           channels(h, d) == [c \in 1..w |-> write(h, d, c - 1)]
           dimensions(h) == [d \in 1..m |-> FlattenSeq(channels(h, d - 1))]
           all == [h \in 1..n |-> FlattenSeq(dimensions(h - 1))]
<1>1. ValueWrites(p) = FlattenSeq(all)
  BY DEF ValueWrites, Each
<1>2. \A h, d, c : Lowered(write(h, d, c))
  BY LoweredCall
<1>3. n \in Int /\ m \in Int /\ w \in Int
  OBVIOUS
<1> HIDE DEF write, n, m, w
<1>4. \A h, d : Lowered(FlattenSeq(channels(h, d)))
  <2> SUFFICES ASSUME NEW h, NEW d PROVE Lowered(FlattenSeq(channels(h, d)))
    OBVIOUS
  <2> DEFINE s == channels(h, d)
  <2>1. s = [c \in 1..w |-> s[c]] /\ \A c \in 1..w : Lowered(s[c])
    BY <1>2
  <2> HIDE DEF s
  <2> QED  BY <1>3, <2>1, LoweredLoop DEF s
<1> HIDE DEF channels
<1>5. \A h : Lowered(FlattenSeq(dimensions(h)))
  <2> SUFFICES ASSUME NEW h PROVE Lowered(FlattenSeq(dimensions(h)))
    OBVIOUS
  <2> DEFINE s == dimensions(h)
  <2>1. s = [d \in 1..m |-> s[d]] /\ \A d \in 1..m : Lowered(s[d])
    BY <1>4
  <2> HIDE DEF s
  <2> QED  BY <1>3, <2>1, LoweredLoop DEF s
<1> HIDE DEF dimensions
<1>6. all = [h \in 1..n |-> all[h]] /\ \A h \in 1..n : Lowered(all[h])
  BY <1>5
<1> HIDE DEF all
<1> QED  BY <1>1, <1>3, <1>6, LoweredLoop

(* Sizes of the update of the caches. *)
UpdateShaped(p) ==
  /\ p.key_rows \in Int /\ Len(p.key_offsets) \in Int /\ p.spec.kv_width \in Int
  /\ p.value_heads \in Int /\ p.value_dimensions \in Int /\ Len(p.value_channels) \in Int

\* The update of the caches.
LEMMA KvCacheUpdateLowered ==
  ASSUME NEW p, UpdateShaped(p)
  PROVE  Lowered(KvCacheUpdate(p))
<1>1. Lowered(KeyWrites(p)) /\ Lowered(ValueWrites(p))
  BY KeyWritesLowered, ValueWritesLowered DEF UpdateShaped
<1>2. Lowered(Check(KvChecks(p))) /\ Lowered(Check(ValueSpanFits(p)))
  BY LoweredCall
<1>3. Lowered(Check(KvChecks(p)) \o KeyWrites(p) \o Check(ValueSpanFits(p)) \o ValueWrites(p))
  BY <1>1, <1>2, LoweredParts
<1> QED  BY <1>3 DEF KvCacheUpdate

(* Sizes of the score stage. *)
ScoresShaped(p) ==
  /\ Len(p.sequence_channels) \in Int /\ p.spec.kv_width \in Int /\ p.spec.repeat \in Int
  /\ p.spec.kv_heads \in Int /\ HeadsPerRow(p) \in Int

\* The scores of the query against every key.
LEMMA ScoreGemvLowered ==
  ASSUME NEW p, ScoresShaped(p)
  PROVE  Lowered(ScoreGemv(p))
<1> DEFINE sequences == Len(p.sequence_channels)
           keyRows == CeilDiv(p.spec.kv_width, DramColumns)
           size == CeilDiv(p.spec.head, BurstLength)
           m == p.spec.repeat
           heads(k) == Lesser(HeadsPerRow(p), p.spec.kv_heads - k * HeadsPerRow(p))
           one(k, channels, group, r, h) ==
             Append1(WriteBias(channels, p.buffers.scores.start, {"zero"}))
             \o Append1(Mac(channels, p.rows.key_cache.start + group * keyRows + k,
                            h * p.spec.head, size, 0, "GLOBAL_BUFFER",
                            {"key", "host"}, {p.buffers.query.value}))
             \o Append1(ReadResult("RD_MAC", channels, p.buffers.scores.start, 0,
                                   RawScore(p, k, h, r, group)))
           row(k, g, r) ==
             [h \in 1..heads(k) |-> one(k, p.sequence_channels[g + 1], g, r, h - 1)]
           load(g) == Append1(WriteGlobal(p.sequence_channels[g + 1], p.buffers.query.start,
                                          size, p.buffers.query.value))
           turns(k, g) == [r \in 1..m |-> load(g) \o FlattenSeq(row(k, g, r - 1))]
           groups(k) == [g \in 1..sequences |-> FlattenSeq(turns(k, g - 1))]
           all == [k \in 1..keyRows |-> FlattenSeq(groups(k - 1))]
<1>1. PICK ok : ScoreGemv(p) = Check(ok) \o FlattenSeq(all)
  BY DEF ScoreGemv, Each
<1>2. \A k, channels, group, r, h : Lowered(one(k, channels, group, r, h))
  BY LoweredCall, LoweredConcat
<1>3. sequences \in Int /\ keyRows \in Int /\ m \in Int /\ \A k \in Int : heads(k) \in Int
  <2>1. sequences \in Int /\ keyRows \in Int /\ m \in Int
    BY DeviceSizes, CeilDivInt DEF ScoresShaped
  <2>2. \A k \in Int : heads(k) \in Int
    <3>1. \A a, b \in Int : a * b \in Int
      OBVIOUS
    <3> QED  BY <3>1 DEF ScoresShaped, Lesser
  <2> QED  BY <2>1, <2>2
<1>4. \A g : Lowered(load(g))
  BY LoweredCall
<1> HIDE DEF one, heads, sequences, keyRows, m, load
<1>5. \A k \in Int : \A g, r : Lowered(FlattenSeq(row(k, g, r)))
  <2> SUFFICES ASSUME NEW k \in Int, NEW g, NEW r PROVE Lowered(FlattenSeq(row(k, g, r)))
    OBVIOUS
  <2> DEFINE s == row(k, g, r)
             n == heads(k)
  <2>1. s = [h \in 1..n |-> s[h]] /\ (\A h \in 1..n : Lowered(s[h])) /\ n \in Int
    BY <1>2, <1>3
  <2> HIDE DEF s, n
  <2> QED  BY <2>1, LoweredLoop DEF s
<1> HIDE DEF row
<1>6. \A k \in Int : \A g : Lowered(FlattenSeq(turns(k, g)))
  <2> SUFFICES ASSUME NEW k \in Int, NEW g PROVE Lowered(FlattenSeq(turns(k, g)))
    OBVIOUS
  <2> DEFINE s == turns(k, g)
  <2>1. s = [r \in 1..m |-> s[r]] /\ \A r \in 1..m : Lowered(s[r])
    BY <1>4, <1>5, LoweredConcat
  <2> HIDE DEF s
  <2> QED  BY <1>3, <2>1, LoweredLoop DEF s
<1> HIDE DEF turns
<1>7. \A k \in Int : Lowered(FlattenSeq(groups(k)))
  <2> SUFFICES ASSUME NEW k \in Int PROVE Lowered(FlattenSeq(groups(k)))
    OBVIOUS
  <2> DEFINE s == groups(k)
  <2>1. s = [g \in 1..sequences |-> s[g]] /\ \A g \in 1..sequences : Lowered(s[g])
    BY <1>6
  <2> HIDE DEF s
  <2> QED  BY <1>3, <2>1, LoweredLoop DEF s
<1> HIDE DEF groups
<1>8. all = [k \in 1..keyRows |-> all[k]] /\ \A k \in 1..keyRows : Lowered(all[k])
  <2>1. \A k \in 1..keyRows : k - 1 \in Int
    BY <1>3
  <2> QED  BY <1>7, <2>1
<1> HIDE DEF all
<1>9. Lowered(FlattenSeq(all)) /\ Lowered(Check(ok))
  BY <1>3, <1>8, LoweredLoop, LoweredCall
<1> QED  BY <1>1, <1>9, LoweredConcat

(* Sizes of a transfer of scores. *)
TransferShaped(p, t) ==
  /\ p.spec.length \in Int /\ p.spec.heads \in Int
  /\ Len(t.banks) \in Nat \ {0} /\ Len(t.offsets) \in Int

\* The rows and bursts of the scores.
LEMMA ScoreSizes ==
  ASSUME NEW p, p.spec.length \in Int
  PROVE  ScoreRows(p) \in Int /\ \A k \in Int : RowBursts(p.spec.length, k) \in Int
<1>1. ScoreRows(p) \in Int
  BY DeviceSizes, CeilDivInt DEF ScoreRows
<1>2. \A k \in Int : RowBursts(p.spec.length, k) \in Int
  <2> SUFFICES ASSUME NEW k \in Int PROVE RowBursts(p.spec.length, k) \in Int
    OBVIOUS
  <2> DEFINE count == InRow(p.spec.length, k)
  <2>1. count \in Int
    <3>1. \A a, b \in Int : a * b \in Int
      OBVIOUS
    <3> QED  BY <3>1, DeviceSizes DEF InRow, Lesser
  <2> HIDE DEF count
  <2> QED  BY <2>1, DeviceSizes, CeilDivInt DEF RowBursts, count
<1> QED  BY <1>1, <1>2

\* One transfer of the scores.
LEMMA ScoreTransferLowered ==
  ASSUME NEW p, NEW t, NEW needs, NEW makes, TransferShaped(p, t)
  PROVE  Lowered(ScoreTransfer(p, t, needs, makes))
<1> DEFINE perBank == HeadsPerScoreBank(p, t)
           rows == ScoreRows(p)
           bursts(k) == RowBursts(p.spec.length, k)
           banks == Len(t.banks)
           offsets == Len(t.offsets)
           head(h, b) == (t.banks[b + 1] \div BanksPerGroup) * perBank + h
           from(h, b) == IF t.op = "WR_SBK" THEN head(h, b) ELSE h
           one(k, h, s, b, o) ==
             [op |-> t.op, channel |-> BankChannel(t.banks[b + 1]) + t.offsets[o + 1],
              bank |-> BankNumber(t.banks[b + 1]),
              row |-> p.rows.scores.start + h * ScoreRows(p) + k,
              column |-> s * BurstLength, size |-> 1, slot |-> p.buffers.scores.start + s,
              needs |-> {PartOf(value, <<from(h, b), k>>) : value \in needs},
              makes |-> PartOf(makes, <<head(h, b), k>>)]
           copies(k, h, s, b) == [o \in 1..offsets |-> Append1(one(k, h, s, b, o - 1))]
           turn(k, h, s, b) ==
             IF head(h, b) >= p.spec.heads THEN <<>>
             ELSE FlattenSeq(copies(k, h, s, b))
           inBank(k, h, s) == [b \in 1..banks |-> turn(k, h, s, b - 1)]
           inBurst(k, h) == [s \in 1..bursts(k) |-> FlattenSeq(inBank(k, h, s - 1))]
           inHead(k) == [h \in 1..perBank |-> FlattenSeq(inBurst(k, h - 1))]
           all == [k \in 1..rows |-> FlattenSeq(inHead(k - 1))]
<1>1. PICK ok : ScoreTransfer(p, t, needs, makes) = Check(ok) \o FlattenSeq(all)
  BY DEF ScoreTransfer, Each
<1>2. perBank \in Int /\ rows \in Int /\ banks \in Int /\ offsets \in Int
      /\ \A k \in Int : bursts(k) \in Int
  <2>1. p.spec.length \in Int /\ banks \in Int /\ offsets \in Int
    BY DEF TransferShaped
  <2>2. perBank \in Int
    BY CeilDivInt DEF TransferShaped, HeadsPerScoreBank
  <2>3. rows \in Int /\ \A k \in Int : bursts(k) \in Int
    BY <2>1, ScoreSizes
  <2> HIDE DEF perBank, rows, bursts, banks, offsets
  <2> QED  BY <2>1, <2>2, <2>3
<1> HIDE DEF one, perBank, rows, bursts, banks, offsets
<1>3. \A k, h, s, b : Lowered(FlattenSeq(copies(k, h, s, b)))
  <2> SUFFICES ASSUME NEW k, NEW h, NEW s, NEW b
               PROVE  Lowered(FlattenSeq(copies(k, h, s, b)))
    OBVIOUS
  <2> DEFINE z == copies(k, h, s, b)
  <2>1. z = [o \in 1..offsets |-> z[o]] /\ \A o \in 1..offsets : Lowered(z[o])
    BY LoweredCall
  <2> HIDE DEF z
  <2> QED  BY <1>2, <2>1, LoweredLoop DEF z
<1> HIDE DEF copies
<1>4. \A k, h, s, b : Lowered(turn(k, h, s, b))
  BY <1>3, LoweredCall
<1> HIDE DEF turn
<1>5. \A k, h, s : Lowered(FlattenSeq(inBank(k, h, s)))
  <2> SUFFICES ASSUME NEW k, NEW h, NEW s PROVE Lowered(FlattenSeq(inBank(k, h, s)))
    OBVIOUS
  <2> DEFINE z == inBank(k, h, s)
  <2>1. z = [b \in 1..banks |-> z[b]] /\ \A b \in 1..banks : Lowered(z[b])
    BY <1>4
  <2> HIDE DEF z
  <2> QED  BY <1>2, <2>1, LoweredLoop DEF z
<1> HIDE DEF inBank
<1>6. \A k \in Int : \A h : Lowered(FlattenSeq(inBurst(k, h)))
  <2> SUFFICES ASSUME NEW k \in Int, NEW h PROVE Lowered(FlattenSeq(inBurst(k, h)))
    OBVIOUS
  <2> DEFINE z == inBurst(k, h)
             n == bursts(k)
  <2>1. z = [s \in 1..n |-> z[s]] /\ (\A s \in 1..n : Lowered(z[s])) /\ n \in Int
    BY <1>2, <1>5
  <2> HIDE DEF z, n
  <2> QED  BY <2>1, LoweredLoop DEF z
<1> HIDE DEF inBurst
<1>7. \A k \in Int : Lowered(FlattenSeq(inHead(k)))
  <2> SUFFICES ASSUME NEW k \in Int PROVE Lowered(FlattenSeq(inHead(k)))
    OBVIOUS
  <2> DEFINE z == inHead(k)
  <2>1. z = [h \in 1..perBank |-> z[h]] /\ \A h \in 1..perBank : Lowered(z[h])
    BY <1>6
  <2> HIDE DEF z
  <2> QED  BY <1>2, <2>1, LoweredLoop DEF z
<1> HIDE DEF inHead
<1>8. all = [k \in 1..rows |-> all[k]] /\ \A k \in 1..rows : Lowered(all[k])
  <2>1. \A k \in 1..rows : k - 1 \in Int
    BY <1>2
  <2> QED  BY <1>7, <2>1
<1> HIDE DEF all
<1>9. Lowered(FlattenSeq(all)) /\ Lowered(Check(ok))
  BY <1>2, <1>8, LoweredLoop, LoweredCall
<1> QED  BY <1>1, <1>9, LoweredConcat

(* Sizes of the softmax. *)
SoftmaxShaped(p) ==
  /\ p.heads_per_bank \in Int /\ p.spec.length \in Int /\ Len(p.passes) \in Int
  /\ \A k \in 1..Len(p.passes) :
       /\ TransferShaped(p, p.passes[k].left) /\ TransferShaped(p, p.passes[k].right)
       /\ TransferShaped(p, p.passes[k].output)

\* One pass of the softmax.
LEMMA SoftmaxPassLowered ==
  ASSUME NEW p, NEW pass, p.heads_per_bank \in Int, p.spec.length \in Int,
         TransferShaped(p, pass.left), TransferShaped(p, pass.right),
         TransferShaped(p, pass.output)
  PROVE  Lowered(SoftmaxPass(p, pass))
<1> DEFINE left == ScoreTransfer(p, pass.left, {p.buffers.scores.value}, "scores")
           right == ScoreTransfer(p, pass.right, {}, "scale")
           output == ScoreTransfer(p, pass.output, {"scaled"}, "scores")
           n == ScoreRows(p)
           m == p.heads_per_bank
           mul(h, k) == EwMul(AllChannels, p.rows.scores.start + h * ScoreRows(p) + k,
                              RowBursts(p.spec.length, k), RowOperands(p, h, k),
                              PartOf("scaled", <<h, k>>))
           inRow(h) == [k \in 1..n |-> Append1(mul(h, k - 1))]
           all == [h \in 1..m |-> FlattenSeq(inRow(h - 1))]
<1>1. SoftmaxPass(p, pass) = left \o right \o FlattenSeq(all) \o output
  BY DEF SoftmaxPass, Each
<1>2. Lowered(left) /\ Lowered(right) /\ Lowered(output)
  BY ScoreTransferLowered
<1>3. n \in Int /\ m \in Int
  BY ScoreSizes
<1> HIDE DEF left, right, output, n, m, mul
<1>4. \A h : Lowered(FlattenSeq(inRow(h)))
  <2> SUFFICES ASSUME NEW h PROVE Lowered(FlattenSeq(inRow(h)))
    OBVIOUS
  <2> DEFINE z == inRow(h)
  <2>1. z = [k \in 1..n |-> z[k]] /\ \A k \in 1..n : Lowered(z[k])
    BY LoweredCall
  <2> HIDE DEF z
  <2> QED  BY <1>3, <2>1, LoweredLoop DEF z
<1> HIDE DEF inRow
<1>5. all = [h \in 1..m |-> all[h]] /\ \A h \in 1..m : Lowered(all[h])
  BY <1>4
<1> HIDE DEF all
<1>6. Lowered(FlattenSeq(all))
  BY <1>3, <1>5, LoweredLoop
<1>7. Lowered(left \o right \o FlattenSeq(all) \o output)
  BY <1>2, <1>6, LoweredParts
<1> QED  BY <1>1, <1>7

\* The softmax.
LEMMA SoftmaxLowered ==
  ASSUME NEW p, SoftmaxShaped(p)
  PROVE  Lowered(Softmax(p))
<1> DEFINE n == Len(p.passes)
           all == [k \in 1..n |-> SoftmaxPass(p, p.passes[k - 1 + 1])]
<1>1. PICK ok : Softmax(p) = Check(ok) \o FlattenSeq(all)
  BY DEF Softmax, Each
<1>2. n \in Int /\ \A k \in 1..n : Lowered(SoftmaxPass(p, p.passes[k]))
  BY SoftmaxPassLowered DEF SoftmaxShaped
<1> HIDE DEF n
<1>3. all = [k \in 1..n |-> all[k]] /\ \A k \in 1..n : Lowered(all[k])
  <2>1. \A k \in 1..n : k - 1 + 1 = k
    BY <1>2
  <2> QED  BY <1>2, <2>1
<1> HIDE DEF all
<1>4. Lowered(FlattenSeq(all)) /\ Lowered(Check(ok))
  BY <1>2, <1>3, LoweredLoop, LoweredCall
<1> QED  BY <1>1, <1>4, LoweredConcat

(* Sizes of the output of the attention. *)
OutputShaped(p) ==
  /\ p.spec.kv_heads \in Int /\ p.spec.head \in Int /\ p.spec.length \in Int
  /\ p.spec.repeat \in Int

\* The weighted values.
LEMMA AttentionOutputLowered ==
  ASSUME NEW p, OutputShaped(p)
  PROVE  Lowered(AttentionOutput(p))
<1> DEFINE heads == CeilDiv(p.spec.kv_heads, ChannelsPerBlock)
           dimensions == CeilDiv(p.spec.head, NumBanks)
           perDimension == CeilDiv(p.spec.max, DramColumns)
           m == p.spec.repeat
           rows == CeilDiv(p.spec.length, DramColumns)
           one(h, r, k, d) ==
             Append1(WriteBias(AllChannels, p.buffers.output.start,
                               {IF k = 0 THEN "zero" ELSE Weighted(h, r, d)}))
             \o Append1(Mac(AllChannels,
                            p.rows.value_cache.start
                              + ValueRow(perDimension, dimensions, h, d, k),
                            0, RowBursts(p.spec.length, k), 0, "GLOBAL_BUFFER",
                            {"value", "host"},
                            {Weights(p, h, turn, k) : turn \in 0..(p.spec.repeat - 1)}))
             \o Append1(ReadResult("RD_MAC", AllChannels, p.buffers.output.start, 0,
                                   Weighted(h, r, d)))
           outputs(h, r, k) == [d \in 1..dimensions |-> one(h, r, k, d - 1)]
           load(h, r, k) == Append1(WriteGlobal(AllChannels, p.buffers.scores.start,
                                                RowBursts(p.spec.length, k),
                                                Weights(p, h, r, k)))
           inRow(h, r) ==
             [k \in 1..rows |-> load(h, r, k - 1) \o FlattenSeq(outputs(h, r, k - 1))]
           turns(h) == [r \in 1..m |-> FlattenSeq(inRow(h, r - 1))]
           all == [h \in 1..heads |-> FlattenSeq(turns(h - 1))]
<1>1. PICK ok : AttentionOutput(p) = Check(ok) \o FlattenSeq(all)
  BY DEF AttentionOutput, Each
<1>2. heads \in Int /\ dimensions \in Int /\ m \in Int /\ rows \in Int
  BY DeviceSizes, CeilDivInt DEF OutputShaped
<1>3. (\A h, r, k, d : Lowered(one(h, r, k, d))) /\ \A h, r, k : Lowered(load(h, r, k))
  BY LoweredCall, LoweredConcat
<1> HIDE DEF one, load, heads, dimensions, m, rows
<1>4. \A h, r, k : Lowered(FlattenSeq(outputs(h, r, k)))
  <2> SUFFICES ASSUME NEW h, NEW r, NEW k PROVE Lowered(FlattenSeq(outputs(h, r, k)))
    OBVIOUS
  <2> DEFINE z == outputs(h, r, k)
  <2>1. z = [d \in 1..dimensions |-> z[d]] /\ \A d \in 1..dimensions : Lowered(z[d])
    BY <1>3
  <2> HIDE DEF z
  <2> QED  BY <1>2, <2>1, LoweredLoop DEF z
<1> HIDE DEF outputs
<1>5. \A h, r : Lowered(FlattenSeq(inRow(h, r)))
  <2> SUFFICES ASSUME NEW h, NEW r PROVE Lowered(FlattenSeq(inRow(h, r)))
    OBVIOUS
  <2> DEFINE z == inRow(h, r)
  <2>1. z = [k \in 1..rows |-> z[k]] /\ \A k \in 1..rows : Lowered(z[k])
    BY <1>3, <1>4, LoweredConcat
  <2> HIDE DEF z
  <2> QED  BY <1>2, <2>1, LoweredLoop DEF z
<1> HIDE DEF inRow
<1>6. \A h : Lowered(FlattenSeq(turns(h)))
  <2> SUFFICES ASSUME NEW h PROVE Lowered(FlattenSeq(turns(h)))
    OBVIOUS
  <2> DEFINE z == turns(h)
  <2>1. z = [r \in 1..m |-> z[r]] /\ \A r \in 1..m : Lowered(z[r])
    BY <1>5
  <2> HIDE DEF z
  <2> QED  BY <1>2, <2>1, LoweredLoop DEF z
<1> HIDE DEF turns
<1>7. all = [h \in 1..heads |-> all[h]] /\ \A h \in 1..heads : Lowered(all[h])
  BY <1>6
<1> HIDE DEF all
<1>8. Lowered(FlattenSeq(all)) /\ Lowered(Check(ok))
  BY <1>2, <1>7, LoweredLoop, LoweredCall
<1> QED  BY <1>1, <1>8, LoweredConcat

\* Products and sums of sizes.
LEMMA SizeProducts ==
  \A a, b \in Nat \ {0} : a * b \in Nat \ {0} /\ a + b \in Nat \ {0}
OBVIOUS

\* The sizes of a request the compiler accepts.
LEMMA PlannedSizes ==
  ASSUME NEW r, Planned(r)
  PROVE  /\ r.hidden \in Nat \ {0} /\ r.heads \in Nat \ {0} /\ r.kv_heads \in Nat \ {0}
         /\ r.intermediate \in Nat \ {0} /\ r.max \in Nat \ {0} /\ r.length \in Nat \ {0}
         /\ HeadSize(r) \in Nat \ {0} /\ KvWidth(r) \in Nat \ {0}
         /\ r.heads \div r.kv_heads \in Nat
         /\ AccumulatorSlots \in Nat /\ AccumulatorSlots >= 2
<1>1. /\ r.hidden \in Nat \ {0} /\ r.heads \in Nat \ {0} /\ r.kv_heads \in Nat \ {0}
      /\ r.intermediate \in Nat \ {0} /\ r.max \in Nat \ {0} /\ r.length \in 1..r.max
      /\ r.hidden % r.heads = 0
  BY DEF Planned, ValidRequest
<1>2. \A a, b \in Nat \ {0} : (a % b = 0 => a \div b \in Nat \ {0}) /\ a \div b \in Nat
  OBVIOUS
<1>3. HeadSize(r) \in Nat \ {0} /\ r.heads \div r.kv_heads \in Nat
  BY <1>1, <1>2 DEF HeadSize
<1>4. KvWidth(r) \in Nat \ {0}
  BY <1>1, <1>3, SizeProducts DEF KvWidth
<1>5. AccumulatorSlots \in Nat /\ AccumulatorSlots >= 2
  BY HardwareAssumption DEF Planned, ValidContext, ValidHardware
<1> QED  BY <1>1, <1>3, <1>4, <1>5

\* The layout of a vector over the bank groups.
LEMMA LayoutSizes ==
  ASSUME NEW v \in Nat \ {0}
  PROVE  /\ LaidOut(GroupLayout(v))
         /\ GroupLayout(v).partitions \in Nat \ {0}
         /\ ValuesPerPartition(GroupLayout(v)) \in Nat \ {0}
         /\ SlotCount(GroupLayout(v)) \in Nat \ {0}
         /\ GroupLayout(v).values = v
<1> DEFINE l == GroupLayout(v)
           parts == CeilDiv(v, CeilDiv(v, Groups))
<1>1. l = [values |-> v, partitions |-> parts, burst |-> BurstLength]
  BY DEF GroupLayout, PlanVector, Layout
<1>2. parts \in Nat \ {0}
  <2>1. CeilDiv(v, Groups) \in Nat \ {0}
    BY DeviceSizes, CeilDivInt
  <2> QED  BY <2>1, CeilDivInt
<1> HIDE DEF l, parts
<1>3. l.values = v /\ l.partitions = parts /\ l.burst = BurstLength
  BY <1>1
<1>4. ValuesPerPartition(l) \in Nat \ {0}
  BY <1>2, <1>3, CeilDivInt DEF ValuesPerPartition
<1>5. SlotsPerPartition(l) \in Nat \ {0}
  BY <1>3, <1>4, DeviceSizes, CeilDivInt DEF SlotsPerPartition
<1>6. PhysicalValuesPerPartition(l) \in Nat \ {0} /\ SlotCount(l) \in Nat \ {0}
  BY <1>2, <1>3, <1>5, DeviceSizes, SizeProducts DEF PhysicalValuesPerPartition, SlotCount
<1>7. PhysicalValues(l) \in Nat \ {0}
  BY <1>2, <1>3, <1>6, SizeProducts DEF PhysicalValues
<1> QED  BY <1>2, <1>3, <1>4, <1>6, <1>7 DEF LaidOut, l

\* The size of the groups of a matrix.
LEMMA GroupSizes ==
  ASSUME NEW outputs \in Nat \ {0}, AccumulatorSlots \in Nat, AccumulatorSlots >= 2,
         NEW activated
  PROVE  /\ OutputsPerBank(outputs) \in Nat \ {0}
         /\ CeilDiv(OutputsPerBank(outputs),
                    CeilDiv(OutputsPerBank(outputs), AccumulatorLimit(activated))) \in Nat \ {0}
<1>1. OutputsPerBank(outputs) \in Nat \ {0}
  BY DeviceSizes, CeilDivInt DEF OutputsPerBank
<1>2. AccumulatorLimit(activated) \in Nat \ {0}
  BY DEF AccumulatorLimit
<1>3. CeilDiv(OutputsPerBank(outputs), AccumulatorLimit(activated)) \in Nat \ {0}
  BY <1>1, <1>2, CeilDivInt
<1> QED  BY <1>1, <1>3, CeilDivInt

(* Sizes of a projection. *)
GemvShaped(p) ==
  /\ p.vector \in Nat \ {0} /\ p.per_bank \in Nat \ {0} /\ p.group \in Nat \ {0}

\* A group of outputs.
LEMMA GemvGroupLowered ==
  ASSUME NEW p, NEW v, NEW size, NEW first, NEW count \in Int
  PROVE  Lowered(GemvGroup(p, v, size, first, count))
<1> DEFINE bias(k) == WriteBias(p.channels, ResultSlot(p, first, k),
                                IF v = 0 THEN {} ELSE {p.output.value})
           mac(k) == Mac(p.channels, WeightRow(p, first + k, v), 0, size, k,
                         "GLOBAL_BUFFER", {"host"}, {p.input.value})
           read(k) == ReadResult("RD_MAC", p.channels, ResultSlot(p, first, k), k,
                                 p.output.value)
           active(k) == Append1(Activate(p.channels, k))
                        \o Append1(ReadResult("RD_AF", p.channels,
                                     p.activated.start + first + k, k, p.activated.value))
           biases == [k \in 1..count |-> Append1(bias(k - 1))]
           macs == [k \in 1..count |-> Append1(mac(k - 1))]
           reads == [k \in 1..count |-> Append1(read(k - 1))]
           actives == [k \in 1..count |-> active(k - 1)]
           last == p.is_activated /\ v = RowsPerOutput(p) - 1
           rest == IF last THEN FlattenSeq(actives) ELSE <<>>
<1>1. GemvGroup(p, v, size, first, count)
        = FlattenSeq(biases) \o FlattenSeq(macs) \o FlattenSeq(reads) \o rest
  BY DEF GemvGroup, Each
<1>2. /\ biases = [k \in 1..count |-> biases[k]] /\ \A k \in 1..count : Lowered(biases[k])
      /\ macs = [k \in 1..count |-> macs[k]] /\ \A k \in 1..count : Lowered(macs[k])
      /\ reads = [k \in 1..count |-> reads[k]] /\ \A k \in 1..count : Lowered(reads[k])
  <2> HIDE DEF bias, mac, read
  <2> QED  BY LoweredCall
<1>3. actives = [k \in 1..count |-> actives[k]] /\ \A k \in 1..count : Lowered(actives[k])
  <2>1. \A k : Lowered(active(k))
    BY LoweredCall, LoweredConcat
  <2> HIDE DEF active
  <2> QED  BY <2>1
<1> HIDE DEF biases, macs, reads, actives, last
<1>4. /\ Lowered(FlattenSeq(biases)) /\ Lowered(FlattenSeq(macs))
      /\ Lowered(FlattenSeq(reads)) /\ Lowered(FlattenSeq(actives))
  BY <1>2, <1>3, LoweredLoop
<1>5. Lowered(rest)
  BY <1>4, LoweredCall
<1> HIDE DEF rest
<1>6. Lowered(FlattenSeq(biases) \o FlattenSeq(macs) \o FlattenSeq(reads) \o rest)
  BY <1>4, <1>5, LoweredParts
<1> QED  BY <1>1, <1>6

\* A projection.
LEMMA WeightGemvLowered ==
  ASSUME NEW p, GemvShaped(p)
  PROVE  Lowered(WeightGemv(p))
<1> DEFINE n == RowsPerOutput(p)
           m == CeilDiv(p.per_bank, p.group)
           size(v) == CeilDiv(Lesser(p.vector - v * DramColumns, DramColumns), BurstLength)
           count(g) == Lesser(p.group, p.per_bank - g * p.group)
           load(v) == Append1(WriteGlobal(p.channels,
                                p.input.start + v * (DramColumns \div BurstLength),
                                size(v), p.input.value))
           one(v, g) == GemvGroup(p, v, size(v), g * p.group, count(g))
           groups(v) == [g \in 1..m |-> one(v, g - 1)]
           all == [v \in 1..n |-> load(v - 1) \o FlattenSeq(groups(v - 1))]
<1>1. PICK ok : WeightGemv(p) = Check(ok) \o FlattenSeq(all)
  BY DEF WeightGemv, Each
<1>2. n \in Int /\ m \in Int
  <2>1. p.vector \in Int /\ p.per_bank \in Int /\ p.group \in Nat \ {0}
    BY DEF GemvShaped
  <2>2. n \in Int
    BY <2>1, DeviceSizes, CeilDivInt DEF RowsPerOutput
  <2>3. m \in Int
    BY <2>1, CeilDivInt
  <2> QED  BY <2>2, <2>3
<1>3. \A g \in Int : count(g) \in Int
  <2>1. \A a, b \in Int : a * b \in Int
    OBVIOUS
  <2> QED  BY <2>1 DEF GemvShaped, Lesser
<1>4. \A v : Lowered(load(v))
  BY LoweredCall
<1>5. \A v : \A g \in Int : Lowered(one(v, g))
  <2> HIDE DEF count, size
  <2> QED  BY <1>3, GemvGroupLowered
<1> HIDE DEF n, m, load, one
<1>6. \A v : Lowered(FlattenSeq(groups(v)))
  <2> SUFFICES ASSUME NEW v PROVE Lowered(FlattenSeq(groups(v)))
    OBVIOUS
  <2> DEFINE z == groups(v)
  <2>1. z = [g \in 1..m |-> z[g]] /\ \A g \in 1..m : Lowered(z[g])
    <3>1. \A g \in 1..m : g - 1 \in Int
      BY <1>2
    <3> QED  BY <1>5, <3>1
  <2> HIDE DEF z
  <2> QED  BY <1>2, <2>1, LoweredLoop DEF z
<1> HIDE DEF groups
<1>7. all = [v \in 1..n |-> all[v]] /\ \A v \in 1..n : Lowered(all[v])
  <2>1. \A v : Lowered(load(v) \o FlattenSeq(groups(v)))
    BY <1>4, <1>6, LoweredConcat
  <2>2. all = [v \in 1..n |-> all[v]]
    OBVIOUS
  <2>3. \A v \in 1..n : all[v] = load(v - 1) \o FlattenSeq(groups(v - 1))
    OBVIOUS
  <2> HIDE DEF all
  <2> QED  BY <2>1, <2>2, <2>3
<1> HIDE DEF all
<1>8. Lowered(FlattenSeq(all)) /\ Lowered(Check(ok))
  BY <1>2, <1>7, LoweredLoop, LoweredCall
<1> QED  BY <1>1, <1>8, LoweredConcat

(* What a fault spoils: nothing, a pass, or a place of one plan or of the  *)
(* plan the attention stages share.                                        *)
PlanFault(f, n) ==
  /\ f.kind \in {"short", "moved"} /\ f.part = "plan"
  /\ f.stages = {n} /\ n \notin AttentionStages
  /\ \/ f.name \in RowsOf(n)
     \/ f.kind = "short" /\ f.name \in SpansOf(n)

FaultShaped(f) ==
  \/ f.stages = {}
  \/ f.kind = "pass" /\ f.stages = {"softmax"}
  \/ \E n : PlanFault(f, n)
  \/ /\ f.kind \in {"short", "moved"} /\ f.stages = AttentionStages
     /\ f.part \in {"rows", "buffers"}

(* The parts of the plan of a stage a fault can spoil. *)
Spoilable(name) ==
  IF name \in AttentionStages THEN {"rows", "buffers"} ELSE RowsOf(name) \cup SpansOf(name)

\* Every fault a request is compiled with is of one of these kinds.
LEMMA FaultsShaped ==
  FaultShaped(NoFault) /\ \A r : \A f \in Faults(r) : FaultShaped(f)
<1>1. FaultShaped(NoFault)
  BY DEF FaultShaped, NoFault
<1>2. ASSUME NEW r, NEW g \in Faults(r) PROVE FaultShaped(g)
  <2> DEFINE names == Range(Stages)
             rows == UNION {{Fault(k, {n}, "plan", f) : k \in {"short", "moved"}, f \in RowsOf(n)}
                              : n \in names}
             spans == UNION {{Fault("short", {n}, "plan", f) : f \in SpansOf(n)} : n \in names}
             shared == {Fault(k, AttentionStages, "rows", f) :
                          k \in {"short", "moved"}, f \in AttentionRows}
                       \cup {Fault("short", AttentionStages, "buffers", f) : f \in AttentionSpans}
  <2>1. g \in rows \/ g \in spans \/ g \in shared
        \/ g = [kind |-> "pass", stages |-> {"softmax"}]
    <3>1. Faults(r) = {f \in rows \cup spans \cup shared : PlannedCount(r, f) >= 2}
                        \cup {[kind |-> "pass", stages |-> {"softmax"}]}
      BY DEF Faults
    <3> HIDE DEF rows, spans, shared
    <3> QED  BY <3>1
  <2>2. \A n : n \in AttentionStages => RowsOf(n) = {} /\ SpansOf(n) = {}
    BY DEF AttentionStages, RowsOf, SpansOf, Projections
  <2>3. CASE g \in rows
    <3>1. PICK n \in names, k \in {"short", "moved"} :
            \E x \in RowsOf(n) : g = Fault(k, {n}, "plan", x)
      <4> HIDE DEF names
      <4>1. PICK n \in names :
              g \in {Fault(k, {n}, "plan", f) : k \in {"short", "moved"}, f \in RowsOf(n)}
        BY <2>3
      <4>2. \E k \in {"short", "moved"} : \E x \in RowsOf(n) : g = Fault(k, {n}, "plan", x)
        BY <4>1
      <4> QED  BY <4>2
    <3>2. /\ g.kind \in {"short", "moved"} /\ g.stages = {n} /\ g.part = "plan"
          /\ g.name \in RowsOf(n)
      BY <3>1 DEF Fault
    <3>3. n \notin AttentionStages
      BY <2>2, <3>2
    <3>4. PlanFault(g, n)
      BY <3>2, <3>3 DEF PlanFault
    <3> HIDE DEF rows, spans, shared
    <3> QED  BY <3>4 DEF FaultShaped
  <2>4. CASE g \in spans
    <3>1. PICK n \in names : \E x \in SpansOf(n) : g = Fault("short", {n}, "plan", x)
      BY <2>4
    <3>2. g.kind = "short" /\ g.stages = {n} /\ g.part = "plan" /\ g.name \in SpansOf(n)
      BY <3>1 DEF Fault
    <3>3. PlanFault(g, n)
      BY <2>2, <3>2 DEF PlanFault
    <3> QED  BY <3>3 DEF FaultShaped
  <2>5. CASE g \in shared
    <3>1. PICK k \in {"short", "moved"}, part \in {"rows", "buffers"} :
            \E x : g = Fault(k, AttentionStages, part, x)
      <4>1. CASE g \in {Fault(k, AttentionStages, "rows", f) :
                           k \in {"short", "moved"}, f \in AttentionRows}
        BY <4>1
      <4>2. CASE g \in {Fault("short", AttentionStages, "buffers", f) : f \in AttentionSpans}
        BY <4>2
      <4> QED  BY <2>5, <4>1, <4>2
    <3>2. g.kind = k /\ g.stages = AttentionStages /\ g.part = part
      BY <3>1 DEF Fault
    <3> QED  BY <3>2 DEF FaultShaped
  <2>6. CASE g = [kind |-> "pass", stages |-> {"softmax"}]
    BY <2>6 DEF FaultShaped
  <2> HIDE DEF rows, spans, shared
  <2> QED  BY <2>1, <2>3, <2>4, <2>5, <2>6
<1> QED  BY <1>1, <1>2

\* A fault leaves the rest of a plan as it was.
LEMMA GivenKeeps ==
  ASSUME NEW p, NEW name, NEW f, FaultShaped(f), ~(name = "softmax" /\ f.kind = "pass"),
         NEW field \in DOMAIN p, field \notin Spoilable(name)
  PROVE  Given(p, name, f)[field] = p[field]
<1>1. CASE name \notin f.stages
  BY <1>1 DEF Given
<1>2. CASE name \in f.stages
  <2>1. f.kind # "pass"
    BY <1>2 DEF FaultShaped, PlanFault
  <2>2. CASE f.part = "plan"
    <3>1. f.name \in Spoilable(name)
      BY <1>2, <2>1, <2>2 DEF FaultShaped, PlanFault, Spoilable
    <3>2. Spoiled(p, f) = [p EXCEPT ![f.name] = Edited(@, f)]
      BY <2>1, <2>2 DEF Spoiled
    <3>3. Spoiled(p, f)[field] = p[field]
      BY <3>1, <3>2
    <3> QED  BY <1>2, <3>3 DEF Given
  <2>3. CASE f.part # "plan"
    <3>1. f.part \in Spoilable(name)
      BY <1>2, <2>1, <2>3 DEF FaultShaped, PlanFault, Spoilable
    <3>2. Spoiled(p, f) = [p EXCEPT ![f.part][f.name] = Edited(@, f)]
      BY <2>1, <2>3 DEF Spoiled
    <3>3. Spoiled(p, f)[field] = p[field]
      BY <3>1, <3>2
    <3> QED  BY <1>2, <3>3 DEF Given
  <2> QED  BY <2>2, <2>3
<1> QED  BY <1>1, <1>2

-----------------------------------------------------------------------------
(* The stages of a request that is accepted. *)

\* The norms.
LEMMA NormsLowered ==
  ASSUME NEW r, Planned(r), NEW f, FaultShaped(f), NEW name \in {"sa_norm", "ffn_norm"}
  PROVE  Lowered(Lower(name, Given(StagePlan(r, name), name, f)))
<1> DEFINE p == StagePlan(r, name)
           q == Given(p, name, f)
<1>1. "layout" \in DOMAIN p /\ p.layout = GroupLayout(r.hidden)
  <2>1. p = NormStagePlan(r, PlannedMemory(r), BufferSpans(r), name)
    BY DEF StagePlan, PlanOfStage, Projections, AttentionStages
  <2>2. ASSUME NEW a, NEW b, NEW c, NEW d, NEW e, NEW g, NEW h
        PROVE  /\ "layout" \in DOMAIN NormPlan(r, a, b, c, d, e, g, h)
               /\ NormPlan(r, a, b, c, d, e, g, h).layout = GroupLayout(r.hidden)
    BY DEF NormPlan
  <2>3. CASE name = "sa_norm"
    BY <2>1, <2>2, <2>3 DEF NormStagePlan
  <2>4. CASE name = "ffn_norm"
    BY <2>1, <2>2, <2>4 DEF NormStagePlan
  <2> QED  BY <2>3, <2>4
<1>2. Lower(name, q) = RmsNorm(q)
  <2> HIDE DEF q
  <2> QED  BY DEF Lower, Projections
<1>3. "layout" \notin Spoilable(name) /\ name # "softmax"
  BY DEF Spoilable, RowsOf, SpansOf, AttentionStages, Projections
<1> HIDE DEF p
<1>4. q.layout = GroupLayout(r.hidden)
  BY <1>1, <1>3, GivenKeeps
<1> HIDE DEF q
<1>5. LaidOut(q.layout)
  BY <1>4, PlannedSizes, LayoutSizes
<1> QED  BY <1>2, <1>5, RmsNormLowered DEF q, p

\* What a projection is planned for.
LEMMA ProjectionFields ==
  ASSUME NEW r, NEW name \in Projections
  PROVE  \E weights, input, output, activated :
         \E vector \in {r.hidden, r.intermediate},
            outputs \in {r.hidden, KvWidth(r), r.intermediate} :
           StagePlan(r, name) = GemvPlan(weights, input, GroupLayout(vector), output,
                                         activated, vector, outputs)
<1> DEFINE memory == PlannedMemory(r)
           b == BufferSpans(r)
<1>1. StagePlan(r, name) = ProjectionPlan(r, memory, b, name)
  BY DEF StagePlan, PlanOfStage, Projections, AttentionStages
<1> HIDE DEF memory, b
<1> QED  BY <1>1 DEF ProjectionPlan, Projections

\* A plan of the attention keeps its parts when a stage adds its own.
LEMMA ExtendedKeeps ==
  ASSUME NEW f, NEW g
  PROVE  /\ DOMAIN Extended(f, g) = DOMAIN f \cup DOMAIN g
         /\ \A x \in DOMAIN f : Extended(f, g)[x] = f[x]
         /\ \A x \in DOMAIN g : x \notin DOMAIN f => Extended(f, g)[x] = g[x]
BY DEF Extended

\* The projections.
LEMMA ProjectionShaped ==
  ASSUME NEW r, Planned(r), NEW f, FaultShaped(f), NEW name \in Projections
  PROVE  GemvShaped(Given(StagePlan(r, name), name, f))
<1> DEFINE p == StagePlan(r, name)
           q == Given(p, name, f)
<1>1. PICK weights, input, output, activated :
         \E vector \in {r.hidden, r.intermediate},
            outputs \in {r.hidden, KvWidth(r), r.intermediate} :
           p = GemvPlan(weights, input, GroupLayout(vector), output, activated, vector, outputs)
  BY ProjectionFields
<1>2. PICK vector \in {r.hidden, r.intermediate},
           outputs \in {r.hidden, KvWidth(r), r.intermediate} :
           p = GemvPlan(weights, input, GroupLayout(vector), output, activated, vector, outputs)
  BY <1>1
<1> HIDE DEF p
<1>3. /\ {"vector", "per_bank", "group"} \subseteq DOMAIN p
      /\ p.vector = vector /\ p.per_bank = OutputsPerBank(outputs)
      /\ p.group = CeilDiv(OutputsPerBank(outputs),
                     CeilDiv(OutputsPerBank(outputs), AccumulatorLimit(activated # output)))
  BY <1>2 DEF GemvPlan
<1>4. name # "softmax" /\ {"vector", "per_bank", "group"} \cap Spoilable(name) = {}
  BY DEF Spoilable, RowsOf, SpansOf, AttentionStages, Projections
<1>5. q.vector = p.vector /\ q.per_bank = p.per_bank /\ q.group = p.group
  BY <1>3, <1>4, GivenKeeps
<1> HIDE DEF q
<1>6. vector \in Nat \ {0} /\ outputs \in Nat \ {0}
  BY PlannedSizes
<1>7. q.vector \in Nat \ {0} /\ q.per_bank \in Nat \ {0} /\ q.group \in Nat \ {0}
  BY <1>3, <1>5, <1>6, PlannedSizes, GroupSizes
<1> QED  BY <1>7 DEF GemvShaped, q, p

\* A projection of an accepted request is lowered, faulty or not.
LEMMA ProjectionsLowered ==
  ASSUME NEW r, Planned(r), NEW f, FaultShaped(f), NEW name \in Projections
  PROVE  Lowered(Lower(name, Given(StagePlan(r, name), name, f)))
<1> DEFINE q == Given(StagePlan(r, name), name, f)
<1>1. GemvShaped(q)
  BY ProjectionShaped
<1> HIDE DEF q
<1>2. Lower(name, q) = WeightGemv(q)
  BY DEF Lower, Projections
<1> QED  BY <1>1, <1>2, WeightGemvLowered DEF q

\* The parts of the plan the attention stages share.
LEMMA AttentionParts ==
  ASSUME NEW r, NEW memory, NEW buffer
  PROVE  /\ DOMAIN AttentionPlan(r, memory, buffer) = {"spec", "buffers", "rows"}
         /\ AttentionPlan(r, memory, buffer).spec = AttentionSpec(r)
BY DEF AttentionPlan

\* What the stages of the attention are planned for.
LEMMA SpecSizes ==
  ASSUME NEW r, Planned(r)
  PROVE  LET s == AttentionSpec(r)
         IN  /\ s.kv_heads \in Nat \ {0} /\ s.head \in Nat \ {0} /\ s.length \in Nat \ {0}
             /\ s.repeat \in Nat /\ s.heads \in Nat \ {0} /\ s.kv_width \in Nat \ {0}
             /\ s.max \in Nat \ {0}
BY PlannedSizes DEF AttentionSpec

\* The rotary embedding.
LEMMA RotaryStageLowered ==
  ASSUME NEW r, Planned(r), NEW f, FaultShaped(f)
  PROVE  Lowered(Lower("rotary", Given(StagePlan(r, "rotary"), "rotary", f)))
<1> DEFINE p == StagePlan(r, "rotary")
           q == Given(p, "rotary", f)
           attention == AttentionPlan(r, PlannedMemory(r), BufferSpans(r))
           part(values) == [partitions |-> GroupLayout(values).partitions,
                            per_partition |-> ValuesPerPartition(GroupLayout(values))]
           own == [query |-> part(r.hidden), key |-> part(KvWidth(r))]
<1>1. p = Extended(attention, own)
  BY DEF StagePlan, PlanOfStage, Projections, AttentionStages, AttentionStagePlan, RotaryPlan
<1> HIDE DEF p, attention
<1>2. DOMAIN own = {"query", "key"} /\ DOMAIN attention = {"spec", "buffers", "rows"}
  BY AttentionParts DEF attention
<1>3. own.query = part(r.hidden) /\ own.key = part(KvWidth(r))
  OBVIOUS
<1> HIDE DEF own, part
<1>4. /\ "query" \in DOMAIN p /\ "key" \in DOMAIN p
      /\ p.query = part(r.hidden) /\ p.key = part(KvWidth(r))
  <2>1. /\ DOMAIN p = DOMAIN attention \cup DOMAIN own
        /\ \A x \in DOMAIN own : x \notin DOMAIN attention => p[x] = own[x]
    <3> DEFINE e == Extended(attention, own)
    <3>1. /\ DOMAIN e = DOMAIN attention \cup DOMAIN own
          /\ \A x \in DOMAIN own : x \notin DOMAIN attention => e[x] = own[x]
      BY ExtendedKeeps
    <3> HIDE DEF e
    <3>2. p = e
      BY <1>1 DEF e
    <3> QED  BY <3>1, <3>2
  <2>2. /\ "query" \in DOMAIN own /\ "query" \notin DOMAIN attention
        /\ "key" \in DOMAIN own /\ "key" \notin DOMAIN attention
    BY <1>2
  <2>3. p["query"] = own["query"] /\ p["key"] = own["key"]
    BY <2>1, <2>2
  <2> QED  BY <1>3, <2>1, <2>2, <2>3
<1>5. q.query = p.query /\ q.key = p.key
  BY <1>4, GivenKeeps DEF Spoilable, AttentionStages
<1> HIDE DEF q
<1>6. \A v \in Nat \ {0} : part(v).partitions \in Int /\ part(v).per_partition \in Int
  BY LayoutSizes DEF part
<1>7. Lowered(RotaryEmbedding(q))
  <2>1. /\ q.query.partitions \in Int /\ q.query.per_partition \in Int
        /\ q.key.partitions \in Int /\ q.key.per_partition \in Int
    BY <1>4, <1>5, <1>6, PlannedSizes
  <2> QED  BY <2>1, RotaryLowered
<1>8. Lower("rotary", q) = RotaryEmbedding(q)
  BY DEF Lower, Projections
<1> QED  BY <1>7, <1>8 DEF q, p

\* A sequence of offsets, one for every copy of the block.
LEMMA ReplicasCount == Len(ReplicaOffsets) \in Int
<1> DEFINE s == ReplicaOffsets
<1>1. s = [k \in 1..Copies |-> s[k]]
  BY DEF ReplicaOffsets
<1> HIDE DEF s
<1> QED  BY <1>1, DeviceSizes, ListingOf DEF s, IsListing

\* The update of the caches.
LEMMA UpdateStageLowered ==
  ASSUME NEW r, Planned(r), NEW f, FaultShaped(f)
  PROVE  Lowered(Lower("kv_update", Given(StagePlan(r, "kv_update"), "kv_update", f)))
<1> DEFINE p == StagePlan(r, "kv_update")
           q == Given(p, "kv_update", f)
           attention == AttentionPlan(r, PlannedMemory(r), BufferSpans(r))
           token == r.length - 1
           own == [sequence_index |-> token, key_bank |-> token % TotalBanks,
             key_group |-> KeyGroup(token), key_rows |-> CeilDiv(KvWidth(r), DramColumns),
             key_offsets |-> ReplicaOffsets,
             value_channels |-> [k \in 1..ChannelsPerBlock |-> k - 1],
             value_rows |-> CeilDiv(r.max, DramColumns),
             value_sequence_row |-> token \div DramColumns,
             value_heads |-> CeilDiv(r.kv_heads, ChannelsPerBlock),
             value_dimensions |-> CeilDiv(HeadSize(r), NumBanks)]
           fields == {"key_rows", "key_offsets", "value_channels", "value_heads",
                      "value_dimensions"}
<1>1. p = [Extended(attention, own) EXCEPT !.buffers.key.value = "rotated_key"]
  BY DEF StagePlan, PlanOfStage, Projections, AttentionStages, AttentionStagePlan, KvPlan
<1> HIDE DEF p, attention
<1>2. DOMAIN own = fields \cup {"sequence_index", "key_bank", "key_group", "value_rows",
                                "value_sequence_row"}
      /\ DOMAIN attention = {"spec", "buffers", "rows"} /\ attention.spec = AttentionSpec(r)
  BY AttentionParts DEF attention
<1>3. /\ own.key_rows = CeilDiv(KvWidth(r), DramColumns)
      /\ own.key_offsets = ReplicaOffsets
      /\ own.value_channels = [k \in 1..ChannelsPerBlock |-> k - 1]
      /\ own.value_heads = CeilDiv(r.kv_heads, ChannelsPerBlock)
      /\ own.value_dimensions = CeilDiv(HeadSize(r), NumBanks)
  OBVIOUS
<1> HIDE DEF own
<1>4. /\ fields \cup {"spec"} \subseteq DOMAIN p /\ p.spec = AttentionSpec(r)
      /\ \A x \in fields : p[x] = own[x]
  <2> DEFINE e == Extended(attention, own)
  <2>1. /\ fields \cup {"spec"} \subseteq DOMAIN e /\ e.spec = AttentionSpec(r)
        /\ \A x \in fields : e[x] = own[x]
    <3>1. /\ DOMAIN e = DOMAIN attention \cup DOMAIN own
          /\ \A x \in DOMAIN attention : e[x] = attention[x]
          /\ \A x \in DOMAIN own : x \notin DOMAIN attention => e[x] = own[x]
      BY ExtendedKeeps
    <3> HIDE DEF e
    <3>2. /\ "spec" \in DOMAIN attention
          /\ \A x \in fields : x \in DOMAIN own /\ x \notin DOMAIN attention
      BY <1>2
    <3>3. e.spec = AttentionSpec(r)
      BY <1>2, <3>1, <3>2
    <3> QED  BY <3>1, <3>2, <3>3
  <2> HIDE DEF e
  <2>2. p = [e EXCEPT !.buffers.key.value = "rotated_key"]
    BY <1>1 DEF e
  <2>3. "buffers" \notin fields \cup {"spec"}
    OBVIOUS
  <2> HIDE DEF fields
  <2> QED  BY <2>1, <2>2, <2>3
<1>5. q.spec = AttentionSpec(r) /\ \A x \in fields : q[x] = own[x]
  BY <1>4, GivenKeeps DEF Spoilable, AttentionStages
<1> HIDE DEF q
<1>6. /\ q.key_rows = CeilDiv(KvWidth(r), DramColumns)
      /\ q.key_offsets = ReplicaOffsets
      /\ q.value_channels = [k \in 1..ChannelsPerBlock |-> k - 1]
      /\ q.value_heads = CeilDiv(r.kv_heads, ChannelsPerBlock)
      /\ q.value_dimensions = CeilDiv(HeadSize(r), NumBanks)
  BY <1>3, <1>5
<1>7. UpdateShaped(q)
  <2>1. q.key_rows \in Int /\ q.value_heads \in Int /\ q.value_dimensions \in Int
    <3>1. /\ DramColumns \in Nat \ {0} /\ ChannelsPerBlock \in Nat \ {0} /\ NumBanks \in Nat \ {0}
          /\ KvWidth(r) \in Int /\ r.kv_heads \in Int /\ HeadSize(r) \in Int
      BY PlannedSizes, DeviceSizes
    <3>2. /\ CeilDiv(KvWidth(r), DramColumns) \in Int
          /\ CeilDiv(r.kv_heads, ChannelsPerBlock) \in Int
          /\ CeilDiv(HeadSize(r), NumBanks) \in Int
      BY <3>1, CeilDivInt
    <3> QED  BY <1>6, <3>2
  <2>2. Len(q.key_offsets) \in Int
    BY <1>6, ReplicasCount
  <2>3. Len(q.value_channels) \in Int
    <3>1. q.value_channels = [k \in 1..ChannelsPerBlock |-> q.value_channels[k]]
      BY <1>6
    <3> QED  BY <3>1, DeviceSizes, ListingOf DEF IsListing
  <2>4. q.spec.kv_width \in Int
    BY <1>5, SpecSizes
  <2> QED  BY <2>1, <2>2, <2>3, <2>4 DEF UpdateShaped
<1>8. Lower("kv_update", q) = KvCacheUpdate(q)
  BY DEF Lower, Projections
<1> QED  BY <1>7, <1>8, KvCacheUpdateLowered DEF q, p

\* What a stage of the attention adds to the plan, and what it keeps.
LEMMA OwnFields ==
  ASSUME NEW r, NEW memory, NEW buffer, NEW own, NEW p,
         p = Extended(AttentionPlan(r, memory, buffer), own),
         DOMAIN own \cap {"spec", "buffers", "rows"} = {}
  PROVE  /\ DOMAIN own \cup {"spec", "buffers", "rows"} \subseteq DOMAIN p
         /\ \A x \in DOMAIN own : p[x] = own[x]
         /\ p.spec = AttentionSpec(r)
<1> DEFINE a == AttentionPlan(r, memory, buffer)
           e == Extended(a, own)
<1>1. DOMAIN a = {"spec", "buffers", "rows"} /\ a.spec = AttentionSpec(r)
  BY AttentionParts
<1> HIDE DEF a
<1>2. /\ DOMAIN e = DOMAIN a \cup DOMAIN own
      /\ \A x \in DOMAIN a : e[x] = a[x]
      /\ \A x \in DOMAIN own : x \notin DOMAIN a => e[x] = own[x]
  BY ExtendedKeeps
<1> HIDE DEF e
<1>3. p = e
  BY DEF e, a
<1>4. "spec" \in DOMAIN a /\ \A x \in DOMAIN own : x \notin DOMAIN a
  BY <1>1
<1> QED  BY <1>1, <1>2, <1>3, <1>4

\* The scores.
LEMMA ScoreStageLowered ==
  ASSUME NEW r, Planned(r), NEW f, FaultShaped(f)
  PROVE  Lowered(Lower("scores", Given(StagePlan(r, "scores"), "scores", f)))
<1> DEFINE p == StagePlan(r, "scores")
           q == Given(p, "scores", f)
           n == CeilDiv(r.length, TotalBanks)
           own == [sequence_channels |-> [g \in 1..n |-> SequenceChannels(r, g)]]
           e == Extended(AttentionPlan(r, PlannedMemory(r), BufferSpans(r)), own)
<1>1. p = [e EXCEPT !.buffers.query.value = "rotated_query"]
  BY DEF StagePlan, PlanOfStage, Projections, AttentionStages, AttentionStagePlan, ScorePlan
<1> HIDE DEF p
<1>2. DOMAIN own = {"sequence_channels"}
      /\ own.sequence_channels = [g \in 1..n |-> SequenceChannels(r, g)]
  OBVIOUS
<1> HIDE DEF own, n
<1>3. /\ {"sequence_channels", "spec"} \subseteq DOMAIN e
      /\ e.sequence_channels = own.sequence_channels /\ e.spec = AttentionSpec(r)
  <2>1. /\ DOMAIN own \cup {"spec", "buffers", "rows"} \subseteq DOMAIN e
        /\ \A x \in DOMAIN own : e[x] = own[x]
        /\ e.spec = AttentionSpec(r)
    BY <1>2, OwnFields
  <2> HIDE DEF e
  <2> QED  BY <1>2, <2>1
<1> HIDE DEF e
<1>4. /\ {"sequence_channels", "spec"} \subseteq DOMAIN p
      /\ p.sequence_channels = own.sequence_channels /\ p.spec = AttentionSpec(r)
  <2>1. p = [e EXCEPT !.buffers = [@ EXCEPT !.query.value = "rotated_query"]]
    BY <1>1
  <2> QED  BY <1>3, <2>1
<1>5. q.sequence_channels = own.sequence_channels /\ q.spec = AttentionSpec(r)
  BY <1>4, GivenKeeps DEF Spoilable, AttentionStages
<1> HIDE DEF q
<1>6. Len(q.sequence_channels) \in Int
  <2> DEFINE s == q.sequence_channels
  <2>1. s = [g \in 1..n |-> s[g]]
    BY <1>2, <1>5
  <2>2. n \in Int
    <3>1. r.length \in Int /\ TotalBanks \in Nat \ {0}
      BY PlannedSizes, DeviceSizes
    <3> QED  BY <3>1, CeilDivInt DEF n
  <2> HIDE DEF s
  <2>3. Len(s) \in Int
    <3>1. IsListing(s)
      BY <2>1, <2>2, ListingOf
    <3> QED  BY <3>1 DEF IsListing
  <2> QED  BY <2>3 DEF s
<1>7. ScoresShaped(q)
  <2>1. /\ q.spec.kv_width \in Int /\ q.spec.repeat \in Int /\ q.spec.kv_heads \in Int
        /\ q.spec.head \in Nat \ {0}
    BY <1>5, SpecSizes
  <2>2. HeadsPerRow(q) \in Int
    BY <2>1, DeviceSizes DEF HeadsPerRow
  <2> QED  BY <1>6, <2>1, <2>2 DEF ScoresShaped
<1>8. Lower("scores", q) = ScoreGemv(q)
  BY DEF Lower, Projections
<1> QED  BY <1>7, <1>8, ScoreGemvLowered DEF q, p

\* The weighted values.
LEMMA OutputStageLowered ==
  ASSUME NEW r, Planned(r), NEW f, FaultShaped(f)
  PROVE  Lowered(Lower("output", Given(StagePlan(r, "output"), "output", f)))
<1> DEFINE p == StagePlan(r, "output")
           q == Given(p, "output", f)
<1>1. p = AttentionPlan(r, PlannedMemory(r), BufferSpans(r))
  BY DEF StagePlan, PlanOfStage, Projections, AttentionStages, AttentionStagePlan
<1> HIDE DEF p
<1>2. "spec" \in DOMAIN p /\ p.spec = AttentionSpec(r)
  BY <1>1, AttentionParts
<1>3. q.spec = AttentionSpec(r)
  BY <1>2, GivenKeeps DEF Spoilable, AttentionStages
<1> HIDE DEF q
<1>4. OutputShaped(q)
  BY <1>3, SpecSizes DEF OutputShaped
<1>5. Lower("output", q) = AttentionOutput(q)
  BY DEF Lower, Projections
<1> QED  BY <1>4, <1>5, AttentionOutputLowered DEF q, p

\* The transfers of the scores, and one spoiled.
LEMMA TransferPlans ==
  ASSUME NEW op, NEW position
  PROVE  LET t == TransferPlan(op, position)
         IN  /\ Len(t.banks) \in Nat \ {0} /\ Len(t.offsets) \in Int
             /\ DOMAIN t.offsets = 1..Copies
<1> DEFINE t == TransferPlan(op, position)
           banks == [g \in 1..Groups |-> (g - 1) * BanksPerGroup + position]
<1>1. t.offsets = ReplicaOffsets /\ t.banks = banks
  BY DEF TransferPlan
<1> HIDE DEF t
<1>2. Len(banks) \in Nat \ {0}
  <2>1. banks = [g \in 1..Groups |-> banks[g]]
    OBVIOUS
  <2> HIDE DEF banks
  <2> QED  BY <2>1, DeviceSizes, ListingOf DEF IsListing
<1>3. DOMAIN ReplicaOffsets = 1..Copies
  BY DEF ReplicaOffsets
<1> QED  BY <1>1, <1>2, <1>3, ReplicasCount DEF t

(* The passes of the softmax of a request, as planned or spoiled. *)
PassShaped(pass) ==
  LET Good(t) == Len(t.banks) \in Nat \ {0} /\ Len(t.offsets) \in Int
  IN  Good(pass.left) /\ Good(pass.right) /\ Good(pass.output)

\* The softmax.
LEMMA SoftmaxStageLowered ==
  ASSUME NEW r, Planned(r), NEW f, FaultShaped(f)
  PROVE  Lowered(Lower("softmax", Given(StagePlan(r, "softmax"), "softmax", f)))
<1> DEFINE p == StagePlan(r, "softmax")
           q == Given(p, "softmax", f)
           pass == [left |-> TransferPlan("WR_SBK", FirstOperand),
                    right |-> TransferPlan("WR_SBK", SecondOperand),
                    output |-> TransferPlan("RD_SBK", ResultPosition)]
           own == [heads_per_bank |-> CeilDiv(r.heads, Groups), passes |-> <<pass, pass>>]
<1>1. p = Extended(AttentionPlan(r, PlannedMemory(r), BufferSpans(r)), own)
  BY DEF StagePlan, PlanOfStage, Projections, AttentionStages, AttentionStagePlan, SoftmaxPlan
<1>2. PassShaped(pass) /\ DOMAIN pass.output.offsets = 1..Copies
  <2>1. /\ pass.left = TransferPlan("WR_SBK", FirstOperand)
        /\ pass.right = TransferPlan("WR_SBK", SecondOperand)
        /\ pass.output = TransferPlan("RD_SBK", ResultPosition)
    OBVIOUS
  <2> HIDE DEF pass
  <2> QED  BY <2>1, TransferPlans DEF PassShaped
<1>3. /\ DOMAIN pass = {"left", "right", "output"}
      /\ "offsets" \in DOMAIN pass.output /\ "banks" \in DOMAIN pass.output
  BY DEF TransferPlan
<1> HIDE DEF p, pass
<1>4. /\ DOMAIN own = {"heads_per_bank", "passes"}
      /\ own.passes = <<pass, pass>> /\ own.heads_per_bank = CeilDiv(r.heads, Groups)
  OBVIOUS
<1> HIDE DEF own
<1>5. /\ {"heads_per_bank", "passes", "spec"} \subseteq DOMAIN p
      /\ p.passes = <<pass, pass>> /\ p.heads_per_bank = CeilDiv(r.heads, Groups)
      /\ p.spec = AttentionSpec(r)
  <2>1. /\ DOMAIN own \cup {"spec", "buffers", "rows"} \subseteq DOMAIN p
        /\ \A x \in DOMAIN own : p[x] = own[x]
        /\ p.spec = AttentionSpec(r)
    BY <1>1, <1>4, OwnFields
  <2> QED  BY <1>4, <2>1
<1>6. /\ q.heads_per_bank = CeilDiv(r.heads, Groups) /\ q.spec = AttentionSpec(r)
      /\ \E other : q.passes = <<pass, other>> /\ PassShaped(other)
  <2>1. CASE "softmax" \in f.stages /\ f.kind = "pass"
    <3> DEFINE o == [pass.output EXCEPT !.offsets =
                       [k \in DOMAIN @ |-> @[k] + ChannelsPerBlock]]
               other == [pass EXCEPT !.output = o]
    <3>1. q = [p EXCEPT !.passes = [@ EXCEPT ![2] = other]]
      <4>1. q = [p EXCEPT !.passes[2].output.offsets =
                   [k \in DOMAIN @ |-> @[k] + ChannelsPerBlock]]
        BY <2>1 DEF Given, Spoiled
      <4>2. p.passes[2] = pass
        BY <1>5
      <4> QED  BY <4>1, <4>2
    <3>2. PassShaped(other)
      <4>1. o.offsets = [k \in 1..Copies |-> o.offsets[k]] /\ o.banks = pass.output.banks
        BY <1>2, <1>3
      <4>2. other.left = pass.left /\ other.right = pass.right /\ other.output = o
        BY <1>3
      <4> HIDE DEF o, other
      <4>3. Len(o.offsets) \in Int
        BY <4>1, DeviceSizes, ListingOf DEF IsListing
      <4> QED  BY <1>2, <4>1, <4>2, <4>3 DEF PassShaped
    <3> HIDE DEF other
    <3>3. q.passes = <<pass, other>>
      BY <1>5, <3>1
    <3>4. q.heads_per_bank = p.heads_per_bank /\ q.spec = p.spec
      BY <1>5, <3>1
    <3> QED  BY <1>5, <3>2, <3>3, <3>4
  <2>2. CASE "softmax" \in f.stages /\ f.kind # "pass"
    <3>1. q.heads_per_bank = p.heads_per_bank /\ q.spec = p.spec /\ q.passes = p.passes
      BY <1>5, <2>2, GivenKeeps DEF Spoilable, AttentionStages
    <3> QED  BY <1>2, <1>5, <3>1
  <2>3. CASE "softmax" \notin f.stages
    <3>1. q = p
      BY <2>3 DEF Given
    <3> QED  BY <1>2, <1>5, <3>1
  <2> QED  BY <2>1, <2>2, <2>3
<1> HIDE DEF q
<1>7. SoftmaxShaped(q)
  <2>1. PICK other : q.passes = <<pass, other>> /\ PassShaped(other)
    BY <1>6
  <2>2. q.spec.length \in Int /\ q.spec.heads \in Int
    BY <1>6, SpecSizes
  <2>3. q.heads_per_bank \in Int
    <3>1. r.heads \in Int /\ Groups \in Nat \ {0}
      BY PlannedSizes, DeviceSizes
    <3>2. CeilDiv(r.heads, Groups) \in Int
      BY <3>1, CeilDivInt
    <3> QED  BY <1>6, <3>2
  <2>4. \A x : PassShaped(x) =>
          /\ TransferShaped(q, x.left) /\ TransferShaped(q, x.right) /\ TransferShaped(q, x.output)
    BY <2>2 DEF PassShaped, TransferShaped
  <2>5. Len(q.passes) = 2 /\ q.passes[1] = pass /\ q.passes[2] = other
    BY <2>1
  <2>6. \A k \in 1..2 : PassShaped(q.passes[k])
    BY <1>2, <2>1, <2>5
  <2> QED  BY <2>2, <2>3, <2>4, <2>5, <2>6 DEF SoftmaxShaped
<1>8. Lower("softmax", q) = Softmax(q)
  BY DEF Lower, Projections
<1> QED  BY <1>7, <1>8, SoftmaxLowered DEF q, p

\* The gated product.
LEMMA SiluStageLowered ==
  ASSUME NEW r, Planned(r), NEW f, FaultShaped(f)
  PROVE  Lowered(Lower("silu", Given(StagePlan(r, "silu"), "silu", f)))
<1> DEFINE memory == PlannedMemory(r)
           p == StagePlan(r, "silu")
           q == Given(p, "silu", f)
           chunk(rows, values) ==
             [row |-> RowRange(memory, rows).start, per_partition |-> CeilDiv(values, Groups),
              partitions |-> CeilDiv(values, CeilDiv(values, Groups))]
           chunks == IF r.intermediate <= ActivationCapacity
                     THEN <<chunk("x1_sigmoid", r.intermediate)>>
                     ELSE <<chunk("x1", ActivationCapacity),
                            chunk("x1_sigmoid", r.intermediate - ActivationCapacity)>>
<1>1. "chunks" \in DOMAIN p /\ p.chunks = chunks
  BY DEF StagePlan, PlanOfStage, Projections, AttentionStages, SiluPlan
<1> HIDE DEF p
<1>2. q.chunks = chunks
  <2> HIDE DEF chunks
  <2> QED  BY <1>1, GivenKeeps DEF Spoilable, AttentionStages, RowsOf, SpansOf, Projections
<1> HIDE DEF q
<1>3. \A rows : \A v \in Nat \ {0} :
        chunk(rows, v).partitions \in Int /\ chunk(rows, v).per_partition \in Int
  <2> SUFFICES ASSUME NEW rows, NEW v \in Nat \ {0}
               PROVE  chunk(rows, v).partitions \in Int /\ chunk(rows, v).per_partition \in Int
    OBVIOUS
  <2>1. CeilDiv(v, Groups) \in Nat \ {0}
    BY DeviceSizes, CeilDivInt
  <2>2. CeilDiv(v, CeilDiv(v, Groups)) \in Int
    BY <2>1, CeilDivInt
  <2> QED  BY <2>1, <2>2
<1>4. ActivationCapacity \in Nat \ {0} /\ r.intermediate \in Nat \ {0}
  BY DeviceSizes, PlannedSizes, SizeProducts DEF ActivationCapacity
<1> HIDE DEF chunk
<1>5. Chunked(q)
  <2>1. CASE r.intermediate <= ActivationCapacity
    <3>1. q.chunks = <<chunk("x1_sigmoid", r.intermediate)>>
      BY <1>2, <2>1
    <3>2. Len(q.chunks) = 1 /\ q.chunks[1] = chunk("x1_sigmoid", r.intermediate)
      BY <3>1
    <3> QED  BY <1>3, <1>4, <3>2 DEF Chunked
  <2>2. CASE ~(r.intermediate <= ActivationCapacity)
    <3>1. q.chunks = <<chunk("x1", ActivationCapacity),
                       chunk("x1_sigmoid", r.intermediate - ActivationCapacity)>>
      BY <1>2, <2>2
    <3>2. /\ Len(q.chunks) = 2 /\ q.chunks[1] = chunk("x1", ActivationCapacity)
          /\ q.chunks[2] = chunk("x1_sigmoid", r.intermediate - ActivationCapacity)
      BY <3>1
    <3>3. r.intermediate - ActivationCapacity \in Nat \ {0}
      BY <1>4, <2>2
    <3>4. \A k \in 1..2 : q.chunks[k].partitions \in Int /\ q.chunks[k].per_partition \in Int
      BY <1>3, <1>4, <3>2, <3>3
    <3> QED  BY <3>2, <3>4 DEF Chunked
  <2> QED  BY <2>1, <2>2
<1>6. Lower("silu", q) = SiluProduct(q)
  BY DEF Lower, Projections
<1> QED  BY <1>5, <1>6, SiluProductLowered DEF q, p

\* The transfers of the residual, and the additions.
LEMMA ResidualStagesLowered ==
  ASSUME NEW r, Planned(r), NEW f, FaultShaped(f),
         NEW name \in {"store", "load", "sa_residual", "ffn_residual"}
  PROVE  Lowered(Lower(name, Given(StagePlan(r, name), name, f)))
<1> DEFINE p == StagePlan(r, name)
           q == Given(p, name, f)
<1>1. CASE name \in {"store", "load"}
  <2>1. "layout" \in DOMAIN p /\ p.layout = GroupLayout(r.hidden)
    BY <1>1 DEF StagePlan, PlanOfStage, Projections, AttentionStages, ResidualPlan
  <2> HIDE DEF p
  <2>2. q.layout = GroupLayout(r.hidden)
    BY <1>1, <2>1, GivenKeeps DEF Spoilable, AttentionStages, RowsOf, SpansOf, Projections
  <2> HIDE DEF q
  <2>3. q.layout.partitions \in Int /\ PhysicalValuesPerPartition(q.layout) \in Int
    BY <2>2, PlannedSizes, LayoutSizes DEF LaidOut
  <2>4. Lower(name, q) = TransferVector(q)
    BY <1>1 DEF Lower, Projections
  <2> QED  BY <2>3, <2>4, TransferVectorLowered DEF q, p
<1>2. CASE name \in {"sa_residual", "ffn_residual"}
  <2> HIDE DEF q
  <2>1. Lower(name, q) = Accumulate(q)
    BY <1>2 DEF Lower, Projections
  <2> QED  BY <2>1, AccumulateLowered DEF q, p
<1> QED  BY <1>1, <1>2

\* Every stage of an accepted request, faulty or not, is a list of builder calls.
LEMMA StagesLowered ==
  ASSUME Planned(request), FaultShaped(fault), NEW k \in 1..Len(Stages)
  PROVE  Lowered(Steps(k))
<1>1. Stages[k] \in {"sa_norm", "ffn_norm"} \cup Projections
        \cup {"rotary", "kv_update", "scores", "softmax", "output", "silu"}
        \cup {"store", "load", "sa_residual", "ffn_residual"}
  BY DEF Stages, Projections
<1> QED  BY <1>1, NormsLowered, ProjectionsLowered, RotaryStageLowered, UpdateStageLowered,
            ScoreStageLowered, SoftmaxStageLowered, OutputStageLowered, SiluStageLowered,
            ResidualStagesLowered DEF Steps

-----------------------------------------------------------------------------
(* What the products of a piece of a lowerer meet.                         *)

(* The instruction of a builder call that appends one. *)
Code(s, n) == s[n].batch[1]
Calls(s, op) == {n \in 1..Len(s) : Code(s, n).op = op}

(* A piece that makes one instruction per builder call. *)
Emits(s) ==
  IsListing(s) /\ \A n \in 1..Len(s) : s[n] = [ok |-> TRUE, batch |-> <<Code(s, n)>>]

(* The next result read from the register of a product. *)
NextRead(s, n, m) ==
  /\ m \in Calls(s, "RD_MAC") /\ n < m /\ Code(s, m).register = Code(s, n).register
  /\ \A j \in Calls(s, "RD_MAC") :
       n < j /\ j < m => Code(s, j).register # Code(s, n).register

(* The last load of the Global Buffer before a product. *)
LastLoad(s, n, m) ==
  /\ m \in Calls(s, "WR_GB") /\ m < n
  /\ \A j \in Calls(s, "WR_GB") : ~(m < j /\ j < n)

(* The output and the piece of the input a weight row belongs to. *)
OutputOf(p, w) == (w - p.weights.start) \div RowsPerOutput(p)
PieceOf(p, w) == (w - p.weights.start) % RowsPerOutput(p)

Reads(p, s) ==
  \A n \in Calls(s, "MAC_ABK") :
    \E m : /\ NextRead(s, n, m)
           /\ Code(s, m).slot - p.output.start = OutputOf(p, Code(s, n).row)

Loads(p, s) ==
  \A n \in Calls(s, "MAC_ABK") :
    \E m : /\ LastLoad(s, n, m)
           /\ (Code(s, m).slot - p.input.start) \div (DramColumns \div BurstLength)
                = PieceOf(p, Code(s, n).row)

(* The products of a piece meet these rows, each of them once. *)
RowsMet(s, W) ==
  /\ \A n \in Calls(s, "MAC_ABK") : Code(s, n).row \in W
  /\ \A w \in W : \E n \in Calls(s, "MAC_ABK") : Code(s, n).row = w
  /\ \A m, n \in Calls(s, "MAC_ABK") : Code(s, m).row = Code(s, n).row => m = n

(* A piece without a load of its own, and one with. *)
Unloaded(p, s, W) ==
  Emits(s) /\ RowsMet(s, W) /\ Reads(p, s) /\ Calls(s, "WR_GB") = {}
Loaded(p, s, W) ==
  Emits(s) /\ RowsMet(s, W) /\ Reads(p, s) /\ Loads(p, s)

\* Where the elements of two lists are in one after the other.
LEMMA ConcatAt ==
  ASSUME NEW s, NEW t, IsListing(s), IsListing(t)
  PROVE  /\ IsListing(s \o t) /\ Len(s \o t) = Len(s) + Len(t)
         /\ \A n \in 1..Len(s) : (s \o t)[n] = s[n]
         /\ \A n \in 1..Len(t) : (s \o t)[Len(s) + n] = t[n]
<1> DEFINE U == Elements(s) \cup Elements(t)
<1>1. /\ \A k \in 1..Len(s) : s[k] \in U
      /\ \A k \in 1..Len(t) : t[k] \in U
  BY DEF Elements
<1>2. IsListing(s \o t)
  BY InConcat
<1> HIDE DEF U
<1>3. s \in [1..Len(s) -> U] /\ t \in [1..Len(t) -> U] /\ Len(s) \in Nat /\ Len(t) \in Nat
  BY <1>1 DEF IsListing
<1>4. s \in Seq(U) /\ t \in Seq(U)
  BY <1>3
<1> QED  BY <1>2, <1>4

\* The instructions of two pieces one after the other.
LEMMA CodeOfConcat ==
  ASSUME NEW s, NEW t, IsListing(s), IsListing(t)
  PROVE  /\ \A n \in 1..Len(s) : n \in 1..Len(s \o t) /\ Code(s \o t, n) = Code(s, n)
         /\ \A n \in 1..Len(t) : /\ Len(s) + n \in 1..Len(s \o t)
                                 /\ Code(s \o t, Len(s) + n) = Code(t, n)
         /\ \A n \in 1..Len(s \o t) :
              n \in 1..Len(s) \/ \E k \in 1..Len(t) : n = Len(s) + k
         /\ Len(s) \in Nat /\ Len(t) \in Nat
<1>1. /\ Len(s \o t) = Len(s) + Len(t) /\ Len(s) \in Nat /\ Len(t) \in Nat
      /\ \A n \in 1..Len(s) : (s \o t)[n] = s[n]
      /\ \A n \in 1..Len(t) : (s \o t)[Len(s) + n] = t[n]
  BY ConcatAt DEF IsListing
<1>2. \A n \in 1..Len(s \o t) : n \in 1..Len(s) \/ \E k \in 1..Len(t) : n = Len(s) + k
  <2> SUFFICES ASSUME NEW n \in 1..Len(s \o t), n \notin 1..Len(s)
               PROVE  \E k \in 1..Len(t) : n = Len(s) + k
    OBVIOUS
  <2>1. n - Len(s) \in 1..Len(t) /\ n = Len(s) + (n - Len(s))
    BY <1>1
  <2> QED  BY <2>1
<1> DEFINE r == s \o t
<1> HIDE DEF r
<1>3. /\ Len(r) = Len(s) + Len(t)
      /\ \A n \in 1..Len(s) : r[n] = s[n]
      /\ \A n \in 1..Len(t) : r[Len(s) + n] = t[n]
  BY <1>1 DEF r
<1>4. \A n \in 1..Len(s) : n \in 1..Len(r) /\ Code(r, n) = Code(s, n)
  BY <1>1, <1>3 DEF Code
<1>5. \A n \in 1..Len(t) : Len(s) + n \in 1..Len(r) /\ Code(r, Len(s) + n) = Code(t, n)
  BY <1>1, <1>3 DEF Code
<1>6. \A n \in 1..Len(r) : n \in 1..Len(s) \/ \E k \in 1..Len(t) : n = Len(s) + k
  BY <1>2 DEF r
<1> QED  BY <1>1, <1>4, <1>5, <1>6 DEF r

\* One piece after the other still makes one instruction per call.
LEMMA EmitsConcat ==
  ASSUME NEW s, NEW t, Emits(s), Emits(t)
  PROVE  Emits(s \o t)
<1> DEFINE r == s \o t
<1>1. /\ IsListing(r) /\ IsListing(s) /\ IsListing(t)
      /\ \A n \in 1..Len(s) : r[n] = s[n]
      /\ \A n \in 1..Len(t) : r[Len(s) + n] = t[n]
      /\ \A n \in 1..Len(r) : n \in 1..Len(s) \/ \E k \in 1..Len(t) : n = Len(s) + k
  BY ConcatAt, CodeOfConcat DEF Emits
<1> HIDE DEF r
<1>2. ASSUME NEW n \in 1..Len(r) PROVE r[n] = [ok |-> TRUE, batch |-> <<Code(r, n)>>]
  <2>1. CASE n \in 1..Len(s)
    BY <1>1, <2>1 DEF Emits, Code
  <2>2. ASSUME NEW k \in 1..Len(t), n = Len(s) + k
        PROVE  r[n] = [ok |-> TRUE, batch |-> <<Code(r, n)>>]
    BY <1>1, <2>2 DEF Emits, Code
  <2> QED  BY <1>1, <2>1, <2>2
<1> QED  BY <1>1, <1>2 DEF Emits, r

(* Where the instructions of pieces s and t are in r. *)
Spliced(r, s, t) ==
  /\ Len(s) \in Nat /\ Len(t) \in Nat
  /\ \A n \in 1..Len(s) : n \in 1..Len(r) /\ Code(r, n) = Code(s, n)
  /\ \A n \in 1..Len(t) : Len(s) + n \in 1..Len(r) /\ Code(r, Len(s) + n) = Code(t, n)
  /\ \A n \in 1..Len(r) : n \in 1..Len(s) \/ \E k \in 1..Len(t) : n = Len(s) + k

\* Two pieces one after the other are spliced.
LEMMA SplicedConcat ==
  \A s, t : Emits(s) /\ Emits(t) => Emits(s \o t) /\ Spliced(s \o t, s, t)
<1> SUFFICES ASSUME NEW s, NEW t, Emits(s), Emits(t)
             PROVE  Emits(s \o t) /\ Spliced(s \o t, s, t)
  OBVIOUS
<1>1. IsListing(s) /\ IsListing(t)
  BY DEF Emits
<1> DEFINE r == s \o t
<1>2. /\ \A n \in 1..Len(s) : n \in 1..Len(r) /\ Code(r, n) = Code(s, n)
      /\ \A n \in 1..Len(t) : Len(s) + n \in 1..Len(r) /\ Code(r, Len(s) + n) = Code(t, n)
      /\ \A n \in 1..Len(r) : n \in 1..Len(s) \/ \E k \in 1..Len(t) : n = Len(s) + k
      /\ Len(s) \in Nat /\ Len(t) \in Nat
  BY <1>1, CodeOfConcat
<1> HIDE DEF r
<1>3. Spliced(r, s, t)
  BY <1>2 DEF Spliced
<1> QED  BY <1>3, EmitsConcat DEF r

\* The calls of the whole are those of the pieces.
LEMMA SplicedCalls ==
  ASSUME NEW r, NEW s, NEW t, Spliced(r, s, t), NEW op
  PROVE  /\ \A n \in Calls(s, op) :
              n \in Calls(r, op) /\ Code(r, n) = Code(s, n) /\ n \in 1..Len(s)
         /\ \A n \in Calls(t, op) :
              /\ Len(s) + n \in Calls(r, op) /\ Code(r, Len(s) + n) = Code(t, n)
              /\ n \in 1..Len(t)
         /\ \A n \in Calls(r, op) :
              n \in Calls(s, op) \/ \E k \in Calls(t, op) : n = Len(s) + k
         /\ Len(s) \in Nat /\ Len(t) \in Nat
<1>1. ASSUME NEW n \in Calls(r, op)
      PROVE  n \in Calls(s, op) \/ \E k \in Calls(t, op) : n = Len(s) + k
  BY DEF Calls, Spliced
<1>2. ASSUME NEW n \in Calls(s, op)
      PROVE  n \in Calls(r, op) /\ Code(r, n) = Code(s, n) /\ n \in 1..Len(s)
  BY DEF Calls, Spliced
<1>3. ASSUME NEW n \in Calls(t, op)
      PROVE  /\ Len(s) + n \in Calls(r, op) /\ Code(r, Len(s) + n) = Code(t, n)
             /\ n \in 1..Len(t)
  BY DEF Calls, Spliced
<1>4. Len(s) \in Nat /\ Len(t) \in Nat
  BY DEF Spliced
<1> QED  BY <1>1, <1>2, <1>3, <1>4

\* The rows of one piece are none of the other.
LEMMA RowsMetSpliced ==
  ASSUME NEW r, NEW s, NEW t, Spliced(r, s, t), NEW V, NEW W, RowsMet(s, V), RowsMet(t, W),
         V \cap W = {}
  PROVE  RowsMet(r, V \cup W)
<1> DEFINE Macs(x) == Calls(x, "MAC_ABK")
<1>1. /\ \A n \in Macs(s) : n \in Macs(r) /\ Code(r, n) = Code(s, n) /\ n \in 1..Len(s)
      /\ \A n \in Macs(t) : /\ Len(s) + n \in Macs(r) /\ Code(r, Len(s) + n) = Code(t, n)
                            /\ n \in 1..Len(t)
      /\ \A n \in Macs(r) : n \in Macs(s) \/ \E k \in Macs(t) : n = Len(s) + k
  BY SplicedCalls
<1> HIDE DEF Macs
<1>2. /\ \A n \in Macs(s) : Code(s, n).row \in V
      /\ \A w \in V : \E n \in Macs(s) : Code(s, n).row = w
      /\ \A m, n \in Macs(s) : Code(s, m).row = Code(s, n).row => m = n
      /\ \A n \in Macs(t) : Code(t, n).row \in W
      /\ \A w \in W : \E n \in Macs(t) : Code(t, n).row = w
      /\ \A m, n \in Macs(t) : Code(t, m).row = Code(t, n).row => m = n
  BY DEF RowsMet, Macs
<1>3. \A n \in Macs(r) : Code(r, n).row \in V \cup W
  BY <1>1, <1>2
<1>4. \A w \in V \cup W : \E n \in Macs(r) : Code(r, n).row = w
  BY <1>1, <1>2
<1>5. ASSUME NEW m \in Macs(r), NEW n \in Macs(r), Code(r, m).row = Code(r, n).row
      PROVE  m = n
  <2>1. CASE m \in Macs(s) /\ n \in Macs(s)
    BY <1>1, <1>2, <1>5, <2>1
  <2>2. CASE m \in Macs(s) /\ n \notin Macs(s)
    <3>1. PICK k \in Macs(t) : n = Len(s) + k
      BY <1>1, <2>2
    <3>2. Code(r, m).row \in V /\ Code(r, n).row \in W
      BY <1>1, <1>2, <2>2, <3>1
    <3> QED  BY <1>5, <3>2
  <2>3. CASE m \notin Macs(s) /\ n \in Macs(s)
    <3>1. PICK k \in Macs(t) : m = Len(s) + k
      BY <1>1, <2>3
    <3>2. Code(r, n).row \in V /\ Code(r, m).row \in W
      BY <1>1, <1>2, <2>3, <3>1
    <3> QED  BY <1>5, <3>2
  <2>4. CASE m \notin Macs(s) /\ n \notin Macs(s)
    <3>1. PICK k \in Macs(t) : m = Len(s) + k
      BY <1>1, <2>4
    <3>2. PICK j \in Macs(t) : n = Len(s) + j
      BY <1>1, <2>4
    <3>3. Code(t, k).row = Code(t, j).row
      BY <1>1, <1>5, <3>1, <3>2
    <3> QED  BY <1>2, <3>1, <3>2, <3>3
  <2> QED  BY <2>1, <2>2, <2>3, <2>4
<1> QED  BY <1>3, <1>4, <1>5 DEF RowsMet, Macs

\* A product is read in its own piece.
LEMMA ReadsSpliced ==
  ASSUME NEW r, NEW s, NEW t, Spliced(r, s, t), NEW p, Reads(p, s), Reads(p, t)
  PROVE  Reads(p, r)
<1> SUFFICES ASSUME NEW n \in Calls(r, "MAC_ABK")
             PROVE  \E m : /\ NextRead(r, n, m)
                           /\ Code(r, m).slot - p.output.start = OutputOf(p, Code(r, n).row)
  BY DEF Reads
<1> DEFINE Rds(x) == Calls(x, "RD_MAC")
<1>1. /\ \A j \in Rds(s) : j \in Rds(r) /\ Code(r, j) = Code(s, j) /\ j \in 1..Len(s)
      /\ \A j \in Rds(t) : /\ Len(s) + j \in Rds(r) /\ Code(r, Len(s) + j) = Code(t, j)
                           /\ j \in 1..Len(t)
      /\ \A j \in Rds(r) : j \in Rds(s) \/ \E k \in Rds(t) : j = Len(s) + k
      /\ Len(s) \in Nat /\ Len(t) \in Nat
  BY SplicedCalls
<1>2. CASE n \in Calls(s, "MAC_ABK")
  <2>1. Code(r, n) = Code(s, n) /\ n \in 1..Len(s)
    BY <1>2 DEF Spliced, Calls
  <2>2. PICK m : /\ NextRead(s, n, m)
                 /\ Code(s, m).slot - p.output.start = OutputOf(p, Code(s, n).row)
    BY <1>2 DEF Reads
  <2>3. /\ m \in Rds(s) /\ n < m /\ Code(s, m).register = Code(s, n).register
        /\ \A j \in Rds(s) : n < j /\ j < m => Code(s, j).register # Code(s, n).register
    BY <2>2 DEF NextRead
  <2> HIDE DEF Rds
  <2>4. \A j \in Rds(r) : j < m => j \in Rds(s)
    BY <1>1, <2>3
  <2>5. /\ m \in Rds(r) /\ Code(r, m) = Code(s, m)
        /\ \A j \in Rds(r) : n < j /\ j < m => Code(r, j).register # Code(r, n).register
    BY <1>1, <2>1, <2>3, <2>4
  <2>6. NextRead(r, n, m)
    BY <2>1, <2>3, <2>5 DEF NextRead, Rds
  <2> QED  BY <2>1, <2>2, <2>5, <2>6
<1>3. ASSUME NEW k \in Calls(t, "MAC_ABK"), n = Len(s) + k
      PROVE  \E m : /\ NextRead(r, n, m)
                    /\ Code(r, m).slot - p.output.start = OutputOf(p, Code(r, n).row)
  <2>1. Code(r, n) = Code(t, k) /\ k \in 1..Len(t)
    BY <1>3 DEF Spliced, Calls
  <2>2. PICK m : /\ NextRead(t, k, m)
                 /\ Code(t, m).slot - p.output.start = OutputOf(p, Code(t, k).row)
    BY <1>3 DEF Reads
  <2>3. /\ m \in Rds(t) /\ k < m /\ Code(t, m).register = Code(t, k).register
        /\ \A j \in Rds(t) : k < j /\ j < m => Code(t, j).register # Code(t, k).register
    BY <2>2 DEF NextRead
  <2> HIDE DEF Rds
  <2> DEFINE q == Len(s) + m
  <2>4. q \in Rds(r) /\ Code(r, q) = Code(t, m) /\ n < q
    BY <1>1, <1>3, <2>1, <2>3
  <2>5. ASSUME NEW j \in Rds(r), n < j, j < q
        PROVE  Code(r, j).register # Code(r, n).register
    <3>1. j \notin Rds(s)
      BY <1>1, <1>3, <2>1, <2>5
    <3>2. PICK i \in Rds(t) : j = Len(s) + i
      BY <1>1, <3>1
    <3>3. k < i /\ i < m /\ Code(r, j) = Code(t, i)
      BY <1>1, <1>3, <2>1, <2>3, <2>5, <3>2
    <3> QED  BY <2>1, <2>3, <3>3
  <2> HIDE DEF q
  <2>6. NextRead(r, n, q)
    BY <2>1, <2>3, <2>4, <2>5 DEF NextRead, Rds
  <2> QED  BY <2>1, <2>2, <2>4, <2>6
<1>4. n \in Calls(s, "MAC_ABK") \/ \E k \in Calls(t, "MAC_ABK") : n = Len(s) + k
  BY SplicedCalls
<1> QED  BY <1>2, <1>3, <1>4

\* A product streams what its own piece loaded.
LEMMA LoadsSpliced ==
  ASSUME NEW r, NEW s, NEW t, Spliced(r, s, t), NEW p, Loads(p, s), Loads(p, t)
  PROVE  Loads(p, r)
<1> SUFFICES ASSUME NEW n \in Calls(r, "MAC_ABK")
             PROVE  \E m : /\ LastLoad(r, n, m)
                           /\ (Code(r, m).slot - p.input.start) \div (DramColumns \div BurstLength)
                                = PieceOf(p, Code(r, n).row)
  BY DEF Loads
<1> DEFINE Wgs(x) == Calls(x, "WR_GB")
<1>1. /\ \A j \in Wgs(s) : j \in Wgs(r) /\ Code(r, j) = Code(s, j) /\ j \in 1..Len(s)
      /\ \A j \in Wgs(t) : /\ Len(s) + j \in Wgs(r) /\ Code(r, Len(s) + j) = Code(t, j)
                           /\ j \in 1..Len(t)
      /\ \A j \in Wgs(r) : j \in Wgs(s) \/ \E k \in Wgs(t) : j = Len(s) + k
      /\ Len(s) \in Nat /\ Len(t) \in Nat
  BY SplicedCalls
<1>2. CASE n \in Calls(s, "MAC_ABK")
  <2>1. Code(r, n) = Code(s, n) /\ n \in 1..Len(s)
    BY <1>2 DEF Spliced, Calls
  <2>2. PICK m : /\ LastLoad(s, n, m)
                 /\ (Code(s, m).slot - p.input.start) \div (DramColumns \div BurstLength)
                      = PieceOf(p, Code(s, n).row)
    BY <1>2 DEF Loads
  <2>3. m \in Wgs(s) /\ m < n /\ \A j \in Wgs(s) : ~(m < j /\ j < n)
    BY <2>2 DEF LastLoad
  <2> HIDE DEF Wgs
  <2>4. \A j \in Wgs(r) : j < n => j \in Wgs(s)
    BY <1>1, <2>1
  <2>5. m \in Wgs(r) /\ Code(r, m) = Code(s, m) /\ \A j \in Wgs(r) : ~(m < j /\ j < n)
    BY <1>1, <2>3, <2>4
  <2>6. LastLoad(r, n, m)
    BY <2>3, <2>5 DEF LastLoad, Wgs
  <2> QED  BY <2>1, <2>2, <2>5, <2>6
<1>3. ASSUME NEW k \in Calls(t, "MAC_ABK"), n = Len(s) + k
      PROVE  \E m : /\ LastLoad(r, n, m)
                    /\ (Code(r, m).slot - p.input.start) \div (DramColumns \div BurstLength)
                         = PieceOf(p, Code(r, n).row)
  <2>1. Code(r, n) = Code(t, k) /\ k \in 1..Len(t)
    BY <1>3 DEF Spliced, Calls
  <2>2. PICK m : /\ LastLoad(t, k, m)
                 /\ (Code(t, m).slot - p.input.start) \div (DramColumns \div BurstLength)
                      = PieceOf(p, Code(t, k).row)
    BY <1>3 DEF Loads
  <2>3. m \in Wgs(t) /\ m < k /\ \A j \in Wgs(t) : ~(m < j /\ j < k)
    BY <2>2 DEF LastLoad
  <2> HIDE DEF Wgs
  <2> DEFINE q == Len(s) + m
  <2>4. q \in Wgs(r) /\ Code(r, q) = Code(t, m) /\ q < n
    BY <1>1, <1>3, <2>1, <2>3
  <2>5. ASSUME NEW j \in Wgs(r), q < j, j < n
        PROVE  FALSE
    <3>1. j \notin Wgs(s)
      BY <1>1, <2>3, <2>5
    <3>2. PICK i \in Wgs(t) : j = Len(s) + i
      BY <1>1, <3>1
    <3>3. m < i /\ i < k
      BY <1>1, <1>3, <2>1, <2>3, <2>5, <3>2
    <3> QED  BY <2>3, <3>3
  <2> HIDE DEF q
  <2>6. LastLoad(r, n, q)
    BY <2>4, <2>5 DEF LastLoad, Wgs
  <2> QED  BY <2>1, <2>2, <2>4, <2>6
<1>4. n \in Calls(s, "MAC_ABK") \/ \E k \in Calls(t, "MAC_ABK") : n = Len(s) + k
  BY SplicedCalls
<1> QED  BY <1>2, <1>3, <1>4

\* Pieces for different rows, one after the other.
LEMMA UnloadedConcat ==
  ASSUME NEW p, NEW s, NEW t, NEW V, NEW W, V \cap W = {}
  PROVE  /\ Unloaded(p, s, V) /\ Unloaded(p, t, W) => Unloaded(p, s \o t, V \cup W)
         /\ Loaded(p, s, V) /\ Loaded(p, t, W) => Loaded(p, s \o t, V \cup W)
<1>1. ASSUME Emits(s), Emits(t) PROVE Emits(s \o t) /\ Spliced(s \o t, s, t)
  BY <1>1, SplicedConcat
<1> DEFINE r == s \o t
<1> HIDE DEF r
<1>2. ASSUME Unloaded(p, s, V), Unloaded(p, t, W) PROVE Unloaded(p, r, V \cup W)
  <2>1. Emits(r) /\ Spliced(r, s, t)
    BY <1>1, <1>2 DEF Unloaded, r
  <2>2. RowsMet(r, V \cup W) /\ Reads(p, r)
    BY <1>2, <2>1, RowsMetSpliced, ReadsSpliced DEF Unloaded
  <2>3. Calls(r, "WR_GB") = {}
    BY <1>2, <2>1, SplicedCalls DEF Unloaded
  <2> QED  BY <2>1, <2>2, <2>3 DEF Unloaded
<1>3. ASSUME Loaded(p, s, V), Loaded(p, t, W) PROVE Loaded(p, r, V \cup W)
  <2>1. Emits(r) /\ Spliced(r, s, t)
    BY <1>1, <1>3 DEF Loaded, r
  <2>2. RowsMet(r, V \cup W) /\ Reads(p, r) /\ Loads(p, r)
    BY <1>3, <2>1, RowsMetSpliced, ReadsSpliced, LoadsSpliced DEF Loaded
  <2> QED  BY <2>1, <2>2 DEF Loaded
<1> QED  BY <1>2, <1>3 DEF r

(* A piece meets these rows: with loads of its own, or without. *)
Meets(p, s, W, loaded) == IF loaded THEN Loaded(p, s, W) ELSE Unloaded(p, s, W)

\* A piece that makes nothing.
LEMMA NothingMeets ==
  ASSUME NEW p, NEW loaded \in BOOLEAN
  PROVE  Meets(p, <<>>, {}, loaded)
<1>1. Len(<<>>) = 0 /\ IsListing(<<>>)
  BY DEF IsListing
<1>2. Emits(<<>>) /\ \A op : Calls(<<>>, op) = {}
  BY <1>1 DEF Emits, Calls
<1> QED  BY <1>2 DEF Meets, Loaded, Unloaded, RowsMet, Reads, Loads

(* The turns of a loop, each of them with rows of its own. *)
Turns(p, seqs, n, W, loaded) ==
  /\ seqs = [i \in 1..n |-> seqs[i]]
  /\ \A i \in 1..n : Meets(p, seqs[i], W[i], loaded)
  /\ \A i, j \in 1..n : i # j => W[i] \cap W[j] = {}

\* Such a loop meets the rows of all its turns.
LEMMA MeetsLoop ==
  ASSUME NEW p, NEW loaded \in BOOLEAN, NEW n \in Nat, NEW seqs, NEW W,
         Turns(p, seqs, n, W, loaded), NEW V,
         \A w : w \in V <=> \E i \in 1..n : w \in W[i]
  PROVE  Meets(p, FlattenSeq(seqs), V, loaded)
<1>0. /\ seqs = [i \in 1..n |-> seqs[i]]
      /\ \A i \in 1..n : Meets(p, seqs[i], W[i], loaded)
      /\ \A i, j \in 1..n : i # j => W[i] \cap W[j] = {}
  BY DEF Turns
<1>1. \A i \in 1..n : IsListing(seqs[i])
  BY <1>0 DEF Meets, Loaded, Unloaded, Emits
<1>2. PICK f : Joined(f, seqs, n)
  BY <1>0, <1>1, TurnsJoined
<1> DEFINE Upto(i) == UNION {W[j] : j \in 1..i}
           Wrong == {i \in 0..n : ~Meets(p, f[i], Upto(i), loaded)}
<1>3. Wrong = {}
  <2> SUFFICES ASSUME Wrong # {} PROVE FALSE
    OBVIOUS
  <2>1. PICK m \in Wrong : \A j \in Wrong : m <= j
    <3>1. Wrong \subseteq Nat
      OBVIOUS
    <3> HIDE DEF Wrong
    <3> QED  BY <3>1, LeastNatural
  <2>2. m \in 0..n /\ ~Meets(p, f[m], Upto(m), loaded)
    OBVIOUS
  <2>3. m # 0
    <3>1. Upto(0) = {} /\ f[0] = <<>>
      BY <1>2 DEF Joined
    <3> HIDE DEF Upto, Wrong
    <3> QED  BY <2>2, <3>1, NothingMeets
  <2>4. m - 1 \in 0..n /\ ~(m <= m - 1) /\ m \in 1..n
    BY <2>2, <2>3
  <2>5. Meets(p, f[m - 1], Upto(m - 1), loaded)
    BY <2>1, <2>4
  <2>6. f[m] = f[m - 1] \o seqs[m]
    BY <1>2, <2>4 DEF Joined
  <2>7. Upto(m) = Upto(m - 1) \cup W[m]
    <3>1. \A j : j \in 1..m <=> j \in 1..(m - 1) \/ j = m
      BY <2>4
    <3> QED  BY <3>1
  <2>8. Upto(m - 1) \cap W[m] = {}
    <3>1. \A j \in 1..(m - 1) : j \in 1..n /\ j # m
      BY <2>4
    <3> QED  BY <1>0, <2>4, <3>1
  <2> HIDE DEF Upto, Wrong
  <2>9. Meets(p, seqs[m], W[m], loaded)
    BY <1>0, <2>4
  <2>10. Meets(p, f[m - 1] \o seqs[m], Upto(m - 1) \cup W[m], loaded)
    BY <2>5, <2>8, <2>9, UnloadedConcat DEF Meets
  <2> QED  BY <2>2, <2>6, <2>7, <2>10
<1>4. Meets(p, f[n], Upto(n), loaded)
  <2> HIDE DEF Upto
  <2>1. n \in 0..n
    OBVIOUS
  <2> QED  BY <1>3, <2>1
<1>5. V = Upto(n)
  <2>1. \A w : w \in Upto(n) <=> \E i \in 1..n : w \in W[i]
    OBVIOUS
  <2> HIDE DEF Upto, Wrong
  <2> QED  BY <2>1
<1> HIDE DEF Upto, Wrong
<1>6. f[n] = FlattenSeq(seqs)
  BY <1>2 DEF Joined
<1> QED  BY <1>4, <1>5, <1>6

(* The calls of a loop that appends one instruction a turn. *)
StepsOf(x, n) == [k \in 1..n |-> [ok |-> TRUE, batch |-> <<x[k]>>]]

\* Such a loop.
LEMMA FlatSteps ==
  ASSUME NEW n \in Nat, NEW x
  PROVE  FlattenSeq([k \in 1..n |-> Append1(x[k])]) = StepsOf(x, n)
<1> DEFINE seqs == [k \in 1..n |-> Append1(x[k])]
           y == [k \in 1..n |-> [ok |-> TRUE, batch |-> <<x[k]>>]]
           Part(i) == [k \in 1..i |-> y[k]]
<1>1. \A k \in 1..n : seqs[k] = <<y[k]>>
  BY DEF Append1
<1>2. seqs = [k \in 1..n |-> seqs[k]]
  OBVIOUS
<1> HIDE DEF seqs
<1>3. \A k \in 1..n : IsListing(seqs[k])
  <2>1. \A z : IsListing(<<z>>)
    BY DEF IsListing
  <2> QED  BY <1>1, <2>1
<1>4. PICK f : Joined(f, seqs, n)
  BY <1>2, <1>3, TurnsJoined
<1>5. y = Part(n)
  OBVIOUS
<1> DEFINE Wrong == {i \in 0..n : f[i] # Part(i)}
<1> HIDE DEF y
<1>6. Wrong = {}
  <2> SUFFICES ASSUME Wrong # {} PROVE FALSE
    OBVIOUS
  <2>1. PICK m \in Wrong : \A j \in Wrong : m <= j
    <3>1. Wrong \subseteq Nat
      OBVIOUS
    <3> HIDE DEF Wrong
    <3> QED  BY <3>1, LeastNatural
  <2>2. m \in 0..n /\ f[m] # Part(m)
    OBVIOUS
  <2>3. m # 0
    <3>1. f[0] = <<>>
      BY <1>4 DEF Joined
    <3>2. Part(0) = <<>>
      OBVIOUS
    <3> HIDE DEF Part, Wrong
    <3> QED  BY <2>2, <3>1, <3>2
  <2>4. m - 1 \in 0..n /\ ~(m <= m - 1) /\ m \in 1..n
    BY <2>2, <2>3
  <2>5. f[m - 1] = Part(m - 1)
    BY <2>1, <2>4
  <2>6. f[m] = f[m - 1] \o <<y[m]>>
    BY <1>1, <1>4, <2>4 DEF Joined
  <2>7. Part(m - 1) \o <<y[m]>> = Part(m)
    <3> DEFINE i == m - 1
    <3>1. i \in Nat /\ m = i + 1
      BY <2>4
    <3> HIDE DEF i
    <3>2. [k \in 1..i |-> y[k]] \o <<y[i + 1]>> = [k \in 1..(i + 1) |-> y[k]]
      BY <3>1, OneMore
    <3> QED  BY <3>1, <3>2 DEF i
  <2> HIDE DEF Part, Wrong
  <2> QED  BY <2>2, <2>5, <2>6, <2>7
<1>7. f[n] = Part(n)
  <2> HIDE DEF Part
  <2>1. n \in 0..n
    OBVIOUS
  <2> QED  BY <1>6, <2>1
<1>8. f[n] = FlattenSeq(seqs)
  BY <1>4 DEF Joined
<1> HIDE DEF Part, Wrong
<1> QED  BY <1>5, <1>7, <1>8 DEF seqs, y, StepsOf

\* Such a loop makes one instruction per call.
LEMMA StepsEmit ==
  ASSUME NEW n \in Nat, NEW x
  PROVE  /\ Emits(StepsOf(x, n)) /\ Len(StepsOf(x, n)) = n
         /\ \A k \in 1..n : Code(StepsOf(x, n), k) = x[k]
<1> DEFINE s == StepsOf(x, n)
<1>1. s = [k \in 1..n |-> s[k]]
  BY DEF StepsOf
<1>2. \A k \in 1..n : s[k] = [ok |-> TRUE, batch |-> <<x[k]>>]
  BY DEF StepsOf
<1> HIDE DEF s
<1>3. IsListing(s) /\ Len(s) = n
  BY <1>1, ListingOf
<1>4. \A k \in 1..n : Code(s, k) = x[k]
  <2>1. \A z : [ok |-> TRUE, batch |-> <<z>>].batch[1] = z
    OBVIOUS
  <2> QED  BY <1>2, <2>1 DEF Code
<1> QED  BY <1>2, <1>3, <1>4 DEF Emits, s

\* A piece that computes nothing and loads nothing meets no row.
LEMMA QuietMeets ==
  ASSUME NEW p, NEW s, Emits(s),
         \A n \in 1..Len(s) : Code(s, n).op \notin {"MAC_ABK", "WR_GB"}
  PROVE  Meets(p, s, {}, FALSE)
<1>1. Calls(s, "MAC_ABK") = {} /\ Calls(s, "WR_GB") = {}
  BY DEF Calls
<1> QED  BY <1>1 DEF Meets, Unloaded, RowsMet, Reads

\* A load before a piece whose rows all belong to what it loads.
LEMMA LoadMeets ==
  ASSUME NEW p, NEW s, NEW W, NEW i, Meets(p, s, W, FALSE), i.op = "WR_GB",
         \A w \in W : (i.slot - p.input.start) \div (DramColumns \div BurstLength)
                        = PieceOf(p, w)
  PROVE  Meets(p, Append1(i) \o s, W, TRUE)
<1> DEFINE t == Append1(i)
           r == t \o s
<1>1. Emits(t) /\ Len(t) = 1 /\ Code(t, 1) = i
  <2>1. t = <<[ok |-> TRUE, batch |-> <<i>>]>>
    BY DEF Append1
  <2> HIDE DEF t
  <2>2. Len(t) = 1 /\ t[1] = [ok |-> TRUE, batch |-> <<i>>] /\ IsListing(t)
    BY <2>1 DEF IsListing
  <2>3. t[1].batch[1] = i
    BY <2>2
  <2> QED  BY <2>2, <2>3 DEF Emits, Code
<1> HIDE DEF t
<1>2. Emits(s) /\ IsListing(s) /\ IsListing(t)
  BY <1>1 DEF Meets, Unloaded, Emits
<1>3. \A op : Calls(t, op) = IF op = "WR_GB" THEN {1} ELSE {}
  BY <1>1 DEF Calls
<1>4. RowsMet(t, {}) /\ Reads(p, t)
  BY <1>3 DEF RowsMet, Reads
<1>5. Emits(r) /\ Spliced(r, t, s)
  BY <1>1, <1>2, SplicedConcat
<1> HIDE DEF r
<1>6. RowsMet(r, W) /\ Reads(p, r)
  <2>1. RowsMet(s, W) /\ Reads(p, s) /\ {} \cup W = W /\ {} \cap W = {}
    <3>1. RowsMet(s, W) /\ Reads(p, s)
      BY DEF Meets, Unloaded
    <3> QED  BY <3>1
  <2>2. RowsMet(r, {} \cup W)
    BY <1>4, <1>5, <2>1, RowsMetSpliced
  <2>3. Reads(p, r)
    BY <1>4, <1>5, <2>1, ReadsSpliced
  <2> QED  BY <2>1, <2>2, <2>3
<1>7. Loads(p, r)
  <2> SUFFICES ASSUME NEW n \in Calls(r, "MAC_ABK")
               PROVE  \E m : /\ LastLoad(r, n, m)
                             /\ (Code(r, m).slot - p.input.start) \div (DramColumns \div BurstLength)
                                  = PieceOf(p, Code(r, n).row)
    BY DEF Loads
  <2>1. Calls(s, "WR_GB") = {}
    BY DEF Meets, Unloaded
  <2>2. 1 \in Calls(r, "WR_GB") /\ Code(r, 1) = i /\ \A j \in Calls(r, "WR_GB") : j = 1
    BY <1>1, <1>3, <1>5, <2>1, SplicedCalls
  <2>3. n > 1
    <3>1. PICK k \in Calls(s, "MAC_ABK") : n = Len(t) + k
      BY <1>3, <1>5, SplicedCalls
    <3>2. k \in 1..Len(s) /\ Len(s) \in Nat
      BY <1>2, <3>1 DEF Calls, IsListing
    <3> QED  BY <1>1, <3>1, <3>2
  <2>4. LastLoad(r, n, 1)
    BY <2>2, <2>3 DEF LastLoad
  <2>5. Code(r, n).row \in W
    BY <1>6 DEF RowsMet
  <2> QED  BY <2>2, <2>4, <2>5
<1> QED  BY <1>5, <1>6, <1>7 DEF Meets, Loaded, r, t

(* Where a projection is placed. *)
GemvPlaced(p) ==
  /\ p.weights.start \in Int /\ p.output.start \in Int /\ p.input.start \in Int
  /\ RowsPerOutput(p) \in Nat \ {0}

\* A weight row is of one output and one piece of the input.
LEMMA RowOfOutput ==
  ASSUME NEW p, GemvPlaced(p), NEW o \in Nat, NEW v \in 0..(RowsPerOutput(p) - 1)
  PROVE  OutputOf(p, WeightRow(p, o, v)) = o /\ PieceOf(p, WeightRow(p, o, v)) = v
<1> DEFINE n == RowsPerOutput(p)
           w == WeightRow(p, o, v)
<1>1. n \in Nat \ {0} /\ v \in 0..(n - 1)
  BY DEF GemvPlaced
<1>2. w - p.weights.start = o * n + v /\ o * n + v \in Nat
  <2>1. o * n \in Nat
    BY <1>1
  <2>2. w = p.weights.start + o * n + v
    BY DEF WeightRow
  <2> HIDE DEF n, w
  <2> QED  BY <1>1, <2>1, <2>2 DEF GemvPlaced
<1> HIDE DEF n, w
<1>3. (o * n + v) \div n \in Nat /\ (o * n + v) % n \in 0..(n - 1)
      /\ o * n + v = ((o * n + v) \div n) * n + ((o * n + v) % n)
  BY <1>1, <1>2, Parts
<1>4. (o * n + v) \div n = o /\ (o * n + v) % n = v
  <2> DEFINE q == (o * n + v) \div n
             m == (o * n + v) % n
  <2>1. q \in Nat /\ m \in 0..(n - 1) /\ o * n + v = q * n + m
    BY <1>3
  <2> HIDE DEF q, m
  <2>2. o = q /\ v = m
    BY <1>1, <2>1, PartsUnique
  <2> QED  BY <2>2 DEF q, m
<1> QED  BY <1>2, <1>4 DEF OutputOf, PieceOf, n, w

\* One instruction that computes nothing and loads nothing.
LEMMA QuietOne ==
  ASSUME NEW p, NEW i, i.op \notin {"MAC_ABK", "WR_GB"}
  PROVE  Meets(p, Append1(i), {}, FALSE)
<1> DEFINE t == Append1(i)
<1>1. Emits(t) /\ Len(t) = 1 /\ Code(t, 1) = i
  <2>1. t = <<[ok |-> TRUE, batch |-> <<i>>]>>
    BY DEF Append1
  <2> HIDE DEF t
  <2>2. Len(t) = 1 /\ t[1] = [ok |-> TRUE, batch |-> <<i>>] /\ IsListing(t)
    BY <2>1 DEF IsListing
  <2>3. t[1].batch[1] = i
    BY <2>2
  <2> QED  BY <2>2, <2>3 DEF Emits, Code
<1> HIDE DEF t
<1>2. \A n \in 1..Len(t) : Code(t, n).op \notin {"MAC_ABK", "WR_GB"}
  BY <1>1
<1>3. Meets(p, t, {}, FALSE)
  BY <1>1, <1>2, QuietMeets
<1> QED  BY <1>3 DEF t

\* A loop of such instructions.
LEMMA QuietSteps ==
  ASSUME NEW p, NEW n \in Nat, NEW x, \A k \in 1..n : x[k].op \notin {"MAC_ABK", "WR_GB"}
  PROVE  Meets(p, FlattenSeq([k \in 1..n |-> Append1(x[k])]), {}, FALSE)
<1> DEFINE s == StepsOf(x, n)
<1>1. FlattenSeq([k \in 1..n |-> Append1(x[k])]) = s
  BY FlatSteps
<1>2. Emits(s) /\ Len(s) = n /\ \A k \in 1..n : Code(s, k) = x[k]
  BY StepsEmit
<1> HIDE DEF s
<1>3. \A k \in 1..Len(s) : Code(s, k).op \notin {"MAC_ABK", "WR_GB"}
  BY <1>2
<1> QED  BY <1>1, <1>2, <1>3, QuietMeets

(* Products x and result reads y, a register of its own for each.          *)
Paired(p, n, x, y) ==
  /\ \A k \in 1..n : x[k].op = "MAC_ABK" /\ y[k].op = "RD_MAC"
  /\ \A k \in 1..n : x[k].register = k - 1 /\ y[k].register = k - 1
  /\ \A k \in 1..n : y[k].slot - p.output.start = OutputOf(p, x[k].row)
  /\ \A j, k \in 1..n : x[j].row = x[k].row => j = k

\* Products in registers of their own, and then a result read from each.
LEMMA ProductsThenReads ==
  ASSUME NEW p, NEW n \in Nat, NEW x, NEW y, Paired(p, n, x, y), NEW W,
         \A k \in 1..n : x[k].row \in W, \A w \in W : \E k \in 1..n : x[k].row = w,
         NEW a, a = FlattenSeq([k \in 1..n |-> Append1(x[k])]),
         NEW b, b = FlattenSeq([k \in 1..n |-> Append1(y[k])])
  PROVE  Meets(p, a \o b, W, FALSE)
<1> DEFINE s == StepsOf(x, n)
           t == StepsOf(y, n)
           r == s \o t
<1>1. a = s /\ b = t
  BY FlatSteps
<1>2. /\ Emits(s) /\ Len(s) = n /\ \A k \in 1..n : Code(s, k) = x[k]
      /\ Emits(t) /\ Len(t) = n /\ \A k \in 1..n : Code(t, k) = y[k]
  <2>1. Emits(s) /\ Len(s) = n /\ \A k \in 1..n : Code(s, k) = x[k]
    BY StepsEmit
  <2>2. Emits(t) /\ Len(t) = n /\ \A k \in 1..n : Code(t, k) = y[k]
    BY StepsEmit
  <2> HIDE DEF s, t
  <2> QED  BY <2>1, <2>2
<1> HIDE DEF s, t
<1>3. Emits(r) /\ Spliced(r, s, t)
  BY <1>2, SplicedConcat
<1> HIDE DEF r
<1>4. /\ Calls(s, "MAC_ABK") = 1..n /\ Calls(s, "RD_MAC") = {} /\ Calls(s, "WR_GB") = {}
      /\ Calls(t, "MAC_ABK") = {} /\ Calls(t, "RD_MAC") = 1..n /\ Calls(t, "WR_GB") = {}
  <2>1. \A op : Calls(s, op) = {k \in 1..n : x[k].op = op}
    BY <1>2 DEF Calls
  <2>2. \A op : Calls(t, op) = {k \in 1..n : y[k].op = op}
    BY <1>2 DEF Calls
  <2>3. \A k \in 1..n : x[k].op = "MAC_ABK" /\ y[k].op = "RD_MAC"
    BY DEF Paired
  <2>4. /\ Calls(s, "MAC_ABK") = {k \in 1..n : x[k].op = "MAC_ABK"}
        /\ Calls(s, "RD_MAC") = {k \in 1..n : x[k].op = "RD_MAC"}
        /\ Calls(s, "WR_GB") = {k \in 1..n : x[k].op = "WR_GB"}
        /\ Calls(t, "MAC_ABK") = {k \in 1..n : y[k].op = "MAC_ABK"}
        /\ Calls(t, "RD_MAC") = {k \in 1..n : y[k].op = "RD_MAC"}
        /\ Calls(t, "WR_GB") = {k \in 1..n : y[k].op = "WR_GB"}
    BY <2>1, <2>2
  <2>5. Calls(s, "MAC_ABK") = 1..n
    BY <2>3, <2>4
  <2>6. Calls(s, "RD_MAC") = {} /\ Calls(s, "WR_GB") = {}
    BY <2>3, <2>4
  <2>7. Calls(t, "RD_MAC") = 1..n
    BY <2>3, <2>4
  <2>8. Calls(t, "MAC_ABK") = {} /\ Calls(t, "WR_GB") = {}
    BY <2>3, <2>4
  <2> QED  BY <2>5, <2>6, <2>7, <2>8
<1>5. /\ Calls(r, "MAC_ABK") = 1..n /\ Calls(r, "WR_GB") = {}
      /\ \A k \in 1..n : Code(r, k) = x[k]
      /\ \A k \in 1..n : n + k \in Calls(r, "RD_MAC") /\ Code(r, n + k) = y[k]
      /\ \A j \in Calls(r, "RD_MAC") : \E k \in 1..n : j = n + k
  <2>1. /\ \A k \in 1..n : k \in Calls(r, "MAC_ABK") /\ Code(r, k) = x[k]
        /\ \A j \in Calls(r, "MAC_ABK") : j \in 1..n
    BY <1>2, <1>3, <1>4, SplicedCalls
  <2>2. Calls(r, "WR_GB") = {}
    BY <1>3, <1>4, SplicedCalls
  <2>3. /\ \A k \in 1..n : n + k \in Calls(r, "RD_MAC") /\ Code(r, n + k) = y[k]
        /\ \A j \in Calls(r, "RD_MAC") : \E k \in 1..n : j = n + k
    <3>1. /\ \A k \in Calls(t, "RD_MAC") :
                Len(s) + k \in Calls(r, "RD_MAC") /\ Code(r, Len(s) + k) = Code(t, k)
          /\ \A j \in Calls(r, "RD_MAC") :
               j \in Calls(s, "RD_MAC") \/ \E k \in Calls(t, "RD_MAC") : j = Len(s) + k
      BY <1>3, SplicedCalls
    <3> QED  BY <1>2, <1>4, <3>1
  <2> QED  BY <2>1, <2>2, <2>3
<1>6. RowsMet(r, W)
  <2>3. \A j, k \in 1..n : x[j].row = x[k].row => j = k
    BY DEF Paired
  <2>4. /\ \A k \in Calls(r, "MAC_ABK") : Code(r, k).row \in W
        /\ \A w \in W : \E k \in Calls(r, "MAC_ABK") : Code(r, k).row = w
    <3>1. Calls(r, "MAC_ABK") = 1..n /\ \A k \in 1..n : Code(r, k) = x[k]
      BY <1>5
    <3>2. \A k \in 1..n : Code(r, k).row \in W
      BY <3>1
    <3>3. \A w \in W : \E k \in 1..n : Code(r, k).row = w
      BY <3>1
    <3> QED  BY <3>1, <3>2, <3>3
  <2>5. \A j, k \in Calls(r, "MAC_ABK") : Code(r, j).row = Code(r, k).row => j = k
    <3>1. Calls(r, "MAC_ABK") = 1..n
      BY <1>5
    <3>2. \A k \in 1..n : Code(r, k).row = x[k].row
      BY <1>5
    <3> QED  BY <2>3, <3>1, <3>2
  <2> QED  BY <2>4, <2>5 DEF RowsMet
<1>7. Reads(p, r)
  <2> SUFFICES ASSUME NEW k \in 1..n
               PROVE  \E m : /\ NextRead(r, k, m)
                             /\ Code(r, m).slot - p.output.start = OutputOf(p, Code(r, k).row)
    BY <1>5 DEF Reads
  <2> DEFINE m == n + k
  <2>1. m \in Calls(r, "RD_MAC") /\ Code(r, m) = y[k] /\ Code(r, k) = x[k] /\ k < m
    BY <1>5
  <2>2. ASSUME NEW j \in Calls(r, "RD_MAC"), k < j, j < m
        PROVE  Code(r, j).register # Code(r, k).register
    <3>1. PICK i \in 1..n : j = n + i
      BY <1>5
    <3>2. i # k /\ Code(r, j) = y[i]
      BY <1>5, <2>2, <3>1
    <3>3. y[i].register = i - 1 /\ x[k].register = k - 1
      BY DEF Paired
    <3> QED  BY <2>1, <3>2, <3>3
  <2> HIDE DEF m
  <2>5. Code(r, m).register = Code(r, k).register
    BY <2>1 DEF Paired
  <2>3. NextRead(r, k, m)
    BY <2>1, <2>2, <2>5 DEF NextRead
  <2>4. Code(r, m).slot - p.output.start = OutputOf(p, Code(r, k).row)
    BY <2>1 DEF Paired
  <2> QED  BY <2>3, <2>4
<1>8. Meets(p, r, W, FALSE)
  BY <1>3, <1>5, <1>6, <1>7 DEF Meets, Unloaded
<1> QED  BY <1>1, <1>8 DEF r

\* One piece after the other.
LEMMA MeetsConcat ==
  ASSUME NEW p, NEW s, NEW t, NEW V, NEW W, NEW loaded \in BOOLEAN,
         V \cap W = {}, Meets(p, s, V, loaded), Meets(p, t, W, loaded)
  PROVE  Meets(p, s \o t, V \cup W, loaded)
BY UnloadedConcat DEF Meets

\* A group of outputs against a piece of the input.
LEMMA GroupMeets ==
  ASSUME NEW p, GemvPlaced(p), NEW v \in 0..(RowsPerOutput(p) - 1), NEW size,
         NEW first \in Nat, NEW count \in Nat
  PROVE  Meets(p, GemvGroup(p, v, size, first, count),
               {WeightRow(p, first + k - 1, v) : k \in 1..count}, FALSE)
<1> DEFINE bias(k) == WriteBias(p.channels, ResultSlot(p, first, k),
                                IF v = 0 THEN {} ELSE {p.output.value})
           mac(k) == Mac(p.channels, WeightRow(p, first + k, v), 0, size, k,
                         "GLOBAL_BUFFER", {"host"}, {p.input.value})
           read(k) == ReadResult("RD_MAC", p.channels, ResultSlot(p, first, k), k,
                                 p.output.value)
           af(k) == Activate(p.channels, k)
           rdaf(k) == ReadResult("RD_AF", p.channels, p.activated.start + first + k, k,
                                 p.activated.value)
           bs == [k \in 1..count |-> bias(k - 1)]
           ms == [k \in 1..count |-> mac(k - 1)]
           rs == [k \in 1..count |-> read(k - 1)]
           actives == [k \in 1..count |-> Append1(af(k - 1)) \o Append1(rdaf(k - 1))]
           last == p.is_activated /\ v = RowsPerOutput(p) - 1
           b == FlattenSeq([k \in 1..count |-> Append1(bs[k])])
           m == FlattenSeq([k \in 1..count |-> Append1(ms[k])])
           r == FlattenSeq([k \in 1..count |-> Append1(rs[k])])
           rest == IF last THEN FlattenSeq(actives) ELSE <<>>
           W == {WeightRow(p, first + k - 1, v) : k \in 1..count}
<1>1. GemvGroup(p, v, size, first, count) = b \o m \o r \o rest
  BY DEF GemvGroup, Each
<1>2. Meets(p, b, {}, FALSE)
  <2>1. \A k \in 1..count : bs[k].op \notin {"MAC_ABK", "WR_GB"}
    BY DEF WriteBias
  <2> HIDE DEF bs
  <2> QED  BY <2>1, QuietSteps
<1>3. Meets(p, m \o r, W, FALSE)
  <2>1. ASSUME NEW k \in 1..count
        PROVE  /\ ms[k].op = "MAC_ABK" /\ rs[k].op = "RD_MAC"
               /\ ms[k].register = k - 1 /\ rs[k].register = k - 1
               /\ ms[k].row = WeightRow(p, first + k - 1, v)
               /\ rs[k].slot - p.output.start = first + k - 1
    <3>1. ms[k] = mac(k - 1) /\ rs[k] = read(k - 1)
      OBVIOUS
    <3>2. rs[k].slot = p.output.start + first + (k - 1) /\ rs[k].op = "RD_MAC"
          /\ rs[k].register = k - 1
      BY <3>1 DEF ReadResult, ResultSlot
    <3>3. first + (k - 1) = first + k - 1
      OBVIOUS
    <3>4. ms[k].op = "MAC_ABK" /\ ms[k].register = k - 1
          /\ ms[k].row = WeightRow(p, first + k - 1, v)
      BY <3>1, <3>3 DEF Mac
    <3>5. \A a \in Int : a + first + (k - 1) - a = first + k - 1
      OBVIOUS
    <3>6. p.output.start \in Int
      BY DEF GemvPlaced
    <3> HIDE DEF ms, rs
    <3>7. rs[k].slot - p.output.start = first + k - 1
      BY <3>2, <3>5, <3>6
    <3> QED  BY <3>2, <3>4, <3>7
  <2>2. \A k \in 1..count : first + k - 1 \in Nat
    OBVIOUS
  <2> HIDE DEF ms, rs
  <2>3. \A k \in 1..count : OutputOf(p, ms[k].row) = first + k - 1
    BY <2>1, <2>2, RowOfOutput
  <2>4. \A j, k \in 1..count : ms[j].row = ms[k].row => j = k
    <3>1. \A j, k \in 1..count : first + j - 1 = first + k - 1 => j = k
      OBVIOUS
    <3> QED  BY <2>3, <3>1
  <2>5. Paired(p, count, ms, rs)
    BY <2>1, <2>3, <2>4 DEF Paired
  <2>6. Meets(p, m \o r, W, FALSE)
    <3>1. /\ \A k \in 1..count : ms[k].row \in W
          /\ \A w \in W : \E k \in 1..count : ms[k].row = w
      BY <2>1
    <3>2. /\ m = FlattenSeq([k \in 1..count |-> Append1(ms[k])])
          /\ r = FlattenSeq([k \in 1..count |-> Append1(rs[k])])
      OBVIOUS
    <3> HIDE DEF W, m, r
    <3> QED  BY <2>5, <3>1, <3>2, ProductsThenReads
  <2> QED  BY <2>6
<1>4. Meets(p, rest, {}, FALSE)
  <2>1. \A k : af(k).op \notin {"MAC_ABK", "WR_GB"} /\ rdaf(k).op \notin {"MAC_ABK", "WR_GB"}
    BY DEF Activate, ReadResult
  <2> HIDE DEF af, rdaf
  <2>2. \A k \in 1..count : Meets(p, actives[k], {}, FALSE)
    <3> SUFFICES ASSUME NEW k \in 1..count
                 PROVE  Meets(p, Append1(af(k - 1)) \o Append1(rdaf(k - 1)), {}, FALSE)
      OBVIOUS
    <3>1. Meets(p, Append1(af(k - 1)), {}, FALSE) /\ Meets(p, Append1(rdaf(k - 1)), {}, FALSE)
      BY <2>1, QuietOne
    <3>2. {} \cap {} = {} /\ {} \cup {} = {}
      OBVIOUS
    <3>3. Meets(p, Append1(af(k - 1)) \o Append1(rdaf(k - 1)), {} \cup {}, FALSE)
      BY <3>1, <3>2, MeetsConcat
    <3> QED  BY <3>2, <3>3
  <2>3. actives = [k \in 1..count |-> actives[k]]
    OBVIOUS
  <2> HIDE DEF actives
  <2> DEFINE N == [k \in 1..count |-> {}]
  <2>4. \A k \in 1..count : N[k] = {}
    OBVIOUS
  <2> HIDE DEF N
  <2>5. Meets(p, FlattenSeq(actives), {}, FALSE)
    <3>1. Turns(p, actives, count, N, FALSE)
      BY <2>2, <2>3, <2>4 DEF Turns
    <3>2. \A w : w \in {} <=> \E k \in 1..count : w \in N[k]
      BY <2>4
    <3> QED  BY <3>1, <3>2, MeetsLoop
  <2>6. Meets(p, <<>>, {}, FALSE)
    BY NothingMeets
  <2> QED  BY <2>5, <2>6
<1> HIDE DEF b, m, r, rest, W
<1>5. Meets(p, b \o m \o r \o rest, W, FALSE)
  <2>1. IsListing(b) /\ IsListing(rest) /\ IsListing(m) /\ IsListing(r)
    <3>1. IsListing(b) /\ IsListing(rest)
      BY <1>2, <1>4 DEF Meets, Unloaded, Emits
    <3>2. IsListing(m) /\ IsListing(r)
      <4>1. \A x : IsListing(FlattenSeq([k \in 1..count |-> Append1(x[k])]))
        <5> SUFFICES ASSUME NEW x
                     PROVE  IsListing(FlattenSeq([k \in 1..count |-> Append1(x[k])]))
          OBVIOUS
        <5> DEFINE s == StepsOf(x, count)
        <5>1. FlattenSeq([k \in 1..count |-> Append1(x[k])]) = s
          BY FlatSteps
        <5>2. Emits(s)
          BY StepsEmit
        <5> HIDE DEF s
        <5> QED  BY <5>1, <5>2 DEF Emits
      <4> QED  BY <4>1 DEF m, r
    <3> QED  BY <3>1, <3>2
  <2>2. b \o m \o r = b \o (m \o r)
    <3> DEFINE U == Elements(b) \cup Elements(m) \cup Elements(r)
    <3>1. b \in Seq(U) /\ m \in Seq(U) /\ r \in Seq(U)
      <4>1. /\ \A k \in 1..Len(b) : b[k] \in U
            /\ \A k \in 1..Len(m) : m[k] \in U
            /\ \A k \in 1..Len(r) : r[k] \in U
        BY DEF Elements
      <4> HIDE DEF U
      <4>2. /\ b \in [1..Len(b) -> U] /\ Len(b) \in Nat
            /\ m \in [1..Len(m) -> U] /\ Len(m) \in Nat
            /\ r \in [1..Len(r) -> U] /\ Len(r) \in Nat
        BY <2>1, <4>1 DEF IsListing
      <4>3. \A n \in Nat : \A f \in [1..n -> U] : f \in Seq(U)
        OBVIOUS
      <4> QED  BY <4>2, <4>3
    <3> HIDE DEF U
    <3> QED  BY <3>1, ConcatAssociative
  <2>3. {} \cap W = {} /\ {} \cup W = W /\ W \cap {} = {} /\ W \cup {} = W
    OBVIOUS
  <2>4. Meets(p, b \o (m \o r), {} \cup W, FALSE)
    BY <1>2, <1>3, <2>3, MeetsConcat
  <2>5. Meets(p, b \o m \o r, W, FALSE)
    BY <2>2, <2>3, <2>4
  <2>6. Meets(p, (b \o m \o r) \o rest, W \cup {}, FALSE)
    BY <1>4, <2>3, <2>5, MeetsConcat
  <2> QED  BY <2>3, <2>6
<1> QED  BY <1>1, <1>5 DEF W

(* The rows of a group of outputs, of all outputs, and of the matrix. *)
GroupRows(p, v, g, count) == {WeightRow(p, g * p.group + k - 1, v) : k \in 1..count}
PieceRows(p, v) == {WeightRow(p, o, v) : o \in 0..(p.per_bank - 1)}
MatrixOf(p) ==
  UNION {PieceRows(p, v) : v \in 0..(RowsPerOutput(p) - 1)}

(* All groups of outputs against a piece of the input, and its load. *)
GroupsOf(p, v, size) ==
  Each(CeilDiv(p.per_bank, p.group), LAMBDA g :
    GemvGroup(p, v, size, g * p.group, Lesser(p.group, p.per_bank - g * p.group)))
LoadedPiece(p, v, size) ==
  Append1(WriteGlobal(p.channels, p.input.start + v * (DramColumns \div BurstLength),
                      size, p.input.value))
  \o GroupsOf(p, v, size)

\* The groups of outputs are all outputs, each in one group.
LEMMA OutputsInGroups ==
  ASSUME NEW n \in Nat \ {0}, NEW d \in Nat \ {0}
  PROVE  /\ CeilDiv(n, d) \in Nat
         /\ \A g \in 0..(CeilDiv(n, d) - 1) :
              g * d \in Nat /\ Lesser(d, n - g * d) \in Nat /\ Lesser(d, n - g * d) <= d
         /\ \A o \in 0..(n - 1) : \E g \in 0..(CeilDiv(n, d) - 1) :
              \E k \in 1..Lesser(d, n - g * d) : o = g * d + k - 1
         /\ \A g \in 0..(CeilDiv(n, d) - 1) : \A k \in 1..Lesser(d, n - g * d) :
              g * d + k - 1 \in 0..(n - 1)
<1> DEFINE m == CeilDiv(n, d)
<1>1. m \in Nat /\ \A k \in Nat : k < m <=> k * d < n
  BY CeilDivBelow
<1> HIDE DEF m
<1>2. ASSUME NEW g \in 0..(m - 1)
      PROVE  g * d \in Nat /\ Lesser(d, n - g * d) \in Nat /\ Lesser(d, n - g * d) <= d
             /\ Lesser(d, n - g * d) <= n - g * d
  <2>1. g \in Nat /\ g < m /\ g * d \in Nat
    BY <1>1
  <2>2. g * d < n
    BY <1>1, <2>1
  <2> DEFINE x == g * d
  <2> HIDE DEF x
  <2>3. x \in Nat /\ x < n
    BY <2>1, <2>2 DEF x
  <2>4. Lesser(d, n - x) \in Nat /\ Lesser(d, n - x) <= d /\ Lesser(d, n - x) <= n - x
    BY <2>3 DEF Lesser
  <2> QED  BY <2>1, <2>4 DEF x
<1>3. ASSUME NEW o \in 0..(n - 1)
      PROVE  \E g \in 0..(m - 1) : \E k \in 1..Lesser(d, n - g * d) : o = g * d + k - 1
  <2> DEFINE g == o \div d
             k == (o % d) + 1
             x == g * d
  <2>1. g \in Nat /\ o % d \in 0..(d - 1) /\ o = g * d + (o % d)
    BY Parts
  <2> HIDE DEF g
  <2>2. g * d \in Nat
    BY <2>1
  <2> HIDE DEF x
  <2>3. x \in Nat /\ o = x + (o % d) /\ x <= o /\ x < n
    BY <2>1, <2>2 DEF x
  <2>4. g \in 0..(m - 1)
    BY <1>1, <2>1, <2>3 DEF x
  <2>5. k \in 1..Lesser(d, n - x) /\ o = x + k - 1
    BY <2>1, <2>3 DEF Lesser
  <2> HIDE DEF k
  <2>6. k \in 1..Lesser(d, n - g * d) /\ o = g * d + k - 1
    BY <2>5 DEF x
  <2> QED  BY <2>4, <2>6
<1>4. ASSUME NEW g \in 0..(m - 1), NEW k \in 1..Lesser(d, n - g * d)
      PROVE  g * d + k - 1 \in 0..(n - 1)
  <2> DEFINE x == g * d
             l == Lesser(d, n - x)
  <2>1. x \in Nat /\ l \in Nat /\ l <= n - x /\ k \in 1..l
    BY <1>2
  <2> HIDE DEF x, l
  <2>2. x + k - 1 \in 0..(n - 1)
    BY <2>1
  <2> QED  BY <2>2 DEF x
<1> QED  BY <1>1, <1>2, <1>3, <1>4 DEF m

\* All groups of outputs against a piece of the input.
LEMMA PieceMeets ==
  ASSUME NEW p, GemvPlaced(p), GemvShaped(p), NEW v \in 0..(RowsPerOutput(p) - 1), NEW size
  PROVE  Meets(p, GroupsOf(p, v, size), PieceRows(p, v), FALSE)
<1> DEFINE m == CeilDiv(p.per_bank, p.group)
           count(g) == Lesser(p.group, p.per_bank - g * p.group)
           one(g) == GemvGroup(p, v, size, g * p.group, count(g))
           seqs == [i \in 1..m |-> one(i - 1)]
           W == [i \in 1..m |-> GroupRows(p, v, i - 1, count(i - 1))]
<1>1. GroupsOf(p, v, size) = FlattenSeq(seqs)
  BY DEF GroupsOf, Each
<1>2. p.per_bank \in Nat \ {0} /\ p.group \in Nat \ {0}
  BY DEF GemvShaped
<1>3. /\ m \in Nat
      /\ \A g \in 0..(m - 1) : g * p.group \in Nat /\ count(g) \in Nat /\ count(g) <= p.group
      /\ \A o \in 0..(p.per_bank - 1) : \E g \in 0..(m - 1) :
           \E k \in 1..count(g) : o = g * p.group + k - 1
      /\ \A g \in 0..(m - 1) : \A k \in 1..count(g) :
           g * p.group + k - 1 \in 0..(p.per_bank - 1)
  BY <1>2, OutputsInGroups
<1> HIDE DEF m, count
<1>4. \A g \in 0..(m - 1) : \A w \in GroupRows(p, v, g, count(g)) :
        \E k \in 1..count(g) : OutputOf(p, w) = g * p.group + k - 1
  <2> SUFFICES ASSUME NEW g \in 0..(m - 1), NEW k \in 1..count(g)
               PROVE  OutputOf(p, WeightRow(p, g * p.group + k - 1, v)) = g * p.group + k - 1
    BY DEF GroupRows
  <2>1. g * p.group + k - 1 \in Nat
    BY <1>3
  <2> QED  BY <2>1, RowOfOutput
<1>5. ASSUME NEW i \in 1..m, NEW j \in 1..m, i # j
      PROVE  W[i] \cap W[j] = {}
  <2> SUFFICES ASSUME NEW w, w \in GroupRows(p, v, i - 1, count(i - 1)),
                      w \in GroupRows(p, v, j - 1, count(j - 1))
               PROVE  FALSE
    OBVIOUS
  <2> DEFINE a == i - 1
             b == j - 1
  <2>1. a \in 0..(m - 1) /\ b \in 0..(m - 1) /\ a # b /\ a \in Nat /\ b \in Nat
    BY <1>3, <1>5
  <2>0. w \in GroupRows(p, v, a, count(a)) /\ w \in GroupRows(p, v, b, count(b))
    OBVIOUS
  <2> HIDE DEF a, b
  <2>2. PICK k \in 1..count(a) : OutputOf(p, w) = a * p.group + k - 1
    BY <1>4, <2>0, <2>1
  <2>3. PICK l \in 1..count(b) : OutputOf(p, w) = b * p.group + l - 1
    BY <1>4, <2>0, <2>1
  <2>4. /\ k - 1 \in 0..(p.group - 1) /\ l - 1 \in 0..(p.group - 1)
        /\ a * p.group \in Nat /\ b * p.group \in Nat
    BY <1>2, <1>3, <2>1
  <2> DEFINE d == p.group
             r == k - 1
             s == l - 1
  <2>5. /\ a * d + r = b * d + s
        /\ d \in Nat \ {0} /\ r \in 0..(d - 1) /\ s \in 0..(d - 1)
    BY <1>2, <2>2, <2>3, <2>4
  <2> HIDE DEF d, r, s
  <2>6. a = b
    BY <2>1, <2>5, PartsUnique
  <2> QED  BY <2>1, <2>6
<1>6. \A i \in 1..m : Meets(p, seqs[i], W[i], FALSE)
  <2> SUFFICES ASSUME NEW i \in 1..m
               PROVE  Meets(p, one(i - 1), GroupRows(p, v, i - 1, count(i - 1)), FALSE)
    OBVIOUS
  <2> DEFINE g == i - 1
  <2>1. g \in 0..(m - 1)
    BY <1>3
  <2> HIDE DEF g
  <2>2. g * p.group \in Nat /\ count(g) \in Nat
    BY <1>3, <2>1
  <2> DEFINE x == g * p.group
             c == count(g)
  <2>3. x \in Nat /\ c \in Nat
    BY <2>2
  <2> HIDE DEF x, c
  <2>4. Meets(p, GemvGroup(p, v, size, x, c), {WeightRow(p, x + k - 1, v) : k \in 1..c}, FALSE)
    BY <2>3, GroupMeets
  <2>5. Meets(p, one(g), GroupRows(p, v, g, count(g)), FALSE)
    BY <2>4 DEF x, c, GroupRows
  <2> QED  BY <2>5 DEF g
<1>7. \A w : w \in PieceRows(p, v) <=> \E i \in 1..m : w \in W[i]
  <2>1. ASSUME NEW w, w \in PieceRows(p, v) PROVE \E i \in 1..m : w \in W[i]
    <3>1. PICK o \in 0..(p.per_bank - 1) : w = WeightRow(p, o, v)
      BY <2>1 DEF PieceRows
    <3>2. PICK g \in 0..(m - 1) : \E k \in 1..count(g) : o = g * p.group + k - 1
      BY <1>3
    <3>3. w \in GroupRows(p, v, g, count(g))
      BY <3>1, <3>2 DEF GroupRows
    <3>4. g + 1 \in 1..m /\ (g + 1) - 1 = g
      BY <1>3
    <3>5. W[g + 1] = GroupRows(p, v, g, count(g))
      BY <3>4
    <3> HIDE DEF W
    <3> QED  BY <3>3, <3>4, <3>5
  <2>2. ASSUME NEW w, NEW i \in 1..m, w \in W[i] PROVE w \in PieceRows(p, v)
    <3>1. PICK k \in 1..count(i - 1) : w = WeightRow(p, (i - 1) * p.group + k - 1, v)
      BY <2>2 DEF GroupRows
    <3>2. i - 1 \in 0..(m - 1)
      BY <1>3
    <3>3. (i - 1) * p.group + k - 1 \in 0..(p.per_bank - 1)
      BY <1>3, <3>2
    <3> QED  BY <3>1, <3>3 DEF PieceRows
  <2> HIDE DEF W
  <2> QED  BY <2>1, <2>2
<1>8. seqs = [i \in 1..m |-> seqs[i]]
  OBVIOUS
<1> HIDE DEF seqs, W
<1>9. Turns(p, seqs, m, W, FALSE)
  BY <1>5, <1>6, <1>8 DEF Turns
<1>10. Meets(p, FlattenSeq(seqs), PieceRows(p, v), FALSE)
  BY <1>3, <1>7, <1>9, MeetsLoop
<1> QED  BY <1>1, <1>10

\* A piece of the input, loaded and multiplied with its rows.
LEMMA LoadedPieceMeets ==
  ASSUME NEW p, GemvPlaced(p), GemvShaped(p), NEW v \in 0..(RowsPerOutput(p) - 1), NEW size
  PROVE  Meets(p, LoadedPiece(p, v, size), PieceRows(p, v), TRUE)
<1> DEFINE d == DramColumns \div BurstLength
           i == WriteGlobal(p.channels, p.input.start + v * d, size, p.input.value)
           s == GroupsOf(p, v, size)
<1>1. Meets(p, s, PieceRows(p, v), FALSE)
  BY PieceMeets
<1> HIDE DEF s
<1>2. i.op = "WR_GB" /\ i.slot = p.input.start + v * d
  BY DEF WriteGlobal
<1>3. d \in Nat \ {0} /\ v \in Nat /\ p.input.start \in Int
  <2>1. d \in Nat \ {0}
    BY DeviceSizes
  <2> HIDE DEF d
  <2> QED  BY <2>1 DEF GemvPlaced
<1> HIDE DEF d, i
<1>4. (i.slot - p.input.start) \div d = v
  <2>1. v * d \in Nat
    BY <1>3
  <2>2. i.slot - p.input.start = v * d + 0
    BY <1>2, <1>3, <2>1
  <2>3. (v * d + 0) \div d = v
    <3> DEFINE q == (v * d + 0) \div d
               r == (v * d + 0) % d
    <3>1. q \in Nat /\ r \in 0..(d - 1) /\ v * d + 0 = q * d + r
      <4>1. v * d + 0 \in Nat
        BY <2>1
      <4> QED  BY <1>3, <4>1, Parts
    <3> HIDE DEF q, r
    <3>2. 0 \in 0..(d - 1)
      BY <1>3
    <3>3. v = q
      BY <1>3, <3>1, <3>2, PartsUnique
    <3> QED  BY <3>3 DEF q
  <2> QED  BY <2>2, <2>3
<1>5. \A w \in PieceRows(p, v) : PieceOf(p, w) = v
  <2> SUFFICES ASSUME NEW o \in 0..(p.per_bank - 1) PROVE PieceOf(p, WeightRow(p, o, v)) = v
    BY DEF PieceRows
  <2>1. o \in Nat
    BY DEF GemvShaped
  <2> QED  BY <2>1, RowOfOutput
<1>6. \A w \in PieceRows(p, v) :
        (i.slot - p.input.start) \div (DramColumns \div BurstLength) = PieceOf(p, w)
  BY <1>4, <1>5 DEF d
<1>7. Meets(p, Append1(i) \o s, PieceRows(p, v), TRUE)
  BY <1>1, <1>2, <1>6, LoadMeets
<1> QED  BY <1>7 DEF i, s, d, LoadedPiece

(* What a projection does after its checks. *)
GemvBody(p) ==
  Each(RowsPerOutput(p), LAMBDA v :
    LoadedPiece(p, v, CeilDiv(Lesser(p.vector - v * DramColumns, DramColumns), BurstLength)))

\* A projection meets every row of its matrix, after one check.
LEMMA GemvMeets ==
  ASSUME NEW p, GemvPlaced(p), GemvShaped(p)
  PROVE  /\ WeightGemv(p) = Check(GemvChecks(p)) \o GemvBody(p)
         /\ Meets(p, GemvBody(p), MatrixOf(p), TRUE)
<1> DEFINE n == RowsPerOutput(p)
           size(v) == CeilDiv(Lesser(p.vector - v * DramColumns, DramColumns), BurstLength)
           turn(v) == LoadedPiece(p, v, size(v))
           seqs == [i \in 1..n |-> turn(i - 1)]
           W == [i \in 1..n |-> PieceRows(p, i - 1)]
<1>1. /\ WeightGemv(p) = Check(GemvChecks(p)) \o FlattenSeq(seqs)
      /\ GemvBody(p) = FlattenSeq(seqs)
  BY DEF WeightGemv, GemvBody, LoadedPiece, GroupsOf, Each
<1>2. n \in Nat \ {0}
  BY DEF GemvPlaced
<1>3. \A v \in 0..(n - 1) : Meets(p, turn(v), PieceRows(p, v), TRUE)
  BY LoadedPieceMeets
<1> HIDE DEF turn
<1>4. \A v \in 0..(n - 1) : \A w \in PieceRows(p, v) : PieceOf(p, w) = v
  <2> SUFFICES ASSUME NEW v \in 0..(n - 1), NEW o \in 0..(p.per_bank - 1)
               PROVE  PieceOf(p, WeightRow(p, o, v)) = v
    BY DEF PieceRows
  <2>1. o \in Nat
    BY DEF GemvShaped
  <2> QED  BY <2>1, RowOfOutput
<1> HIDE DEF n
<1>5. \A i \in 1..n : i - 1 \in 0..(n - 1)
  BY <1>2
<1>6. \A i \in 1..n : Meets(p, seqs[i], W[i], TRUE)
  BY <1>3, <1>5
<1>7. \A i, j \in 1..n : i # j => W[i] \cap W[j] = {}
  <2> SUFFICES ASSUME NEW i \in 1..n, NEW j \in 1..n, i # j, NEW w,
                      w \in PieceRows(p, i - 1), w \in PieceRows(p, j - 1)
               PROVE  FALSE
    OBVIOUS
  <2>1. i - 1 = j - 1
    BY <1>4, <1>5
  <2> QED  BY <1>2, <2>1
<1>8. \A w : w \in MatrixOf(p) <=> \E i \in 1..n : w \in W[i]
  <2>1. \A w : w \in MatrixOf(p) <=> \E v \in 0..(n - 1) : w \in PieceRows(p, v)
    BY DEF MatrixOf, n
  <2>2. ASSUME NEW w, NEW v \in 0..(n - 1), w \in PieceRows(p, v)
        PROVE  \E i \in 1..n : w \in W[i]
    <3>1. v + 1 \in 1..n /\ (v + 1) - 1 = v
      BY <1>2
    <3>2. W[v + 1] = PieceRows(p, v)
      BY <3>1
    <3> HIDE DEF W
    <3> QED  BY <2>2, <3>1, <3>2
  <2>3. ASSUME NEW w, NEW i \in 1..n, w \in W[i]
        PROVE  \E v \in 0..(n - 1) : w \in PieceRows(p, v)
    BY <1>5, <2>3
  <2> HIDE DEF W
  <2> QED  BY <2>1, <2>2, <2>3
<1>9. seqs = [i \in 1..n |-> seqs[i]]
  OBVIOUS
<1> HIDE DEF seqs, W
<1>10. Turns(p, seqs, n, W, TRUE)
  BY <1>6, <1>7, <1>9 DEF Turns
<1>11. Meets(p, FlattenSeq(seqs), MatrixOf(p), TRUE)
  BY <1>2, <1>8, <1>10, MeetsLoop
<1> QED  BY <1>1, <1>11

-----------------------------------------------------------------------------
(* Where the projections of a request are placed.                          *)

\* The rows of a region start at a row.
LEMMA CursorNatural ==
  ASSUME NEW regions, Len(regions) \in Nat, \A j \in 1..Len(regions) : regions[j][2] \in Nat,
         NEW k \in 1..(Len(regions) + 1)
  PROVE  RowCursor(regions, k) \in Nat
<1> DEFINE n == Len(regions)
           f == CHOOSE g : CursorFunction(g, regions, Len(regions))
<1>1. RowCursor(regions, k) = f[k - 1]
  BY DEF RowCursor, CursorFunction
<1>2. CursorFunction(f, regions, n)
  BY CursorFunctionExists
<1> HIDE DEF f
<1>3. \A j \in 0..n : f[j] \in Nat
  BY <1>2, CursorsNatural
<1>4. k - 1 \in 0..n
  OBVIOUS
<1> QED  BY <1>1, <1>3, <1>4

\* A region that is reserved starts at some row, and is as long as reserved.
LEMMA RegionPlaced ==
  ASSUME NEW regions, Len(regions) \in Nat, regions = [j \in 1..Len(regions) |-> regions[j]],
         \A j \in 1..Len(regions) : regions[j][2] \in Nat,
         NEW name, \E j \in 1..Len(regions) : regions[j][1] = name,
         NEW rows, \A j \in 1..Len(regions) : regions[j][1] = name => regions[j][2] = rows
  PROVE  /\ RowRange(regions, name).start \in Nat
         /\ RowRange(regions, name) = [start |-> RowRange(regions, name).start, count |-> rows]
<1> DEFINE k == CHOOSE i \in DOMAIN regions : regions[i][1] = name
<1>1. DOMAIN regions = 1..Len(regions)
  OBVIOUS
<1>2. k \in 1..Len(regions) /\ regions[k][1] = name
  BY <1>1
<1>3. RowRange(regions, name) = [start |-> RowCursor(regions, k), count |-> regions[k][2]]
  BY DEF RowRange
<1> HIDE DEF k
<1>4. k \in 1..(Len(regions) + 1)
  BY <1>2
<1>5. RowCursor(regions, k) \in Nat
  BY <1>4, CursorNatural
<1> QED  BY <1>2, <1>3, <1>5

\* Rounding up sizes.
LEMMA CeilDivPositive == \A a, b \in Nat \ {0} : CeilDiv(a, b) \in Nat \ {0}
<1>1. \A a, b \in Nat \ {0} : (a + b - 1) \div b \in Nat \ {0}
  OBVIOUS
<1> QED  BY <1>1 DEF CeilDiv

\* The rows of a matrix.
LEMMA MatrixRowsNatural ==
  \A o, i \in Nat \ {0} : MatrixRows(o, i) \in Nat /\ OutputsPerBank(o) \in Nat \ {0}
<1> SUFFICES ASSUME NEW o \in Nat \ {0}, NEW i \in Nat \ {0}
             PROVE  MatrixRows(o, i) \in Nat /\ OutputsPerBank(o) \in Nat \ {0}
  OBVIOUS
<1>1. OutputsPerBank(o) \in Nat \ {0} /\ CeilDiv(i, DramColumns) \in Nat \ {0}
  BY DeviceSizes, CeilDivPositive DEF OutputsPerBank
<1> DEFINE a == OutputsPerBank(o)
           b == CeilDiv(i, DramColumns)
<1>2. MatrixRows(o, i) = a * b /\ a \in Nat \ {0} /\ b \in Nat \ {0}
  BY <1>1 DEF MatrixRows
<1> HIDE DEF a, b
<1>3. a * b \in Nat
  BY <1>2
<1> QED  BY <1>1, <1>2, <1>3

\* The rows counted for every region.
LEMMA RowsCounted ==
  ASSUME NEW r, Planned(r)
  PROVE  /\ \A x \in DOMAIN RowCounts(r) : RowCounts(r)[x] \in Nat
         /\ DOMAIN RowCounts(r) =
              {"vector", "wq", "wkv", "cache_k", "scores", "cache_v", "expanded",
               "intermediate_vector", "ffn_vector", "w2"}
         /\ RowCounts(r).wq = MatrixRows(r.hidden, r.hidden)
         /\ RowCounts(r).wkv = MatrixRows(KvWidth(r), r.hidden)
         /\ RowCounts(r).expanded = MatrixRows(r.intermediate, r.hidden)
         /\ RowCounts(r).w2 = MatrixRows(r.hidden, r.intermediate)
<1> DEFINE n == RowCounts(r)
           tokens == CeilDiv(r.max, DramColumns)
           vector == CeilDiv(ValuesPerPartition(GroupLayout(r.hidden)), DramColumns)
           cacheK == CeilDiv(r.max, TotalBanks) * CeilDiv(KvWidth(r), DramColumns)
           scores == tokens * CeilDiv(r.heads, Groups)
           cacheV == tokens * CeilDiv(r.kv_heads, ChannelsPerBlock) * CeilDiv(HeadSize(r), NumBanks)
           ivec == CeilDiv(r.intermediate, TotalBanks * DramColumns)
           fvec == CeilDiv(r.intermediate, DramColumns * NumBanks)
<1>1. n = [vector |-> vector,
       wq |-> MatrixRows(r.hidden, r.hidden),
       wkv |-> MatrixRows(KvWidth(r), r.hidden),
       cache_k |-> cacheK, scores |-> scores, cache_v |-> cacheV,
       expanded |-> MatrixRows(r.intermediate, r.hidden),
       intermediate_vector |-> ivec, ffn_vector |-> fvec,
       w2 |-> MatrixRows(r.hidden, r.intermediate)]
  BY DEF RowCounts, RowCountsFor
<1>2. /\ r.hidden \in Nat \ {0} /\ r.heads \in Nat \ {0} /\ r.kv_heads \in Nat \ {0}
      /\ r.intermediate \in Nat \ {0} /\ r.max \in Nat \ {0}
      /\ HeadSize(r) \in Nat \ {0} /\ KvWidth(r) \in Nat \ {0}
  BY PlannedSizes
<1>3. \A a, b \in Nat \ {0} : a * b \in Nat \ {0}
  OBVIOUS
<1>4. tokens \in Nat \ {0}
  BY <1>2, DeviceSizes, CeilDivPositive
<1>5. vector \in Nat
  BY <1>2, LayoutSizes, DeviceSizes, CeilDivPositive
<1>6. cacheK \in Nat
  <2>1. CeilDiv(r.max, TotalBanks) \in Nat \ {0} /\ CeilDiv(KvWidth(r), DramColumns) \in Nat \ {0}
    BY <1>2, DeviceSizes, CeilDivPositive
  <2> QED  BY <1>3, <2>1
<1>7. scores \in Nat
  <2>1. CeilDiv(r.heads, Groups) \in Nat \ {0}
    BY <1>2, DeviceSizes, CeilDivPositive
  <2> HIDE DEF tokens
  <2> QED  BY <1>3, <1>4, <2>1
<1>8. cacheV \in Nat
  <2>1. CeilDiv(r.kv_heads, ChannelsPerBlock) \in Nat \ {0}
        /\ CeilDiv(HeadSize(r), NumBanks) \in Nat \ {0}
    BY <1>2, DeviceSizes, CeilDivPositive
  <2> HIDE DEF tokens
  <2>2. tokens * CeilDiv(r.kv_heads, ChannelsPerBlock) \in Nat \ {0}
    BY <1>3, <1>4, <2>1
  <2> QED  BY <1>3, <2>1, <2>2
<1>9. ivec \in Nat /\ fvec \in Nat
  <2>1. TotalBanks * DramColumns \in Nat \ {0} /\ DramColumns * NumBanks \in Nat \ {0}
    BY <1>3, DeviceSizes
  <2> QED  BY <1>2, <2>1, CeilDivPositive
<1>10. /\ MatrixRows(r.hidden, r.hidden) \in Nat /\ MatrixRows(KvWidth(r), r.hidden) \in Nat
       /\ MatrixRows(r.intermediate, r.hidden) \in Nat
       /\ MatrixRows(r.hidden, r.intermediate) \in Nat
  BY <1>2, MatrixRowsNatural
<1> HIDE DEF n, vector, tokens, cacheK, scores, cacheV, ivec, fvec
<1> QED  BY <1>1, <1>5, <1>6, <1>7, <1>8, <1>9, <1>10 DEF n

(* How many outputs a projection has, and how long its input is. *)
OutputsFor(r, name) ==
  CASE name \in {"wk", "wv"} -> KvWidth(r)
    [] name \in {"w1", "w3"} -> r.intermediate
    [] name \in {"wq", "wo", "w2"} -> r.hidden
VectorFor(r, name) == IF name = "w2" THEN r.intermediate ELSE r.hidden

\* The rows reserved for a projection.
LEMMA WeightsPlaced ==
  ASSUME NEW r, Planned(r), NEW name \in Projections
  PROVE  /\ RowRange(PlannedMemory(r), name).start \in Nat
         /\ RowRange(PlannedMemory(r), name)
              = [start |-> RowRange(PlannedMemory(r), name).start,
                 count |-> MatrixRows(OutputsFor(r, name), VectorFor(r, name))]
<1> DEFINE n == RowCounts(r)
           m == RegionsOf(n)
           rows == MatrixRows(OutputsFor(r, name), VectorFor(r, name))
<1>1. PlannedMemory(r) = m
  BY DEF PlannedMemory
<1>2. /\ \A x \in DOMAIN n : n[x] \in Nat
      /\ DOMAIN n = {"vector", "wq", "wkv", "cache_k", "scores", "cache_v", "expanded",
                     "intermediate_vector", "ffn_vector", "w2"}
      /\ n.wq = MatrixRows(r.hidden, r.hidden) /\ n.wkv = MatrixRows(KvWidth(r), r.hidden)
      /\ n.expanded = MatrixRows(r.intermediate, r.hidden)
      /\ n.w2 = MatrixRows(r.hidden, r.intermediate)
  BY RowsCounted
<1>3. rows = IF name \in {"wq", "wo"} THEN n.wq ELSE IF name \in {"wk", "wv"} THEN n.wkv
             ELSE IF name \in {"w1", "w3"} THEN n.expanded ELSE n.w2
  BY <1>2 DEF OutputsFor, VectorFor, Projections
<1> HIDE DEF n, rows
<1>4. Len(m) = 24 /\ m = [j \in 1..24 |-> m[j]]
  BY DEF RegionsOf
<1>5. \A j \in 1..24 : m[j][2] \in Nat
  <2>1. /\ n.vector \in Nat /\ n.wq \in Nat /\ n.wkv \in Nat /\ n.w2 \in Nat
        /\ n.expanded \in Nat /\ n.cache_k \in Nat /\ n.scores \in Nat /\ n.cache_v \in Nat
        /\ n.intermediate_vector \in Nat /\ n.ffn_vector \in Nat
    BY <1>2
  <2> QED  BY <2>1 DEF RegionsOf
<1>6. \E j \in 1..24 : m[j][1] = name
  <2>1. /\ m[4][1] = "wq" /\ m[5][1] = "wk" /\ m[6][1] = "wv" /\ m[13][1] = "wo"
        /\ m[17][1] = "w1" /\ m[18][1] = "w3" /\ m[23][1] = "w2"
    BY DEF RegionsOf
  <2>2. {4, 5, 6, 13, 17, 18, 23} \subseteq 1..24
    OBVIOUS
  <2> HIDE DEF m
  <2> QED  BY <2>1, <2>2 DEF Projections
<1>7. \A j \in 1..24 : m[j][1] = name => m[j][2] = rows
  <2>1. \A j \in 1..24 : j \notin {4, 5, 6, 13, 17, 18, 23} => m[j][1] \notin Projections
    BY DEF RegionsOf, Projections
  <2>2. /\ m[4] = <<"wq", n.wq>> /\ m[5] = <<"wk", n.wkv>> /\ m[6] = <<"wv", n.wkv>>
        /\ m[13] = <<"wo", n.wq>> /\ m[17] = <<"w1", n.expanded>>
        /\ m[18] = <<"w3", n.expanded>> /\ m[23] = <<"w2", n.w2>>
    BY DEF RegionsOf
  <2> HIDE DEF m
  <2> QED  BY <1>3, <2>1, <2>2
<1> HIDE DEF m
<1>8. /\ Len(m) \in Nat /\ m = [j \in 1..Len(m) |-> m[j]]
      /\ \A j \in 1..Len(m) : m[j][2] \in Nat
      /\ \E j \in 1..Len(m) : m[j][1] = name
      /\ \A j \in 1..Len(m) : m[j][1] = name => m[j][2] = rows
  BY <1>4, <1>5, <1>6, <1>7
<1>9. /\ RowRange(m, name).start \in Nat
      /\ RowRange(m, name) = [start |-> RowRange(m, name).start, count |-> rows]
  BY <1>8, RegionPlaced
<1> QED  BY <1>1, <1>9 DEF rows

\* The slots a vector takes.
LEMMA SlotsNatural == \A v \in Nat \ {0} : SlotCount(GroupLayout(v)) \in Nat
BY LayoutSizes

\* The spans the projections read and write.
LEMMA SpansPlaced ==
  ASSUME NEW r, Planned(r),
         NEW f \in {"normalized", "query_result", "key_result", "value_result",
                    "ffn_gate", "ffn_up", "ffn_product"}
  PROVE  BufferSpans(r)[f].start \in Nat /\ "start" \in DOMAIN BufferSpans(r)[f]
<1> DEFINE hidden == SlotCount(GroupLayout(r.hidden))
           hiddenResults == OutputsPerBank(r.hidden)
           kvResults == OutputsPerBank(KvWidth(r))
           expandedResults == OutputsPerBank(r.intermediate)
           b == BufferSpans(r)
<1>1. r.hidden \in Nat \ {0} /\ KvWidth(r) \in Nat \ {0} /\ r.intermediate \in Nat \ {0}
  BY PlannedSizes
<1>2. hidden \in Nat
  BY <1>1, SlotsNatural
<1>3. hiddenResults \in Nat /\ kvResults \in Nat /\ expandedResults \in Nat
  BY <1>1, MatrixRowsNatural
<1>4. /\ b.normalized.start = hidden /\ b.query_result.start = 2 * hidden
      /\ b.key_result.start = 2 * hidden + hiddenResults
      /\ b.value_result.start = 2 * hidden + hiddenResults + kvResults
      /\ b.ffn_gate.start = 0 /\ b.ffn_up.start = 2 * expandedResults
      /\ b.ffn_product.start = 0
  BY DEF BufferSpans, SpanAt
<1>5. "start" \in DOMAIN b[f]
  BY DEF BufferSpans, SpanAt
<1> HIDE DEF hidden, hiddenResults, kvResults, expandedResults, b
<1>6. /\ 2 * hidden \in Nat /\ 2 * hidden + hiddenResults \in Nat
      /\ 2 * hidden + hiddenResults + kvResults \in Nat /\ 2 * expandedResults \in Nat
  BY <1>2, <1>3
<1>7. /\ b.normalized.start \in Nat /\ b.query_result.start \in Nat /\ b.key_result.start \in Nat
      /\ b.value_result.start \in Nat /\ b.ffn_gate.start \in Nat /\ b.ffn_up.start \in Nat
      /\ b.ffn_product.start \in Nat
  BY <1>2, <1>4, <1>6
<1> QED  BY <1>5, <1>7 DEF b

\* The plan of a projection.
LEMMA ProjectionOf ==
  ASSUME NEW r, Planned(r), NEW name \in Projections
  PROVE  \E input, output, activated :
           /\ StagePlan(r, name) = GemvPlan(RowRange(PlannedMemory(r), name), input,
                GroupLayout(VectorFor(r, name)), output, activated,
                VectorFor(r, name), OutputsFor(r, name))
           /\ input.start \in Nat /\ output.start \in Nat /\ "start" \in DOMAIN output
<1> DEFINE m == PlannedMemory(r)
           b == BufferSpans(r)
           Is(input, output, activated) ==
             StagePlan(r, name) = GemvPlan(RowRange(m, name), input,
                GroupLayout(VectorFor(r, name)), output, activated,
                VectorFor(r, name), OutputsFor(r, name))
<1>1. StagePlan(r, name) = ProjectionPlan(r, m, b, name)
  BY DEF StagePlan, PlanOfStage, Projections, AttentionStages
<1>2. \A f \in {"normalized", "query_result", "key_result", "value_result",
                "ffn_gate", "ffn_up", "ffn_product"} :
        /\ b[f].start \in Nat /\ "start" \in DOMAIN b[f]
        /\ \A v : Holding(b[f], v).start \in Nat /\ "start" \in DOMAIN Holding(b[f], v)
  BY SpansPlaced DEF Holding
<1> HIDE DEF m, b
<1>3. CASE name = "wq"
  <2>1. Is(b.normalized, b.query_result, b.query_result)
    BY <1>1, <1>3 DEF ProjectionPlan, VectorFor, OutputsFor
  <2> QED  BY <1>2, <2>1 DEF m
<1>4. CASE name = "wk"
  <2>1. Is(b.normalized, b.key_result, b.key_result)
    BY <1>1, <1>4 DEF ProjectionPlan, VectorFor, OutputsFor
  <2> QED  BY <1>2, <2>1 DEF m
<1>5. CASE name = "wv"
  <2>1. Is(b.normalized, b.value_result, b.value_result)
    BY <1>1, <1>5 DEF ProjectionPlan, VectorFor, OutputsFor
  <2> QED  BY <1>2, <2>1 DEF m
<1>6. CASE name = "wo"
  <2> DEFINE i == Holding(b.normalized, "attended")
             o == Holding(b.query_result, "combined_result")
  <2>1. Is(i, o, o)
    BY <1>1, <1>6 DEF ProjectionPlan, VectorFor, OutputsFor
  <2>2. i.start \in Nat /\ o.start \in Nat /\ "start" \in DOMAIN o
    BY <1>2
  <2> HIDE DEF i, o
  <2> QED  BY <2>1, <2>2 DEF m
<1>7. CASE name = "w1"
  <2> DEFINE i == Holding(b.normalized, "ffn_normalized")
  <2>1. Is(i, b.ffn_gate, b.ffn_gate_sigmoid)
    BY <1>1, <1>7 DEF ProjectionPlan, VectorFor, OutputsFor
  <2>2. i.start \in Nat
    BY <1>2
  <2> HIDE DEF i
  <2> QED  BY <1>2, <2>1, <2>2 DEF m
<1>8. CASE name = "w3"
  <2> DEFINE i == Holding(b.normalized, "ffn_normalized")
  <2>1. Is(i, b.ffn_up, b.ffn_up)
    BY <1>1, <1>8 DEF ProjectionPlan, VectorFor, OutputsFor
  <2>2. i.start \in Nat
    BY <1>2
  <2> HIDE DEF i
  <2> QED  BY <1>2, <2>1, <2>2 DEF m
<1>9. CASE name = "w2"
  <2> DEFINE i == Holding(b.ffn_product, "product")
             o == Holding(b.query_result, "down_result")
  <2>1. Is(i, o, o)
    BY <1>1, <1>9 DEF ProjectionPlan, VectorFor, OutputsFor
  <2>2. i.start \in Nat /\ o.start \in Nat /\ "start" \in DOMAIN o
    BY <1>2
  <2> HIDE DEF i, o
  <2> QED  BY <2>1, <2>2 DEF m
<1> QED  BY <1>3, <1>4, <1>5, <1>6, <1>7, <1>8, <1>9 DEF Projections

(* What is planned for a projection. *)
GemvPlanned(p) ==
  /\ GemvPlaced(p) /\ GemvShaped(p)
  /\ p.weights = [start |-> p.weights.start, count |-> p.per_bank * RowsPerOutput(p)]
  /\ {"weights", "input", "output", "activated", "vector", "per_bank", "group"}
       \subseteq DOMAIN p
  /\ "start" \in DOMAIN p.output

\* The plan of a projection, as made.
LEMMA ProjectionPlanned ==
  ASSUME NEW r, Planned(r), NEW name \in Projections
  PROVE  GemvPlanned(StagePlan(r, name))
<1> DEFINE p == StagePlan(r, name)
           vector == VectorFor(r, name)
           outputs == OutputsFor(r, name)
           weights == RowRange(PlannedMemory(r), name)
<1>1. PICK input, output, activated :
        /\ p = GemvPlan(weights, input, GroupLayout(vector), output, activated, vector, outputs)
        /\ input.start \in Nat /\ output.start \in Nat /\ "start" \in DOMAIN output
  BY ProjectionOf
<1>2. weights.start \in Nat
      /\ weights = [start |-> weights.start, count |-> MatrixRows(outputs, vector)]
  BY WeightsPlaced
<1>3. vector \in Nat \ {0} /\ outputs \in Nat \ {0}
  BY PlannedSizes DEF VectorFor, OutputsFor, Projections
<1>4. GemvShaped(p)
  <2>1. FaultShaped(NoFault) /\ Given(p, name, NoFault) = p
    BY FaultsShaped DEF Given, NoFault
  <2> QED  BY <2>1, ProjectionShaped
<1> HIDE DEF p, vector, outputs, weights
<1>5. /\ p.weights = weights /\ p.input = input /\ p.output = output /\ p.vector = vector
      /\ p.per_bank = OutputsPerBank(outputs)
      /\ {"weights", "input", "output", "activated", "vector", "per_bank", "group"}
           \subseteq DOMAIN p
  BY <1>1 DEF GemvPlan
<1>6. RowsPerOutput(p) = CeilDiv(vector, DramColumns) /\ RowsPerOutput(p) \in Nat \ {0}
  BY <1>3, <1>5, DeviceSizes, CeilDivPositive DEF RowsPerOutput
<1>7. MatrixRows(outputs, vector) = p.per_bank * RowsPerOutput(p)
  BY <1>5, <1>6 DEF MatrixRows
<1>8. GemvPlaced(p)
  BY <1>1, <1>2, <1>5, <1>6 DEF GemvPlaced
<1>9. p.weights = [start |-> p.weights.start, count |-> p.per_bank * RowsPerOutput(p)]
  BY <1>2, <1>5, <1>7
<1> QED  BY <1>1, <1>4, <1>5, <1>8, <1>9 DEF GemvPlanned, p

\* What a fault can do to the plan of a projection.
LEMMA GivenProjection ==
  ASSUME NEW p, GemvPlanned(p), NEW name \in Projections, NEW f, FaultShaped(f)
  PROVE  LET q == Given(p, name, f)
         IN  /\ q.vector = p.vector /\ q.per_bank = p.per_bank /\ q.group = p.group
             /\ q.input = p.input /\ q.output.start = p.output.start
             /\ \/ q.weights.start = p.weights.start
                \/ q.weights.start = DramRows - p.weights.count + 1
<1> DEFINE q == Given(p, name, f)
<1>1. /\ {"weights", "input", "output", "activated", "vector", "per_bank", "group"}
           \subseteq DOMAIN p
      /\ "start" \in DOMAIN p.output /\ "start" \in DOMAIN p.weights
  BY DEF GemvPlanned
<1>2. /\ name # "softmax" /\ name \notin AttentionStages
      /\ Spoilable(name) \subseteq {"weights", "output", "activated"}
      /\ RowsOf(name) = {"weights"}
  BY DEF Projections, AttentionStages, Spoilable, RowsOf, SpansOf
<1>3. \A x \in {"input", "vector", "per_bank", "group"} : x \in DOMAIN p /\ x \notin Spoilable(name)
  BY <1>1, <1>2
<1>4. \A x \in {"input", "vector", "per_bank", "group"} : q[x] = p[x]
  BY <1>2, <1>3, GivenKeeps
<1>5. CASE name \notin f.stages
  <2>1. q = p
    BY <1>5 DEF Given
  <2> QED  BY <2>1
<1>6. CASE name \in f.stages
  <2>1. PlanFault(f, name)
    <3>1. f.stages # {} /\ f.stages # {"softmax"} /\ f.stages # AttentionStages
      BY <1>2, <1>6
    <3>2. PICK n : PlanFault(f, n)
      BY <3>1 DEF FaultShaped
    <3>3. n = name
      BY <1>6, <3>2 DEF PlanFault
    <3> QED  BY <3>2, <3>3
  <2>2. /\ f.kind \in {"short", "moved"} /\ f.part = "plan"
        /\ f.name \in {"weights", "output", "activated"}
        /\ f.kind = "moved" => f.name = "weights"
    BY <1>2, <2>1 DEF PlanFault, Spoilable
  <2>3. q = [p EXCEPT ![f.name] = Edited(@, f)]
    BY <1>6, <2>2 DEF Given, Spoiled
  <2>4. \A place : f.kind = "short" /\ "start" \in DOMAIN place
                     => Edited(place, f).start = place.start
    <3>1. \A place : f.kind = "short" => Edited(place, f) = [place EXCEPT !.count = @ - 1]
      BY DEF Edited
    <3>2. \A place : "start" \in DOMAIN place
                       => [place EXCEPT !.count = place.count - 1].start = place.start
      OBVIOUS
    <3> QED  BY <3>1, <3>2
  <2>5. \A place : f.kind = "moved" /\ "start" \in DOMAIN place
                     => Edited(place, f).start = DramRows - place.count + 1
    BY DEF Edited
  <2>6. \A x \in DOMAIN p : q[x] = IF x = f.name THEN Edited(p[x], f) ELSE p[x]
    BY <2>3
  <2> HIDE DEF q
  <2>7. q.output.start = p.output.start
    BY <1>1, <2>2, <2>4, <2>6
  <2>8. \/ q.weights.start = p.weights.start
        \/ q.weights.start = DramRows - p.weights.count + 1
    BY <1>1, <2>2, <2>4, <2>5, <2>6
  <2> QED  BY <1>4, <2>7, <2>8 DEF q
<1> HIDE DEF q
<1>7. /\ q.output.start = p.output.start
      /\ \/ q.weights.start = p.weights.start
         \/ q.weights.start = DramRows - p.weights.count + 1
  BY <1>5, <1>6 DEF q
<1> QED  BY <1>4, <1>7 DEF q

(* Every instruction of a piece is one the builder accepts. *)
Acceptable(s) == \A n \in 1..Len(s) : ValidInstruction(Code(s, n))

\* A product of an acceptable piece is with a row of the device.
LEMMA AcceptableRows ==
  ASSUME NEW s, Acceptable(s), NEW n \in Calls(s, "MAC_ABK")
  PROVE  Code(s, n).row \in Rows
<1> DEFINE i == Code(s, n)
<1>1. ValidInstruction(i) /\ i.op = "MAC_ABK"
  BY DEF Acceptable, Calls
<1> HIDE DEF i
<1>2. ValidAddress(i)
  BY <1>1 DEF ValidInstruction, BankMoves, BufferCopies, ResultReads, SlotFormulas
<1> QED  BY <1>2 DEF ValidAddress, i

\* The last row of a matrix moved past the device.
LEMMA MovedPastTheEnd ==
  ASSUME NEW q, GemvPlaced(q), GemvShaped(q),
         q.weights.start = DramRows - q.per_bank * RowsPerOutput(q) + 1
  PROVE  DramRows \in MatrixOf(q) /\ DramRows \notin Rows
<1> DEFINE n == q.per_bank
           m == RowsPerOutput(q)
           w == WeightRow(q, n - 1, m - 1)
<1>1. n \in Nat \ {0} /\ m \in Nat \ {0}
  BY DEF GemvPlaced, GemvShaped
<1>2. DramRows \in Nat \ {0}
  BY HardwareAssumption DEF ValidHardware
<1>3. w = DramRows - n * m + 1 + (n - 1) * m + (m - 1)
  BY DEF WeightRow
<1>4. w \in MatrixOf(q)
  <2>1. n - 1 \in 0..(n - 1) /\ m - 1 \in 0..(m - 1)
    BY <1>1
  <2>2. w \in PieceRows(q, m - 1)
    BY <2>1 DEF PieceRows
  <2> HIDE DEF w
  <2> QED  BY <2>1, <2>2 DEF MatrixOf
<1> HIDE DEF n, m, w
<1>5. w = DramRows
  <2>1. n * m \in Int /\ (n - 1) * m = n * m - m
    BY <1>1
  <2> DEFINE x == n * m
             y == (n - 1) * m
  <2>2. w = DramRows - x + 1 + y + (m - 1) /\ y = x - m /\ x \in Int /\ m \in Int
    BY <1>1, <1>3, <2>1
  <2> HIDE DEF x, y
  <2> QED  BY <1>2, <2>2
<1>6. DramRows \notin Rows
  BY <1>2 DEF Rows
<1> QED  BY <1>4, <1>5, <1>6

(* What the lowerer of a projection does after its checks. *)
ProjectionBody(r, name, f) == GemvBody(Given(StagePlan(r, name), name, f))

(***************************************************************************)
(* The lowerer of a projection checks its plan and then makes one          *)
(* instruction a call.  When every instruction is one the builder accepts, *)
(* the products meet the matrix as it was planned.                         *)
(***************************************************************************)
LEMMA ProjectionMeets ==
  ASSUME NEW r, Planned(r), NEW f, FaultShaped(f), NEW name \in Projections
  PROVE  /\ \E ok : Lower(name, Given(StagePlan(r, name), name, f))
                      = Check(ok) \o ProjectionBody(r, name, f)
         /\ Emits(ProjectionBody(r, name, f))
         /\ Acceptable(ProjectionBody(r, name, f))
              => Loaded(StagePlan(r, name), ProjectionBody(r, name, f),
                        MatrixOf(StagePlan(r, name)))
<1> DEFINE p == StagePlan(r, name)
           q == Given(p, name, f)
           s == GemvBody(q)
<1>1. GemvPlanned(p) /\ GemvShaped(q)
  BY ProjectionPlanned, ProjectionShaped
<1>2. Lower(name, q) = WeightGemv(q)
  <2> HIDE DEF q
  <2> QED  BY DEF Lower, Projections
<1> HIDE DEF p
<1>3. /\ q.vector = p.vector /\ q.per_bank = p.per_bank /\ q.group = p.group
      /\ q.input = p.input /\ q.output.start = p.output.start
      /\ \/ q.weights.start = p.weights.start
         \/ q.weights.start = DramRows - p.weights.count + 1
  BY <1>1, GivenProjection
<1> HIDE DEF q
<1>4. RowsPerOutput(q) = RowsPerOutput(p)
  BY <1>3 DEF RowsPerOutput
<1>5. /\ p.weights.count = p.per_bank * RowsPerOutput(p) /\ GemvPlaced(p) /\ GemvShaped(p)
      /\ p.weights.start \in Int /\ p.output.start \in Int /\ p.input.start \in Int
      /\ RowsPerOutput(p) \in Nat \ {0} /\ p.per_bank \in Nat \ {0}
  BY <1>1 DEF GemvPlanned, GemvPlaced, GemvShaped
<1>6. GemvPlaced(q)
  <2>1. p.per_bank * RowsPerOutput(p) \in Int
    BY <1>5
  <2>2. DramRows \in Int
    BY HardwareAssumption DEF ValidHardware
  <2>3. q.weights.start \in Int
    BY <1>3, <1>5, <2>1, <2>2
  <2> QED  BY <1>3, <1>4, <1>5, <2>3 DEF GemvPlaced
<1>7. WeightGemv(q) = Check(GemvChecks(q)) \o s /\ Loaded(q, s, MatrixOf(q))
  BY <1>1, <1>6, GemvMeets DEF Meets
<1> HIDE DEF s
<1>8. Emits(s)
  BY <1>7 DEF Loaded
<1>9. ASSUME Acceptable(s) PROVE Loaded(p, s, MatrixOf(p))
  <2>1. q.weights.start = p.weights.start
    <3> SUFFICES ASSUME q.weights.start = DramRows - p.weights.count + 1 PROVE FALSE
      BY <1>3
    <3>1. DramRows \in MatrixOf(q) /\ DramRows \notin Rows
      BY <1>1, <1>3, <1>4, <1>5, <1>6, MovedPastTheEnd
    <3>2. PICK n \in Calls(s, "MAC_ABK") : Code(s, n).row = DramRows
      BY <1>7, <3>1 DEF Loaded, RowsMet
    <3> QED  BY <1>9, <3>1, <3>2, AcceptableRows
  <2>2. \A o, v : WeightRow(q, o, v) = WeightRow(p, o, v)
    BY <1>4, <2>1 DEF WeightRow
  <2>3. MatrixOf(q) = MatrixOf(p)
    BY <1>3, <1>4, <2>2 DEF MatrixOf, PieceRows
  <2>4. \A w : OutputOf(q, w) = OutputOf(p, w) /\ PieceOf(q, w) = PieceOf(p, w)
    BY <1>4, <2>1 DEF OutputOf, PieceOf
  <2>5. Reads(p, s)
    BY <1>3, <1>7, <2>4 DEF Loaded, Reads
  <2>6. Loads(p, s)
    BY <1>3, <1>7, <2>4 DEF Loaded, Loads
  <2> QED  BY <1>7, <1>8, <2>3, <2>5, <2>6 DEF Loaded
<1> QED  BY <1>2, <1>7, <1>8, <1>9 DEF ProjectionBody, p, q, s

-----------------------------------------------------------------------------
(* From the pieces of a lowerer to the instructions of a program.          *)

(* The instructions of a piece are in the program after the first a. *)
PlacedAfter(s, a) == \A n \in 1..Len(s) : program[a + n] = Code(s, n)
SpanAfter(s, a) == (a + 1)..(a + Len(s))
CallsIn(span, op) == {n \in span : program[n].op = op}

\* The calls of a span of the program are the calls of the piece placed there.
LEMMA CallsPlaced ==
  ASSUME NEW s, IsListing(s), NEW a \in Nat, PlacedAfter(s, a), NEW op
  PROVE  /\ \A n \in CallsIn(SpanAfter(s, a), op) :
              /\ n \in Nat /\ n - a \in Calls(s, op) /\ n - a \in 1..Len(s)
              /\ program[n] = Code(s, n - a) /\ n = a + (n - a)
         /\ \A k \in Calls(s, op) :
              /\ k \in 1..Len(s) /\ a + k \in CallsIn(SpanAfter(s, a), op)
              /\ program[a + k] = Code(s, k)
<1>1. Len(s) \in Nat
  BY DEF IsListing
<1>2. ASSUME NEW n \in SpanAfter(s, a)
      PROVE  n \in Nat /\ n - a \in 1..Len(s) /\ n = a + (n - a) /\ program[n] = Code(s, n - a)
  <2>1. n \in Nat /\ n - a \in 1..Len(s) /\ n = a + (n - a)
    BY <1>1 DEF SpanAfter
  <2>2. program[a + (n - a)] = Code(s, n - a)
    BY <2>1 DEF PlacedAfter
  <2> QED  BY <2>1, <2>2
<1>3. ASSUME NEW k \in 1..Len(s)
      PROVE  a + k \in SpanAfter(s, a) /\ program[a + k] = Code(s, k)
  <2>1. a + k \in SpanAfter(s, a)
    BY <1>1 DEF SpanAfter
  <2> QED  BY <2>1 DEF PlacedAfter
<1>4. \A n \in CallsIn(SpanAfter(s, a), op) :
        /\ n \in Nat /\ n - a \in Calls(s, op) /\ n - a \in 1..Len(s)
        /\ program[n] = Code(s, n - a) /\ n = a + (n - a)
  BY <1>2 DEF CallsIn, Calls
<1>5. \A k \in Calls(s, op) :
        /\ k \in 1..Len(s) /\ a + k \in CallsIn(SpanAfter(s, a), op)
        /\ program[a + k] = Code(s, k)
  BY <1>3 DEF CallsIn, Calls
<1> QED  BY <1>4, <1>5

(* What the properties of a program call the result read from a product,   *)
(* and the load it streams.                                                *)
ReaderIn(span, n, m) ==
  /\ m \in CallsIn(span, "RD_MAC")
  /\ n < m /\ program[m].register = program[n].register
  /\ {j \in CallsIn(span, "RD_MAC") : n < j /\ j < m /\
        program[j].register = program[n].register} = {}
LatestIn(span, n, m) ==
  /\ m \in CallsIn(span, "WR_GB")
  /\ m < n /\ {j \in CallsIn(span, "WR_GB") : m < j /\ j < n} = {}

\* There is one reader of a product, and it is the one of the piece.
LEMMA ReaderPlaced ==
  ASSUME NEW s, IsListing(s), NEW a \in Nat, PlacedAfter(s, a),
         NEW k \in Calls(s, "MAC_ABK"), NEW m, NextRead(s, k, m)
  PROVE  \A i : ReaderIn(SpanAfter(s, a), a + k, i) <=> i = a + m
<1> DEFINE span == SpanAfter(s, a)
           Rds == CallsIn(span, "RD_MAC")
<1>1. /\ \A n \in Rds : /\ n \in Nat /\ n - a \in Calls(s, "RD_MAC") /\ n = a + (n - a)
                        /\ program[n] = Code(s, n - a) /\ n - a \in 1..Len(s)
      /\ \A j \in Calls(s, "RD_MAC") :
           j \in 1..Len(s) /\ a + j \in Rds /\ program[a + j] = Code(s, j)
  BY CallsPlaced
<1>2. k \in 1..Len(s) /\ program[a + k] = Code(s, k)
  BY CallsPlaced
<1>3. /\ m \in Calls(s, "RD_MAC") /\ k < m /\ Code(s, m).register = Code(s, k).register
      /\ \A j \in Calls(s, "RD_MAC") : k < j /\ j < m => Code(s, j).register # Code(s, k).register
  BY DEF NextRead
<1> HIDE DEF Rds
<1>4. m \in 1..Len(s) /\ a + m \in Rds /\ program[a + m] = Code(s, m) /\ a + k < a + m
  BY <1>1, <1>2, <1>3
<1>5. \A j \in Rds : a + k < j /\ j < a + m => program[j].register # program[a + k].register
  <2> SUFFICES ASSUME NEW j \in Rds, a + k < j, j < a + m
               PROVE  program[j].register # program[a + k].register
    OBVIOUS
  <2>1. /\ j \in Nat /\ j - a \in Calls(s, "RD_MAC") /\ program[j] = Code(s, j - a)
        /\ j - a \in 1..Len(s)
    BY <1>1
  <2>2. k < j - a /\ j - a < m
    BY <1>2, <1>4, <2>1
  <2> QED  BY <1>2, <1>3, <2>1, <2>2
<1>6. ReaderIn(span, a + k, a + m)
  BY <1>2, <1>3, <1>4, <1>5 DEF ReaderIn, Rds
<1>7. ASSUME NEW i, ReaderIn(span, a + k, i) PROVE i = a + m
  <2>1. /\ i \in Rds /\ a + k < i /\ program[i].register = program[a + k].register
        /\ \A j \in Rds : ~(a + k < j /\ j < i /\ program[j].register = program[a + k].register)
    BY <1>7 DEF ReaderIn, Rds
  <2>2. i \in Nat /\ a + m \in Nat
    BY <1>1, <1>4, <2>1
  <2>3. ~(i < a + m)
    BY <1>5, <2>1
  <2>4. ~(a + m < i)
    BY <1>2, <1>3, <1>4, <2>1
  <2> QED  BY <2>2, <2>3, <2>4
<1> HIDE DEF span
<1> QED  BY <1>6, <1>7 DEF span

\* There is one load before a product, and it is the one of the piece.
LEMMA LoadPlaced ==
  ASSUME NEW s, IsListing(s), NEW a \in Nat, PlacedAfter(s, a),
         NEW k \in Calls(s, "MAC_ABK"), NEW m, LastLoad(s, k, m)
  PROVE  \A i : LatestIn(SpanAfter(s, a), a + k, i) <=> i = a + m
<1> DEFINE span == SpanAfter(s, a)
           Wgs == CallsIn(span, "WR_GB")
<1>1. /\ \A n \in Wgs : /\ n \in Nat /\ n - a \in Calls(s, "WR_GB") /\ n = a + (n - a)
                        /\ program[n] = Code(s, n - a) /\ n - a \in 1..Len(s)
      /\ \A j \in Calls(s, "WR_GB") :
           j \in 1..Len(s) /\ a + j \in Wgs /\ program[a + j] = Code(s, j)
  BY CallsPlaced
<1>2. k \in 1..Len(s) /\ program[a + k] = Code(s, k)
  BY CallsPlaced
<1>3. /\ m \in Calls(s, "WR_GB") /\ m < k
      /\ \A j \in Calls(s, "WR_GB") : ~(m < j /\ j < k)
  BY DEF LastLoad
<1> HIDE DEF Wgs
<1>4. m \in 1..Len(s) /\ a + m \in Wgs /\ a + m < a + k
  BY <1>1, <1>2, <1>3
<1>5. \A j \in Wgs : ~(a + m < j /\ j < a + k)
  <2> SUFFICES ASSUME NEW j \in Wgs, a + m < j, j < a + k PROVE FALSE
    OBVIOUS
  <2>1. j \in Nat /\ j - a \in Calls(s, "WR_GB") /\ j - a \in 1..Len(s)
    BY <1>1
  <2>2. m < j - a /\ j - a < k
    BY <1>2, <1>4, <2>1
  <2> QED  BY <1>3, <2>1, <2>2
<1>6. LatestIn(span, a + k, a + m)
  BY <1>4, <1>5 DEF LatestIn, Wgs
<1>7. ASSUME NEW i, LatestIn(span, a + k, i) PROVE i = a + m
  <2>1. i \in Wgs /\ i < a + k /\ \A j \in Wgs : ~(i < j /\ j < a + k)
    BY <1>7 DEF LatestIn, Wgs
  <2>2. i \in Nat /\ a + m \in Nat
    BY <1>1, <1>4, <2>1
  <2>3. ~(a + m < i) /\ ~(i < a + m)
    BY <1>4, <1>5, <2>1
  <2> QED  BY <2>2, <2>3
<1> HIDE DEF span
<1> QED  BY <1>6, <1>7 DEF span

\* What a product of a span of the program meets.
LEMMA MeetingPlaced ==
  ASSUME NEW p, NEW s, Loaded(p, s, MatrixOf(p)), NEW a \in Nat, PlacedAfter(s, a)
  PROVE  LET span == SpanAfter(s, a)
         IN  /\ DOMAIN Meetings(p, span) = CallsIn(span, "MAC_ABK")
             /\ \A k \in Calls(s, "MAC_ABK") :
                  Meetings(p, span)[a + k]
                    = <<OutputOf(p, Code(s, k).row), PieceOf(p, Code(s, k).row), Code(s, k).row>>
<1> DEFINE span == SpanAfter(s, a)
           Of(op) == {n \in span : program[n].op = op}
           Latest(op, n) == CHOOSE m \in Of(op) : m < n /\ {j \in Of(op) : m < j /\ j < n} = {}
           Reader(n) == CHOOSE m \in Of("RD_MAC") :
                          /\ n < m /\ program[m].register = program[n].register
                          /\ {j \in Of("RD_MAC") : n < j /\ j < m /\
                                program[j].register = program[n].register} = {}
           Piece(n) == (program[Latest("WR_GB", n)].slot - p.input.start)
                         \div (DramColumns \div BurstLength)
           met == [n \in Of("MAC_ABK") |->
                     <<program[Reader(n)].slot - p.output.start, Piece(n), program[n].row>>]
<1>1. Meetings(p, span) = met
  BY DEF Meetings
<1>2. \A op : Of(op) = CallsIn(span, op)
  BY DEF CallsIn
<1>3. \A n : Reader(n) = CHOOSE m : ReaderIn(span, n, m)
  BY DEF ReaderIn, CallsIn
<1>4. \A n : Latest("WR_GB", n) = CHOOSE m : LatestIn(span, n, m)
  BY DEF LatestIn, CallsIn
<1>5. IsListing(s) /\ Reads(p, s) /\ Loads(p, s)
  BY DEF Loaded, Emits
<1>6. ASSUME NEW k \in Calls(s, "MAC_ABK")
      PROVE  met[a + k]
               = <<OutputOf(p, Code(s, k).row), PieceOf(p, Code(s, k).row), Code(s, k).row>>
  <2>1. PICK m : NextRead(s, k, m) /\ Code(s, m).slot - p.output.start = OutputOf(p, Code(s, k).row)
    BY <1>5 DEF Reads
  <2>2. PICK l : /\ LastLoad(s, k, l)
                 /\ (Code(s, l).slot - p.input.start) \div (DramColumns \div BurstLength)
                      = PieceOf(p, Code(s, k).row)
    BY <1>5 DEF Loads
  <2>3. Reader(a + k) = a + m
    <3>1. \A i : ReaderIn(span, a + k, i) <=> i = a + m
      BY <1>5, <2>1, ReaderPlaced
    <3> HIDE DEF Reader, span
    <3>2. (CHOOSE i : ReaderIn(span, a + k, i)) = a + m
      BY <3>1
    <3> QED  BY <1>3, <3>2
  <2>4. Latest("WR_GB", a + k) = a + l
    <3>1. \A i : LatestIn(span, a + k, i) <=> i = a + l
      BY <1>5, <2>2, LoadPlaced
    <3> HIDE DEF Latest, span
    <3>2. (CHOOSE i : LatestIn(span, a + k, i)) = a + l
      BY <3>1
    <3> QED  BY <1>4, <3>2
  <2>5. program[a + m] = Code(s, m) /\ program[a + l] = Code(s, l) /\ program[a + k] = Code(s, k)
        /\ a + k \in CallsIn(span, "MAC_ABK")
    <3>1. m \in Calls(s, "RD_MAC") /\ l \in Calls(s, "WR_GB")
      BY <2>1, <2>2 DEF NextRead, LastLoad
    <3> QED  BY <1>5, <3>1, CallsPlaced
  <2> HIDE DEF Reader, Latest, span
  <2>6. a + k \in Of("MAC_ABK")
    BY <1>2, <2>5
  <2> HIDE DEF Of
  <2>7. met[a + k] = <<program[Reader(a + k)].slot - p.output.start, Piece(a + k),
                       program[a + k].row>>
    BY <2>6
  <2>8. Piece(a + k) = PieceOf(p, Code(s, k).row)
    BY <2>2, <2>4, <2>5
  <2> QED  BY <2>1, <2>3, <2>5, <2>7, <2>8
<1>7. DOMAIN met = CallsIn(span, "MAC_ABK")
  BY <1>2
<1> HIDE DEF met, span
<1> QED  BY <1>1, <1>6, <1>7 DEF span

\* A projection whose piece is in the program meets every weight row once.
LEMMA PlacedMeetsEachRow ==
  ASSUME NEW p, GemvPlaced(p), GemvShaped(p), NEW s, Loaded(p, s, MatrixOf(p)),
         NEW a \in Nat, PlacedAfter(s, a)
  PROVE  MeetEachRowOnce(p, SpanAfter(s, a))
<1> DEFINE span == SpanAfter(s, a)
           met == Meetings(p, span)
           macs == CallsIn(span, "MAC_ABK")
           n == p.per_bank
           m == RowsPerOutput(p)
           T == (0..(n - 1)) \X (0..(m - 1))
           All == {<<o, v, WeightRow(p, o, v)>> : o \in 0..(n - 1), v \in 0..(m - 1)}
<1>1. n \in Nat \ {0} /\ m \in Nat \ {0}
  BY DEF GemvPlaced, GemvShaped
<1>2. \A o \in 0..(n - 1), v \in 0..(m - 1) :
        OutputOf(p, WeightRow(p, o, v)) = o /\ PieceOf(p, WeightRow(p, o, v)) = v
  <2> SUFFICES ASSUME NEW o \in 0..(n - 1), NEW v \in 0..(m - 1)
               PROVE  OutputOf(p, WeightRow(p, o, v)) = o /\ PieceOf(p, WeightRow(p, o, v)) = v
    OBVIOUS
  <2>1. o \in Nat
    OBVIOUS
  <2> QED  BY <2>1, RowOfOutput
<1>3. \A w : w \in MatrixOf(p) <=>
        \E o \in 0..(n - 1), v \in 0..(m - 1) : w = WeightRow(p, o, v)
  BY DEF MatrixOf, PieceRows
<1>4. /\ DOMAIN met = macs
      /\ \A k \in Calls(s, "MAC_ABK") :
           met[a + k]
             = <<OutputOf(p, Code(s, k).row), PieceOf(p, Code(s, k).row), Code(s, k).row>>
  BY MeetingPlaced
<1>5. /\ \A x \in macs : /\ x - a \in Calls(s, "MAC_ABK") /\ x = a + (x - a)
                         /\ x - a \in 1..Len(s)
      /\ \A k \in Calls(s, "MAC_ABK") : a + k \in macs
  BY CallsPlaced DEF Loaded, Emits
<1>6. /\ \A k \in Calls(s, "MAC_ABK") : Code(s, k).row \in MatrixOf(p)
      /\ \A w \in MatrixOf(p) : \E k \in Calls(s, "MAC_ABK") : Code(s, k).row = w
      /\ \A j, k \in Calls(s, "MAC_ABK") : Code(s, j).row = Code(s, k).row => j = k
  BY DEF Loaded, RowsMet
<1>7. IsFiniteSet(macs)
  <2>1. a + 1 \in Int /\ a + Len(s) \in Int
    BY DEF Loaded, Emits, IsListing
  <2>2. IsFiniteSet((a + 1)..(a + Len(s)))
    BY <2>1, FS_Interval
  <2>3. macs \in SUBSET ((a + 1)..(a + Len(s)))
    BY DEF CallsIn, SpanAfter
  <2> QED  BY <2>2, <2>3, FS_Subset
<1> HIDE DEF met, macs, span, n, m
<1>8. ASSUME NEW k \in Calls(s, "MAC_ABK")
      PROVE  \E o \in 0..(n - 1), v \in 0..(m - 1) :
               Code(s, k).row = WeightRow(p, o, v) /\ met[a + k] = <<o, v, WeightRow(p, o, v)>>
  <2>1. PICK o \in 0..(n - 1), v \in 0..(m - 1) : Code(s, k).row = WeightRow(p, o, v)
    BY <1>3, <1>6
  <2>2. OutputOf(p, Code(s, k).row) = o /\ PieceOf(p, Code(s, k).row) = v
    BY <1>2, <2>1
  <2>3. met[a + k] = <<o, v, WeightRow(p, o, v)>>
    BY <1>4, <2>1, <2>2
  <2> QED  BY <2>1, <2>3
<1>9. ASSUME NEW o \in 0..(n - 1), NEW v \in 0..(m - 1)
      PROVE  \E k \in Calls(s, "MAC_ABK") : met[a + k] = <<o, v, WeightRow(p, o, v)>>
  <2>1. WeightRow(p, o, v) \in MatrixOf(p)
    BY <1>3
  <2>2. PICK k \in Calls(s, "MAC_ABK") : Code(s, k).row = WeightRow(p, o, v)
    BY <1>6, <2>1
  <2>3. met[a + k] = <<o, v, WeightRow(p, o, v)>>
    BY <1>2, <1>4, <2>2
  <2> QED  BY <2>3
<1>10. Range(met) = All
  <2>1. \A y : y \in Range(met) <=> \E x \in macs : y = met[x]
    BY <1>4 DEF Range
  <2>2. ASSUME NEW y, y \in Range(met) PROVE y \in All
    <3>1. PICK x \in macs : y = met[x]
      BY <2>1, <2>2
    <3>2. x - a \in Calls(s, "MAC_ABK") /\ x = a + (x - a)
      BY <1>5
    <3> DEFINE k == x - a
    <3>3. k \in Calls(s, "MAC_ABK") /\ y = met[a + k]
      BY <3>1, <3>2
    <3> HIDE DEF k
    <3>4. PICK o \in 0..(n - 1), v \in 0..(m - 1) : met[a + k] = <<o, v, WeightRow(p, o, v)>>
      BY <1>8, <3>3
    <3> QED  BY <3>3, <3>4
  <2>3. ASSUME NEW o \in 0..(n - 1), NEW v \in 0..(m - 1)
        PROVE  <<o, v, WeightRow(p, o, v)>> \in Range(met)
    BY <1>5, <1>9, <2>1
  <2> QED  BY <2>2, <2>3
<1>11. Cardinality(macs) = n * m
  <2> DEFINE f == [x \in macs |-> <<met[x][1], met[x][2]>>]
  <2>1. \A x \in macs : f[x] = <<met[x][1], met[x][2]>>
    OBVIOUS
  <2>2. f = [x \in macs |-> f[x]]
    OBVIOUS
  <2> HIDE DEF f
  <2>3. ASSUME NEW x \in macs
        PROVE  \E o \in 0..(n - 1), v \in 0..(m - 1) :
                 f[x] = <<o, v>> /\ Code(s, x - a).row = WeightRow(p, o, v)
    <3>1. x - a \in Calls(s, "MAC_ABK") /\ x = a + (x - a)
      BY <1>5
    <3> DEFINE k == x - a
    <3>2. k \in Calls(s, "MAC_ABK") /\ met[x] = met[a + k]
      BY <3>1
    <3> HIDE DEF k
    <3>3. PICK o \in 0..(n - 1), v \in 0..(m - 1) :
            Code(s, k).row = WeightRow(p, o, v) /\ met[a + k] = <<o, v, WeightRow(p, o, v)>>
      BY <1>8, <3>2
    <3>4. f[x] = <<o, v>>
      BY <2>1, <3>2, <3>3
    <3> QED  BY <3>3, <3>4 DEF k
  <2>4. \A x \in macs : f[x] \in T
    BY <2>3
  <2>5. ASSUME NEW x \in macs, NEW y \in macs, f[x] = f[y] PROVE x = y
    <3>1. PICK o \in 0..(n - 1), v \in 0..(m - 1) :
            f[x] = <<o, v>> /\ Code(s, x - a).row = WeightRow(p, o, v)
      BY <2>3
    <3>2. PICK q \in 0..(n - 1), u \in 0..(m - 1) :
            f[y] = <<q, u>> /\ Code(s, y - a).row = WeightRow(p, q, u)
      BY <2>3
    <3>3. o = q /\ v = u
      <4>1. <<o, v>> = <<q, u>>
        BY <2>5, <3>1, <3>2
      <4>2. \A b, c, d, e : <<b, c>> = <<d, e>> => b = d /\ c = e
        OBVIOUS
      <4> QED  BY <4>1, <4>2
    <3>4. Code(s, x - a).row = Code(s, y - a).row
      BY <3>1, <3>2, <3>3
    <3>5. x - a \in Calls(s, "MAC_ABK") /\ y - a \in Calls(s, "MAC_ABK")
          /\ x = a + (x - a) /\ y = a + (y - a)
      BY <1>5
    <3>6. x - a = y - a
      BY <1>6, <3>4, <3>5
    <3> QED  BY <3>5, <3>6
  <2>6. ASSUME NEW z \in T PROVE \E x \in macs : f[x] = z
    <3>1. PICK o \in 0..(n - 1), v \in 0..(m - 1) : z = <<o, v>>
      OBVIOUS
    <3>2. PICK k \in Calls(s, "MAC_ABK") : met[a + k] = <<o, v, WeightRow(p, o, v)>>
      BY <1>9
    <3>3. a + k \in macs
      BY <1>5
    <3>4. f[a + k] = z
      BY <2>1, <3>1, <3>2, <3>3
    <3> QED  BY <3>3, <3>4
  <2> HIDE DEF T
  <2>7. Cardinality(T) = Cardinality(macs)
    BY <1>7, <2>2, <2>4, <2>5, <2>6, SameCount
  <2>8. Cardinality(T) = n * m
    <3>1. IsFiniteSet(0..(n - 1)) /\ Cardinality(0..(n - 1)) = n
      <4>1. 0 \in Int /\ n - 1 \in Int /\ ~(0 > n - 1) /\ (n - 1) - 0 + 1 = n
        BY <1>1
      <4> QED  BY <4>1, FS_Interval
    <3>2. IsFiniteSet(0..(m - 1)) /\ Cardinality(0..(m - 1)) = m
      <4>1. 0 \in Int /\ m - 1 \in Int /\ ~(0 > m - 1) /\ (m - 1) - 0 + 1 = m
        BY <1>1
      <4> QED  BY <4>1, FS_Interval
    <3>3. Cardinality((0..(n - 1)) \X (0..(m - 1)))
            = Cardinality(0..(n - 1)) * Cardinality(0..(m - 1))
      BY <3>1, <3>2, FS_Product
    <3> QED  BY <3>1, <3>2, <3>3 DEF T
  <2> QED  BY <2>7, <2>8
<1>12. EachRowOnce(met, p)
  BY <1>4, <1>10, <1>11 DEF EachRowOnce, n, m
<1> QED  BY <1>12 DEF MeetEachRowOnce, met, span

-----------------------------------------------------------------------------
(* The lowering of a stage, one call of the builder at a time.             *)

\* The first of the steps that are left, and the others.
LEMMA StepsLeft ==
  ASSUME NEW s, IsListing(s), s # <<>>
  PROVE  /\ Len(s) \in Nat \ {0} /\ Head(s) = s[1]
         /\ IsListing(Tail(s)) /\ Len(Tail(s)) = Len(s) - 1
         /\ \A i \in 1..Len(Tail(s)) : Tail(s)[i] = s[i + 1]
<1>1. s \in Seq(Elements(s))
  BY ListsElements DEF Lists
<1>2. /\ Len(s) \in Nat /\ Len(s) # 0
      /\ Tail(s) \in Seq(Elements(s)) /\ Len(Tail(s)) = Len(s) - 1
      /\ \A i \in 1..Len(Tail(s)) : Tail(s)[i] = s[i + 1]
  <2>1. Len(s) \in Nat /\ Len(s) # 0
    BY <1>1, EmptySeq
  <2>2. Tail(s) \in Seq(Elements(s)) /\ Len(Tail(s)) = Len(s) - 1
    BY <1>1, HeadTailProperties
  <2>3. \A i \in 1..Len(Tail(s)) : Tail(s)[i] = s[i + 1]
    BY <1>1, <2>2, HeadTailProperties
  <2> QED  BY <2>1, <2>2, <2>3
<1>3. IsListing(Tail(s))
  <2> DEFINE t == Tail(s)
  <2>1. t \in Seq(Elements(s))
    BY <1>2
  <2> HIDE DEF t
  <2>2. IsListing(t)
    BY <2>1 DEF IsListing
  <2> QED  BY <2>2 DEF t
<1>4. Head(s) = s[1]
  OBVIOUS
<1> QED  BY <1>2, <1>3, <1>4

\* Where the elements of two lists are, for every two.
LEMMA ConcatAtEach ==
  \A s, t : IsListing(s) /\ IsListing(t) =>
              /\ Len(s \o t) = Len(s) + Len(t)
              /\ \A n \in 1..Len(s) : (s \o t)[n] = s[n]
              /\ \A n \in 1..Len(t) : (s \o t)[Len(s) + n] = t[n]
<1> SUFFICES ASSUME NEW s, NEW t, IsListing(s), IsListing(t)
             PROVE  /\ Len(s \o t) = Len(s) + Len(t)
                    /\ \A n \in 1..Len(s) : (s \o t)[n] = s[n]
                    /\ \A n \in 1..Len(t) : (s \o t)[Len(s) + n] = t[n]
  OBVIOUS
<1> QED  BY ConcatAt

\* What is left of a lowerer is still one.
LEMMA LoweredTail ==
  ASSUME NEW s, Lowered(s), s # <<>>
  PROVE  Lowered(Tail(s)) /\ IsListing(Head(s).batch)
<1>1. IsListing(s) /\ \A k \in 1..Len(s) : IsListing(s[k].batch)
  BY DEF Lowered, In
<1>2. /\ Len(s) \in Nat \ {0} /\ Head(s) = s[1]
      /\ IsListing(Tail(s)) /\ Len(Tail(s)) = Len(s) - 1
      /\ \A i \in 1..Len(Tail(s)) : Tail(s)[i] = s[i + 1]
  BY <1>1, StepsLeft
<1> DEFINE t == Tail(s)
<1> HIDE DEF t
<1>3. \A i \in 1..Len(t) : i + 1 \in 1..Len(s) /\ t[i] = s[i + 1]
  BY <1>2 DEF t
<1>4. \A x : In(x, t) => IsListing(x.batch)
  BY <1>1, <1>3 DEF In
<1>5. 1 \in 1..Len(s)
  BY <1>2
<1> QED  BY <1>1, <1>2, <1>4, <1>5 DEF Lowered, t

(* A piece is in a program, from one start to the next. *)
Done(s, from, to, prog) ==
  /\ from \in Nat \ {0} /\ to = from + Len(s) /\ to <= Len(prog) + 1
  /\ Acceptable(s)
  /\ \A n \in 1..Len(s) : prog[from - 1 + n] = Code(s, n)

(* A piece is being lowered: rest is what is left of all, which is a check *)
(* and the piece.                                                          *)
Begun(s, from, prog, rest, j) ==
  /\ j \in 0..Len(s) /\ Len(rest) = Len(s) - j
  /\ \A i \in 1..Len(rest) : rest[i] = s[j + i]
  /\ Len(prog) = from - 1 + j
  /\ \A n \in 1..j : prog[from - 1 + n] = Code(s, n) /\ ValidInstruction(Code(s, n))

Underway(s, all, from, prog, rest) ==
  /\ from \in Nat \ {0}
  /\ \/ rest = all /\ Len(prog) = from - 1
     \/ \E j \in Nat : Begun(s, from, prog, rest, j)

\* What is in a program stays there.
LEMMA DoneKept ==
  ASSUME NEW s, NEW from, NEW to, NEW prog, Done(s, from, to, prog), IsListing(s),
         IsListing(prog), NEW b, IsListing(b)
  PROVE  Done(s, from, to, prog \o b)
<1> DEFINE q == prog \o b
<1>1. /\ Len(q) = Len(prog) + Len(b) /\ Len(prog) \in Nat /\ Len(b) \in Nat /\ Len(s) \in Nat
      /\ \A n \in 1..Len(prog) : q[n] = prog[n]
  BY ConcatAt DEF IsListing
<1> HIDE DEF q
<1>2. from \in Nat \ {0} /\ to = from + Len(s) /\ to <= Len(prog) + 1
  BY DEF Done
<1>3. \A n \in 1..Len(s) : from - 1 + n \in 1..Len(prog)
  BY <1>1, <1>2
<1>4. \A n \in 1..Len(s) : q[from - 1 + n] = Code(s, n)
  BY <1>1, <1>3 DEF Done
<1>5. to <= Len(q) + 1
  BY <1>1, <1>2
<1> QED  BY <1>2, <1>4, <1>5 DEF Done, q

\* One call of the builder.
LEMMA UnderwayStep ==
  ASSUME NEW s, Emits(s), NEW ok, NEW all, all = Check(ok) \o s, NEW from, NEW prog,
         IsListing(prog), NEW rest, IsListing(rest), rest # <<>>,
         Underway(s, all, from, prog, rest), BatchAccepted(Head(rest).batch)
  PROVE  Underway(s, all, from, prog \o Head(rest).batch, Tail(rest))
<1> DEFINE q == prog \o Head(rest).batch
           t == Tail(rest)
<1>1. /\ Len(rest) \in Nat \ {0} /\ Head(rest) = rest[1] /\ Len(t) = Len(rest) - 1
      /\ \A i \in 1..Len(t) : t[i] = rest[i + 1]
  BY StepsLeft
<1> HIDE DEF t
<1>2. from \in Nat \ {0} /\ Len(s) \in Nat /\ Len(prog) \in Nat /\ IsListing(s)
  BY DEF Underway, Emits, IsListing
<1>3. CASE rest = all /\ Len(prog) = from - 1
  <2> DEFINE c == <<[ok |-> ok, batch |-> <<>>]>>
  <2>1. IsListing(c) /\ Len(c) = 1 /\ c[1].batch = <<>>
    BY DEF IsListing
  <2>2. rest = c \o s
    BY <1>3 DEF Check
  <2> HIDE DEF c
  <2>3. /\ Len(c \o s) = Len(c) + Len(s)
        /\ \A n \in 1..Len(c) : (c \o s)[n] = c[n]
        /\ \A n \in 1..Len(s) : (c \o s)[Len(c) + n] = s[n]
    <3>1. IsListing(c) /\ IsListing(s)
      BY <1>2, <2>1
    <3> QED  BY <3>1, ConcatAtEach
  <2>4. /\ Len(rest) = 1 + Len(s) /\ rest[1] = c[1]
        /\ \A n \in 1..Len(s) : rest[1 + n] = s[n]
    BY <2>1, <2>2, <2>3
  <2>5. Head(rest).batch = <<>>
    BY <1>1, <2>1, <2>4
  <2>6. q = prog
    <3>1. prog \in Seq(Elements(prog))
      BY ListsElements DEF Lists
    <3> HIDE DEF q
    <3>2. prog \o <<>> = prog
      BY <3>1
    <3> QED  BY <2>5, <3>2 DEF q
  <2> HIDE DEF q
  <2>7. Len(t) = Len(s) /\ \A i \in 1..Len(t) : t[i] = s[i]
    <3>1. Len(t) = Len(s)
      BY <1>1, <1>2, <2>4
    <3>2. \A i \in 1..Len(t) : i + 1 = 1 + i /\ i \in 1..Len(s)
      BY <1>2, <3>1
    <3> QED  BY <1>1, <2>4, <3>1, <3>2
  <2>8. Begun(s, from, q, t, 0)
    <3>1. 0 \in 0..Len(s) /\ Len(t) = Len(s) - 0
      BY <1>2, <2>7
    <3>2. \A i \in 1..Len(t) : 0 + i = i
      BY <1>2, <2>7
    <3>3. Len(q) = from - 1 + 0
      BY <1>2, <1>3, <2>6
    <3>4. 1..0 = {}
      OBVIOUS
    <3> QED  BY <2>7, <3>1, <3>2, <3>3, <3>4 DEF Begun
  <2> QED  BY <1>2, <2>8 DEF Underway, q, t
<1>4. ASSUME NEW j \in Nat, Begun(s, from, prog, rest, j)
      PROVE  Underway(s, all, from, q, t)
  <2>1. /\ j \in 0..Len(s) /\ Len(rest) = Len(s) - j
        /\ \A i \in 1..Len(rest) : rest[i] = s[j + i]
        /\ Len(prog) = from - 1 + j
        /\ \A n \in 1..j : prog[from - 1 + n] = Code(s, n) /\ ValidInstruction(Code(s, n))
    BY <1>4 DEF Begun
  <2> DEFINE x == Code(s, j + 1)
  <2>2. j + 1 \in 1..Len(s) /\ rest[1] = s[j + 1]
    BY <1>1, <1>2, <2>1
  <2>3. Head(rest).batch = <<x>>
    <3>1. s[j + 1] = [ok |-> TRUE, batch |-> <<x>>]
      BY <2>2 DEF Emits
    <3>2. \A z : [ok |-> TRUE, batch |-> z].batch = z
      OBVIOUS
    <3> QED  BY <1>1, <2>2, <3>1, <3>2
  <2> HIDE DEF x
  <2>4. ValidInstruction(x)
    <3>1. 1 \in DOMAIN <<x>> /\ <<x>>[1] = x
      OBVIOUS
    <3> QED  BY <2>3, <3>1 DEF BatchAccepted
  <2>5. /\ Len(q) = Len(prog) + 1 /\ q[Len(prog) + 1] = x
        /\ \A n \in 1..Len(prog) : q[n] = prog[n]
    <3> DEFINE b == <<x>>
    <3>1. IsListing(b) /\ Len(b) = 1 /\ b[1] = x
      BY DEF IsListing
    <3>2. q = prog \o b
      BY <2>3
    <3> HIDE DEF b, q
    <3>3. /\ Len(q) = Len(prog) + Len(b)
          /\ \A n \in 1..Len(prog) : q[n] = prog[n]
          /\ \A n \in 1..Len(b) : q[Len(prog) + n] = b[n]
      <4>1. IsListing(prog) /\ IsListing(b)
        BY <3>1
      <4>2. /\ Len(prog \o b) = Len(prog) + Len(b)
            /\ \A n \in 1..Len(prog) : (prog \o b)[n] = prog[n]
            /\ \A n \in 1..Len(b) : (prog \o b)[Len(prog) + n] = b[n]
        BY <4>1, ConcatAtEach
      <4> QED  BY <3>2, <4>2
    <3> QED  BY <3>1, <3>3
  <2> HIDE DEF q
  <2>6. \A n \in 1..(j + 1) : q[from - 1 + n] = Code(s, n) /\ ValidInstruction(Code(s, n))
    <3> SUFFICES ASSUME NEW n \in 1..(j + 1)
                 PROVE  q[from - 1 + n] = Code(s, n) /\ ValidInstruction(Code(s, n))
      OBVIOUS
    <3>1. CASE n = j + 1
      <4>1. from - 1 + n = Len(prog) + 1
        BY <1>2, <2>1, <3>1
      <4> QED  BY <2>4, <2>5, <3>1, <4>1 DEF x
    <3>2. CASE n # j + 1
      <4>1. n \in 1..j /\ from - 1 + n \in 1..Len(prog)
        BY <1>2, <2>1, <3>2
      <4> QED  BY <2>1, <2>5, <4>1
    <3> QED  BY <3>1, <3>2
  <2>7. /\ j + 1 \in 0..Len(s) /\ Len(t) = Len(s) - (j + 1) /\ Len(q) = from - 1 + (j + 1)
        /\ j + 1 \in Nat
    BY <1>1, <1>2, <2>1, <2>2, <2>5
  <2>8. \A i \in 1..Len(t) : t[i] = s[(j + 1) + i]
    <3> SUFFICES ASSUME NEW i \in 1..Len(t) PROVE t[i] = s[(j + 1) + i]
      OBVIOUS
    <3>1. i + 1 \in 1..Len(rest) /\ j + (i + 1) = (j + 1) + i
      BY <1>1, <1>2, <2>1, <2>7
    <3> QED  BY <1>1, <2>1, <3>1
  <2>9. Begun(s, from, q, t, j + 1)
    BY <2>6, <2>7, <2>8 DEF Begun
  <2> QED  BY <1>2, <2>7, <2>9 DEF Underway
<1>5. Underway(s, all, from, q, t)
  <2>1. \/ rest = all /\ Len(prog) = from - 1
        \/ \E j \in Nat : Begun(s, from, prog, rest, j)
    BY DEF Underway
  <2> HIDE DEF q
  <2> QED  BY <1>3, <1>4, <2>1 DEF q, t
<1> QED  BY <1>5 DEF q, t

\* A lowerer that returns has lowered its piece.
LEMMA UnderwayReturns ==
  ASSUME NEW s, Emits(s), NEW ok, NEW all, all = Check(ok) \o s, NEW from, NEW prog,
         IsListing(prog), Underway(s, all, from, prog, <<>>)
  PROVE  Done(s, from, Len(prog) + 1, prog)
<1>1. Len(s) \in Nat /\ Len(prog) \in Nat /\ IsListing(s) /\ from \in Nat \ {0}
  BY DEF Emits, IsListing, Underway
<1>2. all # <<>>
  <2> DEFINE c == Check(ok)
  <2>1. IsListing(c) /\ Len(c) = 1
    BY DEF IsListing, Check
  <2> HIDE DEF c
  <2>2. Len(c \o s) = Len(c) + Len(s)
    BY <1>1, <2>1, ConcatAt
  <2>3. Len(all) # 0 /\ Len(<<>>) = 0
    BY <1>1, <2>1, <2>2 DEF c
  <2> QED  BY <2>3
<1>3. PICK j \in Nat : Begun(s, from, prog, <<>>, j)
  BY <1>2 DEF Underway
<1>4. j = Len(s)
  <2>1. j \in 0..Len(s) /\ 0 = Len(s) - j
    BY <1>3 DEF Begun
  <2> QED  BY <1>1, <2>1
<1>5. /\ Len(prog) = from - 1 + Len(s)
      /\ \A n \in 1..Len(s) : prog[from - 1 + n] = Code(s, n) /\ ValidInstruction(Code(s, n))
  BY <1>3, <1>4 DEF Begun
<1>6. Len(prog) + 1 = from + Len(s)
  BY <1>1, <1>5
<1>7. Len(prog) + 1 <= Len(prog) + 1
  BY <1>1
<1> QED  BY <1>1, <1>5, <1>6, <1>7 DEF Done, Acceptable

-----------------------------------------------------------------------------
(* The compilation of a block.                                             *)

BodyOf(k) == ProjectionBody(request, Stages[k], fault)
PlaceOf(k) == Done(BodyOf(k), starts[k], starts[k + 1], program)

(* Where the compilation is. *)
PhasePart ==
  /\ status \in {"asked", "lowering", "rejected", "refused", "running"}
  /\ status = "asked" => program = <<>>
  /\ status = "lowering" \/ status = "running" =>
       Planned(request) /\ starts \in Seq(Nat \ {0})

(* While stages are lowered: the earlier projections are in the program,   *)
(* and this one up to what is left of its steps.                           *)
LoweringPart ==
  status = "lowering" =>
    /\ stage \in 1..Len(Stages) /\ Len(starts) = stage /\ Lowered(pending)
    /\ \A k \in 1..(stage - 1) : Stages[k] \in Projections => PlaceOf(k)
    /\ Stages[stage] \in Projections =>
         Underway(BodyOf(stage), Steps(stage), starts[stage], program, pending)

(* Once the program is finished: all of them are. *)
FinishedPart ==
  status = "running" =>
    /\ Len(starts) = Len(Stages) + 1
    /\ \A k \in 1..Len(Stages) : Stages[k] \in Projections => PlaceOf(k)

LoweringInv ==
  FaultShaped(fault) /\ IsListing(program) /\ PhasePart /\ LoweringPart /\ FinishedPart

\* There are stages.
LEMMA StageCount ==
  Len(Stages) = 19 /\ DOMAIN Stages = 1..19
BY DEF Stages

\* The first start of a program is its first instruction.
LEMMA FirstStart ==
  <<1>> \in Seq(Nat \ {0}) /\ Len(<<1>>) = 1 /\ <<1>>[1] = 1 /\ IsListing(<<>>) /\ Len(<<>>) = 0
<1>1. IsListing(<<>>)
  BY DEF IsListing
<1> QED  BY <1>1

\* A projection that is about to be lowered.
LEMMA BodyBegins ==
  ASSUME Planned(request), FaultShaped(fault), NEW k \in 1..Len(Stages), Stages[k] \in Projections
  PROVE  Emits(BodyOf(k)) /\ \E ok : Steps(k) = Check(ok) \o BodyOf(k)
<1> DEFINE name == Stages[k]
<1>1. name \in Projections
  OBVIOUS
<1>2. Steps(k) = Lower(name, Given(StagePlan(request, name), name, fault))
      /\ BodyOf(k) = ProjectionBody(request, name, fault)
  BY DEF Steps, BodyOf
<1> HIDE DEF name
<1> QED  BY <1>1, <1>2, ProjectionMeets

\* The program starts empty.
LEMMA LoweringStarts == Init => LoweringInv
<1> SUFFICES ASSUME Init PROVE LoweringInv
  OBVIOUS
<1>1. FaultShaped(fault)
  BY FaultsShaped DEF Init
<1>2. status = "asked" /\ program = <<>>
  BY DEF Init
<1> QED  BY <1>1, <1>2, FirstStart DEF LoweringInv, PhasePart, LoweringPart, FinishedPart

\* The invariant speaks of nothing else.
LEMMA LoweringIdle ==
  ASSUME LoweringInv,
         UNCHANGED <<request, fault, status, stage, pending, starts, program>>
  PROVE  LoweringInv'
<1>1. UNCHANGED <<request, fault>>
  OBVIOUS
<1>2. \A k : UNCHANGED BodyOf(k) /\ UNCHANGED Steps(k)
  BY <1>1 DEF BodyOf, Steps
<1>3. \A k : UNCHANGED PlaceOf(k)
  BY <1>2 DEF PlaceOf
<1> QED  BY <1>2, <1>3 DEF LoweringInv, PhasePart, LoweringPart, FinishedPart

\* Planning starts the first stage.
LEMMA PlanKeeps ==
  ASSUME LoweringInv, Plan
  PROVE  LoweringInv'
<1>1. UNCHANGED <<request, fault, program>> /\ program = <<>> /\ status = "asked"
  BY DEF Plan, LoweringInv, PhasePart
<1>2. FaultShaped(fault) /\ IsListing(program)
  BY DEF LoweringInv
<1>3. CASE ~Planned(request)
  <2>1. status' = "rejected"
    BY <1>3 DEF Plan
  <2> QED  BY <1>1, <1>2, <2>1 DEF LoweringInv, PhasePart, LoweringPart, FinishedPart
<1>4. CASE Planned(request)
  <2>1. status' = "lowering" /\ stage' = 1 /\ starts' = <<1>> /\ pending' = Steps(1)
    BY <1>4 DEF Plan
  <2>2. 1 \in 1..Len(Stages) /\ Lowered(Steps(1)) /\ Stages[1] \notin Projections
    <3>1. 1 \in 1..Len(Stages)
      BY StageCount
    <3>2. Stages[1] \notin Projections
      BY DEF Stages, Projections
    <3> QED  BY <1>2, <1>4, <3>1, <3>2, StagesLowered
  <2>3. PhasePart'
    BY <1>1, <1>4, <2>1, FirstStart DEF PhasePart
  <2>4. LoweringPart'
    BY <2>1, <2>2, FirstStart DEF LoweringPart
  <2>5. FinishedPart'
    BY <2>1 DEF FinishedPart
  <2> QED  BY <1>1, <1>2, <2>3, <2>4, <2>5 DEF LoweringInv
<1> QED  BY <1>3, <1>4

\* A call of the builder keeps the pieces in place.
LEMMA ExtendKeeps ==
  ASSUME LoweringInv, Extend
  PROVE  LoweringInv'
<1> DEFINE b == Head(pending).batch
           q == program \o b
           t == Tail(pending)
<1>1. /\ UNCHANGED <<request, fault, status, stage, starts>>
      /\ status = "lowering" /\ pending # <<>> /\ BatchAccepted(b)
      /\ program' = q /\ pending' = t
  BY DEF Extend, AppendAll
<1>2. /\ FaultShaped(fault) /\ IsListing(program) /\ PhasePart
      /\ stage \in 1..Len(Stages) /\ Len(starts) = stage /\ Lowered(pending)
      /\ \A k \in 1..(stage - 1) : Stages[k] \in Projections => PlaceOf(k)
      /\ Stages[stage] \in Projections =>
           Underway(BodyOf(stage), Steps(stage), starts[stage], program, pending)
  BY <1>1 DEF LoweringInv, LoweringPart
<1>3. Planned(request)
  BY <1>1, <1>2 DEF PhasePart
<1>4. Lowered(t) /\ IsListing(b)
  BY <1>1, <1>2, LoweredTail
<1>5. IsListing(q)
  BY <1>2, <1>4, ConcatAt
<1>6. ASSUME NEW k \in 1..(stage - 1), Stages[k] \in Projections
      PROVE  Done(BodyOf(k), starts[k], starts[k + 1], q)
  <2>1. k \in 1..Len(Stages)
    BY <1>2, StageCount
  <2>2. Emits(BodyOf(k))
    BY <1>2, <1>3, <1>6, <2>1, BodyBegins
  <2> DEFINE s == BodyOf(k)
  <2>3. IsListing(s) /\ Done(s, starts[k], starts[k + 1], program)
    BY <1>2, <1>6, <2>2 DEF PlaceOf, Emits
  <2> HIDE DEF s
  <2>4. Done(s, starts[k], starts[k + 1], program \o b)
    <3> HIDE DEF b
    <3> QED  BY <1>2, <1>4, <2>3, DoneKept
  <2> QED  BY <2>4 DEF s
<1>7. ASSUME Stages[stage] \in Projections
      PROVE  Underway(BodyOf(stage), Steps(stage), starts[stage], q, t)
  <2> DEFINE s == BodyOf(stage)
             all == Steps(stage)
             from == starts[stage]
  <2>1. PICK ok : Emits(s) /\ all = Check(ok) \o s
    BY <1>2, <1>3, <1>7, BodyBegins
  <2>2. Underway(s, all, from, program, pending) /\ IsListing(pending)
    BY <1>2, <1>7 DEF Lowered
  <2> HIDE DEF s, all, from
  <2>3. Underway(s, all, from, program \o Head(pending).batch, Tail(pending))
    BY <1>1, <1>2, <2>1, <2>2, UnderwayStep
  <2> QED  BY <2>3 DEF s, all, from
<1> HIDE DEF q, t, b
<1>8. \A k : UNCHANGED BodyOf(k) /\ UNCHANGED Steps(k)
  BY <1>1 DEF BodyOf, Steps
<1>9. LoweringPart'
  <2>1. \A k \in 1..(stage - 1) : Stages[k] \in Projections => PlaceOf(k)'
    BY <1>1, <1>6, <1>8 DEF PlaceOf
  <2>2. Stages[stage] \in Projections =>
          Underway(BodyOf(stage), Steps(stage), starts[stage], program, pending)'
    BY <1>1, <1>7, <1>8
  <2> QED  BY <1>1, <1>2, <1>4, <2>1, <2>2 DEF LoweringPart
<1>10. PhasePart'
  BY <1>1, <1>2 DEF PhasePart
<1>11. FinishedPart'
  BY <1>1 DEF FinishedPart
<1> QED  BY <1>1, <1>2, <1>5, <1>9, <1>10, <1>11 DEF LoweringInv

\* A refusal ends the compilation.
LEMMA RefuseKeeps ==
  ASSUME LoweringInv, Refuse
  PROVE  LoweringInv' /\ program' = program
<1>1. UNCHANGED <<request, fault>> /\ status' = "refused" /\ program' = program
  BY DEF Refuse, AppendAll
<1> QED  BY <1>1 DEF LoweringInv, PhasePart, LoweringPart, FinishedPart

\* A lowerer that returns leaves its piece in place.
LEMMA ReturnKeeps ==
  ASSUME LoweringInv, Return
  PROVE  LoweringInv'
<1> DEFINE n == Len(program) + 1
           st == Append(starts, n)
<1>1. /\ UNCHANGED <<request, fault, program>> /\ status = "lowering" /\ pending = <<>>
      /\ starts' = st
  BY DEF Return
<1>2. /\ FaultShaped(fault) /\ IsListing(program) /\ PhasePart
      /\ stage \in 1..Len(Stages) /\ Len(starts) = stage
      /\ \A k \in 1..(stage - 1) : Stages[k] \in Projections => PlaceOf(k)
      /\ Stages[stage] \in Projections =>
           Underway(BodyOf(stage), Steps(stage), starts[stage], program, pending)
  BY <1>1 DEF LoweringInv, LoweringPart
<1>3. Planned(request) /\ starts \in Seq(Nat \ {0})
  BY <1>1, <1>2 DEF PhasePart
<1>4. n \in Nat \ {0}
  BY <1>2 DEF IsListing
<1>5. /\ st \in Seq(Nat \ {0}) /\ Len(st) = stage + 1 /\ st[stage + 1] = n
      /\ \A k \in 1..stage : st[k] = starts[k]
  <2> HIDE DEF n
  <2> QED  BY <1>2, <1>3, <1>4
<1>6. stage \in Nat \ {0} /\ stage <= 19
  BY <1>2, StageCount
<1> HIDE DEF st
<1>7. ASSUME NEW k \in 1..stage, Stages[k] \in Projections
      PROVE  Done(BodyOf(k), st[k], st[k + 1], program)
  <2>1. CASE k = stage
    <3> DEFINE s == BodyOf(stage)
               all == Steps(stage)
               from == starts[stage]
    <3>1. PICK ok : Emits(s) /\ all = Check(ok) \o s
      BY <1>2, <1>3, <1>7, <2>1, BodyBegins
    <3>2. Underway(s, all, from, program, <<>>)
      BY <1>1, <1>2, <1>7, <2>1
    <3> HIDE DEF s, all, from
    <3>3. Done(s, from, Len(program) + 1, program)
      BY <1>2, <3>1, <3>2, UnderwayReturns
    <3>4. st[stage] = starts[stage] /\ st[stage + 1] = n
      BY <1>5, <1>6
    <3> QED  BY <2>1, <3>3, <3>4 DEF s, from, n
  <2>2. CASE k # stage
    <3>1. k \in 1..(stage - 1) /\ k + 1 \in 1..stage
      BY <1>6, <2>2
    <3> QED  BY <1>2, <1>5, <1>7, <3>1 DEF PlaceOf
  <2> QED  BY <2>1, <2>2
<1> HIDE DEF n
<1>8. \A k : UNCHANGED BodyOf(k)
  BY <1>1 DEF BodyOf
<1>9. \A k \in 1..stage : Stages[k] \in Projections => PlaceOf(k)'
  BY <1>1, <1>7, <1>8 DEF PlaceOf
<1>10. CASE stage < Len(Stages)
  <2>1. status' = "lowering" /\ stage' = stage + 1 /\ pending' = Steps(stage + 1)
    BY <1>1, <1>10 DEF Return
  <2>2. stage + 1 \in 1..Len(Stages)
    BY <1>6, <1>10, StageCount
  <2>3. Lowered(Steps(stage + 1))
    BY <1>2, <1>3, <2>2, StagesLowered
  <2>5. stage' - 1 = stage
    BY <1>6, <2>1
  <2>6. Stages[stage'] \in Projections =>
          Underway(BodyOf(stage)', Steps(stage)', starts'[stage'], program', pending')
    BY <1>1, <1>4, <1>5, <2>1 DEF Underway, n, Steps
  <2>7. LoweringPart'
    BY <1>1, <1>5, <1>9, <2>1, <2>2, <2>3, <2>5, <2>6 DEF LoweringPart
  <2>8. PhasePart'
    BY <1>1, <1>3, <1>5, <2>1 DEF PhasePart
  <2>9. FinishedPart'
    BY <2>1 DEF FinishedPart
  <2> QED  BY <1>1, <1>2, <2>7, <2>8, <2>9 DEF LoweringInv
<1>11. CASE ~(stage < Len(Stages))
  <2>1. status' = "running" /\ stage = Len(Stages)
    BY <1>1, <1>2, <1>6, <1>11, StageCount DEF Return
  <2>2. FinishedPart'
    BY <1>1, <1>5, <1>9, <2>1 DEF FinishedPart
  <2>3. PhasePart'
    BY <1>1, <1>3, <1>5, <2>1 DEF PhasePart
  <2>4. LoweringPart'
    BY <2>1 DEF LoweringPart
  <2> QED  BY <1>1, <1>2, <2>2, <2>3, <2>4 DEF LoweringInv
<1> QED  BY <1>10, <1>11

\* Every step keeps the pieces in place.
LEMMA LoweringKept == LoweringInv /\ [Next]_vars => LoweringInv'
<1> SUFFICES ASSUME LoweringInv, [Next]_vars PROVE LoweringInv'
  OBVIOUS
<1>1. CASE Plan
  BY <1>1, PlanKeeps
<1>2. CASE Extend
  BY <1>2, ExtendKeeps
<1>3. CASE Refuse
  BY <1>3, RefuseKeeps
<1>4. CASE Return
  BY <1>4, ReturnKeeps
<1>5. CASE Supply
  BY <1>5, LoweringIdle DEF Supply
<1>6. CASE Execute
  BY <1>6, LoweringIdle DEF Execute
<1>7. CASE UNCHANGED vars
  BY <1>7, LoweringIdle DEF vars
<1> QED  BY <1>1, <1>2, <1>3, <1>4, <1>5, <1>6, <1>7 DEF Next

\* A finished program multiplies every projection as planned.
LEMMA FinishedMeets == LoweringInv => WeightRowsMeetTheirInput
<1> SUFFICES ASSUME LoweringInv, status = "running",
                    NEW k \in {j \in DOMAIN Stages : Stages[j] \in Projections}
             PROVE  MeetEachRowOnce(StagePlan(request, Stages[k]), starts[k]..(starts[k + 1] - 1))
  BY DEF WeightRowsMeetTheirInput
<1> DEFINE name == Stages[k]
           p == StagePlan(request, name)
           s == BodyOf(k)
           a == starts[k] - 1
<1>1. k \in 1..Len(Stages) /\ name \in Projections
  BY StageCount
<1>2. Done(s, starts[k], starts[k + 1], program) /\ FaultShaped(fault) /\ Planned(request)
  BY <1>1 DEF LoweringInv, FinishedPart, PhasePart, PlaceOf
<1>3. s = ProjectionBody(request, name, fault)
  BY DEF BodyOf
<1> HIDE DEF name, s
<1>4. Emits(s) /\ (Acceptable(s) => Loaded(p, s, MatrixOf(p)))
  BY <1>1, <1>2, <1>3, ProjectionMeets
<1>5. GemvPlaced(p) /\ GemvShaped(p)
  BY <1>1, <1>2, ProjectionPlanned DEF GemvPlanned
<1> HIDE DEF p
<1>6. /\ starts[k] \in Nat \ {0} /\ starts[k + 1] = starts[k] + Len(s) /\ Acceptable(s)
      /\ \A n \in 1..Len(s) : program[starts[k] - 1 + n] = Code(s, n)
  BY <1>2 DEF Done
<1>7. a \in Nat /\ Len(s) \in Nat /\ a + 1 = starts[k] /\ a + Len(s) = starts[k + 1] - 1
  BY <1>4, <1>6 DEF Emits, IsListing
<1>8. PlacedAfter(s, a)
  BY <1>6 DEF PlacedAfter
<1> HIDE DEF a
<1>9. MeetEachRowOnce(p, SpanAfter(s, a))
  BY <1>4, <1>5, <1>6, <1>7, <1>8, PlacedMeetsEachRow
<1>10. SpanAfter(s, a) = starts[k]..(starts[k + 1] - 1)
  BY <1>7 DEF SpanAfter
<1> QED  BY <1>9, <1>10 DEF p, name

(***************************************************************************)
(* In the program of every request the planner accepts, on every geometry, *)
(* every row of a weight matrix meets the piece of the input that belongs  *)
(* to it once, and its sum is read into the slot of its output.  A spoiled *)
(* plan that still compiles makes no exception.                            *)
(***************************************************************************)
THEOREM EveryWeightRowMeetsItsInput == Spec => []WeightRowsMeetTheirInput
<1>1. Init => LoweringInv
  BY LoweringStarts
<1>2. LoweringInv /\ [Next]_vars => LoweringInv'
  BY LoweringKept
<1>3. LoweringInv => WeightRowsMeetTheirInput
  BY FinishedMeets
<1> QED  BY <1>1, <1>2, <1>3, PTL DEF Spec

(***************************************************************************)
(* Whatever the batch, a builder call that is refused leaves the program   *)
(* as it was.                                                              *)
(***************************************************************************)
THEOREM RefusedBatchesAddNothing == Spec => RefusedBatchAddsNothing
<1>1. [Next]_vars => [status' = "refused" => program' = program]_vars
  <2> SUFFICES ASSUME [Next]_vars, status' = "refused", vars' # vars
               PROVE  program' = program
    OBVIOUS
  <2>1. CASE Plan
    BY <2>1 DEF Plan
  <2>2. CASE Extend
    BY <2>2 DEF Extend
  <2>3. CASE Refuse
    BY <2>3 DEF Refuse, AppendAll
  <2>4. CASE Return
    BY <2>4 DEF Return
  <2>5. CASE Supply
    BY <2>5 DEF Supply
  <2>6. CASE Execute
    BY <2>6 DEF Execute
  <2> QED  BY <2>1, <2>2, <2>3, <2>4, <2>5, <2>6 DEF Next
<1> QED  BY <1>1, PTL DEF Spec, RefusedBatchAddsNothing
=============================================================================
