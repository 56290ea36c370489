------------------------ MODULE CentInstructionProofs ------------------------
(***************************************************************************)
(* Proofs about CentInstructions: what the kernel of a valid instruction   *)
(* proposes fits the device, whatever the device holds; what it reads lies *)
(* within the device; and from initialized sources it proposes scalars.    *)
(* At the end, what the proofs about generators of such instructions       *)
(* share: lists, loops, and cursors that reserve one region after another. *)
(***************************************************************************)
EXTENDS CentInstructions, VectorLayouts, TLAPS, SequenceTheorems, FiniteSetTheorems,
        WellFoundedInduction

-----------------------------------------------------------------------------
(* The contents of a device: what an overlay of one more effect is, and    *)
(* that a write keeps the type of the memory.                              *)

\* A location names its space (CentHardware, state.py:34): the nine kinds differ.
LEMMA SpaceShape ==
  ASSUME NEW s \in Space
  PROVE  /\ s[1] \in {"dram", "shared", "global", "accumulator"}
         /\ Capacity(s) \in Nat
<1>1. DramColumns \in Nat /\ SharedBufferSlots * BurstLength \in Nat
      /\ GlobalBufferColumns \in Nat /\ AccumulatorSlots \in Nat
  BY HardwareAssumption DEF ValidHardware
<1>2. s[1] \in {"dram", "shared", "global", "accumulator"}
  BY DEF Space, DramRow, SharedBuffer, GlobalBuffer, Accumulators
<1>3. QED
  BY <1>1, <1>2 DEF Capacity

\* The places of two spaces are the same place only if the spaces are (storage.py slices).
LEMMA LocationShape ==
  ASSUME NEW l \in Location
  PROVE  l[1] \in Space /\ l[2] \in Nat
BY SpaceShape DEF Location

(***************************************************************************)
(* Among the first n+1 effects the last writer of a cell is effect n+1 if  *)
(* that one covers the cell, and the last writer among the first n         *)
(* otherwise.                                                              *)
(***************************************************************************)
LEMMA LastWriterStep ==
  ASSUME NEW es, NEW n \in Nat, NEW l
  PROVE  /\ Covers(es[n + 1], l) =>
              /\ Writers(es, n + 1, l) # {}
              /\ LastWriter(es, n + 1, l) = n + 1
         /\ ~Covers(es[n + 1], l) =>
              Writers(es, n + 1, l) = Writers(es, n, l)
<1>1. ASSUME Covers(es[n + 1], l)
      PROVE  n + 1 \in Writers(es, n + 1, l)
             /\ \A j \in Writers(es, n + 1, l) : j <= n + 1
  BY <1>1 DEF Writers
<1>2. ASSUME Covers(es[n + 1], l)
      PROVE  LastWriter(es, n + 1, l) = n + 1
  <2> DEFINE last == LastWriter(es, n + 1, l)
  <2>1. /\ last \in Writers(es, n + 1, l)
        /\ \A j \in Writers(es, n + 1, l) : j <= last
    BY <1>1, <1>2 DEF LastWriter
  <2>2. last <= n + 1 /\ n + 1 <= last /\ last \in 1..(n + 1)
    BY <1>1, <1>2, <2>1 DEF Writers
  <2>3. QED
    BY <2>2
<1>3. ASSUME ~Covers(es[n + 1], l)
      PROVE  Writers(es, n + 1, l) = Writers(es, n, l)
  BY <1>3 DEF Writers
<1>4. QED
  BY <1>1, <1>2, <1>3

(***************************************************************************)
(* Applying one more effect to the overlay of a prefix gives the overlay   *)
(* of the longer prefix.                                                   *)
(***************************************************************************)
LEMMA OverlayStep ==
  ASSUME NEW mem, NEW es, NEW n \in Nat
  PROVE  Write(OverlayPrefix(mem, es, n), es[n + 1]) = OverlayPrefix(mem, es, n + 1)
<1> DEFINE before == OverlayPrefix(mem, es, n)
           after  == OverlayPrefix(mem, es, n + 1)
<1>1. ASSUME NEW l \in Location
      PROVE  (IF Covers(es[n + 1], l) THEN ValueWritten(es[n + 1], l) ELSE before[l])
               = after[l]
  <2>1. CASE Covers(es[n + 1], l)
    BY <2>1, LastWriterStep DEF OverlayPrefix
  <2>2. CASE ~Covers(es[n + 1], l)
    <3>1. Writers(es, n + 1, l) = Writers(es, n, l)
      BY <2>2, LastWriterStep
    <3>2. LastWriter(es, n + 1, l) = LastWriter(es, n, l)
      BY <3>1 DEF LastWriter
    <3>3. QED
      BY <2>2, <3>1, <3>2 DEF OverlayPrefix
  <2>3. QED
    BY <2>1, <2>2
<1>2. QED
  BY <1>1 DEF Write, OverlayPrefix

\* Applying no effect leaves the memory as it was (state.py:405).
LEMMA OverlayNothing ==
  ASSUME NEW mem, mem = [l \in Location |-> mem[l]], NEW es
  PROVE  OverlayPrefix(mem, es, 0) = mem
<1>1. \A l \in Location : Writers(es, 0, l) = {}
  BY DEF Writers
<1>2. QED
  BY <1>1 DEF OverlayPrefix

(* An effect stores values only, so a write keeps the type of the memory.  *)
LEMMA WriteType ==
  ASSUME NEW mem \in Memory, NEW e, IsEffect(e)
  PROVE  Write(mem, e) \in Memory
<1>1. ASSUME NEW l \in Location, Covers(e, l)
      PROVE  ValueWritten(e, l) \in Value
  <2>1. l[2] - e.start + 1 \in 1..Len(e.values)
    BY <1>1, LocationShape DEF Covers, IsEffect
  <2>2. QED
    BY <2>1 DEF ValueWritten, IsEffect
<1>2. QED
  BY <1>1 DEF Write, Memory

-----------------------------------------------------------------------------
(* What an instruction proposes. *)

(* A tuple of effects that commit_effects has no reason to refuse.         *)
FittingEffects(es) ==
  /\ Len(es) \in Nat \ {0}
  /\ DOMAIN es = 1..Len(es)
  /\ \A k \in DOMAIN es : EffectInBounds(es[k])

-----------------------------------------------------------------------------
(* Arithmetic of slots and of bank groups. *)

\* Slots that fit a region still fit when counted in lanes.
LEMMA SumTimes ==
  ASSUME NEW a \in Nat, NEW b \in Nat, NEW s \in Nat, NEW n \in Nat, a + b <= s
  PROVE  a * n + b * n <= s * n
<1>1. (a + b) * n = a * n + b * n
  OBVIOUS
<1>2. \A x, y \in Nat : x <= y => x * n <= y * n
  OBVIOUS
<1>3. QED
  BY <1>1, <1>2

\* A whole number of slots moves a lane index by that many slots.
LEMMA WholeQuotient ==
  ASSUME NEW a \in Nat, NEW n \in Nat, NEW b \in Nat \ {0}
  PROVE  (a * b + n) \div b = a + (n \div b)
OBVIOUS

\* Rounding a whole number of slots up to whole slots changes nothing.
LEMMA WholeRoundedUp ==
  ASSUME NEW a \in Nat, NEW b \in Nat \ {0}
  PROVE  (a * b + b - 1) \div b = a
<1>1. b - 1 \in Nat /\ (b - 1) \div b = 0
  OBVIOUS
<1>2. (a * b + (b - 1)) \div b = a + ((b - 1) \div b)
  BY <1>1, WholeQuotient
<1>3. QED
  BY <1>1, <1>2

\* A slice that starts within a slot: the slots before it and the slots it touches
\* are the slots of the prefix that ends where it ends (_ReferenceContext.slice).
LEMMA RemainderRoundedUp ==
  ASSUME NEW a \in Nat, NEW n \in Nat, NEW b \in Nat \ {0}
  PROVE  (a \div b) + (((a % b) + n + b - 1) \div b) = (a + n + b - 1) \div b
<1> DEFINE q == a \div b
           r == (a % b) + n + b - 1
<1>1. q \in Nat /\ r \in Nat /\ a + n + b - 1 = q * b + r
  OBVIOUS
<1>2. (q * b + r) \div b = q + (r \div b)
  BY <1>1, WholeQuotient
<1>3. QED
  BY <1>1, <1>2

\* A longer prefix never has fewer slots.
LEMMA QuotientMonotone ==
  ASSUME NEW m \in Nat, NEW n \in Nat, NEW b \in Nat \ {0}, m <= n
  PROVE  m \div b <= n \div b
OBVIOUS

\* The k-th bank of all channels is in a channel that exists (channel-major order).
LEMMA QuotientBelow ==
  ASSUME NEW k \in Nat, NEW b \in Nat \ {0}, NEW n \in Nat, k < n * b
  PROVE  k \div b \in Nat /\ k \div b < n
OBVIOUS

(* The dimensions of a device are naturals, its bursts not empty. *)
LEMMA Dimensions ==
  /\ NumBanks \in Nat /\ NumBanks >= 4 /\ NumBanks % 4 = 0
  /\ DramColumns \in Nat /\ BurstLength \in Nat \ {0} /\ SharedBufferSlots \in Nat
  /\ GlobalBufferColumns \in Nat /\ AccumulatorSlots \in Nat
BY HardwareAssumption DEF ValidHardware, BanksPerGroup

(* SlotsFor is the number of slots a prefix occupies: enough, never none. *)
LEMMA SlotsForIsEnough ==
  ASSUME NEW n \in Nat \ {0}
  PROVE  SlotsFor(n) \in Nat \ {0} /\ n <= Lanes(SlotsFor(n))
<1>1. \A b \in Nat \ {0} : (n + b - 1) \div b \in Nat \ {0} /\ n <= ((n + b - 1) \div b) * b
  OBVIOUS
<1>2. QED
  BY <1>1, Dimensions DEF SlotsFor, Lanes

\* Padding whole slots adds no slot (_ReferenceContext.finish).
LEMMA SlotsForWholeSlots ==
  ASSUME NEW t \in Nat
  PROVE  SlotsFor(Lanes(t)) = t
<1>1. SlotsFor(Lanes(t)) = (t * BurstLength + BurstLength - 1) \div BurstLength
  BY DEF SlotsFor, Lanes
<1>2. BurstLength \in Nat \ {0}
  BY Dimensions
<1>3. QED
  BY <1>1, <1>2, WholeRoundedUp

(* A slice in the lanes from offset on ends in the slot where a prefix of  *)
(* offset + count scalars ends.                                            *)
LEMMA SliceEnd ==
  ASSUME NEW offset \in Nat, NEW count \in Nat \ {0}
  PROVE  /\ offset \div BurstLength \in Nat /\ SliceLane(offset) \in Nat
         /\ (offset \div BurstLength) + SlotsFor(SliceLane(offset) + count)
              = SlotsFor(offset + count)
<1>1. \A b \in Nat \ {0} :
        /\ offset \div b \in Nat /\ offset % b \in Nat
        /\ (offset \div b) + (((offset % b) + count + b - 1) \div b)
             = (offset + count + b - 1) \div b
  BY RemainderRoundedUp
<1>2. BurstLength \in Nat \ {0}
  BY Dimensions
<1>3. QED
  BY <1>1, <1>2 DEF SlotsFor, SliceLane

(* The banks of a pair of banks or of a bank group exist. *)
LEMMA PairsExist ==
  ASSUME NEW i, ValidChannels(i.channels), NEW step \in {1, 2, 4}
  PROVE  /\ PairCount(i, step) \in Nat \ {0}
         /\ \A k \in 1..PairCount(i, step) :
              /\ ChannelOf(i, step, k) \in Channels
              /\ \A j \in 0..(step - 1) : BankOf(step, k) + j \in Banks
<1> DEFINE count == NumBanks \div step
           channels == Len(i.channels)
<1>1. count \in Nat \ {0} /\ count * step = NumBanks
  BY Dimensions
<1>2. channels \in Nat \ {0} /\ i.channels \in Seq(Channels)
  BY DEF ValidChannels
<1>3. channels * count \in Nat \ {0}
  BY <1>1, <1>2
<1>4. ASSUME NEW k \in 1..(channels * count)
      PROVE  /\ i.channels[(k - 1) \div count + 1] \in Channels
             /\ \A j \in 0..(step - 1) : ((k - 1) % count) * step + j \in Banks
  <2>1. k - 1 \in Nat /\ k - 1 < channels * count
    BY <1>3
  <2>2. (k - 1) \div count \in Nat /\ (k - 1) \div count < channels
    BY <1>1, <1>2, <2>1, QuotientBelow
  <2>3. (k - 1) % count \in 0..(count - 1)
    BY <1>1, <2>1
  <2>4. ASSUME NEW m \in 0..(count - 1) PROVE m * step + step <= NumBanks /\ m * step \in Nat
    <3>1. m + 1 <= count /\ (m + 1) * step = m * step + step
      BY <1>1
    <3>2. \A x, y \in Nat : x <= y => x * step <= y * step
      OBVIOUS
    <3>3. m + 1 \in Nat /\ count \in Nat /\ m \in Nat /\ step \in Nat
      BY <1>1
    <3>4. (m + 1) * step <= count * step
      BY <3>1, <3>2, <3>3
    <3>5. count * step <= NumBanks /\ count * step \in Nat /\ NumBanks \in Nat
      BY <1>1, Dimensions
    <3>6. m * step \in Nat
      BY <3>3
    <3> DEFINE u == (m + 1) * step
               v == m * step
               w == count * step
    <3>7. u = v + step /\ u <= w /\ w <= NumBanks /\ v \in Nat /\ w \in Nat
      BY <3>1, <3>4, <3>5, <3>6
    <3> HIDE DEF u, v, w
    <3>8. v + step <= NumBanks
      BY <3>3, <3>5, <3>7
    <3>9. QED
      BY <3>6, <3>8 DEF v
  <2>5. QED
    BY <1>2, <2>2, <2>3, <2>4, Dimensions DEF Banks
<1>5. QED
  BY <1>3, <1>4 DEF PairCount, BankCount, ChannelOf, BankOf

-----------------------------------------------------------------------------
(* One effect. *)

(* One effect that fits is a tuple of effects that fits.                   *)
LEMMA OneEffect ==
  ASSUME NEW e, EffectInBounds(e)
  PROVE  FittingEffects(<<e>>)
BY DEF FittingEffects

\* A tuple of effects given element by element fits when each element does.
LEMMA ManyEffects ==
  ASSUME NEW n \in Nat \ {0}, NEW es, es = [k \in 1..n |-> es[k]],
         \A k \in 1..n : EffectInBounds(es[k])
  PROVE  FittingEffects(es)
BY DEF FittingEffects

(* Lanes of a positive number of slots. *)
LEMMA LanesPositive ==
  ASSUME NEW size \in Nat \ {0}
  PROVE  Lanes(size) \in Nat \ {0}
<1>1. \A b \in Nat \ {0} : size * b \in Nat \ {0}
  OBVIOUS
<1>2. BurstLength \in Nat \ {0}
  BY Dimensions
<1>3. QED
  BY <1>1, <1>2 DEF Lanes

\* A valid slot span is within the Shared Buffer (validation.py).
LEMMA SharedFits ==
  ASSUME NEW slot \in Nat, NEW size \in Nat \ {0}, slot + size <= SharedBufferSlots,
         NEW values, Len(values) = Lanes(size)
  PROVE  EffectInBounds(SharedEffect(slot, values))
<1>1. SlotLane(slot) + Lanes(size) <= SharedBufferSlots * BurstLength
  BY SumTimes, Dimensions DEF SlotLane, Lanes
<1>2. values # <<>>
  BY LanesPositive
<1>3. SharedBuffer \in Space /\ Capacity(SharedBuffer) = SharedBufferSlots * BurstLength
  BY DEF Space, SharedBuffer, Capacity
<1>4. QED
  BY <1>1, <1>2, <1>3 DEF EffectInBounds, SharedEffect, Effect

\* A valid operation at a valid address is within its DRAM row (validation.py).
LEMMA RowFits ==
  ASSUME NEW c \in Channels, NEW b \in Banks, NEW i, ValidAddress(i), ValidOperation(i),
         NEW values, Len(values) = Lanes(i.size)
  PROVE  EffectInBounds(Effect(DramRow(c, b, i.row), i.column, values))
<1>1. values # <<>>
  BY LanesPositive DEF ValidOperation
<1>2. DramRow(c, b, i.row) \in Space /\ Capacity(DramRow(c, b, i.row)) = DramColumns
  BY DEF Space, DramRow, Capacity, ValidAddress
<1>3. QED
  BY <1>1, <1>2 DEF EffectInBounds, Effect, ValidOperation

\* A valid Global Buffer span is within the buffer of its channel (validation.py).
LEMMA GlobalFits ==
  ASSUME NEW c \in Channels, NEW i, ValidGlobalSpan(i), i.size # 0,
         NEW values, Len(values) = Lanes(i.size)
  PROVE  EffectInBounds(Effect(GlobalBuffer(c), i.column, values))
<1>1. values # <<>>
  BY LanesPositive DEF ValidGlobalSpan
<1>2. GlobalBuffer(c) \in Space /\ Capacity(GlobalBuffer(c)) = GlobalBufferColumns
  BY DEF Space, GlobalBuffer, Capacity
<1>3. QED
  BY <1>1, <1>2 DEF EffectInBounds, Effect, ValidGlobalSpan

\* A valid register exists in every bank of every channel (validation.py).
LEMMA RegisterFits ==
  ASSUME NEW c \in Channels, NEW b \in Banks, NEW i, ValidRegister(i), NEW x
  PROVE  EffectInBounds(Effect(Accumulators(c, b), i.register, <<x>>))
<1>1. Accumulators(c, b) \in Space /\ Capacity(Accumulators(c, b)) = AccumulatorSlots
  BY DEF Space, Accumulators, Capacity
<1>2. i.register + 1 <= AccumulatorSlots
  BY Dimensions DEF ValidRegister
<1>3. QED
  BY <1>1, <1>2 DEF EffectInBounds, Effect

(* A padded result fits where its prefix was found to fit. *)
LEMMA PaddedFits ==
  ASSUME NEW slot, NEW values, Len(values) \in Nat \ {0}, ValidPrefix(slot, Len(values))
  PROVE  EffectInBounds(SharedEffect(slot, Padded(values)))
<1>1. SlotsFor(Len(values)) \in Nat \ {0}
  BY SlotsForIsEnough
<1>2. Len(Padded(values)) = Lanes(SlotsFor(Len(values)))
  BY <1>1, LanesPositive DEF Padded
<1>3. QED
  BY <1>1, <1>2, SharedFits DEF ValidPrefix

-----------------------------------------------------------------------------
(* The kernels. *)

(* Instructions whose kernel hands its result to _ReferenceContext.finish. *)
Services ==
  {"READ_ACC", "COPY", "TRANSPOSE", "FILL", "BROADCAST", "REDUCE_SUM", "RMS_SCALE",
   "ACTIVATION", "SOFTMAX", "SCORES", "ROPE"}

(* validate_reference and the kernel count the same results, the smaller   *)
(* count of a COPY's source included.                                      *)
LEMMA ServiceResult ==
  ASSUME NEW i, NEW mem, ValidInstruction(i), i.op \in Services
  PROVE  Len(Result(i, mem)) \in Nat \ {0} /\ ValidPrefix(i.destination, Len(Result(i, mem)))
<1>1. ASSUME NEW n, ValidPrefix(i.destination, n),
             Result(i, mem) = [k \in 1..n |-> Result(i, mem)[k]]
      PROVE  /\ Len(Result(i, mem)) \in Nat \ {0}
             /\ ValidPrefix(i.destination, Len(Result(i, mem)))
  <2>1. n \in Nat \ {0}
    BY <1>1 DEF ValidPrefix
  <2>2. Len(Result(i, mem)) = n
    BY <1>1, <2>1
  <2>3. QED
    BY <1>1, <2>1, <2>2
<1>2. CASE i.op = "READ_ACC"
  <2>1. ValidPrefix(i.destination, PairCount(i, 1))
    BY <1>2 DEF ValidInstruction, BankMoves, BufferCopies, ResultReads, SlotFormulas
  <2>2. Result(i, mem) = [k \in 1..PairCount(i, 1) |-> Result(i, mem)[k]]
    BY <1>2 DEF Result
  <2>3. QED
    BY <1>1, <2>1, <2>2
<1>3. CASE i.op = "COPY"
  <2>1. ValidPrefix(i.destination, i.destination_count)
    BY <1>3 DEF ValidInstruction, BankMoves, BufferCopies, ResultReads, SlotFormulas
  <2>2. Result(i, mem) = [k \in 1..i.destination_count |-> Result(i, mem)[k]]
    BY <1>3 DEF Result
  <2>3. QED
    BY <1>1, <2>1, <2>2
<1>4. CASE i.op = "TRANSPOSE"
  <2>1. ValidPrefix(i.destination, i.rows * i.columns)
    BY <1>4 DEF ValidInstruction, BankMoves, BufferCopies, ResultReads, SlotFormulas
  <2>2. Result(i, mem) = [k \in 1..(i.rows * i.columns) |-> Result(i, mem)[k]]
    BY <1>4 DEF Result
  <2>3. QED
    BY <1>1, <2>1, <2>2
<1>5. CASE i.op \in {"FILL", "SCORES"}
  <2>1. ValidPrefix(i.destination, i.count)
    BY <1>5 DEF ValidInstruction, BankMoves, BufferCopies, ResultReads, SlotFormulas
  <2>2. Result(i, mem) = [k \in 1..i.count |-> Result(i, mem)[k]]
    BY <1>5 DEF Result
  <2>3. QED
    BY <1>1, <2>1, <2>2
<1>6. CASE i.op \in {"BROADCAST", "ACTIVATION"}
  <2>1. ValidPrefix(i.destination, i.count)
    BY <1>6 DEF ValidInstruction, BankMoves, BufferCopies, ResultReads, SlotFormulas
  <2>2. Result(i, mem) = [k \in 1..i.count |-> Result(i, mem)[k]]
    BY <1>6 DEF Result
  <2>3. QED
    BY <1>1, <2>1, <2>2
<1>7. CASE i.op \in {"REDUCE_SUM", "RMS_SCALE"}
  <2>1. ValidPrefix(i.destination, 1)
    BY <1>7 DEF ValidInstruction, BankMoves, BufferCopies, ResultReads, SlotFormulas
  <2>2. Result(i, mem) = [k \in 1..1 |-> Result(i, mem)[k]]
    <3>1. \E v : Result(i, mem) = <<v>>
      BY <1>7 DEF Result
    <3>2. PICK v : Result(i, mem) = <<v>>
      BY <3>1
    <3>3. QED
      BY <3>2
  <2>3. QED
    BY <1>1, <2>1, <2>2
<1>8. CASE i.op = "SOFTMAX"
  <2>1. ValidPrefix(i.destination, i.rows * i.width)
    BY <1>8 DEF ValidInstruction, BankMoves, BufferCopies, ResultReads, SlotFormulas
  <2>2. Result(i, mem) = [k \in 1..(i.rows * i.width) |-> Result(i, mem)[k]]
    BY <1>8 DEF Result
  <2>3. QED
    BY <1>1, <2>1, <2>2
<1>9. CASE i.op = "ROPE"
  <2>1. ValidPrefix(i.destination, RopeCount(i))
    BY <1>9 DEF ValidInstruction, BankMoves, BufferCopies, ResultReads, SlotFormulas
  <2>2. Result(i, mem) = [k \in 1..RopeCount(i) |-> Result(i, mem)[k]]
    BY <1>9 DEF Result
  <2>3. QED
    BY <1>1, <2>1, <2>2
<1>10. QED
  BY <1>2, <1>3, <1>4, <1>5, <1>6, <1>7, <1>8, <1>9 DEF Services

(* STORE_SLICE rewrites whole slots: those the slice touches lie in the    *)
(* destination's prefix.                                                   *)
LEMMA StoredSlotsFit ==
  ASSUME NEW i, ValidInstruction(i), i.op = "STORE_SLICE"
  PROVE  /\ TouchedSlots(i) \in Nat \ {0}
         /\ SliceSlot(i.destination, i.destination_offset) \in Nat
         /\ SliceSlot(i.destination, i.destination_offset) + TouchedSlots(i)
              <= SharedBufferSlots
<1>1. /\ i.count \in Nat \ {0} /\ i.destination_offset \in Nat /\ i.destination \in Nat
      /\ i.destination_count \in Nat \ {0}
      /\ i.destination_offset + i.count <= i.destination_count
      /\ i.destination + SlotsFor(i.destination_count) <= SharedBufferSlots
  BY DEF ValidInstruction, BankMoves, BufferCopies, ResultReads, SlotFormulas,
         ValidSlice, ValidPrefix
<1> DEFINE q == i.destination_offset \div BurstLength
           whole == SlotsFor(i.destination_offset + i.count)
<1>2. q \in Nat /\ q + TouchedSlots(i) = whole /\ SliceLane(i.destination_offset) \in Nat
  BY <1>1, SliceEnd DEF TouchedSlots
<1>3. whole <= SlotsFor(i.destination_count)
  <2>1. \A m, n \in Nat : m <= n => m \div BurstLength <= n \div BurstLength
    BY QuotientMonotone, Dimensions
  <2>2. /\ i.destination_offset + i.count + BurstLength - 1 \in Nat
        /\ i.destination_count + BurstLength - 1 \in Nat
        /\ i.destination_offset + i.count + BurstLength - 1
             <= i.destination_count + BurstLength - 1
    BY <1>1, Dimensions
  <2>3. QED
    BY <2>1, <2>2 DEF SlotsFor
<1>4. TouchedSlots(i) \in Nat \ {0} /\ SlotsFor(i.destination_count) \in Nat /\ whole \in Nat
  BY <1>1, <1>2, SlotsForIsEnough DEF TouchedSlots
<1>5. SliceSlot(i.destination, i.destination_offset) = i.destination + q
  BY DEF SliceSlot
<1> HIDE DEF q, whole
<1>6. QED
  BY <1>1, <1>2, <1>3, <1>4, <1>5, Dimensions

(***************************************************************************)
(* The kernel of a valid instruction the simulator accepts proposes at     *)
(* least one effect, and each lies within its storage space, whatever the  *)
(* memory holds: validate_instruction, validate_reference and the kernels  *)
(* agree on every count that is rounded up to whole slots.                 *)
(***************************************************************************)
THEOREM KernelsFit ==
  ASSUME NEW i, NEW mem, ValidInstruction(i), Supported(i)
  PROVE  FittingEffects(ProposedEffects(i, mem))
<1> DEFINE es == ProposedEffects(i, mem)
<1>1. ASSUME NEW n \in Nat \ {0}, NEW f, f = [k \in 1..n |-> f[k]] PROVE Len(f) = n
  BY <1>1
<1>2. CASE i.op = "WR_SBK"
  <2>1. /\ i.channel \in Channels /\ i.bank \in Banks /\ ValidAddress(i) /\ ValidOperation(i)
        /\ Lanes(i.size) \in Nat \ {0}
    BY <1>2, LanesPositive DEF ValidInstruction, BankMoves, BufferCopies, ResultReads,
         SlotFormulas, ValidOperation
  <2>2. Len(Contents(mem, SlotSpan(i.slot, i.size))) = Lanes(i.size)
    BY <2>1 DEF Contents, SlotSpan, ScalarSpan, Span
  <2>3. EffectInBounds(Effect(DramRow(i.channel, i.bank, i.row), i.column,
                              Contents(mem, SlotSpan(i.slot, i.size))))
    BY <2>1, <2>2, RowFits
  <2>4. QED
    BY <1>2, <2>3, OneEffect DEF ProposedEffects
<1>3. CASE i.op = "RD_SBK"
  <2>1. ValidSlotSpan(i.slot, i.size) /\ Lanes(i.size) \in Nat \ {0}
    BY <1>3, LanesPositive DEF ValidInstruction, BankMoves, BufferCopies, ResultReads,
         SlotFormulas, ValidSlotSpan
  <2>2. Len(Contents(mem, DramSpan(i.channel, i.bank, i))) = Lanes(i.size)
    BY <2>1 DEF Contents, DramSpan, Span
  <2>3. EffectInBounds(SharedEffect(i.slot, Contents(mem, DramSpan(i.channel, i.bank, i))))
    BY <2>1, <2>2, SharedFits DEF ValidSlotSpan
  <2>4. QED
    BY <1>3, <2>3, OneEffect DEF ProposedEffects
<1>4. CASE i.op \in {"WR_GB", "COPY_BKGB", "COPY_GBBK"}
  <2>1. /\ Len(i.channels) \in Nat \ {0} /\ DOMAIN i.channels = 1..Len(i.channels)
        /\ \A k \in DOMAIN i.channels : i.channels[k] \in Channels
        /\ i.size \in Nat \ {0} /\ Lanes(i.size) \in Nat \ {0} /\ ValidGlobalSpan(i)
    BY <1>4, LanesPositive DEF ValidInstruction, BankMoves, BufferCopies, ResultReads,
         SlotFormulas, ValidChannels, ValidSlotSpan, ValidOperation
  <2>2. /\ Len(Contents(mem, SlotSpan(i.slot, i.size))) = Lanes(i.size)
        /\ \A c : /\ Len(Contents(mem, DramSpan(c, i.bank, i))) = Lanes(i.size)
                  /\ Len(Contents(mem, GlobalSpan(c, i))) = Lanes(i.size)
    BY <2>1 DEF Contents, SlotSpan, ScalarSpan, DramSpan, GlobalSpan, Span
  <2>3. ASSUME i.op = "COPY_GBBK", NEW c \in Channels
        PROVE  EffectInBounds(Effect(DramRow(c, i.bank, i.row), i.column,
                                     Contents(mem, GlobalSpan(c, i))))
    <3>1. i.bank \in Banks /\ ValidAddress(i) /\ ValidOperation(i)
      BY <2>3 DEF ValidInstruction, BankMoves, BufferCopies, ResultReads,
         SlotFormulas
    <3>2. QED
      BY <2>2, <3>1, RowFits
  <2>4. ASSUME NEW c \in Channels
        PROVE  /\ EffectInBounds(Effect(GlobalBuffer(c), i.column,
                                        Contents(mem, SlotSpan(i.slot, i.size))))
               /\ EffectInBounds(Effect(GlobalBuffer(c), i.column,
                                        Contents(mem, DramSpan(c, i.bank, i))))
    BY <2>1, <2>2, GlobalFits
  <2>5. es = [k \in 1..Len(i.channels) |-> es[k]]
    BY <1>4, <2>1 DEF ProposedEffects
  <2>6. \A k \in 1..Len(i.channels) : EffectInBounds(es[k])
    BY <1>4, <2>1, <2>3, <2>4 DEF ProposedEffects
  <2>7. QED
    BY <2>1, <2>5, <2>6, ManyEffects
<1>5. CASE i.op = "EW_MUL"
  <2>1. ValidChannels(i.channels) /\ ValidAddress(i) /\ ValidOperation(i)
        /\ Lanes(i.size) \in Nat \ {0}
    BY <1>5, LanesPositive DEF ValidInstruction, BankMoves, BufferCopies, ResultReads,
         SlotFormulas, ValidOperation
  <2> DEFINE count == PairCount(i, 4)
  <2>2. /\ count \in Nat \ {0}
        /\ \A k \in 1..count : ChannelOf(i, 4, k) \in Channels /\ BankOf(4, k) + 2 \in Banks
    BY <2>1, PairsExist
  <2>3. es = [k \in 1..count |-> es[k]]
    BY <1>5 DEF ProposedEffects, BanksPerGroup
  <2>4. ASSUME NEW k \in 1..count PROVE EffectInBounds(es[k])
    <3> DEFINE c == ChannelOf(i, 4, k)
               b == BankOf(4, k)
               products == [j \in 1..Lanes(i.size) |->
                              Multiply(Contents(mem, DramSpan(c, b, i))[j],
                                       Contents(mem, DramSpan(c, b + 1, i))[j])]
    <3>1. es[k] = Effect(DramRow(c, b + 2, i.row), i.column, products)
      BY <1>5 DEF ProposedEffects, BanksPerGroup
    <3>2. Len(products) = Lanes(i.size)
      BY <2>1
    <3>3. c \in Channels /\ b + 2 \in Banks
      BY <2>2
    <3> HIDE DEF c, b, products
    <3>4. QED
      BY <2>1, <3>1, <3>2, <3>3, RowFits
  <2>5. QED
    BY <2>2, <2>3, <2>4, ManyEffects
<1>6. CASE i.op = "MAC_ABK"
  <2>1. ValidChannels(i.channels) /\ ValidRegister(i) /\ MacStep(i) \in {1, 2, 4}
    BY <1>6 DEF ValidInstruction, BankMoves, BufferCopies, ResultReads,
         SlotFormulas, MacStep
  <2> DEFINE count == PairCount(i, MacStep(i))
  <2>2. /\ count \in Nat \ {0}
        /\ \A k \in 1..count :
             ChannelOf(i, MacStep(i), k) \in Channels /\ BankOf(MacStep(i), k) + 0 \in Banks
    BY <2>1, PairsExist
  <2>3. \A k \in 1..count : BankOf(MacStep(i), k) \in Banks
    BY <2>1, <2>2, Dimensions DEF Banks, BankOf, BankCount
  <2>4. es = [k \in 1..count |-> es[k]]
    BY <1>6 DEF ProposedEffects
  <2>5. ASSUME NEW k \in 1..count PROVE EffectInBounds(es[k])
    <3> DEFINE c == ChannelOf(i, MacStep(i), k)
               b == BankOf(MacStep(i), k)
    <3>1. es[k] = Effect(Accumulators(c, b), i.register, <<MacTotal(i, mem, c, b)>>)
      BY <1>6 DEF ProposedEffects
    <3>2. QED
      BY <2>1, <2>2, <2>3, <3>1, RegisterFits
  <2>6. QED
    BY <2>2, <2>4, <2>5, ManyEffects
<1>7. CASE i.op = "INIT_ACC"
  <2>1. ValidChannels(i.channels) /\ ValidRegister(i)
    BY <1>7 DEF ValidInstruction, BankMoves, BufferCopies, ResultReads,
         SlotFormulas
  <2> DEFINE count == PairCount(i, 1)
  <2>2. /\ count \in Nat \ {0}
        /\ \A k \in 1..count :
             ChannelOf(i, 1, k) \in Channels /\ BankOf(1, k) + 0 \in Banks
    BY <2>1, PairsExist
  <2>3. \A k \in 1..count : BankOf(1, k) \in Banks
    BY <2>1, <2>2, Dimensions DEF Banks, BankOf, BankCount
  <2>4. es = [k \in 1..count |-> es[k]]
    BY <1>7 DEF ProposedEffects
  <2>5. ASSUME NEW k \in 1..count PROVE EffectInBounds(es[k])
    <3>1. es[k] = Effect(Accumulators(ChannelOf(i, 1, k), BankOf(1, k)), i.register,
                         <<i.value>>)
      BY <1>7 DEF ProposedEffects
    <3>2. QED
      BY <2>1, <2>2, <2>3, <3>1, RegisterFits
  <2>6. QED
    BY <2>2, <2>4, <2>5, ManyEffects
<1>8. CASE i.op = "ACC"
  <2>1. ValidSlotSpan(i.destination, i.size) /\ Lanes(i.size) \in Nat \ {0}
    BY <1>8, LanesPositive DEF ValidInstruction, BankMoves, BufferCopies, ResultReads,
         SlotFormulas, ValidSlotSpan
  <2> DEFINE sums == [j \in 1..Lanes(i.size) |->
                        Add(Contents(mem, SlotSpan(i.destination, i.size))[j],
                            Contents(mem, SlotSpan(i.source, i.size))[j])]
  <2>2. Len(sums) = Lanes(i.size)
    BY <2>1
  <2>3. es = <<SharedEffect(i.destination, sums)>>
    BY <1>8 DEF ProposedEffects
  <2> HIDE DEF sums
  <2>4. EffectInBounds(SharedEffect(i.destination, sums))
    BY <2>1, <2>2, SharedFits DEF ValidSlotSpan
  <2>5. QED
    BY <2>3, <2>4, OneEffect
<1>9. CASE i.op = "STORE_SLICE"
  <2> DEFINE touched == TouchedSlots(i)
             slot == SliceSlot(i.destination, i.destination_offset)
  <2>1. touched \in Nat \ {0} /\ slot \in Nat /\ slot + touched <= SharedBufferSlots
    BY <1>9, StoredSlotsFit
  <2>2. Lanes(touched) \in Nat \ {0}
    BY <2>1, LanesPositive
  <2>3. Len(Stored(i, mem)) = Lanes(touched)
    BY <2>2 DEF Stored
  <2>4. SlotsFor(Lanes(touched)) = touched
    BY <2>1, SlotsForWholeSlots
  <2>5. ValidPrefix(slot, Len(Stored(i, mem)))
    BY <2>1, <2>2, <2>3, <2>4 DEF ValidPrefix
  <2>6. EffectInBounds(SharedEffect(slot, Padded(Stored(i, mem))))
    BY <2>2, <2>3, <2>5, PaddedFits
  <2>7. QED
    BY <1>9, <2>6, OneEffect DEF ProposedEffects
<1>10. CASE i.op \in Services
  <2>1. EffectInBounds(SharedEffect(i.destination, Padded(Result(i, mem))))
    BY <1>10, ServiceResult, PaddedFits
  <2>2. es = <<SharedEffect(i.destination, Padded(Result(i, mem)))>>
    BY <1>10 DEF ProposedEffects, Services
  <2>3. QED
    BY <2>1, <2>2, OneEffect
<1>11. i.op \in {"WR_SBK", "RD_SBK", "WR_GB", "COPY_BKGB", "COPY_GBBK", "EW_MUL", "MAC_ABK",
                 "INIT_ACC", "ACC", "STORE_SLICE"} \cup Services
  BY DEF ValidInstruction, BankMoves, BufferCopies, ResultReads,
         SlotFormulas, Supported, Kernelless, Services
<1>12. QED
  BY <1>2, <1>3, <1>4, <1>5, <1>6, <1>7, <1>8, <1>9, <1>10, <1>11

-----------------------------------------------------------------------------
(* What a kernel reads lies within the device. *)

\* The cells of a span within the device are locations (storage.py slices).
LEMMA SpanIsPlaced ==
  ASSUME NEW span, SpanInBounds(span)
  PROVE  Cells(span) \subseteq Location
<1> SUFFICES ASSUME NEW k \in 0..(span.count - 1)
             PROVE  <<span.space, span.start + k>> \in Location
  BY DEF Cells
<1>1. /\ span.space \in Space /\ span.count \in Nat /\ span.start \in Nat
      /\ span.start + span.count <= Capacity(span.space) /\ Capacity(span.space) \in Nat
  BY SpaceShape DEF SpanInBounds
<1>2. span.start + k \in 0..(Capacity(span.space) - 1)
  BY <1>1
<1>3. QED
  BY <1>1, <1>2 DEF Location

(* A prefix of the Shared Buffer that validation counted in whole slots. *)
LEMMA PrefixSpanFits ==
  ASSUME NEW slot \in Nat, NEW count \in Nat \ {0},
         slot + SlotsFor(count) <= SharedBufferSlots
  PROVE  SpanInBounds(ScalarSpan(slot, count))
<1>1. SlotsFor(count) \in Nat /\ count <= Lanes(SlotsFor(count))
  BY SlotsForIsEnough
<1>2. SlotLane(slot) + Lanes(SlotsFor(count)) <= SharedBufferSlots * BurstLength
  BY <1>1, SumTimes, Dimensions DEF SlotLane, Lanes
<1>3. /\ SlotLane(slot) \in Nat /\ Lanes(SlotsFor(count)) \in Nat
      /\ SharedBufferSlots * BurstLength \in Nat
  BY <1>1, Dimensions DEF SlotLane, Lanes
<1>4. SharedBuffer \in Space /\ Capacity(SharedBuffer) = SharedBufferSlots * BurstLength
  BY DEF Space, SharedBuffer, Capacity
<1>5. SlotLane(slot) + count <= SharedBufferSlots * BurstLength
  BY <1>1, <1>2, <1>3
<1>6. QED
  BY <1>3, <1>4, <1>5 DEF SpanInBounds, ScalarSpan, Span

\* Whole slots of the Shared Buffer (validation.py).
LEMMA SlotSpanFits ==
  ASSUME NEW slot, NEW size, ValidSlotSpan(slot, size)
  PROVE  SpanInBounds(SlotSpan(slot, size))
<1>1. /\ slot \in Nat /\ size \in Nat \ {0} /\ Lanes(size) \in Nat \ {0}
      /\ SlotsFor(Lanes(size)) = size /\ slot + size <= SharedBufferSlots
  BY SlotsForWholeSlots, LanesPositive DEF ValidSlotSpan
<1>2. QED
  BY <1>1, PrefixSpanFits DEF SlotSpan

(* A slice is read from lane 0 of its first slot: the read ends with the   *)
(* prefix that validation checked.                                         *)
LEMMA SliceSpanFits ==
  ASSUME NEW slot, NEW offset, NEW count, ValidSlice(slot, offset, count)
  PROVE  /\ SpanInBounds(SliceSpan(slot, offset, count))
         /\ SliceLane(offset) \in Nat /\ count \in Nat \ {0}
<1>1. /\ slot \in Nat /\ offset \in Nat /\ count \in Nat \ {0}
      /\ slot + SlotsFor(offset + count) <= SharedBufferSlots
  BY DEF ValidSlice, ValidPrefix
<1>2. /\ offset \div BurstLength \in Nat /\ SliceLane(offset) \in Nat
      /\ (offset \div BurstLength) + SlotsFor(SliceLane(offset) + count)
           = SlotsFor(offset + count)
  BY <1>1, SliceEnd
<1>3. SliceLane(offset) + count \in Nat \ {0} /\ offset + count \in Nat \ {0}
  BY <1>1, <1>2
<1>4. SlotsFor(SliceLane(offset) + count) \in Nat /\ SlotsFor(offset + count) \in Nat
  BY <1>3, SlotsForIsEnough
<1> DEFINE first == slot + offset \div BurstLength
<1>5. /\ first \in Nat
      /\ first + SlotsFor(SliceLane(offset) + count) <= SharedBufferSlots
  BY <1>1, <1>2, <1>4, Dimensions
<1>6. SliceSlot(slot, offset) = first
  BY DEF SliceSlot
<1> HIDE DEF first
<1>7. QED
  BY <1>1, <1>2, <1>3, <1>5, <1>6, PrefixSpanFits DEF SliceSpan

\* Lanes of a valid operation at a valid address of an existing bank (validation.py).
LEMMA DramSpanFits ==
  ASSUME NEW c \in Channels, NEW b \in Banks, NEW i, ValidAddress(i), ValidOperation(i)
  PROVE  SpanInBounds(DramSpan(c, b, i))
<1>1. Lanes(i.size) \in Nat \ {0} /\ i.column \in Nat /\ i.column + Lanes(i.size) <= DramColumns
  BY LanesPositive, Dimensions DEF ValidAddress, ValidOperation
<1>2. DramRow(c, b, i.row) \in Space /\ Capacity(DramRow(c, b, i.row)) = DramColumns
  BY DEF Space, DramRow, Capacity, ValidAddress
<1>3. QED
  BY <1>1, <1>2 DEF SpanInBounds, DramSpan, Span

\* A Global Buffer span of an existing channel (validation.py).
LEMMA GlobalSpanFits ==
  ASSUME NEW c \in Channels, NEW i, ValidGlobalSpan(i), i.size # 0
  PROVE  SpanInBounds(GlobalSpan(c, i))
<1>1. /\ Lanes(i.size) \in Nat \ {0} /\ i.column \in Nat
      /\ i.column + Lanes(i.size) <= GlobalBufferColumns
  BY LanesPositive DEF ValidGlobalSpan
<1>2. GlobalBuffer(c) \in Space /\ Capacity(GlobalBuffer(c)) = GlobalBufferColumns
  BY DEF Space, GlobalBuffer, Capacity
<1>3. QED
  BY <1>1, <1>2 DEF SpanInBounds, GlobalSpan, Span

\* One register of an existing bank (validation.py).
LEMMA RegisterSpanFits ==
  ASSUME NEW c \in Channels, NEW b \in Banks, NEW i, ValidRegister(i)
  PROVE  SpanInBounds(RegisterSpan(c, b, i))
<1>1. i.register \in Nat /\ i.register + 1 <= AccumulatorSlots
  BY Dimensions DEF ValidRegister
<1>2. Accumulators(c, b) \in Space /\ Capacity(Accumulators(c, b)) = AccumulatorSlots
  BY DEF Space, Accumulators, Capacity
<1>3. QED
  BY <1>1, <1>2 DEF SpanInBounds, RegisterSpan, Span

\* The pairs of a bank-parallel kernel are pairs of an existing channel and banks.
LEMMA BankPairsExist ==
  ASSUME NEW i, ValidChannels(i.channels), NEW step \in {1, 2, 4}, NEW p \in BankPairs(i, step)
  PROVE  /\ p[1] \in Channels /\ p[2] \in Banks
         /\ \A j \in 0..(step - 1) : p[2] + j \in Banks
<1>1. PICK k \in 1..PairCount(i, step) : p = <<ChannelOf(i, step, k), BankOf(step, k)>>
  BY DEF BankPairs
<1>2. p[1] \in Channels /\ \A j \in 0..(step - 1) : p[2] + j \in Banks
  BY <1>1, PairsExist
<1>3. p[2] + 0 \in Banks
  <2>1. 0 \in 0..(step - 1)
    OBVIOUS
  <2>2. QED
    BY <1>2, <2>1
<1>4. p[2] \in Int
  <2>1. NumBanks \div step \in Nat \ {0} /\ PairCount(i, step) \in Nat /\ k - 1 \in Nat
    BY <1>1, Dimensions, PairsExist
  <2>2. (k - 1) % (NumBanks \div step) \in Nat
    BY <2>1
  <2>3. QED
    BY <1>1, <2>2 DEF BankOf, BankCount
<1>5. QED
  BY <1>2, <1>3, <1>4

(***************************************************************************)
(* A valid instruction the simulator accepts reads within the device: the  *)
(* slices _ReferenceContext reads from lane 0 of their first slot, and the *)
(* neighbours STORE_SLICE rereads, end inside the region validation        *)
(* counted in whole slots.                                                 *)
(***************************************************************************)
THEOREM SourcesFit ==
  ASSUME NEW i, ValidInstruction(i), Supported(i), NEW span \in ReadSpans(i)
  PROVE  SpanInBounds(span)
<1>1. CASE i.op \in {"WR_SBK", "WR_GB"}
  <2>1. ValidSlotSpan(i.slot, i.size) /\ span = SlotSpan(i.slot, i.size)
    BY <1>1 DEF ValidInstruction, BankMoves, BufferCopies, ResultReads, SlotFormulas, ReadSpans
  <2>2. QED
    BY <2>1, SlotSpanFits
<1>2. CASE i.op = "RD_SBK"
  <2>1. /\ i.channel \in Channels /\ i.bank \in Banks /\ ValidAddress(i) /\ ValidOperation(i)
        /\ span = DramSpan(i.channel, i.bank, i)
    BY <1>2 DEF ValidInstruction, BankMoves, BufferCopies, ResultReads, SlotFormulas, ReadSpans
  <2>2. QED
    BY <2>1, DramSpanFits
<1>3. CASE i.op \in BufferCopies
  <2>1. /\ i.bank \in Banks /\ ValidAddress(i) /\ ValidOperation(i) /\ ValidGlobalSpan(i)
        /\ \A k \in DOMAIN i.channels : i.channels[k] \in Channels
    BY <1>3 DEF ValidInstruction, BankMoves, BufferCopies, ResultReads, SlotFormulas,
         ValidChannels
  <2>2. PICK k \in DOMAIN i.channels :
          \/ span = DramSpan(i.channels[k], i.bank, i)
          \/ span = GlobalSpan(i.channels[k], i)
    BY <1>3 DEF ReadSpans, BufferCopies
  <2>3. i.channels[k] \in Channels /\ i.size # 0
    BY <2>1 DEF ValidOperation
  <2>4. QED
    BY <2>1, <2>2, <2>3, DramSpanFits, GlobalSpanFits
<1>4. CASE i.op = "EW_MUL"
  <2>1. ValidChannels(i.channels) /\ ValidAddress(i) /\ ValidOperation(i)
    BY <1>4 DEF ValidInstruction, BankMoves, BufferCopies, ResultReads, SlotFormulas
  <2>2. PICK p \in BankPairs(i, 4) :
          span \in {DramSpan(p[1], p[2], i), DramSpan(p[1], p[2] + 1, i)}
    BY <1>4 DEF ReadSpans, BanksPerGroup, BankMoves, BufferCopies
  <2>3. p[1] \in Channels /\ p[2] \in Banks /\ p[2] + 1 \in Banks
    BY <2>1, BankPairsExist
  <2>4. QED
    BY <2>1, <2>2, <2>3, DramSpanFits
<1>5. CASE i.op = "MAC_ABK"
  <2>1. /\ ValidChannels(i.channels) /\ ValidAddress(i) /\ ValidOperation(i)
        /\ ValidRegister(i)
        /\ i.source = "GLOBAL_BUFFER" => ValidGlobalSpan(i)
        /\ i.source # "GLOBAL_BUFFER" => i.source = "NEXT_BANK"
        /\ MacStep(i) \in {1, 2, 4} /\ i.size # 0
    BY <1>5 DEF ValidInstruction, BankMoves, BufferCopies, ResultReads, SlotFormulas,
         MacStep, ValidOperation
  <2>2. PICK p \in BankPairs(i, MacStep(i)) :
          span \in {DramSpan(p[1], p[2], i), MacRight(i, p[1], p[2]),
                    RegisterSpan(p[1], p[2], i)}
    BY <1>5 DEF ReadSpans, BankMoves, BufferCopies
  <2>3. /\ p[1] \in Channels /\ p[2] \in Banks
        /\ \A j \in 0..(MacStep(i) - 1) : p[2] + j \in Banks
    BY <2>1, BankPairsExist
  <2>4. ASSUME i.source # "GLOBAL_BUFFER" PROVE p[2] + 1 \in Banks
    <3>1. MacStep(i) = 2 /\ 1 \in 0..(2 - 1)
      BY <2>4 DEF MacStep
    <3>2. QED
      BY <2>3, <3>1
  <2>5. SpanInBounds(MacRight(i, p[1], p[2]))
    <3>1. CASE i.source = "GLOBAL_BUFFER"
      <4>1. SpanInBounds(GlobalSpan(p[1], i))
        BY <2>1, <2>3, <3>1, GlobalSpanFits
      <4>2. QED
        BY <3>1, <4>1 DEF MacRight
    <3>2. CASE i.source # "GLOBAL_BUFFER"
      <4>1. SpanInBounds(DramSpan(p[1], p[2] + 1, i))
        BY <2>1, <2>3, <2>4, <3>2, DramSpanFits
      <4>2. QED
        BY <3>2, <4>1 DEF MacRight
    <3>3. QED
      BY <3>1, <3>2
  <2>6. QED
    BY <2>1, <2>2, <2>3, <2>5, DramSpanFits, RegisterSpanFits
<1>6. CASE i.op = "ACC"
  <2>1. /\ ValidSlotSpan(i.source, i.size) /\ ValidSlotSpan(i.destination, i.size)
        /\ span \in {SlotSpan(i.destination, i.size), SlotSpan(i.source, i.size)}
    BY <1>6 DEF ValidInstruction, BankMoves, BufferCopies, ResultReads, SlotFormulas, ReadSpans
  <2>2. QED
    BY <2>1, SlotSpanFits
<1>7. CASE i.op = "READ_ACC"
  <2>1. ValidChannels(i.channels) /\ ValidRegister(i)
    BY <1>7 DEF ValidInstruction, BankMoves, BufferCopies, ResultReads, SlotFormulas
  <2>2. PICK p \in BankPairs(i, 1) : span = RegisterSpan(p[1], p[2], i)
    BY <1>7 DEF ReadSpans, BankMoves, BufferCopies
  <2>3. p[1] \in Channels /\ p[2] \in Banks
    BY <2>1, BankPairsExist
  <2>4. QED
    BY <2>1, <2>2, <2>3, RegisterSpanFits
<1>8. CASE i.op \in {"COPY", "STORE_SLICE"}
  <2>1. /\ ValidSlice(i.source, i.source_offset, i.count)
        /\ \/ span = SliceSpan(i.source, i.source_offset, i.count)
           \/ i.op = "STORE_SLICE" /\ span = TouchedSpan(i)
    BY <1>8 DEF ValidInstruction, BankMoves, BufferCopies, ResultReads, SlotFormulas, ReadSpans
  <2>2. ASSUME i.op = "STORE_SLICE" PROVE SpanInBounds(TouchedSpan(i))
    <3>1. ValidSlotSpan(SliceSlot(i.destination, i.destination_offset), TouchedSlots(i))
      BY <2>2, StoredSlotsFit DEF ValidSlotSpan
    <3>2. QED
      BY <3>1, SlotSpanFits DEF TouchedSpan
  <2>3. QED
    BY <2>1, <2>2, SliceSpanFits
<1>9. CASE i.op = "TRANSPOSE"
  <2>1. /\ ValidSlice(i.source, i.source_offset, i.rows * i.columns)
        /\ span = SliceSpan(i.source, i.source_offset, i.rows * i.columns)
    BY <1>9 DEF ValidInstruction, BankMoves, BufferCopies, ResultReads, SlotFormulas, ReadSpans
  <2>2. QED
    BY <2>1, SliceSpanFits
<1>10. ASSUME NEW slot, NEW count, ValidPrefix(slot, count)
       PROVE  SpanInBounds(ScalarSpan(slot, count))
  BY <1>10, PrefixSpanFits DEF ValidPrefix
<1>11. CASE i.op \in {"BROADCAST", "REDUCE_SUM", "RMS_SCALE", "ACTIVATION"}
  <2>1. \E count : ValidPrefix(i.source, count) /\ span = ScalarSpan(i.source, count)
    BY <1>11 DEF ValidInstruction, BankMoves, BufferCopies, ResultReads, SlotFormulas, ReadSpans
  <2>2. QED
    BY <1>10, <2>1
<1>12. CASE i.op = "SOFTMAX"
  <2>1. ValidPrefix(i.source, i.rows * i.width) /\ span = ScalarSpan(i.source, i.rows * i.width)
    BY <1>12 DEF ValidInstruction, BankMoves, BufferCopies, ResultReads, SlotFormulas, ReadSpans
  <2>2. QED
    BY <1>10, <2>1
<1>13. CASE i.op = "SCORES"
  <2>1. /\ ValidPrefix(i.source, i.count)
        /\ i.has_mask => ValidSlice(i.mask, i.mask_offset, i.count)
        /\ \/ span = ScalarSpan(i.source, i.count)
           \/ i.has_mask /\ span = SliceSpan(i.mask, i.mask_offset, i.count)
    BY <1>13 DEF ValidInstruction, BankMoves, BufferCopies, ResultReads, SlotFormulas, ReadSpans
  <2>2. QED
    BY <1>10, <2>1, SliceSpanFits
<1>14. CASE i.op = "ROPE"
  <2>1. /\ ValidPrefix(i.source, RopeCount(i)) /\ ValidPrefix(i.position, i.tokens)
        /\ ValidPrefix(i.table, i.positions * i.rotary)
        /\ span \in {ScalarSpan(i.source, RopeCount(i)), ScalarSpan(i.position, i.tokens),
                     ScalarSpan(i.table, i.positions * i.rotary)}
    BY <1>14 DEF ValidInstruction, BankMoves, BufferCopies, ResultReads, SlotFormulas, ReadSpans
  <2>2. QED
    BY <1>10, <2>1
<1>15. CASE i.op \in {"FILL", "INIT_ACC"}
  <2>1. ReadSpans(i) = {}
    BY <1>15 DEF ReadSpans, BufferCopies
  <2>2. QED
    BY <2>1
<1>16. i.op \in {"WR_SBK", "RD_SBK", "WR_GB", "EW_MUL", "MAC_ABK", "INIT_ACC", "ACC",
                 "STORE_SLICE"} \cup BufferCopies \cup Services
  BY DEF ValidInstruction, BankMoves, BufferCopies, ResultReads,
         SlotFormulas, Supported, Kernelless, Services
<1>17. QED
  BY <1>1, <1>2, <1>3, <1>4, <1>5, <1>6, <1>7, <1>8, <1>9, <1>11, <1>12, <1>13, <1>14, <1>15,
     <1>16 DEF Services

-----------------------------------------------------------------------------
(* What a kernel computes are scalars. *)

(* Every formula ends in the numeric policy's store (reference.py:418, 467, *)
(* 498): given stored scalars it returns one, or raises.                    *)
ServiceIsStored ==
  \A name, operands : \A k \in Nat \ {0} :
    operands \in Seq(Value) /\ operands # <<>> => Service(name, operands, k) \in Value

\* A set of naturals that is not empty has a least element.
LEMMA LeastNatural ==
  ASSUME NEW T, T \subseteq Nat, T # {}
  PROVE  \E m \in T : \A k \in T : m <= k
<1>1. PICK x : x \in T
  OBVIOUS
<1>2. x \in Nat
  BY <1>1
<1>3. PICK m \in T : \A k \in T : <<k, m>> \notin OpToRel(<, Nat)
  BY <1>1, <1>2, WFMin, NatLessThanWellFounded, Zenon
<1>4. \A k \in T : ~(k < m)
  BY <1>3, Zenon DEF OpToRel
<1> QED  BY <1>4

(* The partial sums of n terms, from a start value (the loops of MAC_ABK   *)
(* and REDUCE_SUM).                                                        *)
PartialSums(f, from, term, n) ==
  f = [k \in 0..n |-> IF k = 0 THEN from ELSE Add(f[k - 1], term[k])]

(***************************************************************************)
(* Partial sums exist for every number of terms: those of one term fewer   *)
(* are extended by one addition, so no least number of terms is without.   *)
(***************************************************************************)
LEMMA SumsExist ==
  ASSUME NEW from, NEW term, NEW n \in Nat
  PROVE  \E f : PartialSums(f, from, term, n)
<1> DEFINE Without == {m \in Nat : ~ \E f : PartialSums(f, from, term, m)}
<1>1. Without = {}
  <2> SUFFICES ASSUME Without # {} PROVE FALSE
    OBVIOUS
  <2>1. PICK m \in Without : \A k \in Without : m <= k
    <3>1. Without \subseteq Nat
      OBVIOUS
    <3> HIDE DEF Without
    <3> QED  BY <3>1, LeastNatural
  <2>2. m \in Nat /\ ~ \E f : PartialSums(f, from, term, m)
    OBVIOUS
  <2>3. m # 0
    <3> DEFINE f == [k \in 0..0 |-> from]
    <3>1. f = [k \in 0..0 |-> IF k = 0 THEN from ELSE Add(f[k - 1], term[k])]
      OBVIOUS
    <3> HIDE DEF f
    <3>2. PartialSums(f, from, term, 0)
      BY <3>1 DEF PartialSums
    <3> QED  BY <2>2, <3>2
  <2>4. m - 1 \in Nat /\ m - 1 \notin Without
    BY <2>1, <2>2, <2>3
  <2>5. PICK f : PartialSums(f, from, term, m - 1)
    BY <2>4
  <2> HIDE DEF Without
  <2>6. \A k \in 0..(m - 1) : f[k] = IF k = 0 THEN from ELSE Add(f[k - 1], term[k])
    BY <2>5 DEF PartialSums
  <2> DEFINE h == [k \in 0..m |-> IF k = m THEN Add(f[m - 1], term[m]) ELSE f[k]]
  <2>7. \A k \in 0..m : h[k] = IF k = m THEN Add(f[m - 1], term[m]) ELSE f[k]
    OBVIOUS
  <2>8. h = [k \in 0..m |-> h[k]]
    OBVIOUS
  <2> HIDE DEF h
  <2>9. ASSUME NEW k \in 0..m
        PROVE  h[k] = IF k = 0 THEN from ELSE Add(h[k - 1], term[k])
    <3>1. CASE k = 0
      BY <2>2, <2>3, <2>6, <2>7, <3>1
    <3>2. CASE k # 0 /\ k # m
      <4>1. k \in 0..(m - 1) /\ k - 1 \in 0..m /\ k - 1 # m
        BY <2>2, <3>2
      <4> QED  BY <2>6, <2>7, <3>2, <4>1
    <3>3. CASE k = m
      <4>1. k - 1 \in 0..m /\ k - 1 # m
        BY <2>2, <2>3, <3>3
      <4> QED  BY <2>3, <2>7, <3>3, <4>1
    <3> QED  BY <3>1, <3>2, <3>3
  <2>10. PartialSums(h, from, term, m)
    BY <2>8, <2>9 DEF PartialSums
  <2> QED  BY <2>2, <2>10
<1> QED  BY <1>1

\* The sum of stored scalars is a stored scalar (numeric.py:29, 77).
LEMMA SumsAreScalars ==
  ASSUME NEW from \in Value, NEW n \in Nat, NEW term, \A k \in 1..n : term[k] \in Value,
         NEW f, PartialSums(f, from, term, n)
  PROVE  f[n] \in Value
<1>1. \A k \in 0..n : f[k] = IF k = 0 THEN from ELSE Add(f[k - 1], term[k])
  BY DEF PartialSums
<1> DEFINE Other == {k \in 0..n : f[k] \notin Value}
<1>2. Other = {}
  <2> SUFFICES ASSUME Other # {} PROVE FALSE
    OBVIOUS
  <2>1. PICK m \in Other : \A k \in Other : m <= k
    <3>1. Other \subseteq Nat
      OBVIOUS
    <3> HIDE DEF Other
    <3> QED  BY <3>1, LeastNatural
  <2>2. m \in 0..n /\ f[m] \notin Value
    OBVIOUS
  <2>3. m # 0
    BY <1>1, <2>2
  <2>4. m - 1 \in 0..n /\ m \in 1..n /\ m - 1 \notin Other
    BY <2>1, <2>2, <2>3
  <2>5. f[m - 1] \in Value
    BY <2>4
  <2>6. f[m] = Add(f[m - 1], term[m])
    BY <1>1, <2>2, <2>3
  <2> QED  BY <2>2, <2>4, <2>5, <2>6, ScalarAssumption
<1>3. n \in 0..n
  OBVIOUS
<1> QED  BY <1>2, <1>3

\* Consecutive initialized cells hold a sequence of scalars (storage.py read).
LEMMA ContentsAreScalars ==
  ASSUME NEW mem \in Memory, NEW span, SpanInBounds(span), Initialized(mem, span)
  PROVE  /\ Contents(mem, span) \in Seq(Value) /\ Len(Contents(mem, span)) = span.count
         /\ span.count \in Nat \ {0}
         /\ \A k \in 1..span.count : Contents(mem, span)[k] \in Value
<1>1. span.count \in Nat \ {0} /\ span.start \in Nat
  BY DEF SpanInBounds
<1>2. ASSUME NEW k \in 1..span.count
      PROVE  mem[<<span.space, span.start + k - 1>>] \in Value
  <2>1. k - 1 \in 0..(span.count - 1) /\ span.start + (k - 1) = span.start + k - 1
    BY <1>1
  <2>2. <<span.space, span.start + (k - 1)>> \in Cells(span)
    BY <2>1 DEF Cells
  <2> DEFINE l == <<span.space, span.start + (k - 1)>>
  <2>3. l \in Location /\ mem[l] # Uninit
    BY <2>2, SpanIsPlaced DEF Initialized
  <2> HIDE DEF l
  <2>4. mem[l] \in Value
    BY <2>3 DEF Memory
  <2>5. QED
    BY <2>1, <2>4 DEF l
<1>3. Contents(mem, span) \in [1..span.count -> Value]
  BY <1>2 DEF Contents
<1>4. QED
  BY <1>1, <1>3

(* A slice is taken from the lanes that were read.                         *)
LEMMA SliceIsScalars ==
  ASSUME NEW mem \in Memory, NEW slot, NEW offset, NEW count, ValidSlice(slot, offset, count),
         Initialized(mem, SliceSpan(slot, offset, count))
  PROVE  /\ count \in Nat \ {0}
         /\ \A k \in 1..count : Slice(mem, slot, offset, count)[k] \in Value
<1> DEFINE span == SliceSpan(slot, offset, count)
           lane == SliceLane(offset)
<1>1. SpanInBounds(span) /\ lane \in Nat /\ count \in Nat \ {0}
  BY SliceSpanFits
<1>2. \A k \in 1..span.count : Contents(mem, span)[k] \in Value
  BY <1>1, ContentsAreScalars
<1>3. /\ span.count = lane + count
      /\ Slice(mem, slot, offset, count) = [k \in 1..count |-> Contents(mem, span)[lane + k]]
  BY DEF SliceSpan, ScalarSpan, Span, Slice, Scalars
<1> HIDE DEF span, lane
<1>4. \A k \in 1..count : lane + k \in 1..span.count
  BY <1>1, <1>3
<1>5. QED
  BY <1>1, <1>2, <1>3, <1>4

\* A value of whole slots: the scalars of a result and the zeros of its last slot.
LEMMA PaddedIsScalars ==
  ASSUME NEW values, values \in Seq(Value), values # <<>>
  PROVE  Padded(values) \in Seq(Value)
<1>1. Len(values) \in Nat \ {0} /\ \A k \in 1..Len(values) : values[k] \in Value
  BY EmptySeq
<1>2. Lanes(SlotsFor(Len(values))) \in Nat
  BY <1>1, SlotsForIsEnough, LanesPositive
<1> DEFINE n == Lanes(SlotsFor(Len(values)))
<1>3. Padded(values) = [k \in 1..n |-> IF k <= Len(values) THEN values[k] ELSE Zero]
  BY DEF Padded
<1> HIDE DEF n
<1>4. \A k \in 1..n : (IF k <= Len(values) THEN values[k] ELSE Zero) \in Value
  BY <1>1, <1>2, ScalarAssumption DEF n
<1>5. Padded(values) \in [1..n -> Value]
  BY <1>3, <1>4
<1>6. QED
  BY <1>2, <1>5 DEF n

\* REDUCE_SUM (reference.py:489) sums from the stored zero.
LEMMA RunningSumIsScalar ==
  ASSUME NEW values, values \in Seq(Value)
  PROVE  RunningSum(values) \in Value
<1> DEFINE n == Len(values)
           f == CHOOSE g : PartialSums(g, Zero, values, n)
<1>1. n \in Nat /\ \A k \in 1..n : values[k] \in Value
  OBVIOUS
<1>2. RunningSum(values) = f[n]
  BY DEF RunningSum, PartialSums
<1>3. PartialSums(f, Zero, values, n)
  <2>1. \E g : PartialSums(g, Zero, values, n)
    BY <1>1, SumsExist
  <2>2. QED
    BY <2>1
<1> HIDE DEF f, n
<1>4. QED
  BY <1>1, <1>2, <1>3, SumsAreScalars, ScalarAssumption

\* MAC_ABK (reference.py:616) sums products onto the register's scalar.
LEMMA MacTotalIsScalar ==
  ASSUME NEW mem \in Memory, NEW i, i.op = "MAC_ABK", ValidInstruction(i), Readable(i, mem),
         NEW p \in BankPairs(i, MacStep(i))
  PROVE  MacTotal(i, mem, p[1], p[2]) \in Value
<1> DEFINE c == p[1]
           b == p[2]
           n == Lanes(i.size)
           from == mem[<<Accumulators(c, b), i.register>>]
           left == Contents(mem, DramSpan(c, b, i))
           right == Contents(mem, MacRight(i, c, b))
           term == [k \in 1..n |-> Multiply(left[k], right[k])]
           f == CHOOSE g : PartialSums(g, from, term, n)
<1>1. {DramSpan(c, b, i), MacRight(i, c, b), RegisterSpan(c, b, i)} \subseteq ReadSpans(i)
  BY DEF ReadSpans, BankMoves, BufferCopies
<1>2. Supported(i)
  BY DEF Supported, Kernelless, SlotFormulas, ResultReads
<1>3. ASSUME NEW span \in {DramSpan(c, b, i), MacRight(i, c, b), RegisterSpan(c, b, i)}
      PROVE  SpanInBounds(span) /\ Initialized(mem, span)
  BY <1>1, <1>2, SourcesFit DEF Readable
<1>4. \A k \in 1..n : left[k] \in Value
  <2>1. \A k \in 1..DramSpan(c, b, i).count : left[k] \in Value
    BY <1>3, ContentsAreScalars
  <2>2. QED
    BY <2>1 DEF DramSpan, Span
<1>5. \A k \in 1..n : right[k] \in Value
  <2>1. \A k \in 1..MacRight(i, c, b).count : right[k] \in Value
    BY <1>3, ContentsAreScalars
  <2>2. MacRight(i, c, b).count = n
    BY DEF MacRight, GlobalSpan, DramSpan, Span
  <2>3. QED
    BY <2>1, <2>2
<1>6. from \in Value
  <2> DEFINE span == RegisterSpan(c, b, i)
  <2>1. span.count = 1 /\ span.space = Accumulators(c, b) /\ span.start = i.register
    BY DEF RegisterSpan, Span
  <2>2. \A k \in 1..span.count : Contents(mem, span)[k] \in Value
    BY <1>3, ContentsAreScalars
  <2>3. i.register + 1 - 1 = i.register
    BY DEF ValidInstruction, ValidRegister, BankMoves, BufferCopies, ResultReads, SlotFormulas
  <2> HIDE DEF span
  <2>4. Contents(mem, span)[1] = mem[<<span.space, span.start + 1 - 1>>]
    BY <2>1 DEF Contents
  <2>5. QED
    BY <2>1, <2>2, <2>3, <2>4
<1>7. n \in Nat
  BY LanesPositive DEF ValidInstruction, ValidOperation, BankMoves, BufferCopies, ResultReads,
     SlotFormulas
<1> HIDE DEF c, b
<1>8. MacTotal(i, mem, c, b) = f[n]
  <2>1. \A g : g = [k \in 0..n |-> IF k = 0 THEN from
                                   ELSE Add(g[k - 1], Multiply(left[k], right[k]))]
                 <=> PartialSums(g, from, term, n)
    <3>1. \A k \in 0..n : k # 0 => term[k] = Multiply(left[k], right[k])
      BY <1>7
    <3> HIDE DEF term, left, right, from
    <3>2. \A g : [k \in 0..n |-> IF k = 0 THEN from
                                 ELSE Add(g[k - 1], Multiply(left[k], right[k]))]
                 = [k \in 0..n |-> IF k = 0 THEN from ELSE Add(g[k - 1], term[k])]
      BY <3>1
    <3>3. QED
      BY <3>2 DEF PartialSums
  <2> DEFINE T(g) == g = [k \in 0..n |-> IF k = 0 THEN from
                                   ELSE Add(g[k - 1], Multiply(left[k], right[k]))]
  <2>2. MacTotal(i, mem, c, b) = (CHOOSE g : T(g))[n]
    BY DEF MacTotal
  <2>3. \A g : T(g) <=> PartialSums(g, from, term, n)
    BY <2>1
  <2> HIDE DEF T, term, from, left, right, n
  <2>4. (CHOOSE g : T(g)) = (CHOOSE g : PartialSums(g, from, term, n))
    BY <2>3
  <2>5. QED
    BY <2>2, <2>4
<1>9. PartialSums(f, from, term, n)
  <2> HIDE DEF term, from, n
  <2>1. \E g : PartialSums(g, from, term, n)
    BY <1>7, SumsExist
  <2>2. QED
    BY <2>1
<1>10. \A k \in 1..n : term[k] \in Value
  BY <1>4, <1>5, ScalarAssumption
<1> HIDE DEF f, term, from, n
<1>11. QED
  BY <1>6, <1>7, <1>8, <1>9, <1>10, SumsAreScalars DEF c, b

\* Column by column through a matrix: each index is one of the matrix's (reference.py TRANSPOSE).
LEMMA TransposedIndex ==
  ASSUME NEW rows \in Nat \ {0}, NEW columns \in Nat \ {0}, NEW k \in 1..(rows * columns)
  PROVE  ((k - 1) % rows) * columns + (k - 1) \div rows + 1 \in 1..(rows * columns)
<1>1. rows * columns \in Nat /\ k - 1 \in Nat /\ k - 1 < columns * rows
  OBVIOUS
<1>2. (k - 1) \div rows \in Nat /\ (k - 1) \div rows < columns
  BY <1>1, QuotientBelow
<1>3. (k - 1) % rows \in 0..(rows - 1)
  BY <1>1
<1>4. \A r \in 0..(rows - 1) : r * columns \in Nat /\ r * columns + columns <= rows * columns
  <2>1. ASSUME NEW r \in 0..(rows - 1)
        PROVE  r * columns \in Nat /\ r * columns + columns <= rows * columns
    <3>1. (r + 1) * columns = r * columns + columns /\ r * columns \in Nat
      OBVIOUS
    <3>2. \A x, y \in Nat : x <= y => x * columns <= y * columns
      OBVIOUS
    <3>3. QED
      BY <3>1, <3>2
  <2>2. QED
    BY <2>1
<1>5. QED
  BY <1>1, <1>2, <1>3, <1>4

\* A row of a matrix is within it (reference.py SOFTMAX).
LEMMA RowIndex ==
  ASSUME NEW rows \in Nat \ {0}, NEW width \in Nat \ {0}, NEW k \in 1..(rows * width)
  PROVE  /\ ((k - 1) % width) + 1 \in Nat \ {0}
         /\ \A j \in 1..width : ((k - 1) \div width) * width + j \in 1..(rows * width)
<1>1. rows * width \in Nat /\ k - 1 \in Nat /\ k - 1 < rows * width
  OBVIOUS
<1>2. (k - 1) \div width \in Nat /\ (k - 1) \div width < rows
  BY <1>1, QuotientBelow
<1>3. ASSUME NEW q \in Nat, q < rows
      PROVE  q * width \in Nat /\ q * width + width <= rows * width
  <2>1. (q + 1) * width = q * width + width /\ q * width \in Nat
    OBVIOUS
  <2>2. \A x, y \in Nat : x <= y => x * width <= y * width
    OBVIOUS
  <2>3. QED
    BY <1>3, <2>1, <2>2
<1>4. (k - 1) % width \in Nat
  BY <1>1
<1>5. QED
  BY <1>1, <1>2, <1>3, <1>4

\* A source of a service that is a prefix of the Shared Buffer (_ReferenceContext.read).
LEMMA PrefixIsScalars ==
  ASSUME NEW mem \in Memory, NEW slot, NEW count, ValidPrefix(slot, count),
         Initialized(mem, ScalarSpan(slot, count))
  PROVE  /\ count \in Nat \ {0}
         /\ Scalars(mem, slot, count) \in Seq(Value) /\ Len(Scalars(mem, slot, count)) = count
         /\ \A k \in 1..count : Scalars(mem, slot, count)[k] \in Value
<1>1. SpanInBounds(ScalarSpan(slot, count)) /\ count \in Nat \ {0}
  BY PrefixSpanFits DEF ValidPrefix
<1>2. ScalarSpan(slot, count).count = count
  BY DEF ScalarSpan, Span
<1>3. QED
  BY <1>1, <1>2, ContentsAreScalars DEF Scalars

(* A result given scalar by scalar. *)
LEMMA ScalarByScalar ==
  ASSUME NEW s, NEW n \in Nat \ {0}, s = [k \in 1..n |-> s[k]], \A k \in 1..n : s[k] \in Value
  PROVE  s \in Seq(Value) /\ s # <<>>
<1>1. s \in [1..n -> Value]
  OBVIOUS
<1>2. QED
  BY <1>1

\* A formula applied to one stored scalar (the element-wise services).
LEMMA OneScalarStored ==
  ASSUME ServiceIsStored, NEW name, NEW x \in Value
  PROVE  Service(name, <<x>>, 1) \in Value
<1>1. <<x>> \in Seq(Value) /\ <<x>> # <<>> /\ 1 \in Nat \ {0}
  OBVIOUS
<1>2. QED
  BY <1>1 DEF ServiceIsStored

(* The masked and scaled score of one key. *)
LEMMA ScoreIsScalar ==
  ASSUME ServiceIsStored, NEW mem \in Memory, NEW i, i.op = "SCORES", ValidInstruction(i),
         Readable(i, mem), NEW k \in 1..i.count
  PROVE  Score(i, mem, k) \in Value
<1>1. /\ ValidPrefix(i.source, i.count) /\ i.has_mask \in BOOLEAN
      /\ i.has_mask => ValidSlice(i.mask, i.mask_offset, i.count)
  BY DEF ValidInstruction, BankMoves, BufferCopies, ResultReads, SlotFormulas
<1>2. /\ Initialized(mem, ScalarSpan(i.source, i.count))
      /\ i.has_mask => Initialized(mem, SliceSpan(i.mask, i.mask_offset, i.count))
  BY DEF Readable, ReadSpans, BankMoves, BufferCopies
<1> DEFINE score == Scalars(mem, i.source, i.count)[k]
           mask == Slice(mem, i.mask, i.mask_offset, i.count)[k]
           scaled == Service("SCALE", <<score>>, 1)
<1>3. score \in Value
  BY <1>1, <1>2, PrefixIsScalars
<1>4. i.has_mask => mask \in Value
  BY <1>1, <1>2, SliceIsScalars
<1>5. scaled \in Value
  BY <1>3, OneScalarStored
<1>6. Score(i, mem, k) = IF i.limit < k - 1 \/ (i.has_mask /\ mask = Masked) THEN Masked
                         ELSE IF i.has_mask THEN Add(scaled, mask) ELSE scaled
  BY DEF Score
<1> HIDE DEF score, mask, scaled
<1>7. i.has_mask => Add(scaled, mask) \in Value
  BY <1>4, <1>5, ScalarAssumption
<1>8. QED
  BY <1>5, <1>6, <1>7, ScalarAssumption

(* Every service computes at least one scalar, and only scalars. *)
LEMMA ResultIsScalars ==
  ASSUME ServiceIsStored, NEW mem \in Memory, NEW i, i.op \in Services, ValidInstruction(i),
         Readable(i, mem)
  PROVE  Result(i, mem) \in Seq(Value) /\ Result(i, mem) # <<>>
<1>1. CASE i.op = "READ_ACC"
  <2>1. ValidChannels(i.channels) /\ ValidRegister(i)
    BY <1>1 DEF ValidInstruction, BankMoves, BufferCopies, ResultReads, SlotFormulas
  <2>2. PairCount(i, 1) \in Nat \ {0}
    BY <2>1, PairsExist
  <2>3. ASSUME NEW k \in 1..PairCount(i, 1)
        PROVE  mem[<<Accumulators(ChannelOf(i, 1, k), BankOf(1, k)), i.register>>] \in Value
    <3> DEFINE p == <<ChannelOf(i, 1, k), BankOf(1, k)>>
               span == RegisterSpan(p[1], p[2], i)
    <3>1. p \in BankPairs(i, 1)
      BY DEF BankPairs
    <3>2. span \in ReadSpans(i)
      BY <1>1, <3>1 DEF ReadSpans, BankMoves, BufferCopies
    <3>3. p[1] \in Channels /\ p[2] \in Banks
      BY <2>1, <3>1, BankPairsExist
    <3>4. SpanInBounds(span) /\ Initialized(mem, span)
      BY <2>1, <3>2, <3>3, RegisterSpanFits DEF Readable
    <3>5. /\ span.count = 1 /\ span.start = i.register
          /\ span.space = Accumulators(ChannelOf(i, 1, k), BankOf(1, k))
      BY DEF RegisterSpan, Span
    <3>6. i.register + 1 - 1 = i.register
      BY <2>1 DEF ValidRegister
    <3> HIDE DEF span
    <3>7. Contents(mem, span)[1] \in Value
      BY <3>4, <3>5, ContentsAreScalars
    <3>8. Contents(mem, span)[1] = mem[<<span.space, span.start + 1 - 1>>]
      BY <3>5 DEF Contents
    <3>9. QED
      BY <3>5, <3>6, <3>7, <3>8
  <2>4. Result(i, mem) = [k \in 1..PairCount(i, 1) |->
           mem[<<Accumulators(ChannelOf(i, 1, k), BankOf(1, k)), i.register>>]]
    BY <1>1 DEF Result
  <2>5. QED
    BY <2>2, <2>3, <2>4, ScalarByScalar
<1>2. CASE i.op = "COPY"
  <2>1. /\ ValidSlice(i.source, i.source_offset, i.count) /\ i.destination_count \in Nat \ {0}
        /\ Initialized(mem, SliceSpan(i.source, i.source_offset, i.count))
    BY <1>2 DEF ValidInstruction, BankMoves, BufferCopies, ResultReads, SlotFormulas,
         ValidPrefix, Readable, ReadSpans
  <2> DEFINE slice == Slice(mem, i.source, i.source_offset, i.count)
  <2>2. i.count \in Nat \ {0} /\ \A k \in 1..i.count : slice[k] \in Value
    BY <2>1, SliceIsScalars
  <2>3. Result(i, mem) = [k \in 1..i.destination_count |->
                            IF k <= i.count THEN slice[k] ELSE Zero]
    BY <1>2 DEF Result
  <2> HIDE DEF slice
  <2>4. \A k \in 1..i.destination_count : (IF k <= i.count THEN slice[k] ELSE Zero) \in Value
    BY <2>1, <2>2, ScalarAssumption
  <2>5. QED
    BY <2>1, <2>3, <2>4, ScalarByScalar
<1>3. CASE i.op = "TRANSPOSE"
  <2> DEFINE n == i.rows * i.columns
             slice == Slice(mem, i.source, i.source_offset, n)
             At(k) == ((k - 1) % i.rows) * i.columns + (k - 1) \div i.rows + 1
  <2>1. /\ i.rows \in Nat \ {0} /\ i.columns \in Nat \ {0}
        /\ ValidSlice(i.source, i.source_offset, n)
        /\ Initialized(mem, SliceSpan(i.source, i.source_offset, n))
    BY <1>3 DEF ValidInstruction, BankMoves, BufferCopies, ResultReads, SlotFormulas,
         Readable, ReadSpans
  <2>2. n \in Nat \ {0} /\ \A k \in 1..n : slice[k] \in Value
    BY <2>1, SliceIsScalars
  <2>3. Result(i, mem) = [k \in 1..n |-> slice[At(k)]]
    BY <1>3 DEF Result
  <2>4. \A k \in 1..n : At(k) \in 1..n
    BY <2>1, TransposedIndex
  <2> HIDE DEF slice, n, At
  <2>5. QED
    BY <2>2, <2>3, <2>4, ScalarByScalar
<1>4. CASE i.op = "FILL"
  <2>1. i.value \in Value /\ i.count \in Nat \ {0}
    BY <1>4 DEF ValidInstruction, BankMoves, BufferCopies, ResultReads, SlotFormulas, ValidPrefix
  <2>2. Result(i, mem) = [k \in 1..i.count |-> i.value]
    BY <1>4 DEF Result
  <2>3. QED
    BY <2>1, <2>2, ScalarByScalar
<1>5. CASE i.op = "BROADCAST"
  <2>1. /\ i.count \in Nat \ {0} /\ ValidPrefix(i.source, 1)
        /\ Initialized(mem, ScalarSpan(i.source, 1))
    BY <1>5 DEF ValidInstruction, BankMoves, BufferCopies, ResultReads, SlotFormulas,
         Readable, ReadSpans
  <2>2. Scalars(mem, i.source, 1)[1] \in Value
    BY <2>1, PrefixIsScalars
  <2>3. Result(i, mem) = [k \in 1..i.count |-> Scalars(mem, i.source, 1)[1]]
    BY <1>5 DEF Result
  <2>4. QED
    BY <2>1, <2>2, <2>3, ScalarByScalar
<1>6. CASE i.op = "REDUCE_SUM"
  <2>1. ValidPrefix(i.source, i.count) /\ Initialized(mem, ScalarSpan(i.source, i.count))
    BY <1>6 DEF ValidInstruction, BankMoves, BufferCopies, ResultReads, SlotFormulas,
         Readable, ReadSpans
  <2>2. RunningSum(Scalars(mem, i.source, i.count)) \in Value
    BY <2>1, PrefixIsScalars, RunningSumIsScalar
  <2>3. Result(i, mem) = <<RunningSum(Scalars(mem, i.source, i.count))>>
    BY <1>6 DEF Result
  <2>4. QED
    BY <2>2, <2>3
<1>7. CASE i.op = "RMS_SCALE"
  <2>1. ValidPrefix(i.source, 1) /\ Initialized(mem, ScalarSpan(i.source, 1))
    BY <1>7 DEF ValidInstruction, BankMoves, BufferCopies, ResultReads, SlotFormulas,
         Readable, ReadSpans
  <2> DEFINE source == Scalars(mem, i.source, 1)
  <2>2. source \in Seq(Value) /\ Len(source) = 1
    BY <2>1, PrefixIsScalars
  <2>3. Result(i, mem) = <<Service("RMS_SCALE", source, 1)>>
    BY <1>7 DEF Result
  <2> HIDE DEF source
  <2>4. Service("RMS_SCALE", source, 1) \in Value
    BY <2>2 DEF ServiceIsStored
  <2>5. QED
    BY <2>3, <2>4
<1>8. CASE i.op = "ACTIVATION"
  <2>1. ValidPrefix(i.source, i.count) /\ Initialized(mem, ScalarSpan(i.source, i.count))
    BY <1>8 DEF ValidInstruction, BankMoves, BufferCopies, ResultReads, SlotFormulas,
         Readable, ReadSpans
  <2>2. /\ i.count \in Nat \ {0}
        /\ \A k \in 1..i.count : Scalars(mem, i.source, i.count)[k] \in Value
    BY <2>1, PrefixIsScalars
  <2>3. Result(i, mem) = [k \in 1..i.count |->
           Service("ACTIVATION", <<Scalars(mem, i.source, i.count)[k]>>, 1)]
    BY <1>8 DEF Result
  <2>4. \A k \in 1..i.count :
          Service("ACTIVATION", <<Scalars(mem, i.source, i.count)[k]>>, 1) \in Value
    BY <2>2, OneScalarStored
  <2>5. QED
    BY <2>2, <2>3, <2>4, ScalarByScalar
<1>9. CASE i.op = "SOFTMAX"
  <2> DEFINE n == i.rows * i.width
             source == Scalars(mem, i.source, n)
             row(k) == [j \in 1..i.width |-> source[((k - 1) \div i.width) * i.width + j]]
             at(k) == ((k - 1) % i.width) + 1
  <2>1. /\ i.rows \in Nat \ {0} /\ i.width \in Nat \ {0} /\ ValidPrefix(i.source, n)
        /\ Initialized(mem, ScalarSpan(i.source, n))
    BY <1>9 DEF ValidInstruction, BankMoves, BufferCopies, ResultReads, SlotFormulas,
         Readable, ReadSpans
  <2>2. n \in Nat \ {0} /\ \A k \in 1..n : source[k] \in Value
    BY <2>1, PrefixIsScalars
  <2>3. Result(i, mem) = [k \in 1..n |-> Service("SOFTMAX", row(k), at(k))]
    BY <1>9 DEF Result
  <2>4. ASSUME NEW k \in 1..n
        PROVE  /\ at(k) \in Nat \ {0}
               /\ \A j \in 1..i.width : ((k - 1) \div i.width) * i.width + j \in 1..n
    BY <2>1, RowIndex
  <2> HIDE DEF source, n
  <2>5. ASSUME NEW k \in 1..n
        PROVE  Service("SOFTMAX", row(k), at(k)) \in Value
    <3>1. row(k) \in Seq(Value) /\ row(k) # <<>>
      <4>1. \A j \in 1..i.width : source[((k - 1) \div i.width) * i.width + j] \in Value
        BY <2>2, <2>4
      <4>2. QED
        BY <2>1, <4>1, ScalarByScalar
    <3>2. at(k) \in Nat \ {0}
      BY <2>4
    <3> HIDE DEF row, at
    <3>3. QED
      BY <3>1, <3>2 DEF ServiceIsStored
  <2> HIDE DEF row, at
  <2>6. QED
    BY <2>2, <2>3, <2>5, ScalarByScalar
<1>10. CASE i.op = "SCORES"
  <2>1. i.count \in Nat \ {0}
    BY <1>10 DEF ValidInstruction, BankMoves, BufferCopies, ResultReads, SlotFormulas, ValidPrefix
  <2>2. Result(i, mem) = [k \in 1..i.count |-> Score(i, mem, k)]
    BY <1>10 DEF Result
  <2>3. \A k \in 1..i.count : Score(i, mem, k) \in Value
    BY <1>10, ScoreIsScalar
  <2>4. QED
    BY <2>1, <2>2, <2>3, ScalarByScalar
<1>11. CASE i.op = "ROPE"
  <2> DEFINE source == Scalars(mem, i.source, RopeCount(i))
             position == Scalars(mem, i.position, i.tokens)
             table == Scalars(mem, i.table, i.positions * i.rotary)
             all == source \o position \o table
  <2>1. /\ ValidPrefix(i.source, RopeCount(i)) /\ ValidPrefix(i.position, i.tokens)
        /\ ValidPrefix(i.table, i.positions * i.rotary)
    BY <1>11 DEF ValidInstruction, BankMoves, BufferCopies, ResultReads, SlotFormulas
  <2>2. /\ Initialized(mem, ScalarSpan(i.source, RopeCount(i)))
        /\ Initialized(mem, ScalarSpan(i.position, i.tokens))
        /\ Initialized(mem, ScalarSpan(i.table, i.positions * i.rotary))
    BY <1>11 DEF Readable, ReadSpans, BankMoves, BufferCopies
  <2>3. /\ RopeCount(i) \in Nat \ {0} /\ source \in Seq(Value) /\ Len(source) = RopeCount(i)
    BY <2>1, <2>2, PrefixIsScalars
  <2>4. position \in Seq(Value)
    BY <2>1, <2>2, PrefixIsScalars
  <2>5. table \in Seq(Value)
    BY <2>1, <2>2, PrefixIsScalars
  <2>6. Result(i, mem) = [k \in 1..RopeCount(i) |-> Service("ROPE", all, k)]
    BY <1>11 DEF Result
  <2> HIDE DEF source, position, table
  <2>7. source \o position \in Seq(Value) /\ Len(source \o position) # 0
    BY <2>3, <2>4, ConcatProperties
  <2>8. all \in Seq(Value) /\ Len(all) # 0
    BY <2>5, <2>7, ConcatProperties
  <2> HIDE DEF all
  <2>9. \A k \in 1..RopeCount(i) : Service("ROPE", all, k) \in Value
    BY <2>3, <2>8 DEF ServiceIsStored
  <2>10. QED
    BY <2>3, <2>6, <2>9, ScalarByScalar
<1>12. QED
  BY <1>1, <1>2, <1>3, <1>4, <1>5, <1>6, <1>7, <1>8, <1>9, <1>10, <1>11 DEF Services

(* Whole slots rewritten by STORE_SLICE: the slice and its neighbours.     *)
LEMMA StoredIsScalars ==
  ASSUME NEW mem \in Memory, NEW i, i.op = "STORE_SLICE", ValidInstruction(i), Readable(i, mem)
  PROVE  Stored(i, mem) \in Seq(Value) /\ Stored(i, mem) # <<>>
<1> DEFINE span == TouchedSpan(i)
           n == Lanes(TouchedSlots(i))
           lane == SliceLane(i.destination_offset)
           slice == Slice(mem, i.source, i.source_offset, i.count)
           kept == Contents(mem, span)
<1>1. /\ ValidSlice(i.source, i.source_offset, i.count)
      /\ Initialized(mem, SliceSpan(i.source, i.source_offset, i.count))
      /\ Initialized(mem, span) /\ span \in ReadSpans(i)
  BY DEF ValidInstruction, BankMoves, BufferCopies, ResultReads, SlotFormulas,
     Readable, ReadSpans
<1>2. /\ i.count \in Nat \ {0} /\ \A k \in 1..i.count : slice[k] \in Value
  BY <1>1, SliceIsScalars
<1>3. Supported(i)
  BY DEF Supported, Kernelless, SlotFormulas, ResultReads
<1>4. span.count = n
  BY DEF TouchedSpan, SlotSpan, ScalarSpan, Span
<1>5. n \in Nat \ {0} /\ \A k \in 1..n : kept[k] \in Value
  <2>1. SpanInBounds(span)
    BY <1>1, <1>3, SourcesFit
  <2> HIDE DEF span, n
  <2>2. QED
    BY <1>1, <1>4, <2>1, ContentsAreScalars
<1>6. Stored(i, mem) = [k \in 1..n |-> IF k - lane \in 1..i.count THEN slice[k - lane]
                                       ELSE kept[k]]
  BY DEF Stored
<1> HIDE DEF n, slice, kept, lane
<1>7. \A k \in 1..n : (IF k - lane \in 1..i.count THEN slice[k - lane] ELSE kept[k]) \in Value
  BY <1>2, <1>5
<1>8. QED
  BY <1>5, <1>6, <1>7, ScalarByScalar

(***************************************************************************)
(* The effects of an instruction that can be prepared hold stored scalars  *)
(* and start at a cell: nothing uninitialized is ever written, not as a    *)
(* neighbour kept by STORE_SLICE, a lane of padding or a masked score.     *)
(***************************************************************************)
THEOREM KernelsStoreScalars ==
  ASSUME ServiceIsStored, NEW mem \in Memory, NEW i, ValidInstruction(i), Supported(i),
         Readable(i, mem)
  PROVE  IsEffectTuple(ProposedEffects(i, mem))
<1> DEFINE es == ProposedEffects(i, mem)
<1>1. ASSUME NEW span \in ReadSpans(i)
      PROVE  /\ Contents(mem, span) \in Seq(Value)
             /\ \A k \in 1..span.count : Contents(mem, span)[k] \in Value
  BY <1>1, SourcesFit, ContentsAreScalars DEF Readable
<1>2. ASSUME NEW slot \in Nat, NEW values \in Seq(Value)
      PROVE  IsEffect(SharedEffect(slot, values))
  <2>1. SlotLane(slot) \in Nat
    BY Dimensions DEF SlotLane
  <2>2. QED
    BY <2>1 DEF IsEffect, SharedEffect, Effect
<1>3. ASSUME NEW space, NEW start \in Nat, NEW values \in Seq(Value)
      PROVE  IsEffect(Effect(space, start, values))
  BY DEF IsEffect, Effect
<1>4. ASSUME NEW e, IsEffect(e) PROVE \A k \in DOMAIN <<e>> : IsEffect(<<e>>[k])
  BY <1>4
<1>5. ASSUME NEW space, NEW start \in Nat, NEW x \in Value
      PROVE  IsEffect(Effect(space, start, <<x>>))
  <2>1. <<x>> \in Seq(Value)
    OBVIOUS
  <2>2. QED
    BY <1>3, <2>1
<1>6. \A k \in DOMAIN es : IsEffect(es[k])
  <2>1. CASE i.op = "WR_SBK"
    <3>1. i.column \in Nat /\ SlotSpan(i.slot, i.size) \in ReadSpans(i)
      BY <2>1, Dimensions DEF ValidInstruction, BankMoves, BufferCopies, ResultReads, SlotFormulas,
         ReadSpans, ValidAddress
    <3>2. es = <<Effect(DramRow(i.channel, i.bank, i.row), i.column,
                        Contents(mem, SlotSpan(i.slot, i.size)))>>
      BY <2>1 DEF ProposedEffects
    <3>3. QED
      BY <1>1, <1>3, <1>4, <3>1, <3>2
  <2>2. CASE i.op = "RD_SBK"
    <3>1. i.slot \in Nat /\ DramSpan(i.channel, i.bank, i) \in ReadSpans(i)
      BY <2>2 DEF ValidInstruction, BankMoves, BufferCopies, ResultReads, SlotFormulas,
         ReadSpans, ValidSlotSpan
    <3>2. es = <<SharedEffect(i.slot, Contents(mem, DramSpan(i.channel, i.bank, i)))>>
      BY <2>2 DEF ProposedEffects
    <3>3. QED
      BY <1>1, <1>2, <1>4, <3>1, <3>2
  <2>3. CASE i.op = "WR_GB"
    <3>1. i.column \in Nat /\ SlotSpan(i.slot, i.size) \in ReadSpans(i)
      BY <2>3 DEF ValidInstruction, BankMoves, BufferCopies, ResultReads, SlotFormulas,
         ReadSpans, ValidGlobalSpan
    <3>2. es = [k \in DOMAIN i.channels |->
                  Effect(GlobalBuffer(i.channels[k]), i.column,
                         Contents(mem, SlotSpan(i.slot, i.size)))]
      BY <2>3 DEF ProposedEffects
    <3>3. QED
      BY <1>1, <1>3, <3>1, <3>2
  <2>4. CASE i.op = "COPY_BKGB"
    <3>1. /\ i.column \in Nat
          /\ \A k \in DOMAIN i.channels : DramSpan(i.channels[k], i.bank, i) \in ReadSpans(i)
      BY <2>4 DEF ValidInstruction, BankMoves, BufferCopies, ResultReads, SlotFormulas,
         ReadSpans, ValidGlobalSpan
    <3>2. es = [k \in DOMAIN i.channels |->
                  Effect(GlobalBuffer(i.channels[k]), i.column,
                         Contents(mem, DramSpan(i.channels[k], i.bank, i)))]
      BY <2>4 DEF ProposedEffects
    <3>3. QED
      BY <1>1, <1>3, <3>1, <3>2
  <2>5. CASE i.op = "COPY_GBBK"
    <3>1. /\ i.column \in Nat
          /\ \A k \in DOMAIN i.channels : GlobalSpan(i.channels[k], i) \in ReadSpans(i)
      BY <2>5 DEF ValidInstruction, BankMoves, BufferCopies, ResultReads, SlotFormulas,
         ReadSpans, ValidGlobalSpan
    <3>2. es = [k \in DOMAIN i.channels |->
                  Effect(DramRow(i.channels[k], i.bank, i.row), i.column,
                         Contents(mem, GlobalSpan(i.channels[k], i)))]
      BY <2>5 DEF ProposedEffects
    <3>3. QED
      BY <1>1, <1>3, <3>1, <3>2
  <2>6. CASE i.op = "EW_MUL"
    <3>1. i.column \in Nat /\ Lanes(i.size) \in Nat \ {0}
      BY <2>6, Dimensions, LanesPositive DEF ValidInstruction, BankMoves, BufferCopies, ResultReads, SlotFormulas,
         ValidAddress, ValidOperation
    <3> DEFINE c(k) == ChannelOf(i, BanksPerGroup, k)
               b(k) == BankOf(BanksPerGroup, k)
               left(k) == Contents(mem, DramSpan(c(k), b(k), i))
               right(k) == Contents(mem, DramSpan(c(k), b(k) + 1, i))
               product(k) == [j \in 1..Lanes(i.size) |-> Multiply(left(k)[j], right(k)[j])]
    <3>2. es = [k \in 1..PairCount(i, BanksPerGroup) |->
                  Effect(DramRow(c(k), b(k) + 2, i.row), i.column, product(k))]
      BY <2>6 DEF ProposedEffects
    <3>3. ASSUME NEW k \in 1..PairCount(i, BanksPerGroup)
          PROVE  product(k) \in Seq(Value)
      <4> DEFINE p == <<c(k), b(k)>>
      <4>1. p \in BankPairs(i, BanksPerGroup)
        BY DEF BankPairs
      <4>2. ReadSpans(i) = UNION {{DramSpan(q[1], q[2], i), DramSpan(q[1], q[2] + 1, i)}
                                    : q \in BankPairs(i, BanksPerGroup)}
        BY <2>6 DEF ReadSpans, BankMoves, BufferCopies
      <4>3. {DramSpan(p[1], p[2], i), DramSpan(p[1], p[2] + 1, i)} \subseteq ReadSpans(i)
        <5> HIDE DEF p
        <5>1. QED
          BY <4>1, <4>2
      <4>4. /\ DramSpan(p[1], p[2], i) \in ReadSpans(i)
            /\ DramSpan(p[1], p[2] + 1, i) \in ReadSpans(i)
            /\ DramSpan(p[1], p[2], i).count = Lanes(i.size)
            /\ DramSpan(p[1], p[2] + 1, i).count = Lanes(i.size)
        BY <4>3 DEF DramSpan, Span
      <4>5. /\ left(k) = Contents(mem, DramSpan(p[1], p[2], i))
            /\ right(k) = Contents(mem, DramSpan(p[1], p[2] + 1, i))
        OBVIOUS
      <4> HIDE DEF left, right, p
      <4>6. \A j \in 1..Lanes(i.size) : left(k)[j] \in Value /\ right(k)[j] \in Value
        BY <1>1, <4>4, <4>5
      <4>7. \A j \in 1..Lanes(i.size) : Multiply(left(k)[j], right(k)[j]) \in Value
        BY <4>6, ScalarAssumption
      <4>8. QED
        BY <3>1, <4>7, ScalarByScalar
    <3> HIDE DEF product
    <3>4. QED
      BY <1>3, <3>1, <3>2, <3>3
  <2>7. CASE i.op = "MAC_ABK"
    <3>1. i.register \in Nat
      BY <2>7, Dimensions DEF ValidInstruction, BankMoves, BufferCopies, ResultReads, SlotFormulas,
         ValidRegister
    <3> DEFINE c(k) == ChannelOf(i, MacStep(i), k)
               b(k) == BankOf(MacStep(i), k)
    <3>2. es = [k \in 1..PairCount(i, MacStep(i)) |->
                  Effect(Accumulators(c(k), b(k)), i.register,
                         <<MacTotal(i, mem, c(k), b(k))>>)]
      BY <2>7 DEF ProposedEffects
    <3>3. ASSUME NEW k \in 1..PairCount(i, MacStep(i))
          PROVE  MacTotal(i, mem, c(k), b(k)) \in Value
      <4> DEFINE p == <<c(k), b(k)>>
      <4>1. p \in BankPairs(i, MacStep(i))
        BY DEF BankPairs
      <4>2. MacTotal(i, mem, p[1], p[2]) \in Value
        <5> HIDE DEF p
        <5>1. QED
          BY <2>7, <4>1, MacTotalIsScalar
      <4>3. QED
        BY <4>2
    <3> HIDE DEF c, b
    <3>4. QED
      BY <1>5, <3>1, <3>2, <3>3
  <2>8. CASE i.op = "INIT_ACC"
    <3>1. i.register \in Nat /\ i.value \in Value
      BY <2>8, Dimensions DEF ValidInstruction, BankMoves, BufferCopies, ResultReads, SlotFormulas,
         ValidRegister
    <3>2. es = [k \in 1..PairCount(i, 1) |->
                  Effect(Accumulators(ChannelOf(i, 1, k), BankOf(1, k)), i.register,
                         <<i.value>>)]
      BY <2>8 DEF ProposedEffects
    <3>3. QED
      BY <1>5, <3>1, <3>2
  <2>9. CASE i.op = "ACC"
    <3>1. /\ i.destination \in Nat /\ Lanes(i.size) \in Nat \ {0}
          /\ SlotSpan(i.destination, i.size) \in ReadSpans(i)
          /\ SlotSpan(i.source, i.size) \in ReadSpans(i)
      BY <2>9, LanesPositive DEF ValidInstruction, BankMoves, BufferCopies, ResultReads, SlotFormulas,
         ReadSpans, ValidSlotSpan
    <3> DEFINE left == Contents(mem, SlotSpan(i.destination, i.size))
               right == Contents(mem, SlotSpan(i.source, i.size))
               sums == [j \in 1..Lanes(i.size) |-> Add(left[j], right[j])]
    <3>2. es = <<SharedEffect(i.destination, sums)>>
      BY <2>9 DEF ProposedEffects
    <3>3. /\ SlotSpan(i.destination, i.size).count = Lanes(i.size)
          /\ SlotSpan(i.source, i.size).count = Lanes(i.size)
      BY DEF SlotSpan, ScalarSpan, Span
    <3>4. \A j \in 1..Lanes(i.size) : left[j] \in Value /\ right[j] \in Value
      BY <1>1, <3>1, <3>3
    <3> HIDE DEF left, right
    <3>5. \A j \in 1..Lanes(i.size) : Add(left[j], right[j]) \in Value
      BY <3>4, ScalarAssumption
    <3>6. sums \in Seq(Value)
      BY <3>1, <3>5, ScalarByScalar
    <3> HIDE DEF sums
    <3>7. QED
      BY <1>2, <1>4, <3>1, <3>2, <3>6
  <2>10. CASE i.op = "STORE_SLICE"
    <3>1. SliceSlot(i.destination, i.destination_offset) \in Nat
      BY <2>10, StoredSlotsFit
    <3>2. Padded(Stored(i, mem)) \in Seq(Value)
      BY <2>10, StoredIsScalars, PaddedIsScalars
    <3>3. es = <<SharedEffect(SliceSlot(i.destination, i.destination_offset),
                              Padded(Stored(i, mem)))>>
      BY <2>10 DEF ProposedEffects
    <3>4. QED
      BY <1>2, <1>4, <3>1, <3>2, <3>3
  <2>11. CASE i.op \in Services
    <3>1. i.destination \in Nat
      BY <2>11, ServiceResult DEF ValidPrefix
    <3>2. Padded(Result(i, mem)) \in Seq(Value)
      BY <2>11, ResultIsScalars, PaddedIsScalars
    <3>3. es = <<SharedEffect(i.destination, Padded(Result(i, mem)))>>
      BY <2>11 DEF ProposedEffects, Services
    <3>4. QED
      BY <1>2, <1>4, <3>1, <3>2, <3>3
  <2>12. i.op \in {"WR_SBK", "RD_SBK", "WR_GB", "COPY_BKGB", "COPY_GBBK", "EW_MUL", "MAC_ABK",
                   "INIT_ACC", "ACC", "STORE_SLICE"} \cup Services
    BY DEF ValidInstruction, BankMoves, BufferCopies, ResultReads,
           SlotFormulas, Supported, Kernelless, Services
  <2>13. QED
    BY <2>1, <2>2, <2>3, <2>4, <2>5, <2>6, <2>7, <2>8, <2>9, <2>10, <2>11, <2>12
<1>7. QED
  BY <1>6, KernelsFit DEF IsEffectTuple, FittingEffects

-----------------------------------------------------------------------------
(***************************************************************************)
(* Lists and loops, which the proofs about code generators are made of:    *)
(* what is in the concatenation of the turns of a loop, and how the turns  *)
(* follow one another.                                                     *)
(***************************************************************************)
Lists(s, S) == s \in Seq(S) /\ \A x \in S : \E k \in 1..Len(s) : s[k] = x

(* The recursive function inside FlattenSeq, on a prefix of its domain. *)
FlattenFunction(f, seqs, last) ==
  f = [i \in 1..last |-> IF i = 1 THEN seqs[i] ELSE f[i - 1] \o seqs[i]]

(* Its defining equation has a solution. *)
LEMMA FlattenFunctionExists ==
  ASSUME NEW seqs, NEW last \in Nat \ {0}
  PROVE  \E f : FlattenFunction(f, seqs, last)
<1> DEFINE Unsolved == {n \in Nat \ {0} : ~ \E f : FlattenFunction(f, seqs, n)}
<1> SUFFICES ASSUME Unsolved # {} PROVE FALSE
  OBVIOUS
<1>1. PICK m \in Unsolved : \A k \in Unsolved : m <= k
  BY LeastNatural
<1>2. CASE m = 1
  <2>1. FlattenFunction([i \in 1..1 |-> seqs[1]], seqs, 1)
    BY DEF FlattenFunction
  <2> QED  BY <2>1, <1>1, <1>2
<1>3. CASE m > 1
  <2>1. m - 1 \in Nat \ {0} /\ m - 1 \notin Unsolved
    BY <1>1, <1>3
  <2>2. PICK f : FlattenFunction(f, seqs, m - 1)
    BY <2>1
  <2> DEFINE g == [i \in 1..m |-> IF i < m THEN f[i] ELSE f[m - 1] \o seqs[m]]
  <2>3. ASSUME NEW i \in 1..m
        PROVE  g[i] = IF i = 1 THEN seqs[i] ELSE g[i - 1] \o seqs[i]
    <3>1. CASE i = m
      BY <3>1, <1>3, <1>1
    <3>2. CASE i < m
      <4>1. i \in 1..(m - 1)
        BY <3>2, <2>1
      <4>2. f[i] = IF i = 1 THEN seqs[i] ELSE f[i - 1] \o seqs[i]
        BY <2>2, <4>1 DEF FlattenFunction
      <4>3. g[i] = f[i] /\ (i # 1 => g[i - 1] = f[i - 1])
        BY <3>2, <1>1
      <4> QED  BY <4>2, <4>3
    <3> QED  BY <3>1, <3>2, <1>1
  <2>4. g = [i \in 1..m |-> g[i]]
    OBVIOUS
  <2> HIDE DEF g
  <2>5. FlattenFunction(g, seqs, m)
    BY <2>3, <2>4 DEF FlattenFunction
  <2> QED  BY <2>5, <1>1
<1> QED  BY <1>1, <1>2, <1>3

(* A sequence of two parts lists what either lists. *)
LEMMA ConcatLists ==
  ASSUME NEW s, NEW t, NEW S, NEW T, Lists(s, S), Lists(t, T)
  PROVE  Lists(s \o t, S \cup T)
<1>1. s \in Seq(S \cup T) /\ t \in Seq(S \cup T)
  <2>1. /\ Len(s) \in Nat /\ s = [k \in 1..Len(s) |-> s[k]] /\ \A k \in 1..Len(s) : s[k] \in S
        /\ Len(t) \in Nat /\ t = [k \in 1..Len(t) |-> t[k]] /\ \A k \in 1..Len(t) : t[k] \in T
    BY DEF Lists
  <2> DEFINE U == S \cup T
  <2>2. \A x \in S : x \in U
    OBVIOUS
  <2>3. \A x \in T : x \in U
    OBVIOUS
  <2> HIDE DEF U
  <2>4. s \in [1..Len(s) -> U] /\ t \in [1..Len(t) -> U]
    BY <2>1, <2>2, <2>3
  <2>5. s \in Seq(U) /\ t \in Seq(U)
    BY <2>1, <2>4
  <2> QED  BY <2>5 DEF U
<1>2. /\ s \o t \in Seq(S \cup T) /\ Len(s \o t) = Len(s) + Len(t)
      /\ Len(s) \in Nat /\ Len(t) \in Nat
      /\ \A k \in 1..Len(s) : (s \o t)[k] = s[k]
      /\ \A k \in 1..Len(t) : (s \o t)[Len(s) + k] = t[k]
  BY <1>1
<1>3. ASSUME NEW x \in S \cup T PROVE \E k \in 1..Len(s \o t) : (s \o t)[k] = x
  <2>1. CASE x \in S
    <3>1. PICK k \in 1..Len(s) : s[k] = x
      BY <2>1 DEF Lists
    <3>2. k \in 1..Len(s \o t) /\ (s \o t)[k] = x
      BY <1>2, <3>1
    <3> QED  BY <3>2
  <2>2. CASE x \in T
    <3>1. PICK k \in 1..Len(t) : t[k] = x
      BY <2>2 DEF Lists
    <3>2. Len(s) + k \in 1..Len(s \o t) /\ (s \o t)[Len(s) + k] = x
      BY <1>2, <3>1
    <3> QED  BY <3>2
  <2> QED  BY <2>1, <2>2
<1> QED  BY <1>2, <1>3 DEF Lists

(***************************************************************************)
(* A loop lists what its turns list.  T is the function from turns to what *)
(* they list.                                                              *)
(***************************************************************************)
LEMMA FlattenLists ==
  ASSUME NEW n \in Nat, NEW seqs, seqs = [i \in 1..n |-> seqs[i]], NEW T,
         \A i \in 1..n : Lists(seqs[i], T[i])
  PROVE  Lists(FlattenSeq(seqs), UNION {T[i] : i \in 1..n})
<1>1. Len(seqs) = n
  OBVIOUS
<1>2. CASE n = 0
  <2>1. seqs = <<>> /\ FlattenSeq(seqs) = <<>>
    BY <1>1, <1>2 DEF FlattenSeq
  <2>2. UNION {T[i] : i \in 1..n} = {}
    BY <1>2
  <2> QED  BY <2>1, <2>2 DEF Lists
<1>3. CASE n > 0
  <2> DEFINE f == CHOOSE g : FlattenFunction(g, seqs, Len(seqs))
             Upto(last) == UNION {T[i] : i \in 1..last}
             Wrong == {k \in 1..n : ~Lists(f[k], Upto(k))}
  <2>1. FlattenSeq(seqs) = f[n]
    <3>1. FlattenSeq(seqs) = f[Len(seqs)]
      BY <1>1, <1>3 DEF FlattenSeq, FlattenFunction
    <3> HIDE DEF f
    <3> QED  BY <1>1, <3>1
  <2>2. FlattenFunction(f, seqs, n)
    <3>1. Len(seqs) \in Nat \ {0}
      BY <1>1, <1>3
    <3>2. \E g : FlattenFunction(g, seqs, Len(seqs))
      BY <3>1, FlattenFunctionExists
    <3>3. FlattenFunction(f, seqs, Len(seqs))
      BY <3>2
    <3> HIDE DEF f
    <3> QED  BY <1>1, <3>3
  <2> HIDE DEF f
  <2>3. \A i \in 1..n : f[i] = IF i = 1 THEN seqs[i] ELSE f[i - 1] \o seqs[i]
    BY <2>2 DEF FlattenFunction
  <2>4. Wrong = {}
    <3> SUFFICES ASSUME Wrong # {} PROVE FALSE
      OBVIOUS
    <3>1. PICK m \in Wrong : \A k \in Wrong : m <= k
      <4>1. Wrong \subseteq Nat
        OBVIOUS
      <4> HIDE DEF Wrong
      <4> QED  BY <4>1, LeastNatural
    <3>2. m \in 1..n /\ ~Lists(f[m], Upto(m))
      OBVIOUS
    <3>3. CASE m = 1
      <4>1. f[m] = seqs[m] /\ Lists(seqs[m], T[m])
        BY <2>3, <3>2, <3>3
      <4>2. Upto(m) = T[m]
        BY <3>3
      <4> HIDE DEF Upto
      <4> QED  BY <4>1, <4>2, <3>2
    <3>4. CASE m > 1
      <4>1. m - 1 \in 1..n /\ m - 1 \notin Wrong
        <5>1. m - 1 \in 1..n /\ ~(m <= m - 1)
          BY <3>2, <3>4
        <5> HIDE DEF Wrong
        <5> QED  BY <5>1, <3>1
      <4>2. Lists(f[m - 1], Upto(m - 1))
        <5> HIDE DEF Upto
        <5> QED  BY <4>1
      <4>5. Lists(seqs[m], T[m])
        BY <3>2
      <4>3. f[m] = f[m - 1] \o seqs[m]
        <5>1. m \in 1..n /\ m # 1
          BY <3>2, <3>4
        <5> HIDE DEF Wrong
        <5> QED  BY <2>3, <5>1
      <4>4. Upto(m) = Upto(m - 1) \cup T[m]
        <5>1. 1..m = 1..(m - 1) \cup {m}
          BY <3>2, <3>4
        <5> QED  BY <5>1
      <4> HIDE DEF Upto
      <4> QED  BY <4>2, <4>3, <4>4, <4>5, <3>2, ConcatLists
    <3> QED  BY <3>2, <3>3, <3>4
  <2>5. n \in 1..n
    BY <1>3
  <2> QED  BY <2>1, <2>4, <2>5
<1> QED  BY <1>2, <1>3

(* A Python list or tuple, and what is in it. *)
IsListing(s) == Len(s) \in Nat /\ s = [k \in 1..Len(s) |-> s[k]]
In(x, s) == \E k \in 1..Len(s) : s[k] = x

\* What a listing lists is what is in it.
LEMMA ListsIn ==
  ASSUME NEW s, NEW S, Lists(s, S)
  PROVE  IsListing(s) /\ \A x : In(x, s) <=> x \in S
<1>1. /\ Len(s) \in Nat /\ s = [k \in 1..Len(s) |-> s[k]] /\ \A k \in 1..Len(s) : s[k] \in S
      /\ \A x \in S : \E k \in 1..Len(s) : s[k] = x
  BY DEF Lists
<1> QED  BY <1>1 DEF IsListing, In

Elements(s) == {s[k] : k \in 1..Len(s)}

\* A listing lists its elements.
LEMMA ListsElements ==
  ASSUME NEW s, IsListing(s)
  PROVE  Lists(s, Elements(s)) /\ \A x : In(x, s) <=> x \in Elements(s)
<1>1. /\ \A k \in 1..Len(s) : s[k] \in Elements(s)
      /\ \A x \in Elements(s) : \E k \in 1..Len(s) : s[k] = x
  BY DEF Elements
<1>2. s \in [1..Len(s) -> Elements(s)] /\ Len(s) \in Nat
  BY <1>1 DEF IsListing
<1>3. Lists(s, Elements(s))
  BY <1>1, <1>2 DEF Lists
<1> QED  BY <1>3, ListsIn

(* One listing after the other. *)
LEMMA InConcat ==
  ASSUME NEW s, NEW t, IsListing(s), IsListing(t)
  PROVE  IsListing(s \o t) /\ \A x : In(x, s \o t) <=> In(x, s) \/ In(x, t)
<1>1. Lists(s \o t, Elements(s) \cup Elements(t))
  BY ListsElements, ConcatLists
<1>2. IsListing(s \o t) /\ \A x : In(x, s \o t) <=> x \in Elements(s) \cup Elements(t)
  <2> DEFINE U == Elements(s) \cup Elements(t)
  <2> HIDE DEF U
  <2>1. Lists(s \o t, U)
    BY <1>1 DEF U
  <2>2. IsListing(s \o t) /\ \A x : In(x, s \o t) <=> x \in U
    BY <2>1, ListsIn
  <2> QED  BY <2>2 DEF U
<1> QED  BY <1>2, ListsElements

(* The turns of a loop, one after the other. *)
LEMMA InFlatten ==
  ASSUME NEW n \in Nat, NEW seqs, seqs = [i \in 1..n |-> seqs[i]],
         \A i \in 1..n : IsListing(seqs[i])
  PROVE  /\ IsListing(FlattenSeq(seqs))
         /\ \A x : In(x, FlattenSeq(seqs)) <=> \E i \in 1..n : In(x, seqs[i])
<1> DEFINE T == [i \in 1..n |-> Elements(seqs[i])]
           U == UNION {T[i] : i \in 1..n}
<1>1. \A i \in 1..n : Lists(seqs[i], T[i]) /\ \A x : In(x, seqs[i]) <=> x \in T[i]
  <2>1. ASSUME NEW i \in 1..n PROVE T[i] = Elements(seqs[i])
    OBVIOUS
  <2> HIDE DEF T
  <2> QED  BY <2>1, ListsElements
<1> HIDE DEF T
<1>2. Lists(FlattenSeq(seqs), U)
  BY <1>1, FlattenLists
<1>3. \A x : x \in U <=> \E i \in 1..n : x \in T[i]
  OBVIOUS
<1> HIDE DEF U
<1>4. IsListing(FlattenSeq(seqs)) /\ \A x : In(x, FlattenSeq(seqs)) <=> x \in U
  BY <1>2, ListsIn
<1> QED  BY <1>1, <1>3, <1>4

(* The same for turns counted from zero, as Each counts them. *)
LEMMA InEach ==
  ASSUME NEW n \in Nat, NEW F, \A k \in 0..(n - 1) : IsListing(F[k])
  PROVE  /\ IsListing(FlattenSeq([i \in 1..n |-> F[i - 1]]))
         /\ \A x : In(x, FlattenSeq([i \in 1..n |-> F[i - 1]]))
                     <=> \E k \in 0..(n - 1) : In(x, F[k])
<1> DEFINE seqs == [i \in 1..n |-> F[i - 1]]
<1>1. /\ seqs = [i \in 1..n |-> seqs[i]]
      /\ \A i \in 1..n : seqs[i] = F[i - 1] /\ i - 1 \in 0..(n - 1)
  OBVIOUS
<1> HIDE DEF seqs
<1>2. /\ IsListing(FlattenSeq(seqs))
      /\ \A x : In(x, FlattenSeq(seqs)) <=> \E i \in 1..n : In(x, seqs[i])
  <2>1. \A i \in 1..n : IsListing(seqs[i])
    BY <1>1
  <2> QED  BY <1>1, <2>1, InFlatten
<1>3. \A x : (\E i \in 1..n : In(x, seqs[i])) <=> \E k \in 0..(n - 1) : In(x, F[k])
  <2>1. ASSUME NEW x, NEW k \in 0..(n - 1), In(x, F[k]) PROVE \E i \in 1..n : In(x, seqs[i])
    <3>1. k + 1 \in 1..n /\ seqs[k + 1] = F[k]
      BY <1>1
    <3> QED  BY <2>1, <3>1
  <2>2. ASSUME NEW x, NEW i \in 1..n, In(x, seqs[i])
        PROVE  \E k \in 0..(n - 1) : In(x, F[k])
    BY <1>1, <2>2
  <2> QED  BY <2>1, <2>2
<1> QED  BY <1>2, <1>3 DEF seqs

(* The turns of a loop so far, one after the other. *)
Joined(f, seqs, n) ==
  /\ f[0] = <<>>
  /\ \A i \in 1..n : f[i] = f[i - 1] \o seqs[i]
  /\ f[n] = FlattenSeq(seqs)

\* The turns of a loop, joined one by one.
LEMMA TurnsJoined ==
  ASSUME NEW n \in Nat, NEW seqs, seqs = [i \in 1..n |-> seqs[i]],
         \A i \in 1..n : IsListing(seqs[i])
  PROVE  \E f : Joined(f, seqs, n)
<1>1. Len(seqs) = n
  OBVIOUS
<1>2. CASE n = 0
  <2>1. seqs = <<>> /\ FlattenSeq(seqs) = <<>>
    BY <1>1, <1>2 DEF FlattenSeq
  <2>2. Joined([i \in 0..0 |-> <<>>], seqs, 0)
    BY <2>1 DEF Joined
  <2> QED  BY <1>2, <2>2
<1>3. CASE n > 0
  <2> DEFINE f == CHOOSE g : FlattenFunction(g, seqs, Len(seqs))
             h == [i \in 0..n |-> IF i = 0 THEN <<>> ELSE f[i]]
  <2>1. FlattenSeq(seqs) = f[n]
    <3>1. FlattenSeq(seqs) = f[Len(seqs)]
      BY <1>1, <1>3 DEF FlattenSeq, FlattenFunction
    <3> HIDE DEF f
    <3> QED  BY <1>1, <3>1
  <2>2. FlattenFunction(f, seqs, n)
    <3>1. Len(seqs) \in Nat \ {0}
      BY <1>1, <1>3
    <3>2. \E g : FlattenFunction(g, seqs, Len(seqs))
      BY <3>1, FlattenFunctionExists
    <3>3. FlattenFunction(f, seqs, Len(seqs))
      BY <3>2
    <3> HIDE DEF f
    <3> QED  BY <1>1, <3>3
  <2> HIDE DEF f
  <2>3. \A i \in 1..n : f[i] = IF i = 1 THEN seqs[i] ELSE f[i - 1] \o seqs[i]
    BY <2>2 DEF FlattenFunction
  <2>4. h[0] = <<>> /\ \A i \in 1..n : h[i] = f[i]
    OBVIOUS
  <2> HIDE DEF h
  <2>5. ASSUME NEW i \in 1..n
        PROVE  h[i] = h[i - 1] \o seqs[i]
    <3>1. CASE i = 1
      <4>1. h[i] = seqs[1] /\ h[i - 1] = <<>>
        BY <2>3, <2>4, <3>1
      <4>2. \A S : \A s \in Seq(S) : <<>> \o s = s
        OBVIOUS
      <4>3. seqs[1] \in Seq(Elements(seqs[1]))
        BY <3>1, ListsElements DEF Lists
      <4> QED  BY <3>1, <4>1, <4>2, <4>3
    <3>2. CASE i # 1
      <4>1. i - 1 \in 1..n
        BY <3>2
      <4> QED  BY <2>3, <2>4, <3>2, <4>1
    <3> QED  BY <3>1, <3>2
  <2>6. h[n] = FlattenSeq(seqs)
    BY <1>3, <2>1, <2>4
  <2>7. Joined(h, seqs, n)
    BY <2>4, <2>5, <2>6 DEF Joined
  <2> QED  BY <2>7
<1>4. n = 0 \/ n > 0
  OBVIOUS
<1> QED  BY <1>2, <1>3, <1>4

\* One more at the end.
LEMMA OneMore ==
  ASSUME NEW x, NEW m \in Nat
  PROVE  [k \in 1..m |-> x[k]] \o <<x[m + 1]>> = [k \in 1..(m + 1) |-> x[k]]
<1> DEFINE S == {x[k] : k \in 1..(m + 1)}
           s == [k \in 1..m |-> x[k]]
           t == <<x[m + 1]>>
<1>1. s \in Seq(S) /\ t \in Seq(S) /\ Len(s) = m /\ Len(t) = 1 /\ t[1] = x[m + 1]
  <2>1. \A k \in 1..(m + 1) : x[k] \in S
    OBVIOUS
  <2>2. m + 1 \in 1..(m + 1) /\ \A k \in 1..m : k \in 1..(m + 1)
    OBVIOUS
  <2> HIDE DEF S
  <2> QED  BY <2>1, <2>2
<1>2. /\ s \o t \in Seq(S) /\ Len(s \o t) = m + 1
      /\ \A k \in 1..m : (s \o t)[k] = s[k]
      /\ (s \o t)[m + 1] = t[1]
  <2> HIDE DEF S, s, t
  <2>1. /\ s \o t \in Seq(S) /\ Len(s \o t) = Len(s) + Len(t)
        /\ \A k \in 1..Len(s) : (s \o t)[k] = s[k]
        /\ \A k \in 1..Len(t) : (s \o t)[Len(s) + k] = t[k]
    <3>1. \A u, v, W : u \in Seq(W) /\ v \in Seq(W) =>
            /\ Len(u \o v) = Len(u) + Len(v)
            /\ \A k \in 1..Len(u) : (u \o v)[k] = u[k]
            /\ \A k \in 1..Len(v) : (u \o v)[Len(u) + k] = v[k]
      OBVIOUS
    <3>2. \A u, v, W : u \in Seq(W) /\ v \in Seq(W) => u \o v \in Seq(W)
      OBVIOUS
    <3>3. s \o t \in Seq(S)
      BY <1>1, <3>2
    <3>4. s \in Seq(S) /\ t \in Seq(S)
      BY <1>1
    <3> QED  BY <3>1, <3>3, <3>4
  <2>2. 1 \in 1..Len(t)
    BY <1>1
  <2> QED  BY <1>1, <2>1, <2>2
<1>3. \A k \in 1..m : s[k] = x[k]
  OBVIOUS
<1> HIDE DEF s, t, S
<1>4. \A k \in 1..(m + 1) : (s \o t)[k] = x[k]
  <2>1. \A k \in 1..(m + 1) : k \in 1..m \/ k = m + 1
    OBVIOUS
  <2> QED  BY <1>1, <1>2, <1>3, <2>1
<1>5. s \o t = [k \in 1..(m + 1) |-> (s \o t)[k]]
  <2>1. \A u : u \in Seq(S) => u = [k \in 1..Len(u) |-> u[k]]
    OBVIOUS
  <2> QED  BY <1>2, <2>1
<1>6. s \o t = [k \in 1..(m + 1) |-> x[k]]
  BY <1>4, <1>5
<1> QED  BY <1>6 DEF s, t

\* Rounding up counts the multiples below a number.
LEMMA CeilDivBelow ==
  ASSUME NEW n \in Nat, NEW d \in Nat \ {0}
  PROVE  /\ CeilDiv(n, d) \in Nat
         /\ \A k \in Nat : k < CeilDiv(n, d) <=> k * d < n
<1>1. (n + d - 1) \div d \in Nat /\ \A k \in Nat : k < (n + d - 1) \div d <=> k * d < n
  OBVIOUS
<1> QED  BY <1>1 DEF CeilDiv

\* A number is its quotient and its remainder.
LEMMA Parts ==
  ASSUME NEW x \in Nat, NEW d \in Nat \ {0}
  PROVE  /\ x \div d \in Nat /\ x % d \in 0..(d - 1)
         /\ x = (x \div d) * d + (x % d)
OBVIOUS

\* And nothing else.
LEMMA PartsUnique ==
  ASSUME NEW d \in Nat \ {0}, NEW q \in Nat, NEW p \in Nat,
         NEW r \in 0..(d - 1), NEW s \in 0..(d - 1), q * d + r = p * d + s
  PROVE  q = p /\ r = s
OBVIOUS

\* One set has as many members as another it is in one-to-one correspondence with.
LEMMA SameCount ==
  ASSUME NEW S, IsFiniteSet(S), NEW T, NEW f, f = [x \in S |-> f[x]],
         \A x \in S : f[x] \in T, \A x, y \in S : f[x] = f[y] => x = y,
         \A z \in T : \E x \in S : f[x] = z
  PROVE  IsFiniteSet(T) /\ Cardinality(T) = Cardinality(S)
<1>1. f \in [S -> T]
  OBVIOUS
<1>2. f \in Bijection(S, T)
  BY <1>1 DEF Bijection, Injection, Surjection, IsInjective
<1>3. ExistsBijection(S, T)
  BY <1>2 DEF ExistsBijection
<1> QED  BY <1>3, FS_Bijection

(* The recursive function of a cursor that moves past one region after     *)
(* another.                                                                *)
CursorFunction(f, regions, last) ==
  f = [j \in 0..last |-> IF j = 0 THEN 0 ELSE f[j - 1] + regions[j][2]]

(* Its defining equation has a solution. *)
LEMMA CursorFunctionExists ==
  ASSUME NEW regions, NEW last \in Nat
  PROVE  \E f : CursorFunction(f, regions, last)
<1> DEFINE Unsolved == {n \in Nat : ~ \E f : CursorFunction(f, regions, n)}
<1> SUFFICES ASSUME Unsolved # {} PROVE FALSE
  OBVIOUS
<1>1. PICK m \in Unsolved : \A k \in Unsolved : m <= k
  BY LeastNatural
<1>2. CASE m = 0
  <2>1. CursorFunction([j \in 0..0 |-> 0], regions, 0)
    BY DEF CursorFunction
  <2> QED  BY <2>1, <1>1, <1>2
<1>3. CASE m > 0
  <2>1. m - 1 \in Nat /\ m - 1 \notin Unsolved
    BY <1>1, <1>3
  <2>2. PICK f : CursorFunction(f, regions, m - 1)
    BY <2>1
  <2> DEFINE g == [j \in 0..m |-> IF j < m THEN f[j] ELSE f[m - 1] + regions[m][2]]
  <2>3. ASSUME NEW j \in 0..m
        PROVE  g[j] = IF j = 0 THEN 0 ELSE g[j - 1] + regions[j][2]
    <3>1. CASE j = m
      BY <3>1, <1>3, <1>1
    <3>2. CASE j < m
      <4>1. j \in 0..(m - 1)
        BY <3>2, <2>1
      <4>2. f[j] = IF j = 0 THEN 0 ELSE f[j - 1] + regions[j][2]
        BY <2>2, <4>1 DEF CursorFunction
      <4>3. g[j] = f[j] /\ (j # 0 => g[j - 1] = f[j - 1])
        BY <3>2, <1>1
      <4> QED  BY <4>2, <4>3
    <3> QED  BY <3>1, <3>2, <1>1
  <2>4. g = [j \in 0..m |-> g[j]]
    OBVIOUS
  <2> HIDE DEF g
  <2>5. CursorFunction(g, regions, m)
    BY <2>3, <2>4 DEF CursorFunction
  <2> QED  BY <2>5, <1>1
<1> QED  BY <1>1, <1>2, <1>3

(* Every region starts at a natural number. *)
LEMMA CursorsNatural ==
  ASSUME NEW n \in Nat, NEW regions, \A j \in 1..n : regions[j][2] \in Nat,
         NEW f, CursorFunction(f, regions, n)
  PROVE  \A j \in 0..n : f[j] \in Nat
<1> DEFINE Wrong == {j \in 0..n : f[j] \notin Nat}
<1>1. \A j \in 0..n : f[j] = IF j = 0 THEN 0 ELSE f[j - 1] + regions[j][2]
  BY DEF CursorFunction
<1> SUFFICES ASSUME Wrong # {} PROVE FALSE
  OBVIOUS
<1>2. PICK m \in Wrong : \A j \in Wrong : m <= j
  <2>1. Wrong \subseteq Nat
    OBVIOUS
  <2> HIDE DEF Wrong
  <2> QED  BY <2>1, LeastNatural
<1>3. m \in 0..n /\ f[m] \notin Nat
  OBVIOUS
<1>4. m # 0
  BY <1>1, <1>3
<1>5. m - 1 \in 0..n /\ ~(m <= m - 1) /\ m \in 1..n
  BY <1>3, <1>4
<1>6. f[m - 1] \in Nat
  BY <1>2, <1>5
<1>7. f[m] = f[m - 1] + regions[m][2]
  BY <1>1, <1>3, <1>4
<1>8. regions[m][2] \in Nat
  BY <1>5
<1> HIDE DEF Wrong
<1> QED  BY <1>3, <1>6, <1>7, <1>8
=============================================================================
