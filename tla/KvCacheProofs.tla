--------------------------- MODULE KvCacheProofs ---------------------------
(***************************************************************************)
(* The caches implement the token log, for every request, geometry and     *)
(* number of sequences: a decode step appends its token, disturbs no other *)
(* and takes none of an earlier sequence for one of its own.  And they are *)
(* read as often as there are query heads: every part of every key cached, *)
(* and every part of every value with the score of its token.              *)
(***************************************************************************)
EXTENDS KvCache, CentInstructionProofs

-----------------------------------------------------------------------------
(***************************************************************************)
(* The steps of a lowerer, as a set: the order of the instructions of an   *)
(* update plays no role for what the cells hold in the end, nor does that  *)
(* of the reads of a step.                                                 *)
(***************************************************************************)

\* The batch of a step is a list of instructions.
IsStep(s) == IsListing(s.batch)

\* Steps that may raise, and steps that append.
LEMMA InStep ==
  ASSUME NEW ok, NEW i
  PROVE  /\ IsListing(Check(ok)) /\ \A s : In(s, Check(ok)) <=> s = [ok |-> ok, batch |-> <<>>]
         /\ IsListing(Append1(i))
         /\ \A s : In(s, Append1(i)) <=> s = [ok |-> TRUE, batch |-> <<i>>]
         /\ IsListing(AppendBatch(i))
         /\ \A s : In(s, AppendBatch(i)) <=> s = [ok |-> TRUE, batch |-> i]
<1>1. ASSUME NEW x PROVE IsListing(<<x>>) /\ \A s : In(s, <<x>>) <=> s = x
  BY DEF IsListing, In
<1> QED  BY <1>1 DEF Check, Append1, AppendBatch

(* What a lowerer adds: the instructions of its batches. *)
LEMMA InBatches ==
  ASSUME NEW steps, IsListing(steps), \A s : In(s, steps) => IsStep(s)
  PROVE  /\ IsListing(Batches(steps))
         /\ \A i : In(i, Batches(steps)) <=> \E s : In(s, steps) /\ In(i, s.batch)
<1> DEFINE n == Len(steps)
           seqs == [k \in DOMAIN steps |-> steps[k].batch]
<1>1. n \in Nat /\ DOMAIN steps = 1..n /\ \A k \in 1..n : In(steps[k], steps)
  <2>1. n \in Nat /\ steps = [k \in 1..n |-> steps[k]]
    BY DEF IsListing
  <2> QED  BY <2>1 DEF In
<1>2. seqs = [k \in 1..n |-> seqs[k]] /\ \A k \in 1..n : seqs[k] = steps[k].batch
  BY <1>1
<1>3. Batches(steps) = FlattenSeq(seqs)
  BY DEF Batches
<1> HIDE DEF seqs
<1>4. \A k \in 1..n : IsListing(seqs[k])
  BY <1>1, <1>2 DEF IsStep
<1>5. /\ IsListing(FlattenSeq(seqs))
      /\ \A i : In(i, FlattenSeq(seqs)) <=> \E k \in 1..n : In(i, seqs[k])
  BY <1>1, <1>2, <1>4, InFlatten
<1>6. ASSUME NEW i
      PROVE  (\E k \in 1..n : In(i, seqs[k])) <=> \E s : In(s, steps) /\ In(i, s.batch)
  <2>1. ASSUME NEW k \in 1..n, In(i, seqs[k]) PROVE \E s : In(s, steps) /\ In(i, s.batch)
    BY <1>1, <1>2, <2>1
  <2>2. ASSUME NEW s, In(s, steps), In(i, s.batch) PROVE \E k \in 1..n : In(i, seqs[k])
    <3>1. PICK k \in 1..n : steps[k] = s
      BY <2>2 DEF In
    <3> QED  BY <1>2, <2>2, <3>1
  <2> QED  BY <2>1, <2>2
<1> QED  BY <1>3, <1>5, <1>6

\* Needs and makes leave an instruction as it is.
LEMMA TaggedKeeps ==
  ASSUME NEW batch, IsListing(batch), NEW needs, NEW makes
  PROVE  /\ IsListing(Tagged(batch, needs, makes))
         /\ Len(Tagged(batch, needs, makes)) = Len(batch)
         /\ \A k \in 1..Len(batch) : \A f \in DOMAIN batch[k] :
              Tagged(batch, needs, makes)[k][f] = batch[k][f]
<1> DEFINE g == [needs |-> needs, makes |-> makes]
           t == [k \in DOMAIN batch |-> Extended(batch[k], g)]
<1>1. Tagged(batch, needs, makes) = t
  BY DEF Tagged
<1>2. Len(batch) \in Nat /\ DOMAIN batch = 1..Len(batch)
  BY DEF IsListing
<1> HIDE DEF g
<1>3. t = [k \in 1..Len(batch) |-> t[k]] /\ Len(t) = Len(batch)
      /\ \A k \in 1..Len(batch) : t[k] = Extended(batch[k], g)
  BY <1>2
<1> HIDE DEF t
<1>4. \A f, x : x \in DOMAIN f => Extended(f, g)[x] = f[x]
  BY DEF Extended
<1> QED  BY <1>1, <1>2, <1>3, <1>4 DEF IsListing

-----------------------------------------------------------------------------
(* A transfer of at most a row, from column zero, is one instruction. *)
LEMMA OneTransfer ==
  ASSUME NEW op, NEW channel, NEW bank, NEW row \in Nat, NEW count \in 1..DramColumns,
         NEW slot \in Nat
  PROVE LET b == SingleBankTransfers(op, channel, bank, row, 0, count, slot)
        IN b = [k \in 1..1 |-> b[k]] /\ Len(b) = 1
        /\ b[1].op = op /\ b[1].channel = channel /\ b[1].bank = bank
        /\ b[1].row = row + 1 - 1 /\ b[1].slot = slot
        /\ {"op", "channel", "bank", "row", "slot"} \subseteq DOMAIN b[1]
<1> DEFINE bursts == CeilDiv(count, BurstLength)
           first == (DramColumns - 0) \div BurstLength
<1>1. bursts \in Nat /\ first \in Nat /\ bursts <= first
  <2>1. \A x \in Nat, b \in Nat \ {0}, y \in Nat :
          x <= y /\ y % b = 0 =>
            (x + b - 1) \div b \in Nat /\ y \div b \in Nat /\ (x + b - 1) \div b <= y \div b
    OBVIOUS
  <2>2. BurstLength \in Nat \ {0} /\ DramColumns \in Nat /\ DramColumns % BurstLength = 0
    BY HardwareAssumption DEF ValidHardware
  <2> QED BY <2>1, <2>2 DEF CeilDiv
<1> DEFINE whole == DramColumns \div BurstLength
           done(k) == IF k = 0 THEN 0 ELSE first + (k - 1) * whole
           pieces == 1 + (IF bursts <= first THEN 0 ELSE CeilDiv(bursts - first, whole))
           piece(k) == [op |-> op, channel |-> channel, bank |-> bank, row |-> row + k - 1,
                        column |-> IF k = 1 THEN 0 ELSE 0,
                        size |-> Lesser(bursts, done(k)) - done(k - 1),
                        slot |-> slot + done(k - 1)]
           b == [k \in 1..pieces |-> piece(k)]
<1>2. SingleBankTransfers(op, channel, bank, row, 0, count, slot) = b
  BY DEF SingleBankTransfers
<1>3. pieces = 1
  <2> HIDE DEF bursts, first
  <2> QED  BY <1>1
<1> HIDE DEF pieces
<1>4. piece(1).op = op /\ piece(1).channel = channel /\ piece(1).bank = bank
      /\ piece(1).row = row + 1 - 1 /\ piece(1).slot = slot + done(0)
      /\ DOMAIN piece(1) = {"op", "channel", "bank", "row", "column", "size", "slot"}
  <2> HIDE DEF bursts, first, done
  <2> QED  OBVIOUS
<1>7. piece(1).slot = slot
  <2>1. done(0) = 0
    OBVIOUS
  <2> HIDE DEF piece, done
  <2> QED  BY <1>4, <2>1
<1> HIDE DEF piece
<1>5. b = [k \in 1..1 |-> piece(k)]
  BY <1>3
<1> HIDE DEF b
<1>6. b[1] = piece(1) /\ Len(b) = 1 /\ b = [k \in 1..1 |-> b[k]]
  BY <1>5
<1> QED  BY <1>2, <1>4, <1>6, <1>7

-----------------------------------------------------------------------------
(* What a decode step of a request writes, and where. *)
SizedRequest == [hidden : Nat, heads : Nat, kv_heads : Nat,
                 intermediate : Nat, length : Nat, max : Nat]

KeyRows(r) == CeilDiv(KvWidth(r), DramColumns)
ValueHeads(r) == CeilDiv(r.kv_heads, ChannelsPerBlock)
ValueDimensions(r) == CeilDiv(HeadSize(r), NumBanks)
TokenRows(r) == CeilDiv(r.max, DramColumns)
KeyStart(r) == RowRange(PlannedMemory(r), "cache_k").start
ValueStart(r) == RowRange(PlannedMemory(r), "cache_v").start

\* The sizes of a request that is accepted.
LEMMA PlannedSizes ==
  ASSUME NEW r \in SizedRequest, Planned(r)
  PROVE  /\ r.kv_heads \in Nat \ {0} /\ r.max \in Nat \ {0} /\ r.length \in 1..r.max
         /\ HeadSize(r) \in Nat \ {0} /\ KvWidth(r) = HeadSize(r) * r.kv_heads
         /\ KvWidth(r) \in Nat \ {0}
         /\ r.heads \div r.kv_heads \in Nat \ {0}
         /\ HeadSize(r) <= DramColumns /\ DramColumns % HeadSize(r) = 0
         /\ ValidPlacement
BY DEF Planned, ValidRequest, ValidContext, ValidSpec, AttentionSpec, SizedRequest, KvWidth

\* The copies of a block share out the channels.
LEMMA Geometry ==
  ASSUME ValidPlacement
  PROVE /\ NumBanks \in Nat \ {0} /\ DramColumns \in Nat \ {0} /\ ChannelsPerBlock \in Nat \ {0}
        /\ TotalBanks \in Nat \ {0} /\ TotalBanks = ChannelsPerBlock * NumBanks
        /\ Copies \in Nat \ {0} /\ NumChannels = Copies * ChannelsPerBlock
        /\ BurstLength \in Nat \ {0} /\ DramColumns % BurstLength = 0
<1>1. /\ NumChannels \in Nat \ {0} /\ NumBanks \in Nat \ {0} /\ DramColumns \in Nat \ {0}
      /\ BurstLength \in Nat \ {0} /\ DramColumns % BurstLength = 0
  BY HardwareAssumption DEF ValidHardware, BanksPerGroup
<1>2. \A c, n \in Nat \ {0} : c <= n /\ n % c = 0 => n \div c \in Nat \ {0} /\ n = (n \div c) * c
  OBVIOUS
<1>3. \A c, n \in Nat \ {0} : c * n \in Nat \ {0}
  OBVIOUS
<1> QED  BY <1>1, <1>2, <1>3, PlacementAssumption DEF ValidPlacement, TotalBanks, Copies

\* The plan of the update.
LEMMA UpdatePlan ==
  ASSUME NEW r
  PROVE LET p == StagePlan(r, "kv_update")
        IN /\ p.spec = AttentionSpec(r)
           /\ p.key_bank = (r.length - 1) % TotalBanks /\ p.key_group = KeyGroup(r.length - 1)
           /\ p.key_rows = KeyRows(r) /\ p.key_offsets = ReplicaOffsets
           /\ p.value_channels = [k \in 1..ChannelsPerBlock |-> k - 1]
           /\ p.value_rows = TokenRows(r) /\ p.value_sequence_row = (r.length - 1) \div DramColumns
           /\ p.value_heads = ValueHeads(r) /\ p.value_dimensions = ValueDimensions(r)
           /\ p.sequence_index = r.length - 1
           /\ p.rows.key_cache.start = KeyStart(r) /\ p.rows.value_cache.start = ValueStart(r)
           /\ p.buffers.key.start = BufferSpans(r).key.start
           /\ p.buffers.value.start = BufferSpans(r).value.start
<1> DEFINE a == AttentionPlan(r, PlannedMemory(r), BufferSpans(r))
<1>1. StagePlan(r, "kv_update") = [KvPlan(r, a) EXCEPT !.buffers.key.value = "rotated_key"]
  BY DEF StagePlan, PlanOfStage, Projections, AttentionStages, AttentionStagePlan
<1>2. DOMAIN a = {"spec", "buffers", "rows"} /\ a.spec = AttentionSpec(r)
      /\ a.rows.key_cache.start = KeyStart(r) /\ a.rows.value_cache.start = ValueStart(r)
  BY DEF AttentionPlan, KeyStart, ValueStart
<1>11. /\ DOMAIN a.buffers = {"query", "key", "value", "scores", "output"}
       /\ a.buffers.key = BufferSpans(r).key /\ a.buffers.value = BufferSpans(r).value
       /\ {"start", "value"} \subseteq DOMAIN a.buffers.key
  BY DEF AttentionPlan, AttentionBuffers, AttentionBuffersWith, BufferSpans, SpanAt
<1> HIDE DEF a
<1> DEFINE more == [sequence_index |-> r.length - 1, key_bank |-> (r.length - 1) % TotalBanks,
       key_group |-> KeyGroup(r.length - 1), key_rows |-> KeyRows(r),
       key_offsets |-> ReplicaOffsets,
       value_channels |-> [k \in 1..ChannelsPerBlock |-> k - 1],
       value_rows |-> TokenRows(r),
       value_sequence_row |-> (r.length - 1) \div DramColumns,
       value_heads |-> ValueHeads(r),
       value_dimensions |-> ValueDimensions(r)]
   p == KvPlan(r, a)
<1>3. p = Extended(a, more)
  BY DEF KvPlan, KeyRows, TokenRows, ValueHeads, ValueDimensions
<1>4. DOMAIN more = {"sequence_index", "key_bank", "key_group", "key_rows", "key_offsets",
                     "value_channels", "value_rows", "value_sequence_row", "value_heads",
                     "value_dimensions"}
  OBVIOUS
<1> HIDE DEF p
<1>5. \A f \in DOMAIN a : f \in DOMAIN p /\ p[f] = a[f]
  <2> HIDE DEF more
  <2> QED BY <1>3 DEF Extended
<1>6. \A f \in DOMAIN more \ DOMAIN a : f \in DOMAIN p /\ p[f] = more[f]
  <2> HIDE DEF more
  <2> QED BY <1>3 DEF Extended
<1>7. \A f \in DOMAIN p : f # "buffers" => [p EXCEPT !.buffers.key.value = "rotated_key"][f] = p[f]
  OBVIOUS
<1> DEFINE q == [p EXCEPT !.buffers.key.value = "rotated_key"]
<1> HIDE DEF q
<1>8. StagePlan(r, "kv_update") = q
  BY <1>1 DEF p, q
<1>9. /\ q.spec = a.spec /\ q.rows = a.rows
  BY <1>2, <1>5, <1>7 DEF q
<1>10. \A f \in DOMAIN more : q[f] = more[f]
  <2>1. \A f \in DOMAIN more : f \notin DOMAIN a /\ f # "buffers"
    BY <1>2, <1>4
  <2> HIDE DEF more
  <2> QED BY <2>1, <1>6, <1>7 DEF q
<1>12. /\ q.buffers.key.start = BufferSpans(r).key.start
       /\ q.buffers.value.start = BufferSpans(r).value.start
  <2>1. "buffers" \in DOMAIN p /\ p.buffers = a.buffers
    BY <1>2, <1>5
  <2> DEFINE held == [a.buffers EXCEPT !.key.value = "rotated_key"]
  <2>2. q.buffers = held
    BY <2>1 DEF q
  <2>3. held.value = a.buffers.value /\ held.key.start = a.buffers.key.start
    BY <1>11
  <2> HIDE DEF held
  <2> QED  BY <1>11, <2>2, <2>3
<1> QED BY <1>8, <1>9, <1>10, <1>12, <1>2, <1>4

(* The rows of a region start at a row. *)
LEMMA CursorNatural ==
  ASSUME NEW regions, Len(regions) \in Nat, \A j \in 1..Len(regions) : regions[j][2] \in Nat,
         NEW k \in 1..(Len(regions) + 1)
  PROVE  RowCursor(regions, k) \in Nat
<1> DEFINE n == Len(regions)
           f == CHOOSE g : CursorFunction(g, regions, Len(regions))
<1>1. RowCursor(regions, k) = f[k - 1]
  BY DEF RowCursor, CursorFunction
<1>2. CursorFunction(f, regions, n)
  BY CursorFunctionExists
<1> HIDE DEF f
<1>3. \A j \in 0..n : f[j] \in Nat
  BY <1>2, CursorsNatural
<1>4. k - 1 \in 0..n
  OBVIOUS
<1> QED  BY <1>1, <1>3, <1>4

\* A region that is reserved starts at some row.
LEMMA RegionStarts ==
  ASSUME NEW regions, Len(regions) \in Nat, regions = [j \in 1..Len(regions) |-> regions[j]],
         \A j \in 1..Len(regions) : regions[j][2] \in Nat,
         NEW name, \E j \in 1..Len(regions) : regions[j][1] = name
  PROVE  RowRange(regions, name).start \in Nat
<1> DEFINE k == CHOOSE i \in DOMAIN regions : regions[i][1] = name
<1>1. DOMAIN regions = 1..Len(regions)
  OBVIOUS
<1>2. k \in 1..Len(regions)
  BY <1>1
<1>3. RowRange(regions, name).start = RowCursor(regions, k)
  BY DEF RowRange
<1> HIDE DEF k
<1>4. k \in 1..(Len(regions) + 1)
  BY <1>2
<1> QED  BY <1>3, <1>4, CursorNatural

\* The caches are among the regions.
LEMMA StartsNatural ==
  ASSUME NEW r \in SizedRequest, Planned(r)
  PROVE  KeyStart(r) \in Nat /\ ValueStart(r) \in Nat
<1> DEFINE n == RowCounts(r)
           m == RegionsOf(n)
<1>1. /\ \A a \in Nat, b \in Nat \ {0} : CeilDiv(a, b) \in Nat
      /\ \A a, b \in Nat \ {0} : CeilDiv(a, b) \in Nat \ {0}
      /\ \A a \in Nat, b \in Nat : a * b \in Nat
      /\ \A a \in Nat \ {0}, b \in Nat \ {0} : a * b \in Nat \ {0}
  <2>1. \A a \in Nat, b \in Nat \ {0} : (a + b - 1) \div b \in Nat
    OBVIOUS
  <2>2. \A a, b \in Nat \ {0} : (a + b - 1) \div b \in Nat \ {0}
    OBVIOUS
  <2> QED  BY <2>1, <2>2 DEF CeilDiv
<1>2. /\ ValidPlacement /\ r.kv_heads \in Nat /\ r.max \in Nat /\ KvWidth(r) \in Nat
      /\ HeadSize(r) \in Nat /\ r.hidden \in Nat \ {0}
      /\ r.intermediate \in Nat \ {0} /\ r.heads \in Nat
  BY PlannedSizes DEF SizedRequest, Planned, ValidRequest
<1>3. TotalBanks \in Nat \ {0} /\ DramColumns \in Nat \ {0} /\ NumBanks \in Nat \ {0}
      /\ ChannelsPerBlock \in Nat \ {0} /\ Groups \in Nat \ {0}
  <2>1. TotalBanks \in Nat \ {0} /\ TotalBanks = ChannelsPerBlock * NumBanks
        /\ DramColumns \in Nat \ {0} /\ NumBanks \in Nat \ {0}
      /\ ChannelsPerBlock \in Nat \ {0}
    BY <1>2, Geometry
  <2>2. NumBanks >= 4
    BY HardwareAssumption DEF ValidHardware, BanksPerGroup
  <2>3. \A c \in Nat \ {0}, b \in Nat : b >= 4 => (c * b) \div 4 \in Nat \ {0}
    OBVIOUS
  <2> QED  BY <2>1, <2>2, <2>3 DEF Groups, BanksPerGroup
<1>4. \A f \in DOMAIN n : n[f] \in Nat
  <2> DEFINE tokens == CeilDiv(r.max, DramColumns)
             vector == CeilDiv(ValuesPerPartition(GroupLayout(r.hidden)), DramColumns)
  <2>1. tokens \in Nat
    BY <1>1, <1>2, <1>3
  <2>2. \A i \in Nat, o \in Nat : MatrixRows(o, i) \in Nat
    BY <1>1, <1>3 DEF MatrixRows, OutputsPerBank
  <2>3. vector \in Nat
    <3>1. GroupLayout(r.hidden).values = r.hidden
          /\ GroupLayout(r.hidden).partitions = CeilDiv(r.hidden, CeilDiv(r.hidden, Groups))
      BY DEF GroupLayout, PlanVector, Layout
    <3>2. CeilDiv(r.hidden, Groups) \in Nat \ {0}
      BY <1>1, <1>2, <1>3
    <3>3. GroupLayout(r.hidden).partitions \in Nat \ {0}
      BY <3>1, <3>2, <1>1, <1>2
    <3> QED  BY <3>1, <3>3, <1>1, <1>2, <1>3 DEF ValuesPerPartition
  <2> HIDE DEF tokens, vector
  <2>4. n = [vector |-> vector,
       wq |-> MatrixRows(r.hidden, r.hidden),
       wkv |-> MatrixRows(KvWidth(r), r.hidden),
       cache_k |-> CeilDiv(r.max, TotalBanks) * CeilDiv(KvWidth(r), DramColumns),
       scores |-> tokens * CeilDiv(r.heads, Groups),
       cache_v |-> tokens * CeilDiv(r.kv_heads, ChannelsPerBlock)
                          * CeilDiv(HeadSize(r), NumBanks),
       expanded |-> MatrixRows(r.intermediate, r.hidden),
       intermediate_vector |-> CeilDiv(r.intermediate, TotalBanks * DramColumns),
       ffn_vector |-> CeilDiv(r.intermediate, DramColumns * NumBanks),
       w2 |-> MatrixRows(r.hidden, r.intermediate)]
    BY DEF RowCounts, RowCountsFor, tokens, vector
  <2> HIDE DEF n
  <2>5. /\ n.vector \in Nat /\ n.wq \in Nat /\ n.wkv \in Nat /\ n.w2 \in Nat /\ n.expanded \in Nat
    <3>1. /\ n.vector = vector /\ n.wq = MatrixRows(r.hidden, r.hidden)
          /\ n.wkv = MatrixRows(KvWidth(r), r.hidden) /\ n.w2 = MatrixRows(r.hidden, r.intermediate)
          /\ n.expanded = MatrixRows(r.intermediate, r.hidden)
      BY <2>4
    <3> QED  BY <1>2, <2>2, <2>3, <3>1
  <2>6. n.cache_k \in Nat /\ n.scores \in Nat /\ n.cache_v \in Nat
    <3> DEFINE x == CeilDiv(r.max, TotalBanks)
               y == CeilDiv(KvWidth(r), DramColumns)
               z == CeilDiv(r.heads, Groups)
               u == CeilDiv(r.kv_heads, ChannelsPerBlock)
               w == CeilDiv(HeadSize(r), NumBanks)
    <3>1. n.cache_k = x * y /\ n.scores = tokens * z /\ n.cache_v = tokens * u * w
      BY <2>4
    <3>2. x \in Nat /\ y \in Nat /\ z \in Nat /\ u \in Nat /\ w \in Nat
      BY <1>1, <1>2, <1>3
    <3> HIDE DEF x, y, z, u, w
    <3>3. x * y \in Nat /\ tokens * z \in Nat /\ tokens * u * w \in Nat
      BY <2>1, <3>2
    <3> QED  BY <3>1, <3>3
  <2>7. n.intermediate_vector \in Nat /\ n.ffn_vector \in Nat
    <3> DEFINE x == TotalBanks * DramColumns
               y == DramColumns * NumBanks
    <3>1. n.intermediate_vector = CeilDiv(r.intermediate, x)
          /\ n.ffn_vector = CeilDiv(r.intermediate, y)
      BY <2>4
    <3>2. x \in Nat \ {0} /\ y \in Nat \ {0}
      BY <1>3
    <3> HIDE DEF x, y
    <3> QED  BY <1>1, <1>2, <3>1, <3>2
  <2>8. DOMAIN n = {"vector", "wq", "wkv", "cache_k", "scores", "cache_v", "expanded",
                    "intermediate_vector", "ffn_vector", "w2"}
    BY <2>4
  <2> QED  BY <2>5, <2>6, <2>7, <2>8
<1> HIDE DEF n
<1>5. /\ Len(m) = 24 /\ m = [j \in 1..24 |-> m[j]] /\ m[9][1] = "cache_k" /\ m[11][1] = "cache_v"
  BY DEF RegionsOf
<1>6. \A j \in 1..24 : m[j][2] \in Nat
  <2>1. DOMAIN n = {"vector", "wq", "wkv", "cache_k", "scores", "cache_v", "expanded",
                    "intermediate_vector", "ffn_vector", "w2"}
    BY DEF RowCounts, RowCountsFor, n
  <2>2. /\ n.vector \in Nat /\ n.wq \in Nat /\ n.wkv \in Nat /\ n.w2 \in Nat /\ n.expanded \in Nat
        /\ n.cache_k \in Nat /\ n.scores \in Nat /\ n.cache_v \in Nat
        /\ n.intermediate_vector \in Nat /\ n.ffn_vector \in Nat
    BY <1>4, <2>1
  <2> QED  BY <2>2 DEF RegionsOf
<1>7. PlannedMemory(r) = m
  BY DEF PlannedMemory, n
<1> HIDE DEF m
<1>8. /\ Len(m) \in Nat /\ m = [j \in 1..Len(m) |-> m[j]]
      /\ \A j \in 1..Len(m) : m[j][2] \in Nat
      /\ \E j \in 1..Len(m) : m[j][1] = "cache_k"
      /\ \E j \in 1..Len(m) : m[j][1] = "cache_v"
  <2>1. 9 \in 1..Len(m) /\ 11 \in 1..Len(m) /\ 1..24 = 1..Len(m)
    BY <1>5
  <2> QED  BY <1>5, <1>6, <2>1
<1>9. RowRange(m, "cache_k").start \in Nat /\ RowRange(m, "cache_v").start \in Nat
  BY <1>8, RegionStarts
<1> QED  BY <1>7, <1>8, <1>9 DEF KeyStart, ValueStart

\* The key, the value and the scores have a place in the Shared Buffer.
LEMMA SpansNatural ==
  ASSUME NEW r \in SizedRequest, Planned(r)
  PROVE  /\ BufferSpans(r).key.start \in Nat /\ BufferSpans(r).value.start \in Nat
         /\ BufferSpans(r).scores.start \in Nat
<1> DEFINE hidden == SlotCount(GroupLayout(r.hidden))
           kv == SlotCount(GroupLayout(KvWidth(r)))
           hiddenResults == OutputsPerBank(r.hidden)
           kvResults == OutputsPerBank(KvWidth(r))
           packed == 2 * hidden + hiddenResults + 2 * kvResults
<1>1. /\ \A a \in Nat, b \in Nat \ {0} : CeilDiv(a, b) \in Nat
      /\ \A a, b \in Nat \ {0} : CeilDiv(a, b) \in Nat \ {0}
  <2>1. \A a \in Nat, b \in Nat \ {0} : (a + b - 1) \div b \in Nat
    OBVIOUS
  <2>2. \A a, b \in Nat \ {0} : (a + b - 1) \div b \in Nat \ {0}
    OBVIOUS
  <2> QED  BY <2>1, <2>2 DEF CeilDiv
<1>2. /\ ValidPlacement /\ KvWidth(r) \in Nat \ {0} /\ r.hidden \in Nat \ {0}
  BY PlannedSizes DEF Planned, ValidRequest
<1>3. TotalBanks \in Nat \ {0} /\ Groups \in Nat \ {0} /\ BurstLength \in Nat \ {0}
  <2>1. /\ TotalBanks \in Nat \ {0} /\ TotalBanks = ChannelsPerBlock * NumBanks
        /\ NumBanks \in Nat \ {0} /\ ChannelsPerBlock \in Nat \ {0} /\ BurstLength \in Nat \ {0}
    BY <1>2, Geometry
  <2>2. NumBanks >= 4
    BY HardwareAssumption DEF ValidHardware, BanksPerGroup
  <2>3. \A c \in Nat \ {0}, b \in Nat : b >= 4 => (c * b) \div 4 \in Nat \ {0}
    OBVIOUS
  <2> QED  BY <2>1, <2>2, <2>3 DEF Groups, BanksPerGroup
<1>4. ASSUME NEW n \in Nat \ {0}
      PROVE  SlotCount(GroupLayout(n)) \in Nat
  <2> DEFINE l == GroupLayout(n)
             m == CeilDiv(n, CeilDiv(n, Groups))
  <2>1. l.values = n /\ l.partitions = m /\ l.burst = BurstLength
    BY DEF GroupLayout, PlanVector, Layout
  <2>2. m \in Nat \ {0}
    BY <1>1, <1>3
  <2> HIDE DEF l, m
  <2>3. ValuesPerPartition(l) \in Nat
    BY <1>1, <2>1, <2>2 DEF ValuesPerPartition
  <2> DEFINE slots == SlotsPerPartition(l)
  <2>4. slots \in Nat
    BY <1>1, <1>3, <2>1, <2>3 DEF SlotsPerPartition
  <2>5. SlotCount(l) = m * slots
    BY <2>1 DEF SlotCount
  <2> HIDE DEF slots
  <2>6. m * slots \in Nat
    BY <2>2, <2>4
  <2> QED  BY <2>5, <2>6 DEF l
<1>5. hidden \in Nat /\ kv \in Nat
  BY <1>2, <1>4
<1>6. hiddenResults \in Nat /\ kvResults \in Nat
  BY <1>1, <1>2, <1>3 DEF OutputsPerBank
<1>7. /\ BufferSpans(r).key.start = packed + hidden
      /\ BufferSpans(r).value.start = packed + hidden + kv
      /\ BufferSpans(r).scores.start = packed + hidden + 2 * kv
  BY DEF BufferSpans, SpanAt
<1> HIDE DEF hidden, kv, hiddenResults, kvResults
<1>8. packed + hidden \in Nat /\ packed + hidden + kv \in Nat
      /\ packed + hidden + 2 * kv \in Nat
  BY <1>5, <1>6
<1> QED  BY <1>7, <1>8

\* The rows reserved do not depend on the tokens there are.
LEMMA SamePlaces ==
  ASSUME NEW r \in SizedRequest, NEW n \in Nat
  PROVE  LET s == [r EXCEPT !.length = n]
         IN  /\ s \in SizedRequest /\ s.length = n
             /\ s.kv_heads = r.kv_heads /\ s.max = r.max /\ HeadSize(s) = HeadSize(r)
             /\ KvWidth(s) = KvWidth(r)
             /\ KeyStart(s) = KeyStart(r) /\ ValueStart(s) = ValueStart(r)
<1> DEFINE s == [r EXCEPT !.length = n]
<1>1. /\ s \in SizedRequest /\ s.length = n /\ s.hidden = r.hidden /\ s.heads = r.heads
      /\ s.kv_heads = r.kv_heads /\ s.intermediate = r.intermediate /\ s.max = r.max
  BY DEF SizedRequest
<1> HIDE DEF s
<1>2. HeadSize(s) = HeadSize(r) /\ KvWidth(s) = KvWidth(r)
  BY <1>1 DEF HeadSize, KvWidth
<1>3. RowCounts(s) = RowCounts(r)
  BY <1>1, <1>2 DEF RowCounts, RowCountsFor
<1>4. PlannedMemory(s) = PlannedMemory(r)
  BY <1>3 DEF PlannedMemory
<1> QED  BY <1>1, <1>2, <1>4 DEF KeyStart, ValueStart, s

(* One copy of one row of a key. *)
KeyBatch(p, k, o) ==
  Tagged(SingleBankTransfers("WR_SBK", BankChannel(p.key_bank) + p.key_offsets[o + 1],
           BankNumber(p.key_bank), p.rows.key_cache.start + p.key_group * p.key_rows + k,
           0, InRow(p.spec.kv_width, k), p.buffers.key.start + k * (DramColumns \div BurstLength)),
         {p.buffers.key.value}, "key")

(* The steps that write the key: one for every row and copy. *)
LEMMA InKeyWrites ==
  ASSUME NEW p, p.key_rows \in Nat, Len(p.key_offsets) \in Nat
  PROVE  /\ IsListing(KeyWrites(p))
         /\ \A s : In(s, KeyWrites(p)) <=>
              \E k \in 0..(p.key_rows - 1) : \E o \in 0..(Len(p.key_offsets) - 1) :
                s = [ok |-> TRUE, batch |-> KeyBatch(p, k, o)]
<1> DEFINE L == Len(p.key_offsets)
           G(k) == [o \in 0..(L - 1) |-> AppendBatch(KeyBatch(p, k, o))]
           Row(k) == FlattenSeq([i \in 1..L |-> G(k)[i - 1]])
           F == [k \in 0..(p.key_rows - 1) |-> Row(k)]
<1>1. KeyWrites(p) = FlattenSeq([i \in 1..p.key_rows |-> F[i - 1]])
  <2>1. \A i \in 1..p.key_rows : i - 1 \in 0..(p.key_rows - 1)
    OBVIOUS
  <2>2. \A i \in 1..L : i - 1 \in 0..(L - 1)
    OBVIOUS
  <2>3. ASSUME NEW k
        PROVE  [i \in 1..L |-> G(k)[i - 1]] = [i \in 1..L |-> AppendBatch(KeyBatch(p, k, i - 1))]
    BY <2>2
  <2>4. KeyWrites(p) = FlattenSeq([j \in 1..p.key_rows |->
                         FlattenSeq([i \in 1..L |-> AppendBatch(KeyBatch(p, j - 1, i - 1))])])
    BY DEF KeyWrites, Each, KeyBatch
  <2>5. [i \in 1..p.key_rows |-> F[i - 1]]
          = [j \in 1..p.key_rows |->
               FlattenSeq([i \in 1..L |-> AppendBatch(KeyBatch(p, j - 1, i - 1))])]
    BY <2>1, <2>3
  <2> QED  BY <2>4, <2>5
<1>2. ASSUME NEW k \in 0..(p.key_rows - 1)
      PROVE  /\ IsListing(F[k])
             /\ \A s : In(s, F[k]) <=>
                  \E o \in 0..(L - 1) : s = [ok |-> TRUE, batch |-> KeyBatch(p, k, o)]
  <2>1. F[k] = Row(k)
    OBVIOUS
  <2> DEFINE H == G(k)
  <2>2. \A o \in 0..(L - 1) :
          /\ IsListing(H[o])
          /\ \A s : In(s, H[o]) <=> s = [ok |-> TRUE, batch |-> KeyBatch(p, k, o)]
    BY InStep
  <2>3. F[k] = FlattenSeq([i \in 1..L |-> H[i - 1]])
    BY <2>1
  <2> HIDE DEF H, F, L
  <2>4. \A o \in 0..(L - 1) : IsListing(H[o])
    BY <2>2
  <2>5. L \in Nat
    BY DEF L
  <2>6. /\ IsListing(F[k])
        /\ \A s : In(s, F[k]) <=> \E o \in 0..(L - 1) : In(s, H[o])
    BY <2>3, <2>4, <2>5, InEach
  <2> QED  BY <2>2, <2>6
<1> HIDE DEF F
<1>3. /\ IsListing(KeyWrites(p))
      /\ \A s : In(s, KeyWrites(p)) <=> \E k \in 0..(p.key_rows - 1) : In(s, F[k])
  BY <1>1, <1>2, InEach
<1> QED  BY <1>2, <1>3

ValueBatch(p, h, d, c) ==
  <<ValueWrite(p, p.value_channels[c + 1], h, c * p.value_heads + h, d)>>

(* The steps that write the value: one for every group of dimensions of    *)
(* every head there is.                                                    *)
LEMMA InValueWrites ==
  ASSUME NEW p, p.value_heads \in Nat, p.value_dimensions \in Nat, Len(p.value_channels) \in Nat
  PROVE  /\ IsListing(ValueWrites(p))
         /\ \A s : In(s, ValueWrites(p)) <=>
              \E h \in 0..(p.value_heads - 1) : \E d \in 0..(p.value_dimensions - 1) :
                \E c \in 0..(Len(p.value_channels) - 1) :
                  /\ ~(c * p.value_heads + h >= p.spec.kv_heads)
                  /\ s = [ok |-> TRUE, batch |-> ValueBatch(p, h, d, c)]
<1> DEFINE L == Len(p.value_channels)
           Step(h, d, c) == IF c * p.value_heads + h >= p.spec.kv_heads THEN <<>>
                            ELSE Append1(ValueWrite(p, p.value_channels[c + 1], h,
                                                    c * p.value_heads + h, d))
           G(h, d) == [c \in 0..(L - 1) |-> Step(h, d, c)]
           Dimension(h) == [d \in 0..(p.value_dimensions - 1) |->
                              FlattenSeq([i \in 1..L |-> G(h, d)[i - 1]])]
           F == [h \in 0..(p.value_heads - 1) |->
                   FlattenSeq([i \in 1..p.value_dimensions |-> Dimension(h)[i - 1]])]
<1>1. ValueWrites(p) = FlattenSeq([i \in 1..p.value_heads |-> F[i - 1]])
  <2>1. \A n \in Nat : \A i \in 1..n : i - 1 \in 0..(n - 1)
    OBVIOUS
  <2>2. ASSUME NEW h, NEW d
        PROVE  [i \in 1..L |-> G(h, d)[i - 1]] = [i \in 1..L |-> Step(h, d, i - 1)]
    <3> HIDE DEF Step
    <3> QED  BY <2>1
  <2>3. ValueWrites(p) = FlattenSeq([a \in 1..p.value_heads |->
                           FlattenSeq([b \in 1..p.value_dimensions |->
                             FlattenSeq([i \in 1..L |-> Step(a - 1, b - 1, i - 1)])])])
    BY DEF ValueWrites, Each
  <2> HIDE DEF Step
  <2>4. ASSUME NEW h
        PROVE  [i \in 1..p.value_dimensions |-> Dimension(h)[i - 1]]
                 = [b \in 1..p.value_dimensions |->
                      FlattenSeq([i \in 1..L |-> Step(h, b - 1, i - 1)])]
    BY <2>1, <2>2
  <2>5. [i \in 1..p.value_heads |-> F[i - 1]]
          = [a \in 1..p.value_heads |->
               FlattenSeq([b \in 1..p.value_dimensions |->
                             FlattenSeq([i \in 1..L |-> Step(a - 1, b - 1, i - 1)])])]
    BY <2>1, <2>4
  <2> QED  BY <2>3, <2>5
<1>2. ASSUME NEW h \in 0..(p.value_heads - 1)
      PROVE  /\ IsListing(F[h])
             /\ \A s : In(s, F[h]) <=>
                  \E d \in 0..(p.value_dimensions - 1) : \E c \in 0..(L - 1) :
                    In(s, Step(h, d, c))
  <2> DEFINE D == Dimension(h)
  <2>1. F[h] = FlattenSeq([i \in 1..p.value_dimensions |-> D[i - 1]])
    OBVIOUS
  <2>2. ASSUME NEW d \in 0..(p.value_dimensions - 1)
        PROVE  /\ IsListing(D[d])
               /\ \A s : In(s, D[d]) <=> \E c \in 0..(L - 1) : In(s, Step(h, d, c))
    <3> DEFINE H == G(h, d)
    <3>1. D[d] = FlattenSeq([i \in 1..L |-> H[i - 1]])
      OBVIOUS
    <3>2. \A c \in 0..(L - 1) : H[c] = Step(h, d, c)
      OBVIOUS
    <3>3. \A c \in 0..(L - 1) : IsListing(Step(h, d, c))
      <4>1. IsListing(<<>>)
        BY DEF IsListing
      <4> QED  BY <4>1, InStep
    <3> HIDE DEF H, D, Step
    <3>4. \A c \in 0..(L - 1) : IsListing(H[c])
      BY <3>2, <3>3
    <3>5. /\ IsListing(D[d])
          /\ \A s : In(s, D[d]) <=> \E c \in 0..(L - 1) : In(s, H[c])
      BY <3>1, <3>4, InEach
    <3> QED  BY <3>2, <3>5
  <2> HIDE DEF D, F, Step
  <2>3. /\ IsListing(F[h])
        /\ \A s : In(s, F[h]) <=> \E d \in 0..(p.value_dimensions - 1) : In(s, D[d])
    BY <2>1, <2>2, InEach
  <2> QED  BY <2>2, <2>3
<1> HIDE DEF F
<1>3. /\ IsListing(ValueWrites(p))
      /\ \A s : In(s, ValueWrites(p)) <=> \E h \in 0..(p.value_heads - 1) : In(s, F[h])
  <2> HIDE DEF Step
  <2> QED  BY <1>1, <1>2, InEach
<1>4. ASSUME NEW h, NEW d, NEW c, NEW s
      PROVE  In(s, Step(h, d, c)) <=> /\ ~(c * p.value_heads + h >= p.spec.kv_heads)
                                      /\ s = [ok |-> TRUE, batch |-> ValueBatch(p, h, d, c)]
  <2> DEFINE Absent == c * p.value_heads + h >= p.spec.kv_heads
             write == ValueWrite(p, p.value_channels[c + 1], h, c * p.value_heads + h, d)
  <2>1. ~In(s, <<>>)
    BY DEF In
  <2>2. Step(h, d, c) = IF Absent THEN <<>> ELSE Append1(write)
    OBVIOUS
  <2>3. ValueBatch(p, h, d, c) = <<write>>
    BY DEF ValueBatch
  <2>4. In(s, Append1(write)) <=> s = [ok |-> TRUE, batch |-> <<write>>]
    BY InStep
  <2> HIDE DEF Absent, write, Step
  <2>5. In(s, Step(h, d, c)) <=> ~Absent /\ s = [ok |-> TRUE, batch |-> ValueBatch(p, h, d, c)]
    BY <2>1, <2>2, <2>3, <2>4
  <2> QED  BY <2>5 DEF Absent
<1> DEFINE Written(h, d, c, s) == /\ ~(c * p.value_heads + h >= p.spec.kv_heads)
                                  /\ s = [ok |-> TRUE, batch |-> ValueBatch(p, h, d, c)]
<1>5. \A h, d, c, s : In(s, Step(h, d, c)) <=> Written(h, d, c, s)
  <2> HIDE DEF Step
  <2> QED  BY <1>4
<1> HIDE DEF Step, Written
<1>6. \A s : In(s, ValueWrites(p)) <=>
        \E h \in 0..(p.value_heads - 1) : \E d \in 0..(p.value_dimensions - 1) :
          \E c \in 0..(L - 1) : Written(h, d, c, s)
  <2>1. ASSUME NEW s
        PROVE  In(s, ValueWrites(p)) <=>
                 \E h \in 0..(p.value_heads - 1) : \E d \in 0..(p.value_dimensions - 1) :
                   \E c \in 0..(L - 1) : In(s, Step(h, d, c))
    <3>1. In(s, ValueWrites(p)) <=> \E h \in 0..(p.value_heads - 1) : In(s, F[h])
      BY <1>3
    <3>2. \A h \in 0..(p.value_heads - 1) :
            In(s, F[h]) <=> \E d \in 0..(p.value_dimensions - 1) : \E c \in 0..(L - 1) :
                              In(s, Step(h, d, c))
      BY <1>2
    <3> QED  BY <3>1, <3>2
  <2> QED  BY <2>1, <1>5
<1> QED  BY <1>3, <1>6 DEF Written

(* The key of a token: one row in every copy for every row of a key. *)
KeyCell(r, t, k, o) ==
  <<BankChannel(t % TotalBanks) + o * ChannelsPerBlock, BankNumber(t % TotalBanks),
    KeyStart(r) + KeyGroup(t) * KeyRows(r) + k>>

KeyCells(r, t) ==
  {KeyCell(r, t, k, o) : k \in 0..(KeyRows(r) - 1), o \in 0..(Copies - 1)}

(* The value of a token: a column in the rows of every head. *)
ValueCell(r, t, h, d, c) ==
  <<c, ValueStart(r) + ValueRow(TokenRows(r), ValueDimensions(r), h, d, t \div DramColumns),
    t % DramColumns>>

HeadExists(r, h, c) == c * ValueHeads(r) + h < r.kv_heads

ValueCells(r, t) ==
  {ValueCell(r, t, w[1], w[2], w[3]) :
     w \in {v \in (0..(ValueHeads(r) - 1)) \X (0..(ValueDimensions(r) - 1))
                    \X (0..(ChannelsPerBlock - 1)) : HeadExists(r, v[1], v[3])}}

(* Which part of a key or a value a cell of it is for. *)
IsKeyPart(r, at, cell, part) ==
  \E k \in 0..(KeyRows(r) - 1) : \E o \in 0..(Copies - 1) :
    cell = KeyCell(r, at, k, o) /\ part = k

IsValuePart(r, at, cell, part) ==
  \E h \in 0..(ValueHeads(r) - 1) : \E d \in 0..(ValueDimensions(r) - 1) :
    \E c \in 0..(ChannelsPerBlock - 1) :
      /\ HeadExists(r, h, c) /\ cell = ValueCell(r, at, h, d, c)
      /\ part = (c * ValueHeads(r) + h) * ValueDimensions(r) + d

(* The part an instruction of an update writes. *)
KeyPartOf(r, i) == (i.slot - BufferSpans(r).key.start) \div (DramColumns \div BurstLength)
ValuePartOf(r, i) == i.slot - BufferSpans(r).value.start

(* It writes a part of a token to a cell for that part. *)
WritesPart(r, at, i) ==
  \/ i.op = "WR_SBK" /\ IsKeyPart(r, at, <<i.channel, i.bank, i.row>>, KeyPartOf(r, i))
  \/ i.op = "WR_ABK" /\ IsValuePart(r, at, <<i.channel, i.row, i.column>>, ValuePartOf(r, i))

\* The cells of a value, one index after the other.
LEMMA ValueCellListed ==
  ASSUME NEW r, NEW t, NEW cell
  PROVE  cell \in ValueCells(r, t)
           <=> \E h \in 0..(ValueHeads(r) - 1) : \E d \in 0..(ValueDimensions(r) - 1) :
                 \E c \in 0..(ChannelsPerBlock - 1) :
                   HeadExists(r, h, c) /\ cell = ValueCell(r, t, h, d, c)
<1> DEFINE H == 0..(ValueHeads(r) - 1)
           D == 0..(ValueDimensions(r) - 1)
           C == 0..(ChannelsPerBlock - 1)
<1>1. ASSUME NEW h \in H, NEW d \in D, NEW c \in C, HeadExists(r, h, c),
             cell = ValueCell(r, t, h, d, c)
      PROVE  cell \in ValueCells(r, t)
  <2> DEFINE v == <<h, d, c>>
  <2>1. v \in H \X D \X C /\ v[1] = h /\ v[2] = d /\ v[3] = c
    OBVIOUS
  <2> HIDE DEF v, H, D, C
  <2>2. v \in {w \in H \X D \X C : HeadExists(r, w[1], w[3])}
    BY <1>1, <2>1
  <2>3. cell = ValueCell(r, t, v[1], v[2], v[3])
    BY <1>1, <2>1
  <2> QED  BY <2>2, <2>3 DEF ValueCells, H, D, C
<1>2. ASSUME cell \in ValueCells(r, t)
      PROVE  \E h \in H : \E d \in D : \E c \in C :
               HeadExists(r, h, c) /\ cell = ValueCell(r, t, h, d, c)
  <2>1. PICK v \in {w \in H \X D \X C : HeadExists(r, w[1], w[3])} :
               cell = ValueCell(r, t, v[1], v[2], v[3])
    BY <1>2 DEF ValueCells
  <2>2. v[1] \in H /\ v[2] \in D /\ v[3] \in C /\ HeadExists(r, v[1], v[3])
    OBVIOUS
  <2> HIDE DEF H, D, C
  <2> QED  BY <2>1, <2>2
<1> QED  BY <1>1, <1>2

\* The rows of a sequence hold at least one of its values and at most a row.
LEMMA InRowSize ==
  ASSUME ValidPlacement, NEW n \in Nat, NEW k \in Nat, k < CeilDiv(n, DramColumns)
  PROVE  InRow(n, k) \in 1..DramColumns
<1>1. DramColumns \in Nat \ {0}
  BY Geometry
<1>2. k * DramColumns < n
  BY <1>1, CeilDivBelow
<1> DEFINE m == k * DramColumns
<1>3. m \in Nat
  BY <1>1
<1> HIDE DEF m
<1>4. n - m \in Nat \ {0}
  BY <1>2, <1>3 DEF m
<1> QED  BY <1>1, <1>4 DEF InRow, Lesser, m

\* The transfer of a row of a key is one write.
LEMMA KeyBatchIs ==
  ASSUME NEW r \in SizedRequest, Planned(r), NEW p, p = StagePlan(r, "kv_update"),
         NEW k \in 0..(KeyRows(r) - 1), NEW o \in 0..(Copies - 1)
  PROVE  /\ IsListing(KeyBatch(p, k, o))
         /\ \E i : /\ i.op = "WR_SBK"
                   /\ <<i.channel, i.bank, i.row>> = KeyCell(r, r.length - 1, k, o)
                   /\ KeyPartOf(r, i) = k
                   /\ \A j : In(j, KeyBatch(p, k, o)) <=> j = i
<1>1. /\ p.spec = AttentionSpec(r) /\ p.key_bank = (r.length - 1) % TotalBanks
      /\ p.key_group = KeyGroup(r.length - 1) /\ p.key_rows = KeyRows(r)
      /\ p.key_offsets = ReplicaOffsets /\ p.rows.key_cache.start = KeyStart(r)
      /\ p.buffers.key.start = BufferSpans(r).key.start
  BY UpdatePlan
<1>2. /\ ValidPlacement /\ r.length \in Nat \ {0} /\ KvWidth(r) \in Nat /\ KeyStart(r) \in Nat
  BY PlannedSizes, StartsNatural
<1>3. /\ DramColumns \in Nat \ {0} /\ TotalBanks \in Nat \ {0} /\ Copies \in Nat \ {0}
      /\ ChannelsPerBlock \in Nat \ {0}
  BY <1>2, Geometry
<1>4. KeyRows(r) \in Nat /\ k \in Nat /\ k < KeyRows(r)
  BY <1>2, <1>3, CeilDivBelow DEF KeyRows
<1>5. KeyGroup(r.length - 1) \in Nat
  <2>1. r.length - 1 \in Nat
    BY <1>2
  <2> QED  BY <1>3, <2>1, Parts DEF KeyGroup
<1> DEFINE perRow == DramColumns \div BurstLength
           row == KeyStart(r) + KeyGroup(r.length - 1) * KeyRows(r) + k
           channel == BankChannel((r.length - 1) % TotalBanks) + o * ChannelsPerBlock
           bank == BankNumber((r.length - 1) % TotalBanks)
           slot == p.buffers.key.start + k * perRow
           count == InRow(KvWidth(r), k)
           batch == SingleBankTransfers("WR_SBK", channel, bank, row, 0, count, slot)
<1>6. row \in Nat
  <2> DEFINE g == KeyGroup(r.length - 1)
             n == KeyRows(r)
  <2> HIDE DEF g, n
  <2>1. g * n \in Nat
    BY <1>4, <1>5 DEF g, n
  <2> QED  BY <1>2, <1>4, <2>1 DEF g, n
<1>7. count \in 1..DramColumns
  BY <1>2, <1>4, InRowSize DEF KeyRows
<1>14. slot \in Nat /\ (slot - p.buffers.key.start) \div perRow = k
  <2> DEFINE start == p.buffers.key.start
  <2>1. start \in Nat
    BY <1>1, SpansNatural
  <2>2. perRow \in Nat \ {0}
    <3>1. \A c, b \in Nat \ {0} : c % b = 0 => c \div b \in Nat \ {0}
      OBVIOUS
    <3> QED  BY <1>2, <1>3, <3>1, Geometry
  <2> HIDE DEF start, perRow
  <2>3. \A a, x \in Nat, m \in Nat \ {0} : /\ a + x * m \in Nat
                                            /\ ((a + x * m) - a) \div m = x
    <3>1. \A a, x \in Nat : \A m \in Nat : a + x * m \in Nat /\ (a + x * m) - a = x * m
      OBVIOUS
    <3>2. \A x \in Nat, m \in Nat \ {0} : (x * m) \div m = x
      OBVIOUS
    <3> QED  BY <3>1, <3>2
  <2> QED  BY <1>4, <2>1, <2>2, <2>3 DEF start
<1>8. KeyBatch(p, k, o) = Tagged(batch, {p.buffers.key.value}, "key")
  <2>1. ReplicaOffsets[o + 1] = o * ChannelsPerBlock
    BY <1>3 DEF ReplicaOffsets
  <2>2. p.spec.kv_width = KvWidth(r)
    BY <1>1 DEF AttentionSpec
  <2> QED  BY <1>1, <2>1, <2>2 DEF KeyBatch
<1> HIDE DEF row, channel, bank, slot, count, perRow
<1>9. /\ batch = [j \in 1..1 |-> batch[j]] /\ Len(batch) = 1
      /\ batch[1].op = "WR_SBK" /\ batch[1].channel = channel /\ batch[1].bank = bank
      /\ batch[1].row = row + 1 - 1 /\ batch[1].slot = slot
      /\ {"op", "channel", "bank", "row", "slot"} \subseteq DOMAIN batch[1]
  BY <1>6, <1>7, <1>14, OneTransfer
<1> HIDE DEF batch
<1> DEFINE t == Tagged(batch, {p.buffers.key.value}, "key")
<1>10. /\ IsListing(t) /\ Len(t) = 1
       /\ \A f \in DOMAIN batch[1] : t[1][f] = batch[1][f]
  <2>1. IsListing(batch) /\ Len(batch) = 1 /\ 1 \in 1..Len(batch)
    BY <1>9 DEF IsListing
  <2> HIDE DEF t
  <2> QED  BY <2>1, TaggedKeeps DEF t
<1> HIDE DEF t
<1>11. /\ t[1].op = "WR_SBK" /\ t[1].channel = channel /\ t[1].bank = bank /\ t[1].row = row
       /\ t[1].slot = slot
  BY <1>6, <1>9, <1>10
<1>12. \A j : In(j, t) <=> j = t[1]
  BY <1>10 DEF In
<1>13. <<t[1].channel, t[1].bank, t[1].row>> = KeyCell(r, r.length - 1, k, o)
  BY <1>11 DEF KeyCell, channel, bank, row
<1>15. KeyPartOf(r, t[1]) = k
  <2>1. KeyPartOf(r, t[1]) = (t[1].slot - BufferSpans(r).key.start) \div perRow
    BY DEF KeyPartOf, perRow
  <2> QED  BY <1>1, <1>11, <1>14, <2>1
<1>16. KeyBatch(p, k, o) = t
  BY <1>8 DEF t
<1> QED  BY <1>10, <1>11, <1>12, <1>13, <1>15, <1>16

\* The write of a group of dimensions.
LEMMA ValueBatchIs ==
  ASSUME NEW r \in SizedRequest, Planned(r), NEW p, p = StagePlan(r, "kv_update"),
         NEW h \in Nat, NEW d \in Nat, NEW c \in 0..(ChannelsPerBlock - 1)
  PROVE  /\ IsListing(ValueBatch(p, h, d, c))
         /\ \E i : /\ i.op = "WR_ABK"
                   /\ <<i.channel, i.row, i.column>> = ValueCell(r, r.length - 1, h, d, c)
                   /\ ValuePartOf(r, i) = (c * ValueHeads(r) + h) * ValueDimensions(r) + d
                   /\ \A j : In(j, ValueBatch(p, h, d, c)) <=> j = i
<1> DEFINE i == ValueWrite(p, p.value_channels[c + 1], h, c * p.value_heads + h, d)
<1>1. /\ p.value_channels = [k \in 1..ChannelsPerBlock |-> k - 1]
      /\ p.value_rows = TokenRows(r) /\ p.value_sequence_row = (r.length - 1) \div DramColumns
      /\ p.value_dimensions = ValueDimensions(r) /\ p.sequence_index = r.length - 1
      /\ p.rows.value_cache.start = ValueStart(r) /\ p.value_heads = ValueHeads(r)
      /\ p.buffers.value.start = BufferSpans(r).value.start
  BY UpdatePlan
<1>2. p.value_channels[c + 1] = c
  BY <1>1, PlacementAssumption
<1>3. i.op = "WR_ABK" /\ i.channel = c /\ i.column = (r.length - 1) % DramColumns
      /\ i.row = ValueStart(r) + ValueRow(TokenRows(r), ValueDimensions(r), h, d,
                                          (r.length - 1) \div DramColumns)
  BY <1>1, <1>2 DEF ValueWrite, ValueColumn
<1>6. ValuePartOf(r, i) = (c * ValueHeads(r) + h) * ValueDimensions(r) + d
  <2> DEFINE start == BufferSpans(r).value.start
             m == (c * ValueHeads(r) + h) * ValueDimensions(r)
  <2>1. i.slot = start + m + d
    BY <1>1 DEF ValueWrite
  <2>2. start \in Nat
    BY SpansNatural
  <2>3. ValueHeads(r) \in Nat /\ ValueDimensions(r) \in Nat /\ c \in Nat
    <3>1. /\ ValidPlacement /\ r.kv_heads \in Nat /\ HeadSize(r) \in Nat
      BY PlannedSizes
    <3>2. NumBanks \in Nat \ {0} /\ ChannelsPerBlock \in Nat \ {0}
      BY <3>1, Geometry
    <3>3. ValueHeads(r) \in Nat
      BY <3>1, <3>2, CeilDivBelow DEF ValueHeads
    <3>4. ValueDimensions(r) \in Nat
      BY <3>1, <3>2, CeilDivBelow DEF ValueDimensions
    <3>5. c \in Nat
      OBVIOUS
    <3> QED  BY <3>3, <3>4, <3>5
  <2>4. m \in Nat
    <3> DEFINE x == c * ValueHeads(r) + h
    <3>1. x \in Nat
      BY <2>3
    <3> HIDE DEF x
    <3>2. x * ValueDimensions(r) \in Nat
      BY <2>3, <3>1
    <3> QED  BY <3>2 DEF x
  <2> HIDE DEF start, m, i
  <2>5. i.slot - start = m + d
    BY <2>1, <2>2, <2>4
  <2> QED  BY <2>5 DEF ValuePartOf, start, m
<1>4. ValueBatch(p, h, d, c) = <<i>>
  BY DEF ValueBatch
<1> HIDE DEF i
<1>5. IsListing(<<i>>) /\ \A j : In(j, <<i>>) <=> j = i
  BY DEF IsListing, In
<1> QED  BY <1>3, <1>4, <1>5, <1>6 DEF ValueCell

(***************************************************************************)
(* What a step of so many tokens writes: the cells of its last token, each *)
(* of them, and no other.                                                  *)
(***************************************************************************)
LEMMA UpdateWrites ==
  ASSUME NEW r \in SizedRequest, Planned(r),
         NEW code, code = Batches(KvCacheUpdate(StagePlan(r, "kv_update")))
  PROVE  /\ IsListing(code)
         /\ \A i : In(i, code) =>
              \/ i.op = "WR_SBK" /\ <<i.channel, i.bank, i.row>> \in KeyCells(r, r.length - 1)
              \/ i.op = "WR_ABK" /\ <<i.channel, i.row, i.column>> \in ValueCells(r, r.length - 1)
         /\ \A i : In(i, code) => WritesPart(r, r.length - 1, i)
         /\ \A cell \in KeyCells(r, r.length - 1) :
              \E i : In(i, code) /\ i.op = "WR_SBK" /\ cell = <<i.channel, i.bank, i.row>>
         /\ \A cell \in ValueCells(r, r.length - 1) :
              \E i : In(i, code) /\ i.op = "WR_ABK" /\ cell = <<i.channel, i.row, i.column>>
<1> DEFINE p == StagePlan(r, "kv_update")
           KeyIndices == 0..(KeyRows(r) - 1)
           Replicas == 0..(Copies - 1)
           Heads == 0..(ValueHeads(r) - 1)
           Dims == 0..(ValueDimensions(r) - 1)
           Channels1 == 0..(ChannelsPerBlock - 1)
           steps == KvCacheUpdate(p)
           KeyStep(s, k, o) == s = [ok |-> TRUE, batch |-> KeyBatch(p, k, o)]
           ValueStep(s, h, d, c) == HeadExists(r, h, c)
                                    /\ s = [ok |-> TRUE, batch |-> ValueBatch(p, h, d, c)]
           Checked(s) == \E ok : s = [ok |-> ok, batch |-> <<>>]
<1>1. /\ p.spec.kv_heads = r.kv_heads /\ p.key_rows = KeyRows(r)
      /\ p.key_offsets = ReplicaOffsets /\ p.value_heads = ValueHeads(r)
      /\ p.value_channels = [k \in 1..ChannelsPerBlock |-> k - 1]
      /\ p.value_dimensions = ValueDimensions(r)
  <2>1. AttentionSpec(r).kv_heads = r.kv_heads
    BY DEF AttentionSpec
  <2> QED  BY <2>1, UpdatePlan
<1> HIDE DEF p
<1>2. /\ Copies \in Nat /\ ChannelsPerBlock \in Nat
      /\ KeyRows(r) \in Nat /\ ValueHeads(r) \in Nat /\ ValueDimensions(r) \in Nat
      /\ r.kv_heads \in Nat
  <2>1. /\ ValidPlacement /\ r.kv_heads \in Nat /\ HeadSize(r) \in Nat /\ KvWidth(r) \in Nat
    BY PlannedSizes
  <2>2. /\ DramColumns \in Nat \ {0} /\ NumBanks \in Nat \ {0} /\ Copies \in Nat
        /\ ChannelsPerBlock \in Nat \ {0}
    BY <2>1, Geometry
  <2> QED  BY <2>1, <2>2, CeilDivBelow DEF KeyRows, ValueHeads, ValueDimensions
<1>3. Len(p.key_offsets) = Copies /\ Len(p.value_channels) = ChannelsPerBlock
  BY <1>1, <1>2 DEF ReplicaOffsets
<1>4. /\ IsListing(KeyWrites(p))
      /\ \A s : In(s, KeyWrites(p)) <=> \E k \in KeyIndices : \E o \in Replicas : KeyStep(s, k, o)
  BY <1>1, <1>2, <1>3, InKeyWrites
<1>5. /\ IsListing(ValueWrites(p))
      /\ \A s : In(s, ValueWrites(p)) <=>
           \E h \in Heads : \E d \in Dims : \E c \in Channels1 : ValueStep(s, h, d, c)
  <2>1. \A h \in Heads, c \in Channels1 :
          HeadExists(r, h, c) <=> ~(c * p.value_heads + h >= p.spec.kv_heads)
    <3>1. ASSUME NEW h \in Heads, NEW c \in Channels1
          PROVE  HeadExists(r, h, c) <=> ~(c * p.value_heads + h >= p.spec.kv_heads)
      <4> DEFINE x == c * ValueHeads(r) + h
      <4>1. x \in Nat
        BY <1>2
      <4>2. x = c * p.value_heads + h
        BY <1>1
      <4>3. HeadExists(r, h, c) <=> x < r.kv_heads
        BY DEF HeadExists
      <4> HIDE DEF x
      <4>4. x < r.kv_heads <=> ~(x >= p.spec.kv_heads)
        BY <1>1, <1>2, <4>1
      <4> QED  BY <4>2, <4>3, <4>4
    <3> QED  BY <3>1
  <2>2. /\ IsListing(ValueWrites(p))
        /\ \A s : In(s, ValueWrites(p)) <=>
             \E h \in Heads : \E d \in Dims : \E c \in Channels1 :
               /\ ~(c * p.value_heads + h >= p.spec.kv_heads)
               /\ s = [ok |-> TRUE, batch |-> ValueBatch(p, h, d, c)]
    <3>1. p.value_heads \in Nat /\ p.value_dimensions \in Nat /\ Len(p.value_channels) \in Nat
      BY <1>1, <1>2, <1>3
    <3>2. /\ Heads = 0..(p.value_heads - 1) /\ Dims = 0..(p.value_dimensions - 1)
          /\ Channels1 = 0..(Len(p.value_channels) - 1)
      BY <1>1, <1>3
    <3>3. /\ IsListing(ValueWrites(p))
          /\ \A s : In(s, ValueWrites(p)) <=>
               \E h \in 0..(p.value_heads - 1) : \E d \in 0..(p.value_dimensions - 1) :
                 \E c \in 0..(Len(p.value_channels) - 1) :
                   /\ ~(c * p.value_heads + h >= p.spec.kv_heads)
                   /\ s = [ok |-> TRUE, batch |-> ValueBatch(p, h, d, c)]
      BY <3>1, InValueWrites
    <3> HIDE DEF Heads, Dims, Channels1
    <3> QED  BY <3>2, <3>3
  <2> QED  BY <2>1, <2>2
<1>6. \A s : Checked(s) => IsStep(s) /\ \A i : ~In(i, s.batch)
  BY DEF IsStep, IsListing, In
<1>7. ASSUME NEW k \in KeyIndices, NEW o \in Replicas
      PROVE  /\ IsListing(KeyBatch(p, k, o))
             /\ \E i : /\ i.op = "WR_SBK"
                       /\ <<i.channel, i.bank, i.row>> = KeyCell(r, r.length - 1, k, o)
                       /\ KeyPartOf(r, i) = k
                       /\ \A j : In(j, KeyBatch(p, k, o)) <=> j = i
  BY KeyBatchIs DEF p
<1>8. ASSUME NEW h \in Heads, NEW d \in Dims, NEW c \in Channels1
      PROVE  /\ IsListing(ValueBatch(p, h, d, c))
             /\ \E i : /\ i.op = "WR_ABK"
                       /\ <<i.channel, i.row, i.column>> = ValueCell(r, r.length - 1, h, d, c)
                       /\ ValuePartOf(r, i) = (c * ValueHeads(r) + h) * ValueDimensions(r) + d
                       /\ \A j : In(j, ValueBatch(p, h, d, c)) <=> j = i
  BY ValueBatchIs DEF p
<1>9. /\ IsListing(steps)
      /\ \A s : In(s, steps) =>
           \/ Checked(s)
           \/ \E k \in KeyIndices : \E o \in Replicas : KeyStep(s, k, o)
           \/ \E h \in Heads : \E d \in Dims : \E c \in Channels1 : ValueStep(s, h, d, c)
      /\ \A s : \/ \E k \in KeyIndices : \E o \in Replicas : KeyStep(s, k, o)
                \/ \E h \in Heads : \E d \in Dims : \E c \in Channels1 : ValueStep(s, h, d, c)
                => In(s, steps)
  <2> DEFINE c1 == Check(KvChecks(p))
             c2 == Check(ValueSpanFits(p))
             a == c1 \o KeyWrites(p)
             b == a \o c2
  <2>1. /\ IsListing(c1) /\ \A s : In(s, c1) => Checked(s)
        /\ IsListing(c2) /\ \A s : In(s, c2) => Checked(s)
    BY InStep
  <2>2. steps = b \o ValueWrites(p)
    BY DEF KvCacheUpdate
  <2> HIDE DEF c1, c2, steps, KeyStep, ValueStep, Checked
  <2>3. IsListing(a) /\ \A s : In(s, a) <=> In(s, c1) \/ In(s, KeyWrites(p))
    BY <2>1, <1>4, InConcat
  <2> HIDE DEF a
  <2>4. IsListing(b) /\ \A s : In(s, b) <=> In(s, a) \/ In(s, c2)
    BY <2>1, <2>3, InConcat
  <2> HIDE DEF b
  <2>5. IsListing(steps) /\ \A s : In(s, steps) <=> In(s, b) \/ In(s, ValueWrites(p))
    BY <2>2, <2>4, <1>5, InConcat
  <2> QED  BY <2>1, <2>3, <2>4, <2>5, <1>4, <1>5
<1>10. \A s : In(s, steps) => IsStep(s)
  <2>1. \A s, k, o : KeyStep(s, k, o) => s.batch = KeyBatch(p, k, o)
    OBVIOUS
  <2>2. \A s, h, d, c : ValueStep(s, h, d, c) => s.batch = ValueBatch(p, h, d, c)
    OBVIOUS
  <2> HIDE DEF steps, KeyStep, ValueStep, Checked
  <2> QED  BY <1>6, <1>7, <1>8, <1>9, <2>1, <2>2 DEF IsStep
<1>11. code = Batches(steps)
  BY DEF p
<1> HIDE DEF steps
<1>12. IsListing(code) /\ \A i : In(i, code) <=> \E s : In(s, steps) /\ In(i, s.batch)
  BY <1>9, <1>10, <1>11, InBatches
<1>13. ASSUME NEW i, In(i, code)
       PROVE  /\ \/ i.op = "WR_SBK" /\ <<i.channel, i.bank, i.row>> \in KeyCells(r, r.length - 1)
                 \/ /\ i.op = "WR_ABK"
                    /\ <<i.channel, i.row, i.column>> \in ValueCells(r, r.length - 1)
              /\ WritesPart(r, r.length - 1, i)
  <2>1. PICK s : In(s, steps) /\ In(i, s.batch)
    BY <1>12, <1>13
  <2>2. CASE Checked(s)
    <3> HIDE DEF Checked
    <3> QED  BY <2>1, <2>2, <1>6
  <2>3. CASE \E k \in KeyIndices : \E o \in Replicas : KeyStep(s, k, o)
    <3>1. PICK k \in KeyIndices : \E o \in Replicas : KeyStep(s, k, o)
      BY <2>3
    <3>2. PICK o \in Replicas : KeyStep(s, k, o)
      BY <3>1
    <3>3. In(i, KeyBatch(p, k, o))
      BY <2>1, <3>2
    <3>4. /\ i.op = "WR_SBK" /\ <<i.channel, i.bank, i.row>> = KeyCell(r, r.length - 1, k, o)
          /\ KeyPartOf(r, i) = k
      BY <3>3, <1>7
    <3>5. WritesPart(r, r.length - 1, i)
      BY <3>4 DEF WritesPart, IsKeyPart
    <3> QED  BY <3>4, <3>5 DEF KeyCells
  <2>4. CASE \E h \in Heads : \E d \in Dims : \E c \in Channels1 : ValueStep(s, h, d, c)
    <3>1. PICK h \in Heads : \E d \in Dims : \E c \in Channels1 : ValueStep(s, h, d, c)
      BY <2>4
    <3>2. PICK d \in Dims : \E c \in Channels1 : ValueStep(s, h, d, c)
      BY <3>1
    <3>3. PICK c \in Channels1 : ValueStep(s, h, d, c)
      BY <3>2
    <3>4. In(i, ValueBatch(p, h, d, c)) /\ HeadExists(r, h, c)
      BY <2>1, <3>3
    <3>5. /\ i.op = "WR_ABK"
          /\ <<i.channel, i.row, i.column>> = ValueCell(r, r.length - 1, h, d, c)
          /\ ValuePartOf(r, i) = (c * ValueHeads(r) + h) * ValueDimensions(r) + d
      BY <3>4, <1>8
    <3>6. ValueCell(r, r.length - 1, h, d, c) \in ValueCells(r, r.length - 1)
      BY <3>4, ValueCellListed
    <3>7. WritesPart(r, r.length - 1, i)
      BY <3>4, <3>5 DEF WritesPart, IsValuePart
    <3> QED  BY <3>5, <3>6, <3>7
  <2> HIDE DEF Checked, KeyStep, ValueStep
  <2> QED  BY <2>1, <2>2, <2>3, <2>4, <1>9
<1>14. ASSUME NEW cell \in KeyCells(r, r.length - 1)
       PROVE  \E i : In(i, code) /\ i.op = "WR_SBK" /\ cell = <<i.channel, i.bank, i.row>>
  <2>1. PICK k \in KeyIndices : \E o \in Replicas : cell = KeyCell(r, r.length - 1, k, o)
    BY DEF KeyCells
  <2>2. PICK o \in Replicas : cell = KeyCell(r, r.length - 1, k, o)
    BY <2>1
  <2>3. PICK i : /\ i.op = "WR_SBK"
                 /\ <<i.channel, i.bank, i.row>> = KeyCell(r, r.length - 1, k, o)
                 /\ \A j : In(j, KeyBatch(p, k, o)) <=> j = i
    BY <1>7
  <2> DEFINE s == [ok |-> TRUE, batch |-> KeyBatch(p, k, o)]
  <2>4. KeyStep(s, k, o) /\ s.batch = KeyBatch(p, k, o)
    OBVIOUS
  <2> HIDE DEF s, KeyStep
  <2>5. In(s, steps)
    BY <1>9, <2>4
  <2>6. In(i, code)
    BY <1>12, <2>3, <2>4, <2>5
  <2> QED  BY <2>2, <2>3, <2>6
<1>15. ASSUME NEW cell \in ValueCells(r, r.length - 1)
       PROVE  \E i : In(i, code) /\ i.op = "WR_ABK" /\ cell = <<i.channel, i.row, i.column>>
  <2>1. PICK h \in Heads : \E d \in Dims : \E c \in Channels1 :
               HeadExists(r, h, c) /\ cell = ValueCell(r, r.length - 1, h, d, c)
    BY ValueCellListed
  <2>2. PICK d \in Dims : \E c \in Channels1 :
               HeadExists(r, h, c) /\ cell = ValueCell(r, r.length - 1, h, d, c)
    BY <2>1
  <2>3. PICK c \in Channels1 : HeadExists(r, h, c) /\ cell = ValueCell(r, r.length - 1, h, d, c)
    BY <2>2
  <2>4. PICK i : /\ i.op = "WR_ABK"
                 /\ <<i.channel, i.row, i.column>> = ValueCell(r, r.length - 1, h, d, c)
                 /\ \A j : In(j, ValueBatch(p, h, d, c)) <=> j = i
    BY <1>8
  <2> DEFINE s == [ok |-> TRUE, batch |-> ValueBatch(p, h, d, c)]
  <2>5. ValueStep(s, h, d, c) /\ s.batch = ValueBatch(p, h, d, c)
    BY <2>3
  <2> HIDE DEF s, ValueStep
  <2>6. In(s, steps)
    BY <1>9, <2>5
  <2>7. In(i, code)
    BY <1>12, <2>4, <2>5, <2>6
  <2> QED  BY <2>3, <2>4, <2>7
<1> QED  BY <1>12, <1>13, <1>14, <1>15

(* A bank of the block is in one of its channels. *)
LEMMA BankPlace ==
  ASSUME ValidPlacement, NEW t \in Nat
  PROVE  LET b == t % TotalBanks
         IN  /\ b \in 0..(TotalBanks - 1)
             /\ BankChannel(b) \in 0..(ChannelsPerBlock - 1)
             /\ BankNumber(b) \in 0..(NumBanks - 1)
             /\ b = BankChannel(b) * NumBanks + BankNumber(b)
             /\ KeyGroup(t) \in Nat
             /\ t = KeyGroup(t) * TotalBanks + b
<1> DEFINE b == t % TotalBanks
<1>1. /\ TotalBanks \in Nat \ {0} /\ NumBanks \in Nat \ {0} /\ ChannelsPerBlock \in Nat \ {0}
      /\ TotalBanks = ChannelsPerBlock * NumBanks
  BY Geometry
<1>2. /\ t \div TotalBanks \in Nat /\ b \in 0..(TotalBanks - 1)
      /\ t = (t \div TotalBanks) * TotalBanks + b
  BY <1>1, Parts
<1> HIDE DEF b
<1>3. b \in Nat
  BY <1>1, <1>2
<1>4. /\ b \div NumBanks \in Nat /\ b % NumBanks \in 0..(NumBanks - 1)
      /\ b = (b \div NumBanks) * NumBanks + (b % NumBanks)
  BY <1>1, <1>3, Parts
<1>5. \A q, c, n \in Nat, x \in Nat : q * n + x < c * n => q < c
  OBVIOUS
<1>6. b \div NumBanks < ChannelsPerBlock
  <2> DEFINE q == b \div NumBanks
             x == b % NumBanks
  <2>1. q \in Nat /\ x \in Nat /\ q * NumBanks + x < ChannelsPerBlock * NumBanks
    BY <1>1, <1>2, <1>4
  <2> HIDE DEF q, x
  <2>2. q < ChannelsPerBlock
    BY <1>1, <1>5, <2>1
  <2> QED  BY <2>2 DEF q
<1> QED  BY <1>1, <1>2, <1>4, <1>6 DEF BankChannel, BankNumber, KeyGroup, b

(* Two tokens have no key cell in common. *)
LEMMA KeyCellsDisjoint ==
  ASSUME NEW r \in SizedRequest, Planned(r), NEW t \in Nat, NEW u \in Nat,
         NEW cell, cell \in KeyCells(r, t), cell \in KeyCells(r, u)
  PROVE  t = u
<1>1. ValidPlacement /\ KvWidth(r) \in Nat /\ KeyStart(r) \in Nat
  BY PlannedSizes, StartsNatural
<1>2. /\ DramColumns \in Nat \ {0} /\ NumBanks \in Nat \ {0} /\ TotalBanks \in Nat \ {0}
      /\ Copies \in Nat \ {0} /\ ChannelsPerBlock \in Nat \ {0}
  BY <1>1, Geometry
<1>3. KeyRows(r) \in Nat
  BY <1>1, <1>2, CeilDivBelow DEF KeyRows
<1>4. PICK k \in 0..(KeyRows(r) - 1), o \in 0..(Copies - 1) : cell = KeyCell(r, t, k, o)
  BY DEF KeyCells
<1>5. PICK j \in 0..(KeyRows(r) - 1), p \in 0..(Copies - 1) : cell = KeyCell(r, u, j, p)
  BY DEF KeyCells
<1> DEFINE b == t % TotalBanks
           a == u % TotalBanks
           C == BankChannel(b)
           D == BankChannel(a)
<1>6. /\ b \in 0..(TotalBanks - 1)
      /\ C \in 0..(ChannelsPerBlock - 1)
      /\ BankNumber(b) \in 0..(NumBanks - 1)
      /\ b = C * NumBanks + BankNumber(b)
      /\ KeyGroup(t) \in Nat
      /\ t = KeyGroup(t) * TotalBanks + b
  BY <1>1, BankPlace
<1>7. /\ a \in 0..(TotalBanks - 1)
      /\ D \in 0..(ChannelsPerBlock - 1)
      /\ BankNumber(a) \in 0..(NumBanks - 1)
      /\ a = D * NumBanks + BankNumber(a)
      /\ KeyGroup(u) \in Nat
      /\ u = KeyGroup(u) * TotalBanks + a
  BY <1>1, BankPlace
<1>8. /\ C + o * ChannelsPerBlock = D + p * ChannelsPerBlock
      /\ BankNumber(b) = BankNumber(a)
      /\ KeyStart(r) + KeyGroup(t) * KeyRows(r) + k = KeyStart(r) + KeyGroup(u) * KeyRows(r) + j
  BY <1>4, <1>5 DEF KeyCell
<1> HIDE DEF C, D
<1>9. C = D
  <2>1. o * ChannelsPerBlock + C = p * ChannelsPerBlock + D
    <3> DEFINE x == o * ChannelsPerBlock
               y == p * ChannelsPerBlock
    <3>1. x \in Nat /\ y \in Nat
      BY <1>2
    <3>2. C + x = D + y
      BY <1>8
    <3> HIDE DEF x, y
    <3>3. x + C = y + D
      BY <1>6, <1>7, <3>1, <3>2
    <3> QED  BY <3>3 DEF x, y
  <2>2. o \in Nat /\ p \in Nat
    BY <1>2
  <2> QED  BY <1>2, <1>6, <1>7, <2>1, <2>2, PartsUnique
<1>10. a = b
  BY <1>6, <1>7, <1>8, <1>9
<1>11. KeyGroup(t) = KeyGroup(u)
  <2> DEFINE x == KeyGroup(t) * KeyRows(r)
             y == KeyGroup(u) * KeyRows(r)
  <2>1. x \in Nat /\ y \in Nat
    BY <1>3, <1>6, <1>7
  <2>2. KeyStart(r) + x + k = KeyStart(r) + y + j
    BY <1>8
  <2>3. k \in Nat /\ j \in Nat
    BY <1>3
  <2> HIDE DEF x, y
  <2>4. x + k = y + j
    BY <1>1, <2>1, <2>2, <2>3
  <2>5. KeyRows(r) \in Nat \ {0}
    BY <1>3
  <2>6. KeyGroup(t) * KeyRows(r) + k = KeyGroup(u) * KeyRows(r) + j
    BY <2>4 DEF x, y
  <2> DEFINE n == KeyRows(r)
             g == KeyGroup(t)
             f == KeyGroup(u)
  <2>7. n \in Nat \ {0} /\ g \in Nat /\ f \in Nat /\ k \in 0..(n - 1) /\ j \in 0..(n - 1)
        /\ g * n + k = f * n + j
    BY <1>6, <1>7, <2>5, <2>6
  <2> HIDE DEF n, g, f
  <2>8. g = f
    BY <2>7, PartsUnique
  <2> QED  BY <2>8 DEF g, f
<1> QED  BY <1>6, <1>7, <1>10, <1>11

(* The rows of tokens of a group of dimensions hold every token there may be. *)
LEMMA TokenRow ==
  ASSUME NEW r \in SizedRequest, Planned(r), NEW t \in 0..(r.max - 1)
  PROVE  /\ t \div DramColumns \in 0..(TokenRows(r) - 1)
         /\ t % DramColumns \in 0..(DramColumns - 1)
         /\ t = (t \div DramColumns) * DramColumns + (t % DramColumns)
<1>1. DramColumns \in Nat \ {0} /\ r.max \in Nat \ {0} /\ t \in Nat
  BY PlannedSizes, Geometry
<1> DEFINE q == t \div DramColumns
           x == t % DramColumns
<1>2. q \in Nat /\ x \in 0..(DramColumns - 1) /\ t = q * DramColumns + x
  BY <1>1, Parts
<1> HIDE DEF q, x
<1>3. q * DramColumns \in Nat
  BY <1>1, <1>2
<1>4. q * DramColumns < r.max
  BY <1>1, <1>2, <1>3
<1>5. TokenRows(r) \in Nat /\ q < TokenRows(r)
  BY <1>1, <1>2, <1>4, CeilDivBelow DEF TokenRows
<1> QED  BY <1>2, <1>5 DEF q, x

(* Two tokens have no value cell in common. *)
LEMMA ValueCellsDisjoint ==
  ASSUME NEW r \in SizedRequest, Planned(r), NEW t \in 0..(r.max - 1), NEW u \in 0..(r.max - 1),
         NEW cell, cell \in ValueCells(r, t), cell \in ValueCells(r, u)
  PROVE  t = u
<1>1. /\ ValidPlacement /\ ValueStart(r) \in Nat /\ r.kv_heads \in Nat /\ HeadSize(r) \in Nat
      /\ r.max \in Nat
  BY PlannedSizes, StartsNatural
<1>2. DramColumns \in Nat \ {0} /\ NumBanks \in Nat \ {0} /\ ChannelsPerBlock \in Nat \ {0}
  BY <1>1, Geometry
<1>3. ValueHeads(r) \in Nat /\ ValueDimensions(r) \in Nat /\ TokenRows(r) \in Nat
  BY <1>1, <1>2, CeilDivBelow DEF ValueHeads, ValueDimensions, TokenRows
<1>4. /\ t \div DramColumns \in 0..(TokenRows(r) - 1)
      /\ t = (t \div DramColumns) * DramColumns + (t % DramColumns)
      /\ u \div DramColumns \in 0..(TokenRows(r) - 1)
      /\ u = (u \div DramColumns) * DramColumns + (u % DramColumns)
  BY TokenRow
<1>5. PICK h \in 0..(ValueHeads(r) - 1) : \E d \in 0..(ValueDimensions(r) - 1) :
        \E c \in 0..(ChannelsPerBlock - 1) : HeadExists(r, h, c) /\ cell = ValueCell(r, t, h, d, c)
  BY ValueCellListed
<1>6. PICK d \in 0..(ValueDimensions(r) - 1), c \in 0..(ChannelsPerBlock - 1) :
        cell = ValueCell(r, t, h, d, c)
  BY <1>5
<1>7. PICK g \in 0..(ValueHeads(r) - 1) : \E e \in 0..(ValueDimensions(r) - 1) :
        \E f \in 0..(ChannelsPerBlock - 1) : HeadExists(r, g, f) /\ cell = ValueCell(r, u, g, e, f)
  BY ValueCellListed
<1>8. PICK e \in 0..(ValueDimensions(r) - 1), f \in 0..(ChannelsPerBlock - 1) :
        cell = ValueCell(r, u, g, e, f)
  BY <1>7
<1> DEFINE q == t \div DramColumns
           p == u \div DramColumns
           T == TokenRows(r)
           V == ValueDimensions(r)
           m == h * V + d
           n == g * V + e
<1>9. /\ t % DramColumns = u % DramColumns
      /\ ValueStart(r) + ValueRow(T, V, h, d, q) = ValueStart(r) + ValueRow(T, V, g, e, p)
  BY <1>6, <1>8 DEF ValueCell
<1>10. ValueRow(T, V, h, d, q) = m * T + q /\ ValueRow(T, V, g, e, p) = n * T + p
  BY DEF ValueRow
<1>11. m \in Nat /\ n \in Nat
  BY <1>3
<1>12. q \in 0..(T - 1) /\ p \in 0..(T - 1) /\ T \in Nat
  BY <1>3, <1>4
<1> HIDE DEF m, n, T, V, q, p
<1>13. m * T + q = n * T + p
  <2> DEFINE x == m * T
             y == n * T
  <2>1. x \in Nat /\ y \in Nat
    BY <1>11, <1>12
  <2>2. ValueStart(r) + (x + q) = ValueStart(r) + (y + p)
    BY <1>9, <1>10
  <2> HIDE DEF x, y
  <2>3. x + q = y + p
    BY <1>1, <1>12, <2>1, <2>2
  <2> QED  BY <2>3 DEF x, y
<1>14. q = p
  <2>1. T \in Nat \ {0}
    BY <1>12
  <2> QED  BY <1>11, <1>12, <1>13, <2>1, PartsUnique
<1> QED  BY <1>4, <1>9, <1>14 DEF q, p

(* Steps of a lowerer that may be followed and preceded by others. *)
IsSteps(steps) == IsListing(steps) /\ \A s : In(s, steps) => IsStep(s)

\* A check or an instruction, and one part of a lowerer after the other.
LEMMA StepsConcat ==
  ASSUME NEW s, NEW t, IsSteps(s), IsSteps(t)
  PROVE  /\ IsSteps(s \o t)
         /\ \A x : In(x, s) \/ In(x, t) => In(x, s \o t)
BY InConcat DEF IsSteps

\* A check that may raise, and an instruction that is appended.
LEMMA StepsOne ==
  ASSUME NEW ok, NEW i
  PROVE  /\ IsSteps(Check(ok))
         /\ IsSteps(Append1(i))
         /\ In([ok |-> TRUE, batch |-> <<i>>], Append1(i))
<1>1. IsListing(<<i>>) /\ IsListing(<<>>)
  BY DEF IsListing
<1>2. /\ IsListing(Check(ok)) /\ \A s : In(s, Check(ok)) <=> s = [ok |-> ok, batch |-> <<>>]
      /\ IsListing(Append1(i)) /\ \A s : In(s, Append1(i)) <=> s = [ok |-> TRUE, batch |-> <<i>>]
  BY InStep
<1> QED  BY <1>1, <1>2 DEF IsSteps, IsStep

\* The turns of a loop of a lowerer.
LEMMA StepsFlatten ==
  ASSUME NEW n \in Nat, NEW seqs, seqs = [i \in 1..n |-> seqs[i]],
         \A i \in 1..n : IsSteps(seqs[i])
  PROVE  /\ IsSteps(FlattenSeq(seqs))
         /\ \A i \in 1..n : \A x : In(x, seqs[i]) => In(x, FlattenSeq(seqs))
<1>1. \A i \in 1..n : IsListing(seqs[i]) /\ \A s : In(s, seqs[i]) => IsStep(s)
  BY DEF IsSteps
<1>2. /\ IsListing(FlattenSeq(seqs))
      /\ \A x : In(x, FlattenSeq(seqs)) <=> \E i \in 1..n : In(x, seqs[i])
  BY <1>1, InFlatten
<1> QED  BY <1>1, <1>2 DEF IsSteps

(* An instruction of a step is one of the program, at some place. *)
LEMMA StepInProgram ==
  ASSUME NEW steps, IsSteps(steps), NEW i, In([ok |-> TRUE, batch |-> <<i>>], steps)
  PROVE  \E j \in DOMAIN Batches(steps) : Batches(steps)[j] = i
<1> DEFINE s == [ok |-> TRUE, batch |-> <<i>>]
           code == Batches(steps)
<1>1. s.batch = <<i>> /\ In(i, <<i>>)
  BY DEF In
<1> HIDE DEF s, code
<1>2. In(i, s.batch) /\ In(s, steps)
  BY <1>1 DEF s
<1>3. IsListing(code) /\ In(i, code)
  BY <1>2, InBatches DEF IsSteps, code
<1>4. DOMAIN code = 1..Len(code)
  BY <1>3 DEF IsListing
<1> QED  BY <1>3, <1>4 DEF In, code

\* The plan of the score stage.
LEMMA ScoreStagePlan ==
  ASSUME NEW r
  PROVE LET p == StagePlan(r, "scores")
        IN /\ p.spec = AttentionSpec(r)
           /\ p.rows.key_cache.start = KeyStart(r)
           /\ p.sequence_channels =
                [g \in 1..CeilDiv(r.length, TotalBanks) |-> SequenceChannels(r, g)]
<1> DEFINE a == AttentionPlan(r, PlannedMemory(r), BufferSpans(r))
           more == [sequence_channels |->
                      [g \in 1..CeilDiv(r.length, TotalBanks) |-> SequenceChannels(r, g)]]
           p == Extended(a, more)
           q == [p EXCEPT !.buffers.query.value = "rotated_query"]
<1>1. StagePlan(r, "scores") = q
  BY DEF StagePlan, PlanOfStage, Projections, AttentionStages, AttentionStagePlan, ScorePlan
<1>2. DOMAIN a = {"spec", "buffers", "rows"} /\ a.spec = AttentionSpec(r)
      /\ a.rows.key_cache.start = KeyStart(r)
  BY DEF AttentionPlan, KeyStart
<1>3. DOMAIN more = {"sequence_channels"}
      /\ more["sequence_channels"]
           = [g \in 1..CeilDiv(r.length, TotalBanks) |-> SequenceChannels(r, g)]
  OBVIOUS
<1> HIDE DEF a, more
<1>4. /\ {"spec", "rows", "sequence_channels"} \subseteq DOMAIN p
      /\ p["spec"] = a["spec"] /\ p["rows"] = a["rows"]
      /\ p["sequence_channels"] = more["sequence_channels"]
  BY <1>2, <1>3 DEF Extended
<1> HIDE DEF p
<1>5. q["spec"] = p["spec"] /\ q["rows"] = p["rows"]
      /\ q["sequence_channels"] = p["sequence_channels"]
  BY <1>4
<1> HIDE DEF q
<1> QED  BY <1>1, <1>2, <1>3, <1>4, <1>5

\* The plan of the output stage.
LEMMA OutputStagePlan ==
  ASSUME NEW r
  PROVE  LET p == StagePlan(r, "output")
        IN  /\ p.spec = AttentionSpec(r) /\ p.rows.value_cache.start = ValueStart(r)
            /\ p.buffers.scores.start = BufferSpans(r).scores.start
BY DEF StagePlan, PlanOfStage, Projections, AttentionStages, AttentionStagePlan, AttentionPlan,
       ValueStart, AttentionBuffers, AttentionBuffersWith

(* A product the score stage makes: of the first head of the first row of  *)
(* the keys of a round of tokens.                                          *)
LEMMA ScoreProduct ==
  ASSUME NEW p,
         p.sequence_channels = [g \in 1..Len(p.sequence_channels) |-> p.sequence_channels[g]],
         Len(p.sequence_channels) \in Nat,
         CeilDiv(p.spec.kv_width, DramColumns) \in Nat \ {0}, p.spec.repeat \in Nat \ {0},
         \A k \in 0..(CeilDiv(p.spec.kv_width, DramColumns) - 1) :
           Lesser(HeadsPerRow(p), p.spec.kv_heads - k * HeadsPerRow(p)) \in Nat,
         Lesser(HeadsPerRow(p), p.spec.kv_heads - 0 * HeadsPerRow(p)) # 0,
         NEW g \in 0..(Len(p.sequence_channels) - 1)
  PROVE  \E i : /\ i.op = "MAC_ABK"
                /\ i.channels = p.sequence_channels[g + 1]
                /\ i.row = p.rows.key_cache.start
                             + g * CeilDiv(p.spec.kv_width, DramColumns) + 0
                /\ IsSteps(ScoreGemv(p))
                /\ In([ok |-> TRUE, batch |-> <<i>>], ScoreGemv(p))
<1> DEFINE n == Len(p.sequence_channels)
           keyRows == CeilDiv(p.spec.kv_width, DramColumns)
           size == CeilDiv(p.spec.head, BurstLength)
           heads(k) == Lesser(HeadsPerRow(p), p.spec.kv_heads - k * HeadsPerRow(p))
           bias(f) == WriteBias(p.sequence_channels[f + 1], p.buffers.scores.start, {"zero"})
           product(k, f, h) ==
             Mac(p.sequence_channels[f + 1], p.rows.key_cache.start + f * keyRows + k,
                 h * p.spec.head, size, 0, "GLOBAL_BUFFER",
                 {"key", "host"}, {p.buffers.query.value})
           result(k, f, r, h) ==
             ReadResult("RD_MAC", p.sequence_channels[f + 1], p.buffers.scores.start, 0,
                        RawScore(p, k, h, r, f))
           query(f) == WriteGlobal(p.sequence_channels[f + 1], p.buffers.query.start, size,
                                   p.buffers.query.value)
           HeadScore(k, f, r, h) == Append1(bias(f)) \o Append1(product(k, f, h))
                                      \o Append1(result(k, f, r, h))
           Heads(k, f, r) == [j \in 1..heads(k) |-> HeadScore(k, f, r, j - 1)]
           Query(k, f, r) == Append1(query(f)) \o FlattenSeq(Heads(k, f, r))
           Queries(k, f) == [j \in 1..p.spec.repeat |-> Query(k, f, j - 1)]
           Rounds(k) == [j \in 1..n |-> FlattenSeq(Queries(k, j - 1))]
           KeyRow == [j \in 1..keyRows |-> FlattenSeq(Rounds(j - 1))]
<1>1. \E ok : ScoreGemv(p) = Check(ok) \o FlattenSeq(KeyRow)
  BY DEF ScoreGemv, Each
<1>2. product(0, g, 0).op = "MAC_ABK" /\ product(0, g, 0).channels = p.sequence_channels[g + 1]
      /\ product(0, g, 0).row = p.rows.key_cache.start + g * keyRows + 0
  BY DEF Mac
<1>3. keyRows \in Nat \ {0} /\ p.spec.repeat \in Nat \ {0} /\ n \in Nat
      /\ \A k \in 0..(keyRows - 1) : heads(k) \in Nat
      /\ heads(0) # 0
  OBVIOUS
<1> HIDE DEF heads, product, bias, result, query, keyRows, n
<1>4. ASSUME NEW k, NEW f, NEW r, NEW h
      PROVE  /\ IsSteps(HeadScore(k, f, r, h))
             /\ In([ok |-> TRUE, batch |-> <<product(k, f, h)>>], HeadScore(k, f, r, h))
  <2>1. /\ IsSteps(Append1(bias(f))) /\ IsSteps(Append1(product(k, f, h)))
        /\ IsSteps(Append1(result(k, f, r, h)))
        /\ In([ok |-> TRUE, batch |-> <<product(k, f, h)>>], Append1(product(k, f, h)))
    BY StepsOne
  <2>2. /\ IsSteps(Append1(bias(f)) \o Append1(product(k, f, h)))
        /\ In([ok |-> TRUE, batch |-> <<product(k, f, h)>>],
              Append1(bias(f)) \o Append1(product(k, f, h)))
    BY <2>1, StepsConcat
  <2> QED  BY <2>1, <2>2, StepsConcat
<1> HIDE DEF HeadScore
<1>5. ASSUME NEW k \in 0..(keyRows - 1), NEW f, NEW r
      PROVE  /\ IsSteps(Query(k, f, r))
             /\ \A h \in 0..(heads(k) - 1) :
                  In([ok |-> TRUE, batch |-> <<product(k, f, h)>>], Query(k, f, r))
  <2> DEFINE s == Heads(k, f, r)
  <2>1. s = [j \in 1..heads(k) |-> s[j]] /\ \A j \in 1..heads(k) : s[j] = HeadScore(k, f, r, j - 1)
    OBVIOUS
  <2>2. Query(k, f, r) = Append1(query(f)) \o FlattenSeq(s)
    OBVIOUS
  <2> HIDE DEF s, Query
  <2>3. \A j \in 1..heads(k) : IsSteps(s[j])
    <3>1. ASSUME NEW j \in 1..heads(k)
          PROVE  IsSteps(s[j])
      <4>1. s[j] = HeadScore(k, f, r, j - 1)
        BY <2>1
      <4>2. IsSteps(HeadScore(k, f, r, j - 1))
        BY <1>4
      <4> QED  BY <4>1, <4>2
    <3> QED  BY <3>1
  <2>4. heads(k) \in Nat
    BY <1>3
  <2>5. /\ IsSteps(FlattenSeq(s))
        /\ \A j \in 1..heads(k) : \A x : In(x, s[j]) => In(x, FlattenSeq(s))
    BY <2>1, <2>3, <2>4, StepsFlatten
  <2>6. IsSteps(Append1(query(f)))
    BY StepsOne
  <2>7. IsSteps(Query(k, f, r)) /\ \A x : In(x, FlattenSeq(s)) => In(x, Query(k, f, r))
    BY <2>2, <2>5, <2>6, StepsConcat
  <2>8. ASSUME NEW h \in 0..(heads(k) - 1)
        PROVE  In([ok |-> TRUE, batch |-> <<product(k, f, h)>>], Query(k, f, r))
    <3>1. h + 1 \in 1..heads(k) /\ (h + 1) - 1 = h
      BY <2>4
    <3>2. s[h + 1] = HeadScore(k, f, r, h)
      BY <2>1, <3>1
    <3> QED  BY <1>4, <2>5, <2>7, <3>1, <3>2
  <2> QED  BY <2>7, <2>8
<1> HIDE DEF Query
<1>6. ASSUME NEW k \in 0..(keyRows - 1), NEW f
      PROVE  /\ IsSteps(FlattenSeq(Queries(k, f)))
             /\ \A x : In(x, Query(k, f, 0)) => In(x, FlattenSeq(Queries(k, f)))
  <2> DEFINE s == Queries(k, f)
             m == p.spec.repeat
  <2>1. s = [j \in 1..m |-> s[j]] /\ \A j \in 1..m : s[j] = Query(k, f, j - 1)
    OBVIOUS
  <2> HIDE DEF s, m
  <2>2. m \in Nat \ {0}
    BY <1>3 DEF m
  <2>3. \A j \in 1..m : IsSteps(s[j])
    BY <2>1, <1>5
  <2>4. /\ IsSteps(FlattenSeq(s))
        /\ \A j \in 1..m : \A x : In(x, s[j]) => In(x, FlattenSeq(s))
    BY <2>1, <2>2, <2>3, StepsFlatten
  <2>5. 1 \in 1..m /\ 1 - 1 = 0
    BY <2>2
  <2>6. s[1] = Query(k, f, 0)
    BY <2>1, <2>5
  <2> QED  BY <2>4, <2>5, <2>6 DEF s
<1> HIDE DEF Queries
<1>7. ASSUME NEW k \in 0..(keyRows - 1)
      PROVE  /\ IsSteps(FlattenSeq(Rounds(k)))
             /\ \A x : In(x, FlattenSeq(Queries(k, g))) => In(x, FlattenSeq(Rounds(k)))
  <2> DEFINE s == Rounds(k)
  <2>1. s = [j \in 1..n |-> s[j]] /\ \A j \in 1..n : s[j] = FlattenSeq(Queries(k, j - 1))
    OBVIOUS
  <2> HIDE DEF s
  <2>2. \A j \in 1..n : IsSteps(s[j])
    BY <2>1, <1>6
  <2>3. /\ IsSteps(FlattenSeq(s))
        /\ \A j \in 1..n : \A x : In(x, s[j]) => In(x, FlattenSeq(s))
    BY <2>1, <2>2, <1>3, StepsFlatten
  <2>4. g + 1 \in 1..n /\ (g + 1) - 1 = g
    BY <1>3 DEF n
  <2>5. s[g + 1] = FlattenSeq(Queries(k, g))
    BY <2>1, <2>4
  <2> QED  BY <2>3, <2>4, <2>5 DEF s
<1> HIDE DEF Rounds
<1>8. /\ IsSteps(FlattenSeq(KeyRow))
      /\ \A x : In(x, FlattenSeq(Rounds(0))) => In(x, FlattenSeq(KeyRow))
  <2>1. KeyRow = [j \in 1..keyRows |-> KeyRow[j]]
        /\ \A j \in 1..keyRows : KeyRow[j] = FlattenSeq(Rounds(j - 1))
    OBVIOUS
  <2> HIDE DEF KeyRow
  <2>2. \A j \in 1..keyRows : j - 1 \in 0..(keyRows - 1)
    BY <1>3
  <2>3. \A j \in 1..keyRows : IsSteps(KeyRow[j])
    BY <2>1, <2>2, <1>7
  <2>4. /\ IsSteps(FlattenSeq(KeyRow))
        /\ \A j \in 1..keyRows : \A x : In(x, KeyRow[j]) => In(x, FlattenSeq(KeyRow))
    BY <2>1, <2>3, <1>3, StepsFlatten
  <2>5. 1 \in 1..keyRows /\ 1 - 1 = 0
    BY <1>3
  <2>6. KeyRow[1] = FlattenSeq(Rounds(0))
    BY <2>1, <2>5
  <2> QED  BY <2>4, <2>5, <2>6
<1> HIDE DEF KeyRow
<1>9. PICK ok : ScoreGemv(p) = Check(ok) \o FlattenSeq(KeyRow)
  BY <1>1
<1>10. /\ IsSteps(ScoreGemv(p))
       /\ \A x : In(x, FlattenSeq(KeyRow)) => In(x, ScoreGemv(p))
  <2>1. IsSteps(Check(ok))
    BY StepsOne
  <2> QED  BY <1>8, <1>9, <2>1, StepsConcat
<1>11. 0 \in 0..(keyRows - 1) /\ 0 \in 0..(heads(0) - 1)
  <2>1. 0 \in 0..(keyRows - 1)
    BY <1>3
  <2>2. heads(0) \in Nat \ {0}
    BY <2>1, <1>3
  <2> QED  BY <2>1, <2>2
<1>12. In([ok |-> TRUE, batch |-> <<product(0, g, 0)>>], ScoreGemv(p))
  BY <1>5, <1>6, <1>7, <1>8, <1>10, <1>11
<1> QED  BY <1>2, <1>10, <1>12 DEF keyRows

(* A product the output stage makes: of the first dimensions of the first  *)
(* heads with a row of tokens.                                             *)
LEMMA OutputProduct ==
  ASSUME NEW p,
         CeilDiv(p.spec.kv_heads, ChannelsPerBlock) \in Nat \ {0},
         CeilDiv(p.spec.head, NumBanks) \in Nat \ {0}, p.spec.repeat \in Nat \ {0},
         CeilDiv(p.spec.length, DramColumns) \in Nat,
         NEW k \in 0..(CeilDiv(p.spec.length, DramColumns) - 1)
  PROVE  \E i : /\ i.op = "MAC_ABK" /\ i.channels = AllChannels
                /\ i.row = p.rows.value_cache.start
                             + ValueRow(CeilDiv(p.spec.max, DramColumns),
                                        CeilDiv(p.spec.head, NumBanks), 0, 0, k)
                /\ i.size = RowBursts(p.spec.length, k) /\ i.column = 0
                /\ IsSteps(AttentionOutput(p))
                /\ In([ok |-> TRUE, batch |-> <<i>>], AttentionOutput(p))
<1> DEFINE heads == CeilDiv(p.spec.kv_heads, ChannelsPerBlock)
           dimensions == CeilDiv(p.spec.head, NumBanks)
           perDimension == CeilDiv(p.spec.max, DramColumns)
           tokens == CeilDiv(p.spec.length, DramColumns)
           bias(h, r, f, d) == WriteBias(AllChannels, p.buffers.output.start,
                                         {IF f = 0 THEN "zero" ELSE Weighted(h, r, d)})
           product(h, f, d) ==
             Mac(AllChannels,
                 p.rows.value_cache.start + ValueRow(perDimension, dimensions, h, d, f),
                 0, RowBursts(p.spec.length, f), 0, "GLOBAL_BUFFER",
                 {"value", "host"}, {Weights(p, h, turn, f) : turn \in 0..(p.spec.repeat - 1)})
           result(h, r, d) == ReadResult("RD_MAC", AllChannels, p.buffers.output.start, 0,
                                         Weighted(h, r, d))
           weights(h, r, f) == WriteGlobal(AllChannels, p.buffers.scores.start,
                                           RowBursts(p.spec.length, f), Weights(p, h, r, f))
           Output(h, r, f, d) == Append1(bias(h, r, f, d)) \o Append1(product(h, f, d))
                                   \o Append1(result(h, r, d))
           Outputs(h, r, f) == [j \in 1..dimensions |-> Output(h, r, f, j - 1)]
           Row(h, r, f) == Append1(weights(h, r, f)) \o FlattenSeq(Outputs(h, r, f))
           Tokens(h, r) == [j \in 1..tokens |-> Row(h, r, j - 1)]
           Queries(h) == [j \in 1..p.spec.repeat |-> FlattenSeq(Tokens(h, j - 1))]
           Heads == [j \in 1..heads |-> FlattenSeq(Queries(j - 1))]
<1>1. \E ok : AttentionOutput(p) = Check(ok) \o FlattenSeq(Heads)
  BY DEF AttentionOutput, Each
<1>2. product(0, k, 0).op = "MAC_ABK" /\ product(0, k, 0).channels = AllChannels
      /\ product(0, k, 0).row = p.rows.value_cache.start
                                  + ValueRow(perDimension, dimensions, 0, 0, k)
      /\ product(0, k, 0).size = RowBursts(p.spec.length, k) /\ product(0, k, 0).column = 0
  BY DEF Mac
<1>3. heads \in Nat \ {0} /\ p.spec.repeat \in Nat \ {0} /\ dimensions \in Nat \ {0}
      /\ tokens \in Nat /\ k \in 0..(tokens - 1)
  OBVIOUS
<1> HIDE DEF heads, dimensions, perDimension, tokens, product, bias, result, weights
<1>4. ASSUME NEW h, NEW r, NEW f, NEW d
      PROVE  /\ IsSteps(Output(h, r, f, d))
             /\ In([ok |-> TRUE, batch |-> <<product(h, f, d)>>], Output(h, r, f, d))
  <2>1. /\ IsSteps(Append1(bias(h, r, f, d))) /\ IsSteps(Append1(product(h, f, d)))
        /\ IsSteps(Append1(result(h, r, d)))
        /\ In([ok |-> TRUE, batch |-> <<product(h, f, d)>>], Append1(product(h, f, d)))
    BY StepsOne
  <2>2. /\ IsSteps(Append1(bias(h, r, f, d)) \o Append1(product(h, f, d)))
        /\ In([ok |-> TRUE, batch |-> <<product(h, f, d)>>],
              Append1(bias(h, r, f, d)) \o Append1(product(h, f, d)))
    BY <2>1, StepsConcat
  <2> QED  BY <2>1, <2>2, StepsConcat
<1> HIDE DEF Output
<1>5. ASSUME NEW h, NEW r, NEW f
      PROVE  /\ IsSteps(Row(h, r, f))
             /\ In([ok |-> TRUE, batch |-> <<product(h, f, 0)>>], Row(h, r, f))
  <2> DEFINE s == Outputs(h, r, f)
  <2>1. s = [j \in 1..dimensions |-> s[j]]
        /\ \A j \in 1..dimensions : s[j] = Output(h, r, f, j - 1)
    OBVIOUS
  <2>2. Row(h, r, f) = Append1(weights(h, r, f)) \o FlattenSeq(s)
    OBVIOUS
  <2> HIDE DEF s, Row
  <2>3. \A j \in 1..dimensions : IsSteps(s[j])
    <3>1. ASSUME NEW j \in 1..dimensions
          PROVE  IsSteps(s[j])
      <4>1. s[j] = Output(h, r, f, j - 1)
        BY <2>1
      <4>2. IsSteps(Output(h, r, f, j - 1))
        BY <1>4
      <4> QED  BY <4>1, <4>2
    <3> QED  BY <3>1
  <2>4. /\ IsSteps(FlattenSeq(s))
        /\ \A j \in 1..dimensions : \A x : In(x, s[j]) => In(x, FlattenSeq(s))
    BY <2>1, <2>3, <1>3, StepsFlatten
  <2>5. IsSteps(Append1(weights(h, r, f)))
    BY StepsOne
  <2>6. IsSteps(Row(h, r, f)) /\ \A x : In(x, FlattenSeq(s)) => In(x, Row(h, r, f))
    BY <2>2, <2>4, <2>5, StepsConcat
  <2>7. 1 \in 1..dimensions /\ 1 - 1 = 0
    BY <1>3
  <2>8. s[1] = Output(h, r, f, 0)
    BY <2>1, <2>7
  <2> QED  BY <1>4, <2>4, <2>6, <2>7, <2>8
<1> HIDE DEF Row
<1>6. ASSUME NEW h, NEW r
      PROVE  /\ IsSteps(FlattenSeq(Tokens(h, r)))
             /\ \A x : In(x, Row(h, r, k)) => In(x, FlattenSeq(Tokens(h, r)))
  <2> DEFINE s == Tokens(h, r)
  <2>1. s = [j \in 1..tokens |-> s[j]] /\ \A j \in 1..tokens : s[j] = Row(h, r, j - 1)
    OBVIOUS
  <2> HIDE DEF s
  <2>2. \A j \in 1..tokens : IsSteps(s[j])
    BY <2>1, <1>5
  <2>3. /\ IsSteps(FlattenSeq(s))
        /\ \A j \in 1..tokens : \A x : In(x, s[j]) => In(x, FlattenSeq(s))
    BY <2>1, <2>2, <1>3, StepsFlatten
  <2>4. k + 1 \in 1..tokens /\ (k + 1) - 1 = k
    BY <1>3
  <2>5. s[k + 1] = Row(h, r, k)
    BY <2>1, <2>4
  <2> QED  BY <2>3, <2>4, <2>5 DEF s
<1> HIDE DEF Tokens
<1>7. ASSUME NEW h
      PROVE  /\ IsSteps(FlattenSeq(Queries(h)))
             /\ \A x : In(x, FlattenSeq(Tokens(h, 0))) => In(x, FlattenSeq(Queries(h)))
  <2> DEFINE s == Queries(h)
             m == p.spec.repeat
  <2>1. s = [j \in 1..m |-> s[j]] /\ \A j \in 1..m : s[j] = FlattenSeq(Tokens(h, j - 1))
    OBVIOUS
  <2> HIDE DEF s, m
  <2>2. m \in Nat \ {0}
    BY <1>3 DEF m
  <2>3. \A j \in 1..m : IsSteps(s[j])
    BY <2>1, <1>6
  <2>4. /\ IsSteps(FlattenSeq(s))
        /\ \A j \in 1..m : \A x : In(x, s[j]) => In(x, FlattenSeq(s))
    BY <2>1, <2>2, <2>3, StepsFlatten
  <2>5. 1 \in 1..m /\ 1 - 1 = 0
    BY <2>2
  <2>6. s[1] = FlattenSeq(Tokens(h, 0))
    BY <2>1, <2>5
  <2> QED  BY <2>4, <2>5, <2>6 DEF s
<1> HIDE DEF Queries
<1>8. /\ IsSteps(FlattenSeq(Heads))
      /\ \A x : In(x, FlattenSeq(Queries(0))) => In(x, FlattenSeq(Heads))
  <2>1. Heads = [j \in 1..heads |-> Heads[j]]
        /\ \A j \in 1..heads : Heads[j] = FlattenSeq(Queries(j - 1))
    OBVIOUS
  <2> HIDE DEF Heads
  <2>2. \A j \in 1..heads : IsSteps(Heads[j])
    BY <2>1, <1>7
  <2>3. /\ IsSteps(FlattenSeq(Heads))
        /\ \A j \in 1..heads : \A x : In(x, Heads[j]) => In(x, FlattenSeq(Heads))
    BY <2>1, <2>2, <1>3, StepsFlatten
  <2>4. 1 \in 1..heads /\ 1 - 1 = 0
    BY <1>3
  <2>5. Heads[1] = FlattenSeq(Queries(0))
    BY <2>1, <2>4
  <2> QED  BY <2>3, <2>4, <2>5
<1> HIDE DEF Heads
<1>9. PICK ok : AttentionOutput(p) = Check(ok) \o FlattenSeq(Heads)
  BY <1>1
<1>10. /\ IsSteps(AttentionOutput(p))
       /\ \A x : In(x, FlattenSeq(Heads)) => In(x, AttentionOutput(p))
  <2>1. IsSteps(Check(ok))
    BY StepsOne
  <2> QED  BY <1>8, <1>9, <2>1, StepsConcat
<1>11. In([ok |-> TRUE, batch |-> <<product(0, k, 0)>>], AttentionOutput(p))
  BY <1>5, <1>6, <1>7, <1>8, <1>10
<1> QED  BY <1>2, <1>10, <1>11 DEF heads, dimensions, perDimension, tokens

(* A round of the tokens reaches the channel of every bank that holds one. *)
LEMMA RoundReaches ==
  ASSUME NEW r \in SizedRequest, Planned(r), NEW t \in 0..(r.length - 1)
  PROVE  LET g == KeyGroup(t)
             s == SequenceChannels(r, g + 1)
         IN  /\ g \in 0..(CeilDiv(r.length, TotalBanks) - 1)
             /\ CeilDiv(r.length, TotalBanks) \in Nat
             /\ BankChannel(t % TotalBanks) \in Range(s)
<1>1. ValidPlacement /\ r.length \in Nat \ {0} /\ t \in Nat
  BY PlannedSizes
<1>2. /\ TotalBanks \in Nat \ {0} /\ NumBanks \in Nat \ {0} /\ Copies \in Nat \ {0}
      /\ ChannelsPerBlock \in Nat \ {0}
  BY <1>1, Geometry
<1> DEFINE b == t % TotalBanks
           C == BankChannel(b)
           D == BankNumber(b)
           g == KeyGroup(t)
           L == Lesser(r.length - ((g + 1) - 1) * TotalBanks, TotalBanks)
           active == ActiveChannels(L)
           Copy(copy) == [c \in 1..active |-> copy * ChannelsPerBlock + c - 1]
           s == [i \in 1..Copies |-> Copy(i - 1)]
<1>3. /\ b \in 0..(TotalBanks - 1)
      /\ C \in 0..(ChannelsPerBlock - 1)
      /\ D \in 0..(NumBanks - 1)
      /\ b = C * NumBanks + D
      /\ g \in Nat
      /\ t = g * TotalBanks + b
  BY <1>1, BankPlace
<1>4. SequenceChannels(r, g + 1) = FlattenSeq(s)
  BY DEF SequenceChannels, Each
<1> HIDE DEF b, C, D, g
<1> DEFINE m == g * TotalBanks
<1>5. m \in Nat
  BY <1>2, <1>3
<1>6. m < r.length /\ b < r.length - m
  <2> HIDE DEF m
  <2>1. t = m + b
    BY <1>3 DEF m
  <2> QED  BY <1>1, <1>2, <1>3, <1>5, <2>1
<1>7. /\ CeilDiv(r.length, TotalBanks) \in Nat
      /\ g < CeilDiv(r.length, TotalBanks)
  BY <1>1, <1>2, <1>3, <1>6, CeilDivBelow
<1>8. L \in Nat /\ b < L
  <2>1. L = Lesser(r.length - m, TotalBanks)
    BY <1>3
  <2> HIDE DEF m, L
  <2> QED  BY <1>1, <1>2, <1>3, <1>5, <1>6, <2>1 DEF Lesser
<1> HIDE DEF L
<1>9. active \in Nat /\ C < active
  <2>1. C * NumBanks \in Nat
    BY <1>2, <1>3
  <2>2. C * NumBanks < L
    BY <1>2, <1>3, <1>8, <2>1
  <2> QED  BY <1>2, <1>3, <1>8, <2>2, CeilDivBelow DEF ActiveChannels
<1> HIDE DEF active
<1>10. \A i \in 1..Copies : IsListing(s[i])
  BY <1>9 DEF IsListing
<1>11. Copy(0)[C + 1] = C /\ C + 1 \in 1..active
  BY <1>2, <1>3, <1>9
<1>12. s = [i \in 1..Copies |-> s[i]] /\ s[1] = Copy(0) /\ 1 \in 1..Copies
       /\ Len(Copy(0)) = active
  BY <1>2, <1>9
<1> HIDE DEF s, Copy
<1>13. In(C, s[1])
  BY <1>11, <1>12 DEF In
<1>14. IsListing(FlattenSeq(s)) /\ In(C, FlattenSeq(s))
  BY <1>2, <1>10, <1>12, <1>13, InFlatten
<1>15. C \in Range(FlattenSeq(s))
  BY <1>14 DEF In, IsListing, Range
<1> QED  BY <1>3, <1>4, <1>7, <1>15 DEF C, b, g

(* The score stage of a step of so many tokens reads a key row of each. *)
LEMMA EveryKeyIsRead ==
  ASSUME NEW r \in SizedRequest, Planned(r), NEW t \in 0..(r.length - 1)
  PROVE  \E read \in MetWith(r).keys : read.cell \in KeyCells(r, t)
<1> DEFINE p == StagePlan(r, "scores")
           g == KeyGroup(t)
           b == t % TotalBanks
           n == CeilDiv(r.length, TotalBanks)
           code == Batches(ScoreGemv(p))
           hpr == HeadsPerRow(p)
<1>1. /\ p.spec = AttentionSpec(r) /\ p.rows.key_cache.start = KeyStart(r)
      /\ p.sequence_channels = [j \in 1..n |-> SequenceChannels(r, j)]
  BY ScoreStagePlan
<1>2. /\ ValidPlacement /\ r.kv_heads \in Nat \ {0} /\ HeadSize(r) \in Nat \ {0}
      /\ KvWidth(r) = HeadSize(r) * r.kv_heads /\ KvWidth(r) \in Nat \ {0}
      /\ r.heads \div r.kv_heads \in Nat \ {0} /\ t \in Nat
      /\ HeadSize(r) <= DramColumns /\ DramColumns % HeadSize(r) = 0
  BY PlannedSizes
<1>3. /\ DramColumns \in Nat \ {0} /\ TotalBanks \in Nat \ {0} /\ Copies \in Nat \ {0}
      /\ ChannelsPerBlock \in Nat \ {0} /\ NumBanks \in Nat \ {0}
  BY <1>2, Geometry
<1>4. /\ p.spec.kv_width = KvWidth(r) /\ p.spec.kv_heads = r.kv_heads
      /\ p.spec.head = HeadSize(r) /\ p.spec.repeat = r.heads \div r.kv_heads
  BY <1>1 DEF AttentionSpec
<1>5. /\ g \in 0..(n - 1) /\ n \in Nat
      /\ BankChannel(b) \in Range(SequenceChannels(r, g + 1))
  BY RoundReaches
<1> HIDE DEF p, g, b, n
<1>6. /\ Len(p.sequence_channels) = n
      /\ p.sequence_channels = [j \in 1..n |-> p.sequence_channels[j]]
      /\ p.sequence_channels[g + 1] = SequenceChannels(r, g + 1)
  BY <1>1, <1>5
<1>7. /\ hpr \in Nat \ {0} /\ DramColumns = hpr * HeadSize(r)
  <2>1. \A c, h \in Nat \ {0} : h <= c /\ c % h = 0 => c \div h \in Nat \ {0} /\ c = (c \div h) * h
    OBVIOUS
  <2>2. hpr = DramColumns \div HeadSize(r)
    BY <1>4 DEF HeadsPerRow
  <2> HIDE DEF hpr
  <2>3. /\ DramColumns \div HeadSize(r) \in Nat \ {0}
        /\ DramColumns = (DramColumns \div HeadSize(r)) * HeadSize(r)
    BY <1>2, <1>3, <2>1
  <2> QED  BY <2>2, <2>3
<1> HIDE DEF hpr
<1>8. /\ CeilDiv(KvWidth(r), DramColumns) \in Nat \ {0}
      /\ \A k \in Nat : k < CeilDiv(KvWidth(r), DramColumns) <=> k * DramColumns < KvWidth(r)
  <2>1. /\ CeilDiv(KvWidth(r), DramColumns) \in Nat
        /\ \A k \in Nat : k < CeilDiv(KvWidth(r), DramColumns) <=> k * DramColumns < KvWidth(r)
    BY <1>2, <1>3, CeilDivBelow
  <2>2. 0 * DramColumns < KvWidth(r)
    BY <1>2, <1>3
  <2> QED  BY <2>1, <2>2
<1>9. ASSUME NEW k \in 0..(CeilDiv(KvWidth(r), DramColumns) - 1)
      PROVE  Lesser(hpr, r.kv_heads - k * hpr) \in Nat \ {0}
  <2>1. k \in Nat /\ k * DramColumns < KvWidth(r)
    BY <1>8
  <2> DEFINE m == k * hpr
             h == HeadSize(r)
             v == r.kv_heads
  <2>2. m \in Nat /\ h \in Nat \ {0} /\ v \in Nat
    BY <1>2, <1>7, <2>1
  <2>3. m * h = k * DramColumns
    <3>1. \A x, y, z \in Nat : (x * y) * z = x * (y * z)
      OBVIOUS
    <3> QED  BY <1>2, <1>7, <2>1, <3>1
  <2>4. m * h < v * h
    <3>1. \A x, y \in Nat : x * y = y * x
      OBVIOUS
    <3>2. v * h = h * v
      BY <2>2, <3>1
    <3> HIDE DEF m, h, v
    <3> QED  BY <1>2, <2>1, <2>3, <3>2 DEF h, v
  <2> HIDE DEF m, h, v
  <2>5. \A x, y, z \in Nat : x * z < y * z => x < y
    OBVIOUS
  <2>6. m < v
    BY <2>2, <2>4, <2>5
  <2>7. Lesser(hpr, v - m) \in Nat \ {0}
    BY <1>7, <2>2, <2>6 DEF Lesser
  <2> QED  BY <2>7 DEF m, v
<1>10. Lesser(hpr, r.kv_heads - 0 * hpr) # 0
  <2>1. 0 \in 0..(CeilDiv(KvWidth(r), DramColumns) - 1)
    BY <1>8
  <2> QED  BY <1>9, <2>1
<1>11. \E i : /\ i.op = "MAC_ABK"
              /\ i.channels = p.sequence_channels[g + 1]
              /\ i.row = p.rows.key_cache.start
                           + g * CeilDiv(p.spec.kv_width, DramColumns) + 0
              /\ IsSteps(ScoreGemv(p))
              /\ In([ok |-> TRUE, batch |-> <<i>>], ScoreGemv(p))
  <2>1. /\ CeilDiv(p.spec.kv_width, DramColumns) \in Nat \ {0} /\ p.spec.repeat \in Nat \ {0}
        /\ \A k \in 0..(CeilDiv(p.spec.kv_width, DramColumns) - 1) :
             Lesser(HeadsPerRow(p), p.spec.kv_heads - k * HeadsPerRow(p)) \in Nat
        /\ Lesser(HeadsPerRow(p), p.spec.kv_heads - 0 * HeadsPerRow(p)) # 0
    BY <1>2, <1>4, <1>8, <1>9, <1>10 DEF hpr
  <2>2. /\ p.sequence_channels = [j \in 1..Len(p.sequence_channels) |-> p.sequence_channels[j]]
        /\ Len(p.sequence_channels) \in Nat /\ g \in 0..(Len(p.sequence_channels) - 1)
    BY <1>5, <1>6
  <2> QED  BY <2>1, <2>2, ScoreProduct
<1>12. PICK i : /\ i.op = "MAC_ABK"
                /\ i.channels = SequenceChannels(r, g + 1)
                /\ i.row = KeyStart(r) + g * KeyRows(r) + 0
                /\ IsSteps(ScoreGemv(p))
                /\ In([ok |-> TRUE, batch |-> <<i>>], ScoreGemv(p))
  BY <1>1, <1>4, <1>6, <1>11 DEF KeyRows
<1>13. PICK j \in DOMAIN code : code[j] = i
  BY <1>12, StepInProgram
<1>14. BankNumber(b) \in Banks
  BY <1>2, BankPlace DEF Banks, b
<1> DEFINE cell == <<BankChannel(b), BankNumber(b), KeyStart(r) + g * KeyRows(r) + 0>>
           read == [by |-> j, cell |-> <<BankChannel(b), BankNumber(b), code[j].row>>,
                    column |-> code[j].column]
           reads == {[by |-> j, cell |-> <<c, a, code[j].row>>, column |-> code[j].column] :
                       c \in Range(code[j].channels), a \in Banks}
<1>15. read \in reads
  BY <1>5, <1>12, <1>13, <1>14
<1>16. read.cell = cell
  BY <1>12, <1>13
<1>17. MetWith(r).keys = KeyReads(code)
  BY DEF MetWith, p
<1> HIDE DEF read, reads, cell, code
<1>18. j \in ProductsOf(code)
  BY <1>12, <1>13 DEF ProductsOf
<1>19. read \in MetWith(r).keys
  BY <1>15, <1>17, <1>18 DEF KeyReads, reads
<1>20. cell \in KeyCells(r, t)
  <2>1. KeyCell(r, t, 0, 0) \in KeyCells(r, t)
    <3>1. 0 \in 0..(KeyRows(r) - 1) /\ 0 \in 0..(Copies - 1)
      BY <1>3, <1>8 DEF KeyRows
    <3> QED  BY <3>1 DEF KeyCells
  <2>2. BankChannel(b) + 0 * ChannelsPerBlock = BankChannel(b)
    <3>1. BankChannel(b) \in 0..(ChannelsPerBlock - 1)
      BY <1>2, BankPlace DEF b
    <3> QED  BY <1>3, <3>1
  <2> QED  BY <2>1, <2>2 DEF KeyCell, cell, b, g
<1> QED  BY <1>16, <1>19, <1>20

(* The output stage of a step of so many tokens reads a value cell of each. *)
LEMMA EveryValueIsRead ==
  ASSUME NEW r \in SizedRequest, Planned(r), NEW t \in 0..(r.length - 1)
  PROVE  \E read \in MetWith(r).values : read.cell \in ValueCells(r, t)
<1> DEFINE p == StagePlan(r, "output")
           k == t \div DramColumns
           x == t % DramColumns
           code == Batches(AttentionOutput(p))
           scores == p.buffers.scores.start
           rows == CeilDiv(r.length, DramColumns)
<1>1. p.spec = AttentionSpec(r) /\ p.rows.value_cache.start = ValueStart(r)
  BY OutputStagePlan
<1>2. /\ ValidPlacement /\ r.kv_heads \in Nat \ {0} /\ HeadSize(r) \in Nat \ {0}
      /\ r.max \in Nat /\ r.length \in 1..r.max
      /\ r.heads \div r.kv_heads \in Nat \ {0} /\ t \in Nat
  BY PlannedSizes
<1>3. /\ DramColumns \in Nat \ {0} /\ Copies \in Nat \ {0} /\ BurstLength \in Nat \ {0}
      /\ ChannelsPerBlock \in Nat \ {0} /\ NumBanks \in Nat \ {0}
      /\ NumChannels = Copies * ChannelsPerBlock
  BY <1>2, Geometry
<1>4. /\ p.spec.kv_heads = r.kv_heads /\ p.spec.head = HeadSize(r)
      /\ p.spec.repeat = r.heads \div r.kv_heads /\ p.spec.length = r.length
      /\ p.spec.max = r.max
  BY <1>1 DEF AttentionSpec
<1>5. /\ k \in Nat /\ x \in 0..(DramColumns - 1) /\ t = k * DramColumns + x
  BY <1>2, <1>3, Parts
<1> HIDE DEF p, k, x
<1>6. \A a, d \in Nat \ {0} : CeilDiv(a, d) \in Nat \ {0}
  <2>1. ASSUME NEW a \in Nat \ {0}, NEW d \in Nat \ {0}
        PROVE  CeilDiv(a, d) \in Nat \ {0}
    <3>1. CeilDiv(a, d) \in Nat /\ (0 < CeilDiv(a, d) <=> 0 * d < a)
      BY CeilDivBelow
    <3>2. 0 * d = 0
      OBVIOUS
    <3> QED  BY <3>1, <3>2
  <2> QED  BY <2>1
<1> DEFINE m == k * DramColumns
<1>7. m \in Nat /\ t = m + x
  BY <1>3, <1>5
<1> HIDE DEF m
<1>8. m < r.length /\ x < r.length - m
  BY <1>2, <1>3, <1>5, <1>7
<1>9. rows \in Nat /\ k < rows /\ k \in 0..(rows - 1)
  <2>1. r.length \in Nat /\ k * DramColumns < r.length
    BY <1>2, <1>8 DEF m
  <2>2. rows \in Nat /\ (k < rows <=> k * DramColumns < r.length)
    BY <1>3, <1>5, <2>1, CeilDivBelow
  <2> HIDE DEF rows
  <2> QED  BY <1>5, <2>1, <2>2
<1>10. PICK i : /\ i.op = "MAC_ABK" /\ i.channels = AllChannels
                /\ i.row = ValueStart(r) + ValueRow(TokenRows(r), ValueDimensions(r), 0, 0, k)
                /\ i.size = RowBursts(r.length, k) /\ i.column = 0
                /\ IsSteps(AttentionOutput(p))
                /\ In([ok |-> TRUE, batch |-> <<i>>], AttentionOutput(p))
  <2>1. /\ CeilDiv(p.spec.kv_heads, ChannelsPerBlock) \in Nat \ {0}
        /\ CeilDiv(p.spec.head, NumBanks) \in Nat \ {0} /\ p.spec.repeat \in Nat \ {0}
        /\ CeilDiv(p.spec.length, DramColumns) \in Nat
        /\ k \in 0..(CeilDiv(p.spec.length, DramColumns) - 1)
    BY <1>2, <1>3, <1>4, <1>6, <1>9
  <2> HIDE DEF code, rows
  <2>2. \E i : /\ i.op = "MAC_ABK" /\ i.channels = AllChannels
               /\ i.row = p.rows.value_cache.start
                            + ValueRow(CeilDiv(p.spec.max, DramColumns),
                                       CeilDiv(p.spec.head, NumBanks), 0, 0, k)
               /\ i.size = RowBursts(p.spec.length, k) /\ i.column = 0
               /\ IsSteps(AttentionOutput(p))
               /\ In([ok |-> TRUE, batch |-> <<i>>], AttentionOutput(p))
    BY <2>1, OutputProduct
  <2> QED  BY <1>1, <1>4, <2>2 DEF TokenRows, ValueDimensions
<1>11. PICK j \in DOMAIN code : code[j] = i
  BY <1>10, StepInProgram
<1>12. x \in 0..(Lanes(i.size) - 1) /\ Lanes(i.size) \in Nat
  <2> DEFINE count == InRow(r.length, k)
             size == CeilDiv(count, BurstLength)
  <2>1. count \in Nat /\ x < count
    <3>1. count = Lesser(DramColumns, r.length - m)
      BY DEF InRow, m
    <3> HIDE DEF count
    <3> QED  BY <1>2, <1>3, <1>5, <1>7, <1>8, <3>1 DEF Lesser
  <2> HIDE DEF count
  <2>2. size \in Nat /\ ~(size < size)
    BY <1>3, <2>1, CeilDivBelow
  <2>3. size * BurstLength >= count
    <3>1. \A z \in Nat : z < size <=> z * BurstLength < count
      BY <1>3, <2>1, CeilDivBelow
    <3> HIDE DEF size
    <3>2. ~(size * BurstLength < count) /\ size * BurstLength \in Nat
      BY <1>3, <2>2, <3>1
    <3> QED  BY <2>1, <3>2
  <2>4. Lanes(i.size) = size * BurstLength
    BY <1>10 DEF Lanes, RowBursts, count
  <2> HIDE DEF size
  <2> DEFINE lanes == size * BurstLength
  <2>5. lanes \in Nat /\ lanes >= count
    BY <1>3, <2>2, <2>3
  <2> HIDE DEF lanes
  <2>6. x \in 0..(lanes - 1)
    BY <1>5, <2>1, <2>5
  <2> QED  BY <2>4, <2>5, <2>6 DEF lanes
<1>13. 0 \in Range(AllChannels)
  <2>1. \A a, d \in Nat \ {0} : a * d \in Nat \ {0}
    OBVIOUS
  <2>2. NumChannels \in Nat \ {0}
    BY <1>3, <2>1
  <2>3. 1 \in DOMAIN AllChannels /\ AllChannels[1] = 0
    BY <2>2 DEF AllChannels
  <2> QED  BY <2>3 DEF Range
<1> DEFINE first == (code[LoadBefore(code, j)].slot - scores) * BurstLength
                      - code[LoadBefore(code, j)].column
           read == [by |-> j, cell |-> <<0, code[j].row, x>>, lane |-> first + x]
           reads == {[by |-> j, cell |-> <<c, code[j].row, y>>, lane |-> first + y] :
                       c \in Range(code[j].channels),
                       y \in code[j].column..(code[j].column + Lanes(code[j].size) - 1)}
           cell == <<0, ValueStart(r) + ValueRow(TokenRows(r), ValueDimensions(r), 0, 0, k), x>>
<1>14. MetWith(r).values = ValueReads(code, scores)
  BY DEF MetWith, p
<1> HIDE DEF code, scores
<1>15. read \in reads
  <2>1. Lanes(i.size) \in Int /\ \A n \in Int : 0..(0 + n - 1) = 0..(n - 1)
    BY <1>12
  <2>2. x \in i.column..(i.column + Lanes(i.size) - 1)
    BY <1>10, <1>12, <2>1
  <2> HIDE DEF first
  <2> QED  BY <1>10, <1>11, <1>13, <2>2
<1>16. read.cell = cell
  BY <1>10, <1>11
<1> HIDE DEF read, cell
<1>17. j \in ProductsOf(code)
  BY <1>10, <1>11 DEF ProductsOf
<1>18. read \in MetWith(r).values
  <2>1. reads \in {LET load == code[LoadBefore(code, z)]
                       f == (load.slot - scores) * BurstLength - load.column
                   IN  {[by |-> z, cell |-> <<c, code[z].row, y>>, lane |-> f + y] :
                          c \in Range(code[z].channels),
                          y \in code[z].column..(code[z].column + Lanes(code[z].size) - 1)}
                      : z \in ProductsOf(code)}
    BY <1>17
  <2> HIDE DEF reads
  <2>2. read \in ValueReads(code, scores)
    BY <1>15, <2>1 DEF ValueReads
  <2> QED  BY <1>14, <2>2
<1>19. cell \in ValueCells(r, t)
  <2>1. 0 \in 0..(ValueHeads(r) - 1) /\ 0 \in 0..(ValueDimensions(r) - 1)
        /\ 0 \in 0..(ChannelsPerBlock - 1)
    <3>1. ValueHeads(r) \in Nat \ {0} /\ ValueDimensions(r) \in Nat \ {0}
      BY <1>2, <1>3, <1>6 DEF ValueHeads, ValueDimensions
    <3> QED  BY <1>3, <3>1
  <2>2. HeadExists(r, 0, 0)
    <3>1. ValueHeads(r) \in Nat
      BY <1>2, <1>3, <1>6 DEF ValueHeads
    <3>2. 0 * ValueHeads(r) + 0 = 0
      BY <3>1
    <3> QED  BY <1>2, <3>2 DEF HeadExists
  <2>3. ValueCell(r, t, 0, 0, 0) \in ValueCells(r, t)
    BY <2>1, <2>2, ValueCellListed
  <2> QED  BY <2>3 DEF ValueCell, cell, k, x
<1> QED  BY <1>16, <1>18, <1>19

-----------------------------------------------------------------------------
(***************************************************************************)
(* A cache as a function from cells to what they hold.  places gives every *)
(* token of a sequence its cells.                                          *)
(***************************************************************************)
Holds(cells, cell, at, of) ==
  cell \in DOMAIN cells /\ cells[cell].at = at /\ cells[cell].of = of

(* Every cell is one of the token it says it holds, and those of the first *)
(* n tokens hold the tokens of the present sequence.                       *)
Cached(cells, places, n, of) ==
  /\ \A cell \in DOMAIN cells :
       cells[cell].at \in DOMAIN places /\ cell \in places[cells[cell].at]
  /\ \A at \in 0..(n - 1) : \A cell \in places[at] : Holds(cells, cell, at, of)

(* The cells of token n hold it already or have yet to be written. *)
Filling(cells, places, n, of, todo) ==
  \A cell \in places[n] : Holds(cells, cell, n, of) \/ cell \in todo

(* A token is written to one of its cells. *)
Written(new, cells, cell, n, of) ==
  \E part : new = Extended([c \in {cell} |-> [at |-> n, of |-> of, part |-> part]], cells)

(* No cell has a place in two tokens. *)
Apart(places) ==
  \A at, other \in DOMAIN places : \A cell \in places[at] :
    cell \in places[other] => at = other

KeyPlaces(r) == [at \in 0..(r.max - 1) |-> KeyCells(r, at)]
ValuePlaces(r) == [at \in 0..(r.max - 1) |-> ValueCells(r, at)]

KeysToWrite(code) ==
  {<<i.channel, i.bank, i.row>> : i \in {j \in Elements(code) : j.op = "WR_SBK"}}
ValuesToWrite(code) ==
  {<<i.channel, i.row, i.column>> : i \in {j \in Elements(code) : j.op = "WR_ABK"}}

(* The instructions are writes of the cells of a token. *)
WritesToken(code, r, at) ==
  \A i \in Elements(code) :
    \/ i.op = "WR_SBK" /\ <<i.channel, i.bank, i.row>> \in KeyCells(r, at)
    \/ i.op = "WR_ABK" /\ <<i.channel, i.row, i.column>> \in ValueCells(r, at)

(* The inductive invariant: the caches hold the tokens of this sequence,   *)
(* and what is left of an update writes what is left of the next token.    *)
CacheInv ==
  /\ request \in SizedRequest
  /\ request.length > 0 => Planned(request) /\ met = MetWith(request)
  /\ IsListing(pending)
  /\ Cached(keys, KeyPlaces(request), request.length, sequence)
  /\ Cached(values, ValuePlaces(request), request.length, sequence)
  /\ pending # <<>> =>
       /\ Planned(Longer)
       /\ WritesToken(pending, request, request.length)
       /\ Filling(keys, KeyPlaces(request), request.length, sequence, KeysToWrite(pending))
       /\ Filling(values, ValuePlaces(request), request.length, sequence, ValuesToWrite(pending))

-----------------------------------------------------------------------------
\* The next instruction, and the rest.
LEMMA HeadAndTail ==
  ASSUME NEW s, IsListing(s), s # <<>>
  PROVE  /\ Len(s) \in Nat \ {0}
         /\ IsListing(Tail(s))
         /\ \A x : x \in Elements(s) <=> x = Head(s) \/ x \in Elements(Tail(s))
         /\ Tail(s) = <<>> <=> Len(s) = 1
         /\ Len(s) = 1 => Elements(Tail(s)) = {}
<1> DEFINE n == Len(s)
<1>1. n \in Nat /\ s = [k \in 1..n |-> s[k]]
  BY DEF IsListing
<1>2. n # 0
  BY <1>1
<1> DEFINE t == [k \in 1..(n - 1) |-> s[k + 1]]
<1>3. Tail(s) = t /\ Head(s) = s[1] /\ Len(t) = n - 1
  <2>1. s \in Seq(Elements(s)) /\ s # <<>>
    BY ListsElements DEF Lists
  <2> HIDE DEF n
  <2>2. /\ Tail(s) \in Seq(Elements(s)) /\ Len(Tail(s)) = n - 1
        /\ \A k \in 1..Len(Tail(s)) : Tail(s)[k] = s[k + 1]
    BY <2>1, HeadTailProperties DEF n
  <2>3. \A k \in 1..(n - 1) : Tail(s)[k] = s[k + 1]
    BY <2>2
  <2>4. Tail(s) = [k \in 1..(n - 1) |-> Tail(s)[k]]
    <3>1. \A S, u : u \in Seq(S) => u = [k \in 1..Len(u) |-> u[k]]
      OBVIOUS
    <3> QED  BY <2>2, <3>1
  <2>5. Head(s) = s[1]
    BY <1>1, <1>2, <2>1 DEF n
  <2>6. Tail(s) = t
    BY <2>3, <2>4
  <2> QED  BY <2>2, <2>5, <2>6
<1>4. t = [k \in 1..(n - 1) |-> t[k]] /\ \A k \in 1..(n - 1) : t[k] = s[k + 1]
  OBVIOUS
<1> HIDE DEF t
<1>5. IsListing(Tail(s))
  BY <1>1, <1>2, <1>3, <1>4 DEF IsListing
<1>6. ASSUME NEW x
      PROVE  (\E k \in 1..n : x = s[k]) <=> x = s[1] \/ \E k \in 1..(n - 1) : x = t[k]
  <2>1. ASSUME NEW k \in 1..n, x = s[k], k # 1
        PROVE  \E j \in 1..(n - 1) : x = t[j]
    <3>1. k - 1 \in 1..(n - 1) /\ (k - 1) + 1 = k
      BY <1>1, <2>1
    <3> QED  BY <1>4, <2>1, <3>1
  <2>2. ASSUME NEW k \in 1..(n - 1), x = t[k]
        PROVE  \E j \in 1..n : x = s[j]
    <3>1. k + 1 \in 1..n
      BY <1>1
    <3> QED  BY <1>4, <2>2, <3>1
  <2>3. 1 \in 1..n
    BY <1>1, <1>2
  <2> QED  BY <2>1, <2>2, <2>3
<1>7. \A x : x \in Elements(s) <=> x = Head(s) \/ x \in Elements(Tail(s))
  <2>1. Elements(s) = {s[k] : k \in 1..n} /\ Elements(Tail(s)) = {t[k] : k \in 1..(n - 1)}
    BY <1>1, <1>3 DEF Elements
  <2> HIDE DEF n
  <2>2. \A x : x \in Elements(s) <=> \E k \in 1..n : x = s[k]
    BY <2>1
  <2>3. \A x : x \in Elements(Tail(s)) <=> \E k \in 1..(n - 1) : x = t[k]
    BY <2>1
  <2> QED  BY <1>3, <1>6, <2>2, <2>3
<1>8. Tail(s) = <<>> <=> n = 1
  BY <1>1, <1>2, <1>3, <1>4
<1>9. n = 1 => Elements(Tail(s)) = {}
  BY <1>1, <1>2, <1>3 DEF Elements
<1> QED  BY <1>1, <1>2, <1>5, <1>7, <1>8, <1>9

\* A write of a cell of the next token.
LEMMA WriteKeeps ==
  ASSUME NEW cells, NEW places, NEW n \in DOMAIN places, NEW of, NEW cell \in places[n],
         0..(n - 1) \subseteq DOMAIN places, n \in Nat,
         Apart(places), Cached(cells, places, n, of),
         NEW new, Written(new, cells, cell, n, of)
  PROVE  /\ Cached(new, places, n, of)
         /\ Holds(new, cell, n, of)
         /\ \A other : Holds(cells, other, n, of) => Holds(new, other, n, of)
<1>9. PICK part : new = Extended([c \in {cell} |-> [at |-> n, of |-> of, part |-> part]], cells)
  BY DEF Written
<1> DEFINE entry == [at |-> n, of |-> of, part |-> part]
           one == [c \in {cell} |-> entry]
<1>1. entry.at = n /\ entry.of = of
  OBVIOUS
<1> HIDE DEF entry
<1>2. DOMAIN one = {cell} /\ one[cell] = entry
  OBVIOUS
<1>3. new = Extended(one, cells)
  BY <1>9 DEF entry
<1> HIDE DEF one
<1>4. /\ DOMAIN new = {cell} \cup DOMAIN cells
      /\ new[cell] = entry
      /\ \A other \in DOMAIN cells : other # cell => new[other] = cells[other]
  BY <1>2, <1>3 DEF Extended
<1>5. Holds(new, cell, n, of)
  BY <1>1, <1>4 DEF Holds
<1>6. \A other, at : Holds(cells, other, at, of) /\ other # cell => Holds(new, other, at, of)
  BY <1>4 DEF Holds
<1>7. ASSUME NEW other \in DOMAIN new
      PROVE  new[other].at \in DOMAIN places /\ other \in places[new[other].at]
  <2>1. CASE other = cell
    BY <1>1, <1>4, <2>1
  <2>2. CASE other # cell
    BY <1>4, <2>2 DEF Cached
  <2> QED  BY <2>1, <2>2
<1>8. ASSUME NEW at \in 0..(n - 1), NEW other \in places[at]
      PROVE  Holds(new, other, at, of)
  <2>1. at \in DOMAIN places /\ at # n
    OBVIOUS
  <2>2. other # cell
    BY <2>1 DEF Apart
  <2>3. Holds(cells, other, at, of)
    BY DEF Cached
  <2> QED  BY <1>6, <2>2, <2>3
<1> QED  BY <1>5, <1>6, <1>7, <1>8 DEF Cached

\* A token all of whose cells are written is one of those cached.
LEMMA FilledIsCached ==
  ASSUME NEW cells, NEW places, NEW n \in Nat, NEW of,
         Cached(cells, places, n, of), Filling(cells, places, n, of, {})
  PROVE  Cached(cells, places, n + 1, of)
<1>1. \A at \in 0..((n + 1) - 1) : at \in 0..(n - 1) \/ at = n
  OBVIOUS
<1> QED  BY <1>1 DEF Cached, Filling

(* Reads that meet a cell of a cached token find it and no other: what an  *)
(* earlier sequence left is at positions not yet reached.                  *)
LEMMA FoundIsSequence ==
  ASSUME NEW cells, NEW places, NEW n \in Nat, NEW of, Cached(cells, places, n, of),
         NEW at \in 0..(n - 1), NEW reads, \E read \in reads : read.cell \in places[at]
  PROVE  Found(cells, reads, at) = {of}
<1>1. PICK read \in reads : read.cell \in places[at]
  OBVIOUS
<1>2. \A cell \in DOMAIN cells : cells[cell].at = at => cells[cell].of = of
  BY DEF Cached, Holds
<1>3. /\ read.cell \in DOMAIN cells /\ cells[read.cell].at = at
      /\ cells[read.cell].of = of
  BY <1>1 DEF Cached, Holds
<1> DEFINE S == {d \in {x.cell : x \in reads} \cap DOMAIN cells : cells[d].at = at}
<1>4. read.cell \in S
  BY <1>3
<1>5. \A c \in S : cells[c].of = of
  BY <1>2
<1> HIDE DEF S
<1>6. {cells[c].of : c \in S} = {of}
  BY <1>4, <1>5
<1> QED  BY <1>6 DEF Found, S

\* The places of a sequence do not depend on how much of it there is.
LEMMA SameCells ==
  ASSUME NEW r \in SizedRequest, NEW n \in Nat, NEW s, s = [r EXCEPT !.length = n]
  PROVE  /\ s \in SizedRequest /\ s.length = n /\ s.max = r.max
         /\ KeyPlaces(s) = KeyPlaces(r) /\ ValuePlaces(s) = ValuePlaces(r)
         /\ \A t : KeyCells(s, t) = KeyCells(r, t) /\ ValueCells(s, t) = ValueCells(r, t)
<1>1. /\ s \in SizedRequest /\ s.length = n
      /\ s.kv_heads = r.kv_heads /\ s.max = r.max /\ HeadSize(s) = HeadSize(r)
      /\ KvWidth(s) = KvWidth(r)
      /\ KeyStart(s) = KeyStart(r) /\ ValueStart(s) = ValueStart(r)
  BY SamePlaces
<1>2. /\ KeyRows(s) = KeyRows(r) /\ ValueHeads(s) = ValueHeads(r)
      /\ ValueDimensions(s) = ValueDimensions(r) /\ TokenRows(s) = TokenRows(r)
  BY <1>1 DEF KeyRows, ValueHeads, ValueDimensions, TokenRows
<1>3. ASSUME NEW t
      PROVE  KeyCells(s, t) = KeyCells(r, t) /\ ValueCells(s, t) = ValueCells(r, t)
  <2>1. \A k, o : KeyCell(s, t, k, o) = KeyCell(r, t, k, o)
    BY <1>1, <1>2 DEF KeyCell
  <2>2. KeyCells(s, t) = KeyCells(r, t)
    BY <1>2, <2>1 DEF KeyCells
  <2>3. \A h, d, c : ValueCell(s, t, h, d, c) = ValueCell(r, t, h, d, c)
    BY <1>1, <1>2 DEF ValueCell
  <2>4. \A h, c : HeadExists(s, h, c) <=> HeadExists(r, h, c)
    BY <1>1, <1>2 DEF HeadExists
  <2>5. ValueCells(s, t) = ValueCells(r, t)
    BY <1>2, <2>3, <2>4 DEF ValueCells
  <2> QED  BY <2>2, <2>5
<1>4. KeyPlaces(s) = KeyPlaces(r) /\ ValuePlaces(s) = ValuePlaces(r)
  BY <1>1, <1>3 DEF KeyPlaces, ValuePlaces
<1> QED  BY <1>1, <1>3, <1>4

\* No two tokens of a planned sequence share a cell.
LEMMA PlacesApart ==
  ASSUME NEW r \in SizedRequest, Planned(r)
  PROVE  Apart(KeyPlaces(r)) /\ Apart(ValuePlaces(r))
<1>1. \A t, u \in 0..(r.max - 1) : \A cell \in KeyCells(r, t) : cell \in KeyCells(r, u) => t = u
  BY KeyCellsDisjoint
<1>2. \A t, u \in 0..(r.max - 1) : \A cell \in ValueCells(r, t) :
        cell \in ValueCells(r, u) => t = u
  BY ValueCellsDisjoint
<1> QED  BY <1>1, <1>2 DEF Apart, KeyPlaces, ValuePlaces

-----------------------------------------------------------------------------
(* The caches hold the keys and values of every token there is. *)
LogIsWhole == CachedLog = [t \in 1..request.length |-> Log!OfSequence(sequence)]

(* The log the caches hold, as long as the invariant holds. *)
LEMMA LogOfInv ==
  CacheInv => LogIsWhole
<1> SUFFICES ASSUME CacheInv
             PROVE  CachedLog = [t \in 1..request.length |-> Log!OfSequence(sequence)]
  BY DEF LogIsWhole
<1>1. request.length \in Nat
  BY DEF CacheInv, SizedRequest
<1>2. ASSUME NEW t \in 1..request.length
      PROVE  /\ Found(keys, met.keys, t - 1) = {sequence}
             /\ Found(values, met.values, t - 1) = {sequence}
  <2>1. t - 1 \in 0..(request.length - 1) /\ request.length > 0
    BY <1>1
  <2>2. /\ request \in SizedRequest /\ Planned(request) /\ met = MetWith(request)
        /\ Cached(keys, KeyPlaces(request), request.length, sequence)
        /\ Cached(values, ValuePlaces(request), request.length, sequence)
    BY <2>1 DEF CacheInv
  <2>3. request.length \in 1..request.max /\ request.max \in Nat
    BY <2>2, PlannedSizes
  <2>4. /\ KeyPlaces(request)[t - 1] = KeyCells(request, t - 1)
        /\ ValuePlaces(request)[t - 1] = ValueCells(request, t - 1)
    BY <2>1, <2>3 DEF KeyPlaces, ValuePlaces
  <2>5. \E read \in met.keys : read.cell \in KeyPlaces(request)[t - 1]
    BY <2>1, <2>2, <2>4, EveryKeyIsRead
  <2>6. \E read \in met.values : read.cell \in ValuePlaces(request)[t - 1]
    BY <2>1, <2>2, <2>4, EveryValueIsRead
  <2>7. Found(keys, met.keys, t - 1) = {sequence}
    BY <1>1, <2>1, <2>2, <2>5, FoundIsSequence
  <2>8. Found(values, met.values, t - 1) = {sequence}
    BY <1>1, <2>1, <2>2, <2>6, FoundIsSequence
  <2> QED  BY <2>7, <2>8
<1> QED  BY <1>2 DEF CachedLog, Log!OfSequence

\* The caches are empty at first.
LEMMA CacheInvInit ==
  CacheInit => CacheInv
<1> SUFFICES ASSUME CacheInit
             PROVE  CacheInv
  OBVIOUS
<1>1. PICK r \in CachedRequests : request = [r EXCEPT !.length = 0]
  BY DEF CacheInit
<1>2. request \in SizedRequest /\ request.length = 0
  <2>1. r \in SizedRequest
    BY CachedRequestsAssumption DEF SizedRequest
  <2> QED  BY <1>1, <2>1, SameCells
<1>3. pending = <<>> /\ keys = << >> /\ values = << >>
  BY DEF CacheInit
<1>4. IsListing(pending)
  BY <1>3 DEF IsListing
<1>5. \A places : Cached(<< >>, places, 0, sequence)
  BY DEF Cached
<1> QED  BY <1>2, <1>3, <1>4, <1>5 DEF CacheInv

\* A step begun has the cells of its token yet to write.
LEMMA CacheInvBeginStep ==
  ASSUME CacheInv, BeginStep
  PROVE  CacheInv'
<1> DEFINE code == Batches(KvCacheUpdate(StagePlan(Longer, "kv_update")))
           n == request.length
<1>1. /\ Planned(Longer) /\ pending' = code
      /\ request' = request /\ sequence' = sequence /\ keys' = keys /\ values' = values
      /\ met' = met
  BY DEF BeginStep
<1>2. request \in SizedRequest /\ n \in Nat
  BY DEF CacheInv, SizedRequest
<1>3. Longer = [request EXCEPT !.length = n + 1]
  BY DEF Longer
<1>4. /\ Longer \in SizedRequest /\ Longer.length = n + 1 /\ Longer.max = request.max
      /\ \A t : KeyCells(Longer, t) = KeyCells(request, t)
                /\ ValueCells(Longer, t) = ValueCells(request, t)
  BY <1>2, <1>3, SameCells
<1>5. Longer.length - 1 = n /\ n \in 0..(request.max - 1)
  <2>1. Longer.length \in 1..Longer.max /\ Longer.max \in Nat
    BY <1>1, <1>4, PlannedSizes
  <2> QED  BY <1>2, <1>4, <2>1
<1> HIDE DEF code, n
<1>6. /\ IsListing(code)
      /\ \A i : In(i, code) =>
           \/ i.op = "WR_SBK" /\ <<i.channel, i.bank, i.row>> \in KeyCells(request, n)
           \/ i.op = "WR_ABK" /\ <<i.channel, i.row, i.column>> \in ValueCells(request, n)
      /\ \A cell \in KeyCells(request, n) :
           \E i : In(i, code) /\ i.op = "WR_SBK" /\ cell = <<i.channel, i.bank, i.row>>
      /\ \A cell \in ValueCells(request, n) :
           \E i : In(i, code) /\ i.op = "WR_ABK" /\ cell = <<i.channel, i.row, i.column>>
  BY <1>1, <1>4, <1>5, UpdateWrites DEF code
<1>7. \A i : i \in Elements(code) <=> In(i, code)
  BY DEF Elements, In
<1>8. WritesToken(code, request, n)
  BY <1>6, <1>7 DEF WritesToken
<1>9. KeyPlaces(request)[n] = KeyCells(request, n)
      /\ ValuePlaces(request)[n] = ValueCells(request, n)
  BY <1>5 DEF KeyPlaces, ValuePlaces
<1>10. Filling(keys, KeyPlaces(request), n, sequence, KeysToWrite(code))
  BY <1>6, <1>7, <1>9 DEF Filling, KeysToWrite
<1>11. Filling(values, ValuePlaces(request), n, sequence, ValuesToWrite(code))
  BY <1>6, <1>7, <1>9 DEF Filling, ValuesToWrite
<1>12. Longer' = Longer
  BY <1>1 DEF Longer
<1> QED  BY <1>1, <1>6, <1>8, <1>10, <1>11, <1>12 DEF CacheInv, n

(***************************************************************************)
(* A write takes its cell off what is left of the update, and disturbs no  *)
(* other token; the last one completes the token.                          *)
(***************************************************************************)
LEMMA CacheInvWrite ==
  ASSUME CacheInv, CacheWrite
  PROVE  CacheInv'
<1> DEFINE n == request.length
           i == Head(pending)
           left == Tail(pending)
           KP == KeyPlaces(request)
           VP == ValuePlaces(request)
           KeyOf(j) == <<j.channel, j.bank, j.row>>
           ValueOf(j) == <<j.channel, j.row, j.column>>
<1>1. /\ request \in SizedRequest /\ IsListing(pending) /\ pending # <<>>
      /\ Cached(keys, KP, n, sequence) /\ Cached(values, VP, n, sequence)
      /\ Planned(Longer) /\ WritesToken(pending, request, n)
      /\ Filling(keys, KP, n, sequence, KeysToWrite(pending))
      /\ Filling(values, VP, n, sequence, ValuesToWrite(pending))
  BY DEF CacheInv, CacheWrite
<1>2. /\ pending' = left /\ sequence' = sequence
      /\ IF Len(pending) = 1 THEN request' = Longer /\ met' = MetWith(Longer)
         ELSE request' = request /\ met' = met
  BY DEF CacheWrite
<1>3. n \in Nat /\ Longer = [request EXCEPT !.length = n + 1]
  BY <1>1 DEF SizedRequest, Longer
<1>4. /\ Longer \in SizedRequest /\ Longer.length = n + 1 /\ Longer.max = request.max
      /\ KeyPlaces(Longer) = KP /\ ValuePlaces(Longer) = VP
  BY <1>1, <1>3, SameCells
<1>5. n \in 0..(request.max - 1) /\ request.max \in Nat
  <2>1. Longer.length \in 1..Longer.max /\ Longer.max \in Nat
    BY <1>1, <1>4, PlannedSizes
  <2> QED  BY <1>3, <1>4, <2>1
<1>6. /\ n \in DOMAIN KP /\ 0..(n - 1) \subseteq DOMAIN KP /\ KP[n] = KeyCells(request, n)
      /\ n \in DOMAIN VP /\ 0..(n - 1) \subseteq DOMAIN VP /\ VP[n] = ValueCells(request, n)
  BY <1>3, <1>5 DEF KeyPlaces, ValuePlaces
<1>7. Apart(KP) /\ Apart(VP)
  BY <1>1, <1>4, PlacesApart
<1>8. /\ IsListing(left)
      /\ \A x : x \in Elements(pending) <=> x = i \/ x \in Elements(left)
      /\ left = <<>> <=> Len(pending) = 1
      /\ Len(pending) = 1 => Elements(left) = {}
  BY <1>1, HeadAndTail
<1> HIDE DEF KP, VP, n, i, left
<1>9. /\ \A j \in Elements(pending) :
           \/ j.op = "WR_SBK" /\ KeyOf(j) \in KP[n]
           \/ j.op = "WR_ABK" /\ ValueOf(j) \in VP[n]
      /\ WritesToken(left, request, n)
  BY <1>1, <1>6, <1>8 DEF WritesToken
<1>10. ASSUME NEW cell, cell \in KeysToWrite(pending)
       PROVE  cell \in KeysToWrite(left) \/ (i.op = "WR_SBK" /\ cell = KeyOf(i))
  <2>1. PICK j \in Elements(pending) : j.op = "WR_SBK" /\ cell = KeyOf(j)
    BY <1>10 DEF KeysToWrite
  <2>2. j \in Elements(left) => cell \in KeysToWrite(left)
    BY <2>1 DEF KeysToWrite
  <2> QED  BY <1>8, <2>1, <2>2
<1>11. ASSUME NEW cell, cell \in ValuesToWrite(pending)
       PROVE  cell \in ValuesToWrite(left) \/ (i.op = "WR_ABK" /\ cell = ValueOf(i))
  <2>1. PICK j \in Elements(pending) : j.op = "WR_ABK" /\ cell = ValueOf(j)
    BY <1>11 DEF ValuesToWrite
  <2>2. j \in Elements(left) => cell \in ValuesToWrite(left)
    BY <2>1 DEF ValuesToWrite
  <2> QED  BY <1>8, <2>1, <2>2
<1>12. /\ Cached(keys', KP, n, sequence) /\ Cached(values', VP, n, sequence)
       /\ Filling(keys', KP, n, sequence, KeysToWrite(left))
       /\ Filling(values', VP, n, sequence, ValuesToWrite(left))
  <2>1. WriteKey(i) \/ WriteValue(i)
    BY DEF CacheWrite, i
  <2>2. CASE WriteKey(i)
    <3> DEFINE cell == KeyOf(i)
    <3>1. i.op = "WR_SBK" /\ cell \in KP[n] /\ values' = values
      BY <1>8, <1>9, <2>2 DEF WriteKey
    <3>2. Written(keys', keys, cell, n, sequence)
      BY <2>2 DEF WriteKey, Overwritten, Written, n
    <3> HIDE DEF cell
    <3>3. /\ Cached(keys', KP, n, sequence)
          /\ Holds(keys', cell, n, sequence)
          /\ \A other : Holds(keys, other, n, sequence) => Holds(keys', other, n, sequence)
      BY <1>1, <1>3, <1>6, <1>7, <3>1, <3>2, WriteKeeps
    <3>4. Filling(keys', KP, n, sequence, KeysToWrite(left))
      BY <1>1, <1>10, <3>3 DEF Filling, cell
    <3>5. Filling(values', VP, n, sequence, ValuesToWrite(left))
      BY <1>1, <1>11, <3>1 DEF Filling
    <3> QED  BY <1>1, <3>1, <3>3, <3>4, <3>5
  <2>3. CASE WriteValue(i)
    <3> DEFINE cell == ValueOf(i)
    <3>1. i.op = "WR_ABK" /\ cell \in VP[n] /\ keys' = keys
      BY <1>8, <1>9, <2>3 DEF WriteValue
    <3>2. Written(values', values, cell, n, sequence)
      BY <2>3 DEF WriteValue, Overwritten, Written, n
    <3> HIDE DEF cell
    <3>3. /\ Cached(values', VP, n, sequence)
          /\ Holds(values', cell, n, sequence)
          /\ \A other : Holds(values, other, n, sequence) => Holds(values', other, n, sequence)
      BY <1>1, <1>3, <1>6, <1>7, <3>1, <3>2, WriteKeeps
    <3>4. Filling(values', VP, n, sequence, ValuesToWrite(left))
      BY <1>1, <1>11, <3>3 DEF Filling, cell
    <3>5. Filling(keys', KP, n, sequence, KeysToWrite(left))
      BY <1>1, <1>10, <3>1 DEF Filling
    <3> QED  BY <1>1, <3>1, <3>3, <3>4, <3>5
  <2> QED  BY <2>1, <2>2, <2>3
<1>13. CASE Len(pending) = 1
  <2>1. /\ request' = Longer /\ met' = MetWith(Longer) /\ pending' = <<>>
        /\ Elements(left) = {}
    BY <1>2, <1>8, <1>13
  <2>2. KeysToWrite(left) = {} /\ ValuesToWrite(left) = {}
    BY <2>1 DEF KeysToWrite, ValuesToWrite
  <2>3. Cached(keys', KP, n + 1, sequence) /\ Cached(values', VP, n + 1, sequence)
    BY <1>3, <1>12, <2>2, FilledIsCached
  <2>4. /\ request' \in SizedRequest /\ request'.length = n + 1
        /\ Planned(request') /\ met' = MetWith(request')
        /\ KeyPlaces(request') = KP /\ ValuePlaces(request') = VP
    BY <1>1, <1>4, <2>1
  <2>5. IsListing(pending')
    BY <1>2, <1>8
  <2> QED  BY <1>2, <2>1, <2>3, <2>4, <2>5 DEF CacheInv
<1>14. CASE Len(pending) # 1
  <2>1. request' = request /\ met' = met
    BY <1>2, <1>14
  <2>2. Longer' = Longer
    BY <2>1 DEF Longer
  <2>3. n > 0 => Planned(request) /\ met = MetWith(request)
    BY DEF CacheInv, n
  <2>4. Planned(Longer')
    BY <1>1, <2>2
  <2> QED  BY <1>1, <1>2, <1>8, <1>9, <1>12, <2>1, <2>2, <2>3, <2>4 DEF CacheInv, KP, VP, n
<1> QED  BY <1>13, <1>14

\* A new sequence finds rows that hold nothing of its own.
LEMMA CacheInvNextSequence ==
  ASSUME CacheInv, NextSequence
  PROVE  CacheInv'
<1>1. /\ request' = [request EXCEPT !.length = 0] /\ pending' = pending /\ pending = <<>>
      /\ keys' = keys /\ values' = values
  BY DEF NextSequence
<1>2. /\ request \in SizedRequest /\ IsListing(pending)
      /\ Cached(keys, KeyPlaces(request), request.length, sequence)
      /\ Cached(values, ValuePlaces(request), request.length, sequence)
  BY DEF CacheInv
<1>3. /\ request' \in SizedRequest /\ request'.length = 0
      /\ KeyPlaces(request') = KeyPlaces(request) /\ ValuePlaces(request') = ValuePlaces(request)
  <2> DEFINE s == [request EXCEPT !.length = 0]
  <2>1. /\ s \in SizedRequest /\ s.length = 0
        /\ KeyPlaces(s) = KeyPlaces(request) /\ ValuePlaces(s) = ValuePlaces(request)
    BY <1>2, SameCells
  <2> QED  BY <1>1, <2>1
<1>4. \A cells, places, n, of, other :
        Cached(cells, places, n, of) => Cached(cells, places, 0, other)
  BY DEF Cached
<1> QED  BY <1>1, <1>2, <1>3, <1>4 DEF CacheInv

-----------------------------------------------------------------------------
\* Every step keeps the invariant.
LEMMA CacheInvNext ==
  CacheInv /\ [CacheNext]_cacheVars => CacheInv'
<1> SUFFICES ASSUME CacheInv, [CacheNext]_cacheVars
             PROVE  CacheInv'
  OBVIOUS
<1>1. CASE BeginStep
  BY <1>1, CacheInvBeginStep
<1>2. CASE CacheWrite
  BY <1>2, CacheInvWrite
<1>3. CASE NextSequence
  BY <1>3, CacheInvNextSequence
<1>4. CASE UNCHANGED cacheVars
  BY <1>4 DEF cacheVars, CacheInv, Longer, MetWith
<1> QED  BY <1>1, <1>2, <1>3, <1>4 DEF CacheNext

\* The caches hold what the inductive invariant says, at all times.
THEOREM CachesHoldTheTokens ==
  CacheSpec => []CacheInv
BY CacheInvInit, CacheInvNext, PTL DEF CacheSpec

(* Every step of the decoder is one of the token log, or none. *)
LEMMA StepOfLog ==
  ASSUME CacheInv, CacheInv', [CacheNext]_cacheVars
  PROVE  [Log!AppendToken \/ Log!BeginSequence]_<<CachedLog, sequence>>
<1>1. /\ CachedLog = [t \in 1..request.length |-> Log!OfSequence(sequence)]
      /\ CachedLog' = [t \in 1..request'.length |-> Log!OfSequence(sequence')]
  <2>1. LogIsWhole
    BY LogOfInv
  <2>2. CacheInv' => LogIsWhole'
    BY LogOfInv, PTL
  <2> QED  BY <2>1, <2>2 DEF LogIsWhole, Log!OfSequence
<1>2. request \in SizedRequest /\ request.length \in Nat
  BY DEF CacheInv, SizedRequest
<1> HIDE DEF CachedLog
<1>3. CASE request'.length = request.length /\ sequence' = sequence
  BY <1>1, <1>3
<1>4. CASE CacheWrite /\ Len(pending) = 1
  <2>1. request' = Longer /\ sequence' = sequence
    BY <1>4 DEF CacheWrite
  <2>2. request'.length = request.length + 1
    BY <1>2, <2>1 DEF Longer, SizedRequest
  <2> DEFINE s == [t \in 1..request.length |-> Log!OfSequence(sequence)]
             x == Log!OfSequence(sequence)
  <2>3. [t \in 1..(request.length + 1) |-> x] = Append([t \in 1..request.length |-> x], x)
    <3> HIDE DEF x
    <3> QED  BY <1>2
  <2>4. CachedLog' = Append(CachedLog, x)
    BY <1>1, <2>1, <2>2, <2>3
  <2> QED  BY <2>1, <2>4 DEF Log!AppendToken
<1>5. CASE NextSequence
  <2>1. /\ request' = [request EXCEPT !.length = 0] /\ sequence' = sequence + 1
        /\ sequence < MaxSequences
    BY <1>5 DEF NextSequence
  <2>2. request'.length = 0
    BY <1>2, <2>1 DEF SizedRequest
  <2>3. CachedLog' = <<>>
    BY <1>1, <2>2
  <2> QED  BY <2>1, <2>3 DEF Log!BeginSequence
<1>6. CASE BeginStep \/ (CacheWrite /\ Len(pending) # 1) \/ UNCHANGED cacheVars
  <2>1. request' = request /\ sequence' = sequence
    BY <1>6 DEF BeginStep, CacheWrite, cacheVars
  <2> QED  BY <1>3, <2>1
<1> QED  BY <1>4, <1>5, <1>6 DEF CacheNext

(***************************************************************************)
(* The caches are a token log (CacheIsTokenLog): for every request, every  *)
(* geometry and any number of sequences, a decode step appends its token,  *)
(* disturbs none cached before it, and what an earlier sequence left in    *)
(* the rows is never met as a token of this one.                           *)
(***************************************************************************)
THEOREM CachesAreTokenLog ==
  CacheSpec => CacheIsTokenLog
<1>1. CacheInit => Log!LogInit
  <2> SUFFICES ASSUME CacheInit
               PROVE  Log!LogInit
    OBVIOUS
  <2>1. CachedLog = [t \in 1..request.length |-> Log!OfSequence(sequence)]
    BY CacheInvInit, LogOfInv DEF LogIsWhole
  <2>2. PICK r \in CachedRequests : request = [r EXCEPT !.length = 0]
    BY DEF CacheInit
  <2>3. request.length = 0
    BY <2>2, CachedRequestsAssumption
  <2>4. CachedLog = <<>>
    BY <2>1, <2>3
  <2> QED  BY <2>4 DEF CacheInit, Log!LogInit
<1>2. CacheInv /\ CacheInv' /\ [CacheNext]_cacheVars
        => [Log!AppendToken \/ Log!BeginSequence]_<<CachedLog, sequence>>
  BY StepOfLog
<1> QED  BY <1>1, <1>2, CachesHoldTheTokens, PTL DEF CacheSpec, CacheIsTokenLog, Log!LogSpec

-----------------------------------------------------------------------------
(***************************************************************************)
(* How often: the steps of a lowerer that are in a set, counted through    *)
(* its loops.                                                              *)
(***************************************************************************)
At(s, X) == {k \in 1..Len(s) : s[k] \in X}

(* A step that appends one instruction. *)
Appending(i) == [ok |-> TRUE, batch |-> <<i>>]

(* Steps of U, n of them in X. *)
Tallies(s, U, X, n) ==
  /\ IsListing(s) /\ \A x : In(x, s) => x \in U
  /\ IsFiniteSet(At(s, X)) /\ Cardinality(At(s, X)) = n

\* A loop-free part: one instruction, counted if it is in the set.
LEMMA TalliesOne ==
  ASSUME NEW i, NEW U, Appending(i) \in U, NEW X
  PROVE  Tallies(Append1(i), U, X, IF Appending(i) \in X THEN 1 ELSE 0)
<1> DEFINE s == Append1(i)
<1>1. s = <<Appending(i)>> /\ IsListing(s) /\ \A x : In(x, s) <=> x = Appending(i)
  BY InStep DEF Append1, Appending
<1>3. At(s, X) = IF Appending(i) \in X THEN {1} ELSE {}
  <2> DEFINE a == Appending(i)
  <2> HIDE DEF a
  <2>1. Len(<<a>>) = 1 /\ <<a>>[1] = a
    OBVIOUS
  <2>2. At(<<a>>, X) = IF a \in X THEN {1} ELSE {}
    BY <2>1 DEF At
  <2> QED  BY <1>1, <2>2 DEF a
<1> HIDE DEF s
<1>4. IsFiniteSet({1}) /\ Cardinality({1}) = 1 /\ IsFiniteSet({}) /\ Cardinality({}) = 0
  BY FS_Singleton, FS_EmptySet
<1>5. /\ IsFiniteSet(At(s, X))
      /\ Cardinality(At(s, X)) = IF Appending(i) \in X THEN 1 ELSE 0
  BY <1>3, <1>4
<1> QED  BY <1>1, <1>5 DEF Tallies, s

\* One part of a lowerer after the other.
LEMMA TalliesConcat ==
  ASSUME NEW s, NEW t, NEW U, NEW X, NEW m \in Nat, NEW n \in Nat,
         Tallies(s, U, X, m), Tallies(t, U, X, n)
  PROVE  Tallies(s \o t, U, X, m + n)
<1> DEFINE u == s \o t
           a == Len(s)
           b == Len(t)
           A == At(s, X)
           B == {a + k : k \in At(t, X)}
<1>1. /\ IsListing(s) /\ IsListing(t) /\ \A x : In(x, s) \/ In(x, t) => x \in U
      /\ IsFiniteSet(A) /\ Cardinality(A) = m
      /\ IsFiniteSet(At(t, X)) /\ Cardinality(At(t, X)) = n
  BY DEF Tallies
<1>2. IsListing(u) /\ \A x : In(x, u) <=> In(x, s) \/ In(x, t)
  BY <1>1, InConcat
<1>3. /\ a \in Nat /\ b \in Nat /\ Len(u) = a + b
      /\ \A k \in 1..a : u[k] = s[k]
      /\ \A k \in 1..b : u[a + k] = t[k]
  <2>1. s \in Seq(Elements(s)) /\ t \in Seq(Elements(t))
    BY <1>1, ListsElements DEF Lists
  <2>2. \A S, T : s \in Seq(S) /\ t \in Seq(T) =>
          /\ Len(s) \in Nat /\ Len(t) \in Nat /\ Len(s \o t) = Len(s) + Len(t)
          /\ \A k \in 1..Len(s) : (s \o t)[k] = s[k]
          /\ \A k \in 1..Len(t) : (s \o t)[Len(s) + k] = t[k]
    OBVIOUS
  <2> QED  BY <2>1, <2>2
<1> HIDE DEF u, a, b
<1>4. \A k \in 1..(a + b) : k \in 1..a \/ \E j \in 1..b : k = a + j
  <2>1. ASSUME NEW k \in 1..(a + b), k \notin 1..a
        PROVE  k - a \in 1..b /\ k = a + (k - a)
    BY <1>3, <2>1
  <2> QED  BY <2>1
<1>5. A = {k \in 1..a : s[k] \in X} /\ At(t, X) = {k \in 1..b : t[k] \in X}
  BY DEF At, a, b
<1>6. At(u, X) = A \cup B
  <2>1. At(u, X) = {k \in 1..(a + b) : u[k] \in X}
    BY <1>3 DEF At
  <2>2. ASSUME NEW k \in A PROVE k \in At(u, X)
    BY <1>3, <1>5, <2>1
  <2>3. ASSUME NEW k \in At(t, X) PROVE a + k \in At(u, X)
    <3>1. k \in 1..b /\ t[k] \in X
      BY <1>5
    <3>2. a + k \in 1..(a + b)
      BY <1>3, <3>1
    <3> QED  BY <1>3, <2>1, <3>1, <3>2
  <2>4. ASSUME NEW k \in At(u, X) PROVE k \in A \cup B
    <3>1. k \in 1..(a + b) /\ u[k] \in X
      BY <2>1
    <3>2. CASE k \in 1..a
      BY <1>3, <1>5, <3>1, <3>2
    <3>3. CASE k \notin 1..a
      <4>1. PICK j \in 1..b : k = a + j
        BY <1>4, <3>1, <3>3
      <4>2. j \in At(t, X)
        BY <1>3, <1>5, <3>1, <4>1
      <4> QED  BY <4>1, <4>2
    <3> QED  BY <3>2, <3>3
  <2> HIDE DEF A
  <2> QED  BY <2>2, <2>3, <2>4
<1>7. IsFiniteSet(B) /\ Cardinality(B) = n
  <2> DEFINE f == [k \in At(t, X) |-> a + k]
  <2>1. /\ f = [x \in At(t, X) |-> f[x]]
        /\ \A x \in At(t, X) : f[x] = a + x /\ x \in Nat
    BY <1>3, <1>5
  <2>2. \A x, y \in At(t, X) : f[x] = f[y] => x = y
    BY <1>3, <2>1
  <2>3. (\A x \in At(t, X) : f[x] \in B) /\ \A z \in B : \E x \in At(t, X) : f[x] = z
    BY <2>1
  <2> HIDE DEF f, B
  <2> QED  BY <1>1, <2>1, <2>2, <2>3, SameCount
<1>8. A \cap B = {}
  BY <1>3, <1>5
<1>9. IsFiniteSet(A \cup B) /\ Cardinality(A \cup B) = m + n
  <2> HIDE DEF A, B
  <2>1. IsFiniteSet(A \cup B)
        /\ Cardinality(A \cup B) = Cardinality(A) + Cardinality(B) - Cardinality(A \cap B)
    BY <1>1, <1>7, FS_Union
  <2>2. Cardinality(A \cap B) = 0
    BY <1>8, FS_EmptySet
  <2> QED  BY <1>1, <1>7, <2>1, <2>2
<1> QED  BY <1>1, <1>2, <1>6, <1>9 DEF Tallies, u

\* No steps.
LEMMA TalliesNone ==
  ASSUME NEW U, NEW X
  PROVE  Tallies(<<>>, U, X, 0)
<1>1. At(<<>>, X) = {} /\ IsListing(<<>>) /\ \A x : ~In(x, <<>>)
  BY DEF At, IsListing, In
<1> QED  BY <1>1, FS_EmptySet DEF Tallies

(* A loop whose turns have c[i] steps in X: g[i] of them in its first i. *)
LEMMA TalliesLoop ==
  ASSUME NEW n \in Nat, NEW seqs, seqs = [i \in 1..n |-> seqs[i]], NEW U, NEW X,
         NEW c, \A i \in 1..n : c[i] \in Nat /\ Tallies(seqs[i], U, X, c[i]),
         NEW g, g[0] = 0, \A i \in 1..n : g[i] \in Nat /\ g[i] = g[i - 1] + c[i]
  PROVE  Tallies(FlattenSeq(seqs), U, X, g[n])
<1>1. \A i \in 1..n : IsListing(seqs[i])
  BY DEF Tallies
<1>2. PICK f : Joined(f, seqs, n)
  BY <1>1, TurnsJoined
<1> DEFINE Wrong == {i \in 0..n : ~Tallies(f[i], U, X, g[i])}
<1>3. Wrong = {}
  <2> SUFFICES ASSUME Wrong # {} PROVE FALSE
    OBVIOUS
  <2>1. PICK m \in Wrong : \A k \in Wrong : m <= k
    <3>1. Wrong \subseteq Nat
      OBVIOUS
    <3> HIDE DEF Wrong
    <3> QED  BY <3>1, LeastNatural
  <2>2. m \in 0..n /\ ~Tallies(f[m], U, X, g[m])
    OBVIOUS
  <2>3. CASE m = 0
    BY <1>2, <2>2, <2>3, TalliesNone DEF Joined
  <2>4. CASE m # 0
    <3>1. m \in 1..n /\ m - 1 \in 0..n /\ ~(m <= m - 1)
      BY <2>2, <2>4
    <3>2. Tallies(f[m - 1], U, X, g[m - 1])
      BY <2>1, <3>1
    <3>3. f[m] = f[m - 1] \o seqs[m] /\ g[m] = g[m - 1] + c[m]
      BY <1>2, <3>1 DEF Joined
    <3>4. g[m - 1] \in Nat /\ c[m] \in Nat
      <4>1. m - 1 = 0 \/ m - 1 \in 1..n
        BY <3>1
      <4> QED  BY <3>1, <4>1
    <3>5. Tallies(f[m], U, X, g[m - 1] + c[m])
      BY <3>1, <3>2, <3>3, <3>4, TalliesConcat
    <3> QED  BY <2>2, <3>3, <3>5
  <2> QED  BY <2>3, <2>4
<1>4. n \in 0..n
  OBVIOUS
<1> QED  BY <1>2, <1>3, <1>4 DEF Joined

\* Turns that have equally many.
LEMMA TalliesTurns ==
  ASSUME NEW n \in Nat, NEW seqs, seqs = [i \in 1..n |-> seqs[i]], NEW U, NEW X, NEW m \in Nat,
         \A i \in 1..n : Tallies(seqs[i], U, X, m)
  PROVE  Tallies(FlattenSeq(seqs), U, X, n * m)
<1> DEFINE c == [i \in 1..n |-> m]
           g == [i \in 0..n |-> i * m]
<1>1. \A i \in 0..n : g[i] = i * m
  OBVIOUS
<1>2. \A i \in Nat : i * m \in Nat
  OBVIOUS
<1>3. \A i \in 1..n : i * m = (i - 1) * m + m
  OBVIOUS
<1>4. \A i \in 1..n : c[i] = m
  OBVIOUS
<1>5. 0 * m = 0
  OBVIOUS
<1>6. \A i \in 1..n : i \in 0..n /\ i - 1 \in 0..n /\ i \in Nat
  OBVIOUS
<1> HIDE DEF c, g
<1>7. g[0] = 0 /\ g[n] = n * m /\ \A i \in 1..n : g[i] \in Nat /\ g[i] = g[i - 1] + c[i]
  <2>1. 0 \in 0..n /\ n \in 0..n
    OBVIOUS
  <2> QED  BY <1>1, <1>2, <1>3, <1>4, <1>5, <1>6, <2>1
<1>8. \A i \in 1..n : c[i] \in Nat /\ Tallies(seqs[i], U, X, c[i])
  BY <1>4
<1>9. Tallies(FlattenSeq(seqs), U, X, g[n])
  BY <1>7, <1>8, TalliesLoop
<1> QED  BY <1>7, <1>9

\* One turn that has some, among others that have none.
LEMMA TalliesTurn ==
  ASSUME NEW n \in Nat, NEW seqs, seqs = [i \in 1..n |-> seqs[i]], NEW U, NEW X, NEW m \in Nat,
         NEW k \in 1..n, Tallies(seqs[k], U, X, m),
         \A i \in 1..n : i # k => Tallies(seqs[i], U, X, 0)
  PROVE  Tallies(FlattenSeq(seqs), U, X, m)
<1> DEFINE c == [i \in 1..n |-> IF i = k THEN m ELSE 0]
           g == [i \in 0..n |-> IF i < k THEN 0 ELSE m]
<1>1. g[0] = 0 /\ g[n] = m /\ \A i \in 1..n : g[i] \in Nat /\ g[i] = g[i - 1] + c[i]
  <2>1. g[0] = 0 /\ g[n] = m
    OBVIOUS
  <2>2. ASSUME NEW i \in 1..n
        PROVE  g[i] \in Nat /\ g[i] = g[i - 1] + c[i]
    <3>1. i - 1 \in 0..n /\ i \in 0..n
      OBVIOUS
    <3>2. g[i] = (IF i < k THEN 0 ELSE m) /\ g[i - 1] = (IF i - 1 < k THEN 0 ELSE m)
          /\ c[i] = IF i = k THEN m ELSE 0
      BY <3>1
    <3> HIDE DEF g, c
    <3> QED  BY <3>2
  <2> QED  BY <2>1, <2>2
<1>2. \A i \in 1..n : c[i] \in Nat /\ Tallies(seqs[i], U, X, c[i])
  OBVIOUS
<1> HIDE DEF c, g
<1>3. Tallies(FlattenSeq(seqs), U, X, g[n])
  BY <1>1, <1>2, TalliesLoop
<1> QED  BY <1>1, <1>3

-----------------------------------------------------------------------------
(* A lowerer that checks first and then appends one instruction at a time. *)
Appends(code, rest) ==
  /\ code = [j \in 1..Len(rest) |-> code[j]]
  /\ \A j \in 1..Len(rest) : rest[j] = Appending(code[j])

\* The program it makes has them in their order.
LEMMA BatchesOfAppends ==
  ASSUME NEW ok, NEW rest, IsListing(rest),
         \A j \in 1..Len(rest) : \E i : rest[j] = Appending(i)
  PROVE  Appends(Batches(Check(ok) \o rest), rest)
<1> DEFINE n == Len(rest)
           steps == Check(ok) \o rest
           seqs == [k \in DOMAIN steps |-> steps[k].batch]
           x == [k \in 1..n |-> rest[k].batch[1]]
           none == [ok |-> ok, batch |-> <<>>]
<1>1. n \in Nat /\ IsListing(steps) /\ Len(steps) = n + 1
      /\ steps[1].batch = <<>> /\ \A k \in 1..n : steps[1 + k] = rest[k]
  <2>1. Check(ok) = <<none>> /\ IsListing(Check(ok)) /\ none.batch = <<>>
    BY InStep DEF Check
  <2>2. Check(ok) \in Seq(Elements(Check(ok))) /\ rest \in Seq(Elements(rest))
    BY <2>1, ListsElements DEF Lists
  <2>3. \A s, t, S, T : s \in Seq(S) /\ t \in Seq(T) =>
          /\ Len(s) \in Nat /\ Len(t) \in Nat /\ Len(s \o t) = Len(s) + Len(t)
          /\ \A k \in 1..Len(s) : (s \o t)[k] = s[k]
          /\ \A k \in 1..Len(t) : (s \o t)[Len(s) + k] = t[k]
    OBVIOUS
  <2> HIDE DEF none
  <2>4. Len(Check(ok)) = 1 /\ Check(ok)[1] = none
    BY <2>1
  <2>5. 1 \in 1..Len(Check(ok))
    BY <2>4
  <2>6. /\ Len(rest) \in Nat /\ Len(steps) = 1 + Len(rest) /\ steps[1] = none
        /\ \A k \in 1..Len(rest) : steps[1 + k] = rest[k]
    <3> DEFINE c == Check(ok)
    <3> HIDE DEF c
    <3>1. /\ Len(rest) \in Nat /\ Len(c \o rest) = Len(c) + Len(rest)
          /\ \A k \in 1..Len(c) : (c \o rest)[k] = c[k]
          /\ \A k \in 1..Len(rest) : (c \o rest)[Len(c) + k] = rest[k]
      BY <2>2, <2>3 DEF c
    <3>2. Len(c) = 1 /\ c[1] = none /\ 1 \in 1..Len(c)
      BY <2>4, <2>5 DEF c
    <3>3. steps = c \o rest
      BY DEF c
    <3> HIDE DEF steps
    <3> QED  BY <3>1, <3>2, <3>3
  <2>7. IsListing(steps)
    BY <2>1, InConcat
  <2> HIDE DEF steps
  <2> QED  BY <2>1, <2>6, <2>7
<1>2. DOMAIN steps = 1..(n + 1)
  BY <1>1 DEF IsListing
<1>3. \A k \in 1..n : rest[k] = Appending(x[k]) /\ rest[k].batch = <<x[k]>>
  <2>1. ASSUME NEW k \in 1..n
        PROVE  rest[k] = Appending(x[k]) /\ rest[k].batch = <<x[k]>>
    <3>1. PICK i : rest[k] = Appending(i)
      OBVIOUS
    <3>2. rest[k].batch = <<i>>
      BY <3>1 DEF Appending
    <3>3. x[k] = i
      BY <3>2
    <3> QED  BY <3>1, <3>2, <3>3
  <2> QED  BY <2>1
<1>4. x = [k \in 1..n |-> x[k]]
  OBVIOUS
<1>5. Batches(steps) = FlattenSeq(seqs)
  BY DEF Batches
<1> HIDE DEF x, steps
<1>6. seqs = [k \in 1..(n + 1) |-> seqs[k]] /\ seqs[1] = <<>>
      /\ \A k \in 1..n : seqs[1 + k] = <<x[k]>>
  <2>1. 1 \in 1..(n + 1) /\ \A k \in 1..n : 1 + k \in 1..(n + 1)
    BY <1>1
  <2> QED  BY <1>1, <1>2, <1>3, <2>1
<1> HIDE DEF seqs
<1>7. ASSUME NEW k \in 1..(n + 1)
      PROVE  IsListing(seqs[k])
  <2>1. CASE k = 1
    <3>1. IsListing(<<>>)
      BY DEF IsListing
    <3> QED  BY <1>6, <2>1, <3>1
  <2>2. CASE k # 1
    <3>1. k - 1 \in 1..n /\ 1 + (k - 1) = k
      BY <1>1, <2>2
    <3>2. seqs[k] = <<x[k - 1]>>
      BY <1>6, <3>1
    <3> QED  BY <3>2 DEF IsListing
  <2> QED  BY <2>1, <2>2
<1>8. PICK f : Joined(f, seqs, n + 1)
  <2>1. n + 1 \in Nat
    BY <1>1
  <2> QED  BY <1>6, <1>7, <2>1, TurnsJoined
<1> DEFINE upto(m) == [k \in 1..m |-> x[k]]
           Wrong == {i \in 0..n : f[1 + i] # upto(i)}
<1>9. Wrong = {}
  <2> SUFFICES ASSUME Wrong # {} PROVE FALSE
    OBVIOUS
  <2>1. PICK m \in Wrong : \A k \in Wrong : m <= k
    <3>1. Wrong \subseteq Nat
      OBVIOUS
    <3> HIDE DEF Wrong
    <3> QED  BY <3>1, LeastNatural
  <2>2. m \in 0..n /\ f[1 + m] # upto(m)
    OBVIOUS
  <2>3. CASE m = 0
    <3>1. f[1] = f[0] \o seqs[1] /\ f[0] = <<>>
      <4>1. 1 \in 1..(n + 1) /\ 1 - 1 = 0
        BY <1>1
      <4> QED  BY <1>8, <4>1 DEF Joined
    <3>2. f[1] = <<>>
      BY <1>6, <3>1
    <3>3. upto(0) = <<>>
      OBVIOUS
    <3> QED  BY <2>2, <2>3, <3>2, <3>3
  <2>4. CASE m # 0
    <3>1. m - 1 \in 0..n /\ ~(m <= m - 1) /\ m \in 1..n /\ 1 + (m - 1) = m
      BY <1>1, <2>2, <2>4
    <3>2. f[m] = upto(m - 1)
      BY <2>1, <3>1
    <3>3. f[1 + m] = f[m] \o seqs[1 + m]
      <4>1. 1 + m \in 1..(n + 1) /\ (1 + m) - 1 = m
        BY <1>1, <3>1
      <4> QED  BY <1>8, <4>1 DEF Joined
    <3>4. seqs[1 + m] = <<x[m]>>
      BY <1>6, <3>1
    <3>5. upto(m - 1) \o <<x[m]>> = upto(m)
      <4>1. m - 1 \in Nat /\ (m - 1) + 1 = m
        BY <3>1
      <4>2. upto(m - 1) \o <<x[(m - 1) + 1]>> = upto((m - 1) + 1)
        BY <4>1, OneMore
      <4> HIDE DEF upto
      <4> QED  BY <4>1, <4>2
    <3> QED  BY <2>2, <3>2, <3>3, <3>4, <3>5
  <2> QED  BY <2>3, <2>4
<1>10. f[n + 1] = x
  <2>1. n \in 0..n /\ 1 + n = n + 1
    BY <1>1
  <2>2. f[1 + n] = upto(n)
    BY <1>9, <2>1
  <2> QED  BY <1>4, <2>1, <2>2
<1>11. Batches(steps) = x
  BY <1>5, <1>8, <1>10 DEF Joined
<1> QED  BY <1>3, <1>4, <1>11 DEF Appends, steps

-----------------------------------------------------------------------------
(* The instructions of the score stage, by the row of the key, the round   *)
(* of tokens and the head in the row they are for.                         *)
ScoreKeyRows(p) == CeilDiv(p.spec.kv_width, DramColumns)
ScoreRounds(p) == Len(p.sequence_channels)
HeadsInRow(p, k) == Lesser(HeadsPerRow(p), p.spec.kv_heads - k * HeadsPerRow(p))
ScoreBias(p, f) == WriteBias(p.sequence_channels[f + 1], p.buffers.scores.start, {"zero"})
ScoreMac(p, k, f, h) ==
  Mac(p.sequence_channels[f + 1], p.rows.key_cache.start + f * ScoreKeyRows(p) + k,
      h * p.spec.head, CeilDiv(p.spec.head, BurstLength), 0, "GLOBAL_BUFFER",
      {"key", "host"}, {p.buffers.query.value})
ScoreResult(p, k, f, r, h) ==
  ReadResult("RD_MAC", p.sequence_channels[f + 1], p.buffers.scores.start, 0,
             RawScore(p, k, h, r, f))
ScoreQuery(p, f) == WriteGlobal(p.sequence_channels[f + 1], p.buffers.query.start,
                                CeilDiv(p.spec.head, BurstLength), p.buffers.query.value)

(* One of them: what is no product is of no interest. *)
IsProductOf(p, i) ==
  \E k \in 0..(ScoreKeyRows(p) - 1) : \E f \in 0..(ScoreRounds(p) - 1) :
    \E h \in 0..(HeadsInRow(p, k) - 1) : i = ScoreMac(p, k, f, h)

ScoreSteps(p) ==
  {Appending(ScoreBias(p, f)) : f \in 0..(ScoreRounds(p) - 1)}
  \cup {Appending(ScoreResult(p, w[1], w[2], w[3], w[4])) : w \in Nat \X Nat \X Nat \X Nat}
  \cup {Appending(ScoreQuery(p, f)) : f \in 0..(ScoreRounds(p) - 1)}
  \cup UNION {{Appending(ScoreMac(p, k, w[1], w[2])) :
                 w \in (0..(ScoreRounds(p) - 1)) \X (0..(HeadsInRow(p, k) - 1))}
              : k \in 0..(ScoreKeyRows(p) - 1)}

(* A plan of the score stage with the sizes a request has. *)
ScoreSized(p) ==
  /\ p.sequence_channels = [g \in 1..ScoreRounds(p) |-> p.sequence_channels[g]]
  /\ ScoreRounds(p) \in Nat /\ ScoreKeyRows(p) \in Nat /\ p.spec.repeat \in Nat
  /\ p.spec.head \in Nat \ {0} /\ p.rows.key_cache.start \in Nat
  /\ \A k \in 0..(ScoreKeyRows(p) - 1) : HeadsInRow(p, k) \in Nat

\* A step of the stage appends a product or something else.
LEMMA ScoreStepIs ==
  ASSUME NEW p, NEW s \in ScoreSteps(p)
  PROVE  \E i : s = Appending(i) /\ (i.op = "MAC_ABK" => IsProductOf(p, i))
<1>1. /\ \A f : ScoreBias(p, f).op # "MAC_ABK" /\ ScoreQuery(p, f).op # "MAC_ABK"
      /\ \A k, f, r, h : ScoreResult(p, k, f, r, h).op # "MAC_ABK"
  BY DEF ScoreBias, ScoreResult, ScoreQuery, WriteBias, ReadResult, WriteGlobal
<1>2. CASE s \in {Appending(ScoreBias(p, f)) : f \in 0..(ScoreRounds(p) - 1)}
  BY <1>1, <1>2
<1>3. CASE s \in {Appending(ScoreResult(p, w[1], w[2], w[3], w[4])) :
                   w \in Nat \X Nat \X Nat \X Nat}
  BY <1>1, <1>3
<1>4. CASE s \in {Appending(ScoreQuery(p, f)) : f \in 0..(ScoreRounds(p) - 1)}
  BY <1>1, <1>4
<1>5. CASE \E k \in 0..(ScoreKeyRows(p) - 1) :
             s \in {Appending(ScoreMac(p, k, w[1], w[2])) :
                      w \in (0..(ScoreRounds(p) - 1)) \X (0..(HeadsInRow(p, k) - 1))}
  <2>1. PICK k \in 0..(ScoreKeyRows(p) - 1) :
               s \in {Appending(ScoreMac(p, k, w[1], w[2])) :
                        w \in (0..(ScoreRounds(p) - 1)) \X (0..(HeadsInRow(p, k) - 1))}
    BY <1>5
  <2>2. PICK w \in (0..(ScoreRounds(p) - 1)) \X (0..(HeadsInRow(p, k) - 1)) :
               s = Appending(ScoreMac(p, k, w[1], w[2]))
    BY <2>1
  <2>3. w[1] \in 0..(ScoreRounds(p) - 1) /\ w[2] \in 0..(HeadsInRow(p, k) - 1)
    OBVIOUS
  <2>4. IsProductOf(p, ScoreMac(p, k, w[1], w[2]))
    BY <2>3 DEF IsProductOf
  <2> QED  BY <2>2, <2>4
<1> QED  BY <1>2, <1>3, <1>4, <1>5 DEF ScoreSteps

\* The steps of the stage are among them.
LEMMA ScoreStepsAre ==
  ASSUME NEW p, NEW k \in 0..(ScoreKeyRows(p) - 1), NEW f \in 0..(ScoreRounds(p) - 1)
  PROVE  /\ Appending(ScoreBias(p, f)) \in ScoreSteps(p)
         /\ \A r, h \in Nat : Appending(ScoreResult(p, k, f, r, h)) \in ScoreSteps(p)
         /\ Appending(ScoreQuery(p, f)) \in ScoreSteps(p)
         /\ \A h \in 0..(HeadsInRow(p, k) - 1) : Appending(ScoreMac(p, k, f, h)) \in ScoreSteps(p)
<1>1. /\ Appending(ScoreBias(p, f)) \in ScoreSteps(p)
      /\ Appending(ScoreQuery(p, f)) \in ScoreSteps(p)
  BY DEF ScoreSteps
<1>3. ASSUME NEW r \in Nat, NEW h \in Nat
      PROVE  Appending(ScoreResult(p, k, f, r, h)) \in ScoreSteps(p)
  <2> DEFINE W == Nat \X Nat \X Nat \X Nat
             w == <<k, f, r, h>>
  <2>1. w \in W /\ w[1] = k /\ w[2] = f /\ w[3] = r /\ w[4] = h
    OBVIOUS
  <2> HIDE DEF w, W
  <2>2. Appending(ScoreResult(p, k, f, r, h))
          \in {Appending(ScoreResult(p, v[1], v[2], v[3], v[4])) : v \in W}
    BY <2>1
  <2> QED  BY <2>2 DEF ScoreSteps, W
<1>2. ASSUME NEW h \in 0..(HeadsInRow(p, k) - 1)
      PROVE  Appending(ScoreMac(p, k, f, h)) \in ScoreSteps(p)
  <2> DEFINE W == (0..(ScoreRounds(p) - 1)) \X (0..(HeadsInRow(p, k) - 1))
             w == <<f, h>>
  <2>1. w \in W /\ w[1] = f /\ w[2] = h
    OBVIOUS
  <2> HIDE DEF w, W
  <2>2. Appending(ScoreMac(p, k, f, h)) \in {Appending(ScoreMac(p, k, v[1], v[2])) : v \in W}
    BY <2>1
  <2> QED  BY <2>2 DEF ScoreSteps, W
<1> QED  BY <1>1, <1>2, <1>3

\* Two products are not the same.
LEMMA ProductsDiffer ==
  ASSUME NEW p, ScoreSized(p),
         NEW k \in 0..(ScoreKeyRows(p) - 1), NEW f \in 0..(ScoreRounds(p) - 1), NEW h \in Nat,
         NEW l \in 0..(ScoreKeyRows(p) - 1), NEW g \in 0..(ScoreRounds(p) - 1), NEW j \in Nat,
         ScoreMac(p, k, f, h).row = ScoreMac(p, l, g, j).row,
         ScoreMac(p, k, f, h).column = ScoreMac(p, l, g, j).column
  PROVE  k = l /\ f = g /\ h = j
<1> DEFINE K == ScoreKeyRows(p)
           start == p.rows.key_cache.start
           head == p.spec.head
<1>1. start + f * K + k = start + g * K + l /\ h * head = j * head
  BY DEF ScoreMac, Mac
<1>2. K \in Nat /\ head \in Nat \ {0} /\ start \in Nat /\ f \in Nat /\ g \in Nat
      /\ k \in 0..(K - 1) /\ l \in 0..(K - 1)
  BY DEF ScoreSized
<1> HIDE DEF K, start, head
<1>3. f * K \in Nat /\ g * K \in Nat
  BY <1>2
<1>4. f * K + k = g * K + l
  <2> DEFINE x == f * K
             y == g * K
  <2>1. start + x + k = start + y + l /\ x \in Nat /\ y \in Nat
    BY <1>1, <1>3
  <2> HIDE DEF x, y
  <2>2. x + k = y + l
    BY <1>2, <2>1
  <2> QED  BY <2>2 DEF x, y
<1>5. K \in Nat \ {0}
  BY <1>2
<1>6. f = g /\ k = l
  BY <1>2, <1>4, <1>5, PartsUnique
<1>7. h = j
  <2>1. \A a, b \in Nat, c \in Nat \ {0} : a * c = b * c => a = b
    OBVIOUS
  <2> QED  BY <1>1, <1>2, <2>1
<1> QED  BY <1>6, <1>7

(* The program of the score stage: n of the given product, and otherwise   *)
(* only steps of the stage.                                                *)
ScoresWith(p, rest, i, n) ==
  /\ \E ok : ScoreGemv(p) = Check(ok) \o rest
  /\ Tallies(rest, ScoreSteps(p), {Appending(i)}, n)

(* Every product is made as often as query heads share the key head.       *)
LEMMA ScoreTally ==
  ASSUME NEW p, ScoreSized(p),
         NEW l \in 0..(ScoreKeyRows(p) - 1), NEW g \in 0..(ScoreRounds(p) - 1),
         NEW j \in 0..(HeadsInRow(p, l) - 1)
  PROVE  \E rest : ScoresWith(p, rest, ScoreMac(p, l, g, j), p.spec.repeat)
<1> DEFINE n == ScoreRounds(p)
           keyRows == ScoreKeyRows(p)
           m == p.spec.repeat
           U == ScoreSteps(p)
           X == {Appending(ScoreMac(p, l, g, j))}
           Scoring(k, f, r, h) == Append1(ScoreBias(p, f)) \o Append1(ScoreMac(p, k, f, h))
                                    \o Append1(ScoreResult(p, k, f, r, h))
           Heads(k, f, r) == [y \in 1..HeadsInRow(p, k) |-> Scoring(k, f, r, y - 1)]
           Query(k, f, r) == Append1(ScoreQuery(p, f)) \o FlattenSeq(Heads(k, f, r))
           Queries(k, f) == [y \in 1..m |-> Query(k, f, y - 1)]
           Rounds(k) == [y \in 1..n |-> FlattenSeq(Queries(k, y - 1))]
           KeyRow == [y \in 1..keyRows |-> FlattenSeq(Rounds(y - 1))]
<1>1. \E ok : ScoreGemv(p) = Check(ok) \o FlattenSeq(KeyRow)
  BY DEF ScoreGemv, Each, ScoreBias, ScoreMac, ScoreResult, ScoreQuery, ScoreKeyRows,
         ScoreRounds, HeadsInRow
<1>2. /\ n \in Nat /\ keyRows \in Nat /\ m \in Nat
      /\ \A k \in 0..(keyRows - 1) : HeadsInRow(p, k) \in Nat
      /\ l \in 0..(keyRows - 1) /\ g \in 0..(n - 1)
  BY DEF ScoreSized
<1>3. ASSUME NEW k \in 0..(keyRows - 1), NEW f \in 0..(n - 1), NEW r \in Nat,
             NEW h \in 0..(HeadsInRow(p, k) - 1)
      PROVE  /\ Appending(ScoreBias(p, f)) \in U \ X
             /\ Appending(ScoreResult(p, k, f, r, h)) \in U \ X
             /\ Appending(ScoreMac(p, k, f, h)) \in U
             /\ Appending(ScoreMac(p, k, f, h)) \in X <=> k = l /\ f = g /\ h = j
  <2>1. \A a, b : Appending(a) = Appending(b) => a = b
    BY DEF Appending
  <2>2. /\ ScoreBias(p, f).op # ScoreMac(p, l, g, j).op
        /\ ScoreResult(p, k, f, r, h).op # ScoreMac(p, l, g, j).op
    BY DEF ScoreBias, ScoreResult, ScoreMac, WriteBias, ReadResult, Mac
  <2>3. h \in Nat /\ j \in Nat
    BY <1>2
  <2>4. ScoreMac(p, k, f, h) = ScoreMac(p, l, g, j) => k = l /\ f = g /\ h = j
    <3> SUFFICES ASSUME ScoreMac(p, k, f, h) = ScoreMac(p, l, g, j)
                 PROVE  k = l /\ f = g /\ h = j
      OBVIOUS
    <3>1. /\ k \in 0..(ScoreKeyRows(p) - 1) /\ l \in 0..(ScoreKeyRows(p) - 1)
          /\ f \in 0..(ScoreRounds(p) - 1) /\ g \in 0..(ScoreRounds(p) - 1)
      OBVIOUS
    <3>2. /\ ScoreMac(p, k, f, h).row = ScoreMac(p, l, g, j).row
          /\ ScoreMac(p, k, f, h).column = ScoreMac(p, l, g, j).column
      OBVIOUS
    <3> QED  BY <2>3, <3>1, <3>2, ProductsDiffer
  <2> QED  BY <2>1, <2>2, <2>4, ScoreStepsAre
<1>4. ASSUME NEW k \in 0..(keyRows - 1), NEW f \in 0..(n - 1)
      PROVE  Appending(ScoreQuery(p, f)) \in U \ X
  <2>1. \A a, b : Appending(a) = Appending(b) => a = b
    BY DEF Appending
  <2>2. ScoreQuery(p, f).op # ScoreMac(p, l, g, j).op
    BY DEF ScoreQuery, ScoreMac, WriteGlobal, Mac
  <2> QED  BY <2>1, <2>2, ScoreStepsAre
<1> HIDE DEF U, X, n, keyRows, m
<1>5. ASSUME NEW k \in 0..(keyRows - 1), NEW f \in 0..(n - 1), NEW r \in Nat,
             NEW h \in 0..(HeadsInRow(p, k) - 1)
      PROVE  Tallies(Scoring(k, f, r, h), U, X, IF k = l /\ f = g /\ h = j THEN 1 ELSE 0)
  <2> DEFINE a == Append1(ScoreBias(p, f))
             b == Append1(ScoreMac(p, k, f, h))
             c == Append1(ScoreResult(p, k, f, r, h))
             x == IF k = l /\ f = g /\ h = j THEN 1 ELSE 0
  <2>1. Tallies(a, U, X, 0) /\ Tallies(c, U, X, 0)
    BY <1>3, TalliesOne
  <2>2. Tallies(b, U, X, x)
    BY <1>3, TalliesOne
  <2>3. x \in Nat /\ 0 + x = x /\ x + 0 = x
    OBVIOUS
  <2>4. Scoring(k, f, r, h) = (a \o b) \o c
    OBVIOUS
  <2> HIDE DEF a, b, c, x, Scoring
  <2>5. Tallies(a \o b, U, X, 0 + x)
    BY <2>1, <2>2, <2>3, TalliesConcat
  <2>6. Tallies((a \o b) \o c, U, X, x + 0)
    BY <2>1, <2>3, <2>5, TalliesConcat
  <2> QED  BY <2>3, <2>4, <2>6 DEF x
<1> HIDE DEF Scoring
<1>6. ASSUME NEW k \in 0..(keyRows - 1), NEW f \in 0..(n - 1), NEW r \in Nat
      PROVE  Tallies(Query(k, f, r), U, X, IF k = l /\ f = g THEN 1 ELSE 0)
  <2> DEFINE s == Heads(k, f, r)
             z == HeadsInRow(p, k)
             x == IF k = l /\ f = g THEN 1 ELSE 0
  <2>1. s = [y \in 1..z |-> s[y]] /\ \A y \in 1..z : s[y] = Scoring(k, f, r, y - 1)
    OBVIOUS
  <2>2. Query(k, f, r) = Append1(ScoreQuery(p, f)) \o FlattenSeq(s)
    OBVIOUS
  <2>3. z \in Nat
    BY <1>2
  <2>4. x \in Nat /\ 0 + x = x
    OBVIOUS
  <2> HIDE DEF s, Query, z
  <2>5. ASSUME NEW y \in 1..z
        PROVE  Tallies(s[y], U, X, IF k = l /\ f = g /\ y - 1 = j THEN 1 ELSE 0)
    <3>1. y - 1 \in 0..(z - 1)
      BY <2>3
    <3>2. Tallies(Scoring(k, f, r, y - 1), U, X, IF k = l /\ f = g /\ y - 1 = j THEN 1 ELSE 0)
      BY <1>5, <3>1 DEF z
    <3> QED  BY <2>1, <3>2
  <2>6. Tallies(FlattenSeq(s), U, X, x)
    <3>1. CASE k = l /\ f = g
      <4>1. j + 1 \in 1..z /\ (j + 1) - 1 = j
        BY <2>3, <3>1 DEF z
      <4>2. Tallies(s[j + 1], U, X, 1)
        BY <2>5, <3>1, <4>1
      <4>3. \A y \in 1..z : y # j + 1 => Tallies(s[y], U, X, 0)
        <5>1. ASSUME NEW y \in 1..z, y # j + 1
              PROVE  Tallies(s[y], U, X, 0)
          <6>1. y - 1 # j
            BY <2>3, <4>1, <5>1
          <6> QED  BY <2>5, <6>1
        <5> QED  BY <5>1
      <4>4. 1 \in Nat
        OBVIOUS
      <4>5. Tallies(FlattenSeq(s), U, X, 1)
        BY <2>1, <2>3, <4>1, <4>2, <4>3, <4>4, TalliesTurn
      <4> QED  BY <3>1, <4>5
    <3>2. CASE ~(k = l /\ f = g)
      <4>1. \A y \in 1..z : Tallies(s[y], U, X, 0)
        BY <2>5, <3>2
      <4>2. Tallies(FlattenSeq(s), U, X, z * 0)
        BY <2>1, <2>3, <4>1, TalliesTurns
      <4>3. z * 0 = 0
        BY <2>3
      <4> QED  BY <3>2, <4>2, <4>3
    <3> QED  BY <3>1, <3>2
  <2>7. Tallies(Append1(ScoreQuery(p, f)), U, X, 0)
    BY <1>4, TalliesOne
  <2> HIDE DEF x
  <2>8. Tallies(Query(k, f, r), U, X, 0 + x)
    BY <2>2, <2>4, <2>6, <2>7, TalliesConcat
  <2> QED  BY <2>4, <2>8 DEF x
<1> HIDE DEF Query
<1>7. ASSUME NEW k \in 0..(keyRows - 1), NEW f \in 0..(n - 1)
      PROVE  Tallies(FlattenSeq(Queries(k, f)), U, X, IF k = l /\ f = g THEN m ELSE 0)
  <2> DEFINE s == Queries(k, f)
             x == IF k = l /\ f = g THEN 1 ELSE 0
  <2>1. s = [y \in 1..m |-> s[y]] /\ \A y \in 1..m : s[y] = Query(k, f, y - 1)
    OBVIOUS
  <2>2. x \in Nat /\ m * x = IF k = l /\ f = g THEN m ELSE 0
    BY <1>2
  <2>3. \A y \in 1..m : Tallies(Query(k, f, y - 1), U, X, x)
    <3>1. \A y \in 1..m : y - 1 \in Nat
      BY <1>2
    <3> QED  BY <1>6, <3>1
  <2> HIDE DEF s, x
  <2>4. Tallies(FlattenSeq(s), U, X, m * x)
    BY <1>2, <2>1, <2>2, <2>3, TalliesTurns
  <2> QED  BY <2>2, <2>4 DEF s
<1> HIDE DEF Queries
<1>8. ASSUME NEW k \in 0..(keyRows - 1)
      PROVE  Tallies(FlattenSeq(Rounds(k)), U, X, IF k = l THEN m ELSE 0)
  <2> DEFINE s == Rounds(k)
  <2>1. s = [y \in 1..n |-> s[y]] /\ \A y \in 1..n : s[y] = FlattenSeq(Queries(k, y - 1))
    OBVIOUS
  <2> HIDE DEF s
  <2>2. ASSUME NEW y \in 1..n
        PROVE  Tallies(s[y], U, X, IF k = l /\ y - 1 = g THEN m ELSE 0)
    <3>1. y - 1 \in 0..(n - 1)
      BY <1>2
    <3> QED  BY <1>7, <2>1, <3>1
  <2>3. g + 1 \in 1..n /\ (g + 1) - 1 = g
    BY <1>2
  <2>4. CASE k = l
    <3>1. Tallies(s[g + 1], U, X, m)
      BY <2>2, <2>3, <2>4
    <3>2. ASSUME NEW y \in 1..n, y # g + 1
          PROVE  Tallies(s[y], U, X, 0)
      <4>1. y - 1 # g
        BY <1>2, <2>3, <3>2
      <4> QED  BY <2>2, <4>1
    <3>3. Tallies(FlattenSeq(s), U, X, m)
      BY <1>2, <2>1, <2>3, <3>1, <3>2, TalliesTurn
    <3> QED  BY <2>4, <3>3 DEF s
  <2>5. CASE k # l
    <3>1. \A y \in 1..n : Tallies(s[y], U, X, 0)
      BY <2>2, <2>5
    <3>2. Tallies(FlattenSeq(s), U, X, n * 0)
      BY <1>2, <2>1, <3>1, TalliesTurns
    <3>3. n * 0 = 0
      BY <1>2
    <3> QED  BY <2>5, <3>2, <3>3 DEF s
  <2> QED  BY <2>4, <2>5
<1> HIDE DEF Rounds
<1>9. Tallies(FlattenSeq(KeyRow), U, X, m)
  <2>1. KeyRow = [y \in 1..keyRows |-> KeyRow[y]]
        /\ \A y \in 1..keyRows : KeyRow[y] = FlattenSeq(Rounds(y - 1))
    OBVIOUS
  <2> HIDE DEF KeyRow
  <2>2. ASSUME NEW y \in 1..keyRows
        PROVE  Tallies(KeyRow[y], U, X, IF y - 1 = l THEN m ELSE 0)
    <3>1. y - 1 \in 0..(keyRows - 1)
      BY <1>2
    <3> QED  BY <1>8, <2>1, <3>1
  <2>3. l + 1 \in 1..keyRows /\ (l + 1) - 1 = l
    BY <1>2
  <2>4. Tallies(KeyRow[l + 1], U, X, m)
    BY <2>2, <2>3
  <2>5. ASSUME NEW y \in 1..keyRows, y # l + 1
        PROVE  Tallies(KeyRow[y], U, X, 0)
    <3>1. y - 1 # l
      BY <1>2, <2>3, <2>5
    <3> QED  BY <2>2, <3>1
  <2> QED  BY <1>2, <2>1, <2>3, <2>4, <2>5, TalliesTurn
<1> HIDE DEF KeyRow
<1> DEFINE rest == FlattenSeq(KeyRow)
<1> HIDE DEF rest
<1>10. ScoresWith(p, rest, ScoreMac(p, l, g, j), m)
  BY <1>1, <1>9 DEF ScoresWith, rest, U, X
<1> QED  BY <1>10 DEF m

(* A round of the tokens reaches the channel of every bank that holds one, *)
(* in every copy.                                                          *)
LEMMA RoundReachesCopies ==
  ASSUME NEW r \in SizedRequest, Planned(r), NEW t \in 0..(r.length - 1),
         NEW o \in 0..(Copies - 1)
  PROVE  LET g == KeyGroup(t)
             s == SequenceChannels(r, g + 1)
         IN  /\ g \in 0..(CeilDiv(r.length, TotalBanks) - 1)
             /\ CeilDiv(r.length, TotalBanks) \in Nat
             /\ BankChannel(t % TotalBanks) + o * ChannelsPerBlock \in Range(s)
<1>1. ValidPlacement /\ r.length \in Nat \ {0} /\ t \in Nat
  BY PlannedSizes
<1>2. /\ TotalBanks \in Nat \ {0} /\ NumBanks \in Nat \ {0} /\ Copies \in Nat \ {0}
      /\ ChannelsPerBlock \in Nat \ {0}
  BY <1>1, Geometry
<1> DEFINE b == t % TotalBanks
           C == BankChannel(b)
           D == BankNumber(b)
           g == KeyGroup(t)
           L == Lesser(r.length - ((g + 1) - 1) * TotalBanks, TotalBanks)
           active == ActiveChannels(L)
           Copy(copy) == [c \in 1..active |-> copy * ChannelsPerBlock + c - 1]
           s == [i \in 1..Copies |-> Copy(i - 1)]
           reached == C + o * ChannelsPerBlock
<1>3. /\ b \in 0..(TotalBanks - 1)
      /\ C \in 0..(ChannelsPerBlock - 1)
      /\ D \in 0..(NumBanks - 1)
      /\ b = C * NumBanks + D
      /\ g \in Nat
      /\ t = g * TotalBanks + b
  BY <1>1, BankPlace
<1>4. SequenceChannels(r, g + 1) = FlattenSeq(s)
  BY DEF SequenceChannels, Each
<1> HIDE DEF b, C, D, g
<1> DEFINE m == g * TotalBanks
<1>5. m \in Nat
  BY <1>2, <1>3
<1>6. m < r.length /\ b < r.length - m
  <2> HIDE DEF m
  <2>1. t = m + b
    BY <1>3 DEF m
  <2> QED  BY <1>1, <1>2, <1>3, <1>5, <2>1
<1>7. /\ CeilDiv(r.length, TotalBanks) \in Nat
      /\ g < CeilDiv(r.length, TotalBanks)
  BY <1>1, <1>2, <1>3, <1>6, CeilDivBelow
<1>8. L \in Nat /\ b < L
  <2>1. L = Lesser(r.length - m, TotalBanks)
    BY <1>3
  <2> HIDE DEF m, L
  <2> QED  BY <1>1, <1>2, <1>3, <1>5, <1>6, <2>1 DEF Lesser
<1> HIDE DEF L
<1>9. active \in Nat /\ C < active
  <2>1. C * NumBanks \in Nat
    BY <1>2, <1>3
  <2>2. C * NumBanks < L
    BY <1>2, <1>3, <1>8, <2>1
  <2> QED  BY <1>2, <1>3, <1>8, <2>2, CeilDivBelow DEF ActiveChannels
<1> HIDE DEF active
<1>10. \A i \in 1..Copies : IsListing(s[i])
  BY <1>9 DEF IsListing
<1>11. Copy(o)[C + 1] = reached /\ C + 1 \in 1..active
  <2>1. C + 1 \in 1..active
    BY <1>2, <1>3, <1>9
  <2> DEFINE x == o * ChannelsPerBlock
  <2>2. x \in Nat /\ Copy(o)[C + 1] = x + (C + 1) - 1 /\ reached = C + x
    BY <1>2, <2>1
  <2> HIDE DEF x, Copy, reached
  <2>3. Copy(o)[C + 1] = reached
    BY <1>3, <2>2
  <2> QED  BY <2>1, <2>3
<1>12. s = [i \in 1..Copies |-> s[i]] /\ s[o + 1] = Copy(o) /\ o + 1 \in 1..Copies
       /\ Len(Copy(o)) = active
  <2>1. o + 1 \in 1..Copies /\ (o + 1) - 1 = o
    BY <1>2
  <2> QED  BY <1>9, <2>1
<1> HIDE DEF s, Copy, reached
<1>13. In(reached, s[o + 1])
  BY <1>11, <1>12 DEF In
<1>14. IsListing(FlattenSeq(s)) /\ In(reached, FlattenSeq(s))
  BY <1>2, <1>10, <1>12, <1>13, InFlatten
<1>15. reached \in Range(FlattenSeq(s))
  BY <1>14 DEF In, IsListing, Range
<1> QED  BY <1>3, <1>4, <1>7, <1>15 DEF C, b, g, reached

\* How many key heads lie in a row of the keys.
HeadsPerKeyRow(r) == DramColumns \div HeadSize(r)

\* Where a head is in a key.
LEMMA HeadPlace ==
  ASSUME NEW r \in SizedRequest, Planned(r)
  PROVE  /\ HeadsPerKeyRow(r) \in Nat \ {0} /\ KeyRows(r) \in Nat
         /\ \A k \in 0..(KeyRows(r) - 1) :
              Lesser(HeadsPerKeyRow(r), r.kv_heads - k * HeadsPerKeyRow(r)) \in Nat
         /\ \A head \in 0..(r.kv_heads - 1) :
              /\ head \div HeadsPerKeyRow(r) \in 0..(KeyRows(r) - 1)
              /\ head % HeadsPerKeyRow(r)
                   \in 0..(Lesser(HeadsPerKeyRow(r),
                                  r.kv_heads - (head \div HeadsPerKeyRow(r)) * HeadsPerKeyRow(r)) - 1)
<1> DEFINE n == HeadsPerKeyRow(r)
           H == HeadSize(r)
           v == r.kv_heads
           W == KvWidth(r)
<1>1. /\ ValidPlacement /\ v \in Nat \ {0} /\ H \in Nat \ {0} /\ W = H * v /\ W \in Nat \ {0}
      /\ H <= DramColumns /\ DramColumns % H = 0
  BY PlannedSizes
<1>2. DramColumns \in Nat \ {0}
  BY <1>1, Geometry
<1>3. n \in Nat \ {0} /\ DramColumns = n * H
  <2>1. \A c, h \in Nat \ {0} : h <= c /\ c % h = 0 => c \div h \in Nat \ {0} /\ c = (c \div h) * h
    OBVIOUS
  <2>2. n = DramColumns \div H
    BY DEF HeadsPerKeyRow
  <2> HIDE DEF n, H, v, W
  <2> QED  BY <1>1, <1>2, <2>1, <2>2
<1>4. KeyRows(r) \in Nat /\ \A k \in Nat : k < KeyRows(r) <=> k * DramColumns < W
  BY <1>1, <1>2, CeilDivBelow DEF KeyRows
<1> HIDE DEF n, H, v, W
<1>5. \A k \in Nat : k < KeyRows(r) <=> k * n < v
  <2> SUFFICES ASSUME NEW k \in Nat PROVE k < KeyRows(r) <=> k * n < v
    OBVIOUS
  <2> DEFINE m == k * n
  <2>1. m \in Nat
    BY <1>3
  <2>2. k * DramColumns = m * H
    <3>1. \A x, y, z \in Nat : x * (y * z) = (x * y) * z
      OBVIOUS
    <3> QED  BY <1>1, <1>3, <3>1
  <2>3. W = v * H
    <3>1. \A x, y \in Nat : x * y = y * x
      OBVIOUS
    <3> QED  BY <1>1, <3>1
  <2> HIDE DEF m
  <2>4. \A x, y \in Nat, z \in Nat \ {0} : x * z < y * z <=> x < y
    OBVIOUS
  <2>5. m * H < v * H <=> m < v
    BY <1>1, <2>1, <2>4
  <2> QED  BY <1>4, <2>2, <2>3, <2>5 DEF m
<1>6. ASSUME NEW k \in 0..(KeyRows(r) - 1)
      PROVE  Lesser(n, v - k * n) \in Nat
  <2> DEFINE m == k * n
  <2>1. m \in Nat /\ m < v
    BY <1>3, <1>4, <1>5
  <2> HIDE DEF m
  <2>2. Lesser(n, v - m) \in Nat
    BY <1>1, <1>3, <2>1 DEF Lesser
  <2> QED  BY <2>2 DEF m
<1>7. ASSUME NEW head \in 0..(v - 1)
      PROVE  /\ head \div n \in 0..(KeyRows(r) - 1)
             /\ head % n \in 0..(Lesser(n, v - (head \div n) * n) - 1)
  <2> DEFINE q == head \div n
             x == head % n
             m == q * n
  <2>1. q \in Nat /\ x \in 0..(n - 1) /\ head = m + x
    <3>1. head \in Nat /\ n \in Nat \ {0}
      BY <1>1, <1>3
    <3> QED  BY <3>1, Parts
  <2> HIDE DEF q, x
  <2>2. m \in Nat
    BY <1>3, <2>1
  <2> HIDE DEF m
  <2>3. m < v /\ x < v - m
    BY <1>1, <1>3, <2>1, <2>2
  <2>4. q < KeyRows(r)
    BY <1>5, <2>1, <2>3 DEF m
  <2>5. q \in 0..(KeyRows(r) - 1)
    BY <1>4, <2>1, <2>4
  <2>6. x \in 0..(Lesser(n, v - m) - 1)
    BY <1>1, <1>3, <2>1, <2>2, <2>3 DEF Lesser
  <2> QED  BY <2>5, <2>6 DEF q, x, m
<1> QED  BY <1>3, <1>4, <1>6, <1>7 DEF n, v

(* The plan of the score stage of a request has the sizes it has. *)
LEMMA ScoreStageSized ==
  ASSUME NEW r \in SizedRequest, Planned(r), NEW p, p = StagePlan(r, "scores")
  PROVE  /\ ScoreSized(p) /\ ScoreKeyRows(p) = KeyRows(r)
         /\ ScoreRounds(p) = CeilDiv(r.length, TotalBanks)
         /\ \A g \in 1..ScoreRounds(p) : p.sequence_channels[g] = SequenceChannels(r, g)
         /\ HeadsPerRow(p) = HeadsPerKeyRow(r) /\ p.spec.kv_heads = r.kv_heads
         /\ p.spec.head = HeadSize(r) /\ p.spec.repeat = r.heads \div r.kv_heads
         /\ p.rows.key_cache.start = KeyStart(r)
<1> DEFINE n == CeilDiv(r.length, TotalBanks)
<1>1. /\ p.spec = AttentionSpec(r) /\ p.rows.key_cache.start = KeyStart(r)
      /\ p.sequence_channels = [j \in 1..n |-> SequenceChannels(r, j)]
  BY ScoreStagePlan
<1>2. /\ ValidPlacement /\ r.length \in Nat \ {0} /\ HeadSize(r) \in Nat \ {0}
      /\ r.heads \div r.kv_heads \in Nat /\ KeyStart(r) \in Nat
  BY PlannedSizes, StartsNatural
<1>3. TotalBanks \in Nat \ {0}
  BY <1>2, Geometry
<1>4. n \in Nat
  BY <1>2, <1>3, CeilDivBelow
<1>5. /\ p.spec.kv_width = KvWidth(r) /\ p.spec.kv_heads = r.kv_heads
      /\ p.spec.head = HeadSize(r) /\ p.spec.repeat = r.heads \div r.kv_heads
  BY <1>1 DEF AttentionSpec
<1> HIDE DEF n
<1>6. /\ Len(p.sequence_channels) = n
      /\ p.sequence_channels = [j \in 1..n |-> p.sequence_channels[j]]
      /\ \A j \in 1..n : p.sequence_channels[j] = SequenceChannels(r, j)
  BY <1>1, <1>4
<1>7. ScoreRounds(p) = n /\ ScoreKeyRows(p) = KeyRows(r) /\ HeadsPerRow(p) = HeadsPerKeyRow(r)
  BY <1>5, <1>6 DEF ScoreRounds, ScoreKeyRows, KeyRows, HeadsPerRow, HeadsPerKeyRow
<1>8. KeyRows(r) \in Nat /\ \A k \in 0..(KeyRows(r) - 1) : HeadsInRow(p, k) \in Nat
  BY <1>5, <1>7, HeadPlace DEF HeadsInRow
<1>9. ScoreSized(p)
  BY <1>1, <1>2, <1>4, <1>5, <1>6, <1>7, <1>8 DEF ScoreSized
<1> QED  BY <1>1, <1>5, <1>6, <1>7, <1>9 DEF n

\* What a bundle of products of a row of a head reads.
ReadsAt(reads, cell, column) == {read \in reads : read.cell = cell /\ read.column = column}

(* The score stage reads the row of the key that holds a head, in every    *)
(* copy, at the column of the head as often as query heads share it.       *)
LEMMA KeysCounted ==
  ASSUME NEW r \in SizedRequest, Planned(r), NEW t \in 0..(r.length - 1),
         NEW head \in 0..(r.kv_heads - 1), NEW o \in 0..(Copies - 1)
  PROVE  Cardinality(ReadsAt(MetWith(r).keys,
                             KeyCell(r, t, head \div HeadsPerKeyRow(r), o),
                             (head % HeadsPerKeyRow(r)) * HeadSize(r)))
           = r.heads \div r.kv_heads
<1> DEFINE p == StagePlan(r, "scores")
           code == Batches(ScoreGemv(p))
           g == KeyGroup(t)
           k == head \div HeadsPerKeyRow(r)
           h == head % HeadsPerKeyRow(r)
           b == t % TotalBanks
           cell == KeyCell(r, t, k, o)
           channel == BankChannel(b) + o * ChannelsPerBlock
           column == h * HeadSize(r)
           mac == ScoreMac(p, k, g, h)
           S == ReadsAt(MetWith(r).keys, cell, column)
<1>1. /\ ScoreSized(p) /\ ScoreKeyRows(p) = KeyRows(r)
      /\ ScoreRounds(p) = CeilDiv(r.length, TotalBanks)
      /\ \A j \in 1..ScoreRounds(p) : p.sequence_channels[j] = SequenceChannels(r, j)
      /\ HeadsPerRow(p) = HeadsPerKeyRow(r) /\ p.spec.kv_heads = r.kv_heads
      /\ p.spec.head = HeadSize(r) /\ p.spec.repeat = r.heads \div r.kv_heads
      /\ p.rows.key_cache.start = KeyStart(r)
  BY ScoreStageSized
<1>2. MetWith(r).keys = KeyReads(code)
  BY DEF MetWith
<1> HIDE DEF p
<1>3. /\ g \in 0..(ScoreRounds(p) - 1) /\ ScoreRounds(p) \in Nat
      /\ channel \in Range(SequenceChannels(r, g + 1))
  BY <1>1, RoundReachesCopies
<1>4. k \in 0..(ScoreKeyRows(p) - 1) /\ h \in 0..(HeadsInRow(p, k) - 1)
  BY <1>1, HeadPlace DEF HeadsInRow
<1>5. BankNumber(b) \in Banks
  <2>1. ValidPlacement /\ t \in Nat
    BY PlannedSizes
  <2> QED  BY <2>1, BankPlace DEF Banks
<1>6. /\ mac.op = "MAC_ABK" /\ mac.column = column
      /\ mac.row = KeyStart(r) + g * KeyRows(r) + k /\ channel \in Range(mac.channels)
  <2>1. g + 1 \in 1..ScoreRounds(p)
    BY <1>3
  <2> HIDE DEF g, k, h, channel
  <2>2. /\ mac.op = "MAC_ABK" /\ mac.channels = p.sequence_channels[g + 1]
        /\ mac.column = h * p.spec.head
        /\ mac.row = p.rows.key_cache.start + g * ScoreKeyRows(p) + k
    BY DEF ScoreMac, Mac
  <2> HIDE DEF mac
  <2> QED  BY <1>1, <1>3, <2>1, <2>2
<1>7. cell = <<channel, BankNumber(b), KeyStart(r) + g * KeyRows(r) + k>>
  BY DEF KeyCell
<1> HIDE DEF g, k, h, b, cell, channel, column
<1>8. PICK rest : ScoresWith(p, rest, mac, p.spec.repeat)
  BY <1>1, <1>3, <1>4, ScoreTally
<1> HIDE DEF mac
<1> DEFINE X == {Appending(mac)}
           A == At(rest, X)
<1>9. /\ IsListing(rest) /\ \A x : In(x, rest) => x \in ScoreSteps(p)
      /\ IsFiniteSet(A) /\ Cardinality(A) = p.spec.repeat
  BY <1>8 DEF ScoresWith, Tallies
<1>10. \A j \in 1..Len(rest) :
         \E i : rest[j] = Appending(i) /\ (i.op = "MAC_ABK" => IsProductOf(p, i))
  <2>1. \A j \in 1..Len(rest) : In(rest[j], rest)
    BY DEF In
  <2> QED  BY <1>9, <2>1, ScoreStepIs
<1>11. Appends(code, rest)
  <2>1. PICK ok : ScoreGemv(p) = Check(ok) \o rest
    BY <1>8 DEF ScoresWith
  <2> QED  BY <1>9, <1>10, <2>1, BatchesOfAppends
<1> HIDE DEF code
<1>12. \A x, y : Appending(x) = Appending(y) => x = y
  BY DEF Appending
<1>13. /\ DOMAIN code = 1..Len(rest)
       /\ \A j \in DOMAIN code : code[j].op = "MAC_ABK" => IsProductOf(p, code[j])
       /\ \A j : j \in A <=> j \in DOMAIN code /\ code[j] = mac
  <2>1. DOMAIN code = 1..Len(rest) /\ \A j \in 1..Len(rest) : rest[j] = Appending(code[j])
    BY <1>11 DEF Appends
  <2>2. \A j : j \in A <=> j \in 1..Len(rest) /\ rest[j] = Appending(mac)
    BY DEF At
  <2>3. ASSUME NEW j \in 1..Len(rest), code[j].op = "MAC_ABK"
        PROVE  IsProductOf(p, code[j])
    <3>1. PICK i : rest[j] = Appending(i) /\ (i.op = "MAC_ABK" => IsProductOf(p, i))
      BY <1>10
    <3>2. i = code[j]
      BY <1>12, <2>1, <3>1
    <3> QED  BY <2>3, <3>1, <3>2
  <2>4. ASSUME NEW j
        PROVE  j \in A <=> j \in DOMAIN code /\ code[j] = mac
    <3> HIDE DEF A
    <3>1. CASE j \in 1..Len(rest)
      <4>1. rest[j] = Appending(code[j])
        BY <2>1, <3>1
      <4>2. rest[j] = Appending(mac) <=> code[j] = mac
        BY <1>12, <4>1
      <4> QED  BY <2>1, <2>2, <3>1, <4>2
    <3>2. CASE j \notin 1..Len(rest)
      BY <2>1, <2>2, <3>2
    <3> QED  BY <3>1, <3>2
  <2> HIDE DEF A
  <2> QED  BY <2>1, <2>3, <2>4
<1> HIDE DEF A
<1> DEFINE f == [j \in A |-> [by |-> j, cell |-> cell, column |-> column]]
<1>14. \A j \in A : /\ f[j] = [by |-> j, cell |-> cell, column |-> column]
                    /\ f[j].by = j /\ f[j].cell = cell /\ f[j].column = column
  OBVIOUS
<1>15. f = [j \in A |-> f[j]]
  OBVIOUS
<1> HIDE DEF f
<1>16. ASSUME NEW j \in A
       PROVE  f[j] \in S
  <2> DEFINE reads == {[by |-> j, cell |-> <<c, a, code[j].row>>, column |-> code[j].column] :
                         c \in Range(code[j].channels), a \in Banks}
  <2>1. j \in ProductsOf(code) /\ code[j] = mac
    BY <1>6, <1>13 DEF ProductsOf
  <2>2. f[j] \in reads
    <3>1. f[j] = [by |-> j, cell |-> <<channel, BankNumber(b), code[j].row>>,
                  column |-> code[j].column]
      BY <1>6, <1>7, <1>14, <2>1
    <3> QED  BY <1>5, <1>6, <2>1, <3>1
  <2> HIDE DEF reads
  <2>3. f[j] \in KeyReads(code)
    BY <2>1, <2>2 DEF KeyReads, reads
  <2>4. f[j].cell = cell /\ f[j].column = column
    BY <1>14
  <2> QED  BY <1>2, <2>3, <2>4 DEF ReadsAt
<1>17. ASSUME NEW read \in S
       PROVE  \E j \in A : f[j] = read
  <2>1. read \in KeyReads(code) /\ read.cell = cell /\ read.column = column
    BY <1>2 DEF ReadsAt
  <2>2. PICK j \in ProductsOf(code) :
          read \in {[by |-> j, cell |-> <<c, a, code[j].row>>, column |-> code[j].column] :
                      c \in Range(code[j].channels), a \in Banks}
    BY <2>1 DEF KeyReads
  <2>3. PICK c \in Range(code[j].channels), a \in Banks :
          read = [by |-> j, cell |-> <<c, a, code[j].row>>, column |-> code[j].column]
    BY <2>2
  <2>4. code[j].row = mac.row /\ code[j].column = mac.column
    BY <1>6, <1>7, <2>1, <2>3
  <2>5. j \in DOMAIN code /\ IsProductOf(p, code[j])
    BY <1>13 DEF ProductsOf
  <2>6. PICK l \in 0..(ScoreKeyRows(p) - 1) : \E e \in 0..(ScoreRounds(p) - 1) :
          \E i \in 0..(HeadsInRow(p, l) - 1) : code[j] = ScoreMac(p, l, e, i)
    BY <2>5 DEF IsProductOf
  <2>7. PICK e \in 0..(ScoreRounds(p) - 1) :
          \E i \in 0..(HeadsInRow(p, l) - 1) : code[j] = ScoreMac(p, l, e, i)
    BY <2>6
  <2>8. PICK i \in 0..(HeadsInRow(p, l) - 1) : code[j] = ScoreMac(p, l, e, i)
    BY <2>7
  <2>9. l = k /\ e = g /\ i = h
    <3>1. HeadsInRow(p, l) \in Nat /\ HeadsInRow(p, k) \in Nat
      BY <1>1, <1>4 DEF ScoreSized
    <3>2. i \in Nat /\ h \in Nat
      BY <1>4, <3>1
    <3>3. /\ ScoreMac(p, l, e, i).row = ScoreMac(p, k, g, h).row
          /\ ScoreMac(p, l, e, i).column = ScoreMac(p, k, g, h).column
      BY <2>4, <2>8 DEF mac
    <3> QED  BY <1>1, <1>3, <1>4, <3>2, <3>3, ProductsDiffer
  <2>10. j \in A
    BY <1>13, <2>5, <2>8, <2>9 DEF mac
  <2>11. f[j] = read
    BY <1>14, <2>1, <2>3, <2>10
  <2> QED  BY <2>10, <2>11
<1>18. \A x, y \in A : f[x] = f[y] => x = y
  BY <1>14
<1> HIDE DEF S
<1>19. Cardinality(S) = Cardinality(A)
  BY <1>9, <1>15, <1>16, <1>17, <1>18, SameCount
<1> QED  BY <1>1, <1>9, <1>19 DEF S, cell, column, k, h

-----------------------------------------------------------------------------
(* Every cell holds the part of its token that the cell is for, and what   *)
(* is left of an update writes such parts.                                 *)
PartsInv ==
  /\ \A cell \in DOMAIN keys : IsKeyPart(request, keys[cell].at, cell, keys[cell].part)
  /\ \A cell \in DOMAIN values :
       IsValuePart(request, values[cell].at, cell, values[cell].part)
  /\ pending # <<>> =>
       \A i \in Elements(pending) : WritesPart(Longer, request.length, i)

\* The cells of a part do not depend on how much of a sequence there is.
LEMMA SameParts ==
  ASSUME NEW r \in SizedRequest, NEW n \in Nat, NEW s, s = [r EXCEPT !.length = n]
  PROVE  \A at, cell, part :
           /\ IsKeyPart(s, at, cell, part) <=> IsKeyPart(r, at, cell, part)
           /\ IsValuePart(s, at, cell, part) <=> IsValuePart(r, at, cell, part)
<1>1. /\ s \in SizedRequest /\ s.length = n
      /\ s.kv_heads = r.kv_heads /\ s.max = r.max /\ HeadSize(s) = HeadSize(r)
      /\ KvWidth(s) = KvWidth(r)
      /\ KeyStart(s) = KeyStart(r) /\ ValueStart(s) = ValueStart(r)
  BY SamePlaces
<1>2. /\ KeyRows(s) = KeyRows(r) /\ ValueHeads(s) = ValueHeads(r)
      /\ ValueDimensions(s) = ValueDimensions(r) /\ TokenRows(s) = TokenRows(r)
  BY <1>1 DEF KeyRows, ValueHeads, ValueDimensions, TokenRows
<1>3. \A t, k, o : KeyCell(s, t, k, o) = KeyCell(r, t, k, o)
  BY <1>1, <1>2 DEF KeyCell
<1>4. \A t, h, d, c : ValueCell(s, t, h, d, c) = ValueCell(r, t, h, d, c)
  BY <1>1, <1>2 DEF ValueCell
<1>5. \A h, c : HeadExists(s, h, c) <=> HeadExists(r, h, c)
  BY <1>1, <1>2 DEF HeadExists
<1>6. \A at, cell, part : IsKeyPart(s, at, cell, part) <=> IsKeyPart(r, at, cell, part)
  BY <1>2, <1>3 DEF IsKeyPart
<1>7. \A at, cell, part : IsValuePart(s, at, cell, part) <=> IsValuePart(r, at, cell, part)
  BY <1>2, <1>4, <1>5 DEF IsValuePart
<1> QED  BY <1>6, <1>7

\* What a cache holds after a write.
LEMMA OverwrittenHolds ==
  ASSUME NEW cells, NEW cell, NEW part
  PROVE  LET new == Overwritten(cells, cell, part)
         IN  \A other \in DOMAIN new :
               IF other = cell THEN new[other].at = request.length /\ new[other].part = part
               ELSE other \in DOMAIN cells /\ new[other] = cells[other]
<1> DEFINE entry == [at |-> request.length, of |-> sequence, part |-> part]
           one == [c \in {cell} |-> entry]
           new == Overwritten(cells, cell, part)
<1>1. entry.at = request.length /\ entry.part = part
  OBVIOUS
<1> HIDE DEF entry
<1>2. DOMAIN one = {cell} /\ one[cell] = entry
  OBVIOUS
<1>3. new = Extended(one, cells)
  BY DEF Overwritten, entry
<1> HIDE DEF one, new
<1>4. /\ DOMAIN new = {cell} \cup DOMAIN cells /\ new[cell] = entry
      /\ \A other \in DOMAIN cells : other # cell => new[other] = cells[other]
  BY <1>2, <1>3 DEF Extended
<1> QED  BY <1>1, <1>4 DEF new

\* The caches are empty at first.
LEMMA PartsInvInit ==
  CacheInit => PartsInv
BY DEF CacheInit, PartsInv

\* A step begun has parts to write.
LEMMA PartsInvBeginStep ==
  ASSUME CacheInv, PartsInv, BeginStep
  PROVE  PartsInv'
<1> DEFINE code == Batches(KvCacheUpdate(StagePlan(Longer, "kv_update")))
<1>1. /\ Planned(Longer) /\ pending' = code /\ request' = request
      /\ keys' = keys /\ values' = values
  BY DEF BeginStep
<1>2. request \in SizedRequest /\ request.length \in Nat
  BY DEF CacheInv, SizedRequest
<1>3. Longer \in SizedRequest /\ Longer.length = request.length + 1
  <2>1. Longer = [request EXCEPT !.length = request.length + 1]
    BY DEF Longer
  <2> QED  BY <1>2, <2>1, SameCells
<1>4. \A i : In(i, code) => WritesPart(Longer, Longer.length - 1, i)
  BY <1>1, <1>3, UpdateWrites
<1>5. Longer.length - 1 = request.length
  BY <1>2, <1>3
<1> HIDE DEF code
<1>6. \A i \in Elements(code) : WritesPart(Longer, request.length, i)
  BY <1>4, <1>5 DEF Elements, In
<1>7. Longer' = Longer
  BY <1>1 DEF Longer
<1>8. \A i \in Elements(pending') : WritesPart(Longer', request'.length, i)
  BY <1>1, <1>6, <1>7
<1> QED  BY <1>1, <1>8 DEF PartsInv

\* A write puts a part in a cell for it.
LEMMA PartsInvWrite ==
  ASSUME CacheInv, PartsInv, CacheWrite
  PROVE  PartsInv'
<1> DEFINE i == Head(pending)
           left == Tail(pending)
           n == request.length
<1>1. /\ request \in SizedRequest /\ n \in Nat /\ IsListing(pending) /\ pending # <<>>
      /\ \A j \in Elements(pending) : WritesPart(Longer, n, j)
      /\ \A cell \in DOMAIN keys : IsKeyPart(request, keys[cell].at, cell, keys[cell].part)
      /\ \A cell \in DOMAIN values :
           IsValuePart(request, values[cell].at, cell, values[cell].part)
  BY DEF CacheInv, PartsInv, CacheWrite, SizedRequest
<1>2. /\ pending' = left
      /\ IF Len(pending) = 1 THEN request' = Longer ELSE request' = request
      /\ WriteKey(i) \/ WriteValue(i)
  BY DEF CacheWrite
<1>3. /\ IsListing(left) /\ left = <<>> <=> Len(pending) = 1
      /\ \A x : x \in Elements(pending) <=> x = i \/ x \in Elements(left)
  BY <1>1, HeadAndTail
<1>4. Longer = [request EXCEPT !.length = n + 1]
  BY DEF Longer
<1> HIDE DEF i, left
<1>5. \A at, cell, part :
        /\ IsKeyPart(Longer, at, cell, part) <=> IsKeyPart(request, at, cell, part)
        /\ IsValuePart(Longer, at, cell, part) <=> IsValuePart(request, at, cell, part)
  <2>1. n + 1 \in Nat
    BY <1>1
  <2> QED  BY <1>1, <1>4, <2>1, SameParts
<1>6. \A at, cell, part :
        /\ IsKeyPart(request', at, cell, part) <=> IsKeyPart(request, at, cell, part)
        /\ IsValuePart(request', at, cell, part) <=> IsValuePart(request, at, cell, part)
  BY <1>2, <1>5
<1>7. WritesPart(Longer, n, i)
  BY <1>1, <1>3
<1>8. /\ \A cell \in DOMAIN keys' : IsKeyPart(request, keys'[cell].at, cell, keys'[cell].part)
      /\ \A cell \in DOMAIN values' :
           IsValuePart(request, values'[cell].at, cell, values'[cell].part)
  <2>1. CASE WriteKey(i)
    <3> DEFINE cell == <<i.channel, i.bank, i.row>>
               part == KeyPartOf(Longer, i)
    <3>1. i.op = "WR_SBK" /\ keys' = Overwritten(keys, cell, part) /\ values' = values
      BY <2>1 DEF WriteKey, KeyPartOf
    <3>2. IsKeyPart(request, n, cell, part)
      BY <1>5, <1>7, <3>1 DEF WritesPart
    <3> HIDE DEF cell, part
    <3>3. \A other \in DOMAIN keys' :
            IF other = cell THEN keys'[other].at = n /\ keys'[other].part = part
            ELSE other \in DOMAIN keys /\ keys'[other] = keys[other]
      BY <3>1, OverwrittenHolds
    <3> QED  BY <1>1, <3>1, <3>2, <3>3
  <2>2. CASE WriteValue(i)
    <3> DEFINE cell == <<i.channel, i.row, i.column>>
               part == ValuePartOf(Longer, i)
    <3>1. i.op = "WR_ABK" /\ values' = Overwritten(values, cell, part) /\ keys' = keys
      BY <2>2 DEF WriteValue, ValuePartOf
    <3>2. IsValuePart(request, n, cell, part)
      BY <1>5, <1>7, <3>1 DEF WritesPart
    <3> HIDE DEF cell, part
    <3>3. \A other \in DOMAIN values' :
            IF other = cell THEN values'[other].at = n /\ values'[other].part = part
            ELSE other \in DOMAIN values /\ values'[other] = values[other]
      BY <3>1, OverwrittenHolds
    <3> QED  BY <1>1, <3>1, <3>2, <3>3
  <2> QED  BY <1>2, <2>1, <2>2
<1>9. ASSUME pending' # <<>>
      PROVE  \A j \in Elements(pending') : WritesPart(Longer', request'.length, j)
  <2>1. request' = request /\ Longer' = Longer
    BY <1>2, <1>3, <1>9 DEF Longer
  <2>2. \A j \in Elements(left) : WritesPart(Longer, n, j)
    BY <1>1, <1>3
  <2> QED  BY <1>2, <2>1, <2>2
<1> QED  BY <1>6, <1>8, <1>9 DEF PartsInv

\* A new sequence leaves the rows as they are.
LEMMA PartsInvNextSequence ==
  ASSUME CacheInv, PartsInv, NextSequence
  PROVE  PartsInv'
<1>1. /\ request' = [request EXCEPT !.length = 0] /\ pending' = pending /\ pending = <<>>
      /\ keys' = keys /\ values' = values
  BY DEF NextSequence
<1>2. request \in SizedRequest
  BY DEF CacheInv
<1>3. \A at, cell, part :
        /\ IsKeyPart(request', at, cell, part) <=> IsKeyPart(request, at, cell, part)
        /\ IsValuePart(request', at, cell, part) <=> IsValuePart(request, at, cell, part)
  <2> DEFINE s == [request EXCEPT !.length = 0]
  <2>1. \A at, cell, part :
        /\ IsKeyPart(s, at, cell, part) <=> IsKeyPart(request, at, cell, part)
        /\ IsValuePart(s, at, cell, part) <=> IsValuePart(request, at, cell, part)
    BY <1>2, SameParts
  <2> QED  BY <1>1, <2>1
<1> QED  BY <1>1, <1>3 DEF PartsInv

\* Every step keeps the parts where they belong.
LEMMA PartsInvNext ==
  CacheInv /\ PartsInv /\ [CacheNext]_cacheVars => PartsInv'
<1> SUFFICES ASSUME CacheInv, PartsInv, [CacheNext]_cacheVars
             PROVE  PartsInv'
  OBVIOUS
<1>1. CASE BeginStep
  BY <1>1, PartsInvBeginStep
<1>2. CASE CacheWrite
  BY <1>2, PartsInvWrite
<1>3. CASE NextSequence
  BY <1>3, PartsInvNextSequence
<1>4. CASE UNCHANGED cacheVars
  BY <1>4 DEF cacheVars, PartsInv, Longer
<1> QED  BY <1>1, <1>2, <1>3, <1>4 DEF CacheNext

\* The parts of a token are where they belong, at all times.
LEMMA PartsInPlace ==
  CacheSpec => []PartsInv
BY PartsInvInit, PartsInvNext, CachesHoldTheTokens, PTL DEF CacheSpec

\* The copy and the part a key cell is for can be read off it.
LEMMA KeyCellParts ==
  ASSUME NEW r \in SizedRequest, Planned(r), NEW t \in Nat,
         NEW k \in 0..(KeyRows(r) - 1), NEW o \in 0..(Copies - 1)
  PROVE  /\ KeyCell(r, t, k, o)[1] \div ChannelsPerBlock = o
         /\ \A l \in 0..(KeyRows(r) - 1), c \in 0..(Copies - 1) :
              KeyCell(r, t, l, c) = KeyCell(r, t, k, o) => l = k
<1> DEFINE channel == BankChannel(t % TotalBanks)
           first == KeyStart(r) + KeyGroup(t) * KeyRows(r)
<1>1. /\ ValidPlacement /\ KeyStart(r) \in Nat
  BY PlannedSizes, StartsNatural
<1>2. /\ channel \in 0..(ChannelsPerBlock - 1) /\ ChannelsPerBlock \in Nat \ {0}
      /\ KeyGroup(t) \in Nat
  BY <1>1, BankPlace, Geometry
<1>3. first \in Nat
  <2> DEFINE g == KeyGroup(t)
             n == KeyRows(r)
  <2>1. n \in Nat
    BY HeadPlace
  <2> HIDE DEF g, n
  <2>2. g * n \in Nat
    BY <1>2, <2>1 DEF g
  <2> QED  BY <1>1, <2>2 DEF g, n
<1>4. \A l, c : /\ KeyCell(r, t, l, c)[1] = channel + c * ChannelsPerBlock
                /\ KeyCell(r, t, l, c)[3] = first + l
  BY DEF KeyCell
<1> HIDE DEF channel, first
<1>5. (channel + o * ChannelsPerBlock) \div ChannelsPerBlock = o
  <2>1. \A n \in Nat \ {0} : \A x \in 0..(n - 1), y \in Nat : (x + y * n) \div n = y
    OBVIOUS
  <2> QED  BY <1>2, <2>1
<1>6. \A l \in 0..(KeyRows(r) - 1), c \in 0..(Copies - 1) :
        KeyCell(r, t, l, c) = KeyCell(r, t, k, o) => l = k
  <2> SUFFICES ASSUME NEW l \in 0..(KeyRows(r) - 1), NEW c \in 0..(Copies - 1),
                      KeyCell(r, t, l, c) = KeyCell(r, t, k, o)
               PROVE  l = k
    OBVIOUS
  <2>1. first + l = first + k
    BY <1>4
  <2> QED  BY <1>3, <2>1
<1> QED  BY <1>4, <1>5, <1>6

(***************************************************************************)
(* The reads that meet a part of a token in a copy, at a column, are those *)
(* of the one cell for that part.                                          *)
(***************************************************************************)
LEMMA KeyReadsMeet ==
  ASSUME CacheInv, PartsInv, NEW t \in 0..(request.length - 1), Planned(request),
         NEW k \in 0..(KeyRows(request) - 1), NEW o \in 0..(Copies - 1), NEW column
  PROVE  {read \in Meeting(keys, met.keys, t, k) :
            read.cell[1] \div ChannelsPerBlock = o /\ read.column = column}
           = ReadsAt(met.keys, KeyCell(request, t, k, o), column)
<1> DEFINE r == request
           cell == KeyCell(r, t, k, o)
           S == {read \in Meeting(keys, met.keys, t, k) :
                   read.cell[1] \div ChannelsPerBlock = o /\ read.column = column}
<1>1. /\ r \in SizedRequest /\ t \in Nat /\ t \in DOMAIN KeyPlaces(r)
      /\ KeyPlaces(r)[t] = KeyCells(r, t)
      /\ Cached(keys, KeyPlaces(r), r.length, sequence)
  <2>1. r \in SizedRequest /\ Cached(keys, KeyPlaces(r), r.length, sequence)
    BY DEF CacheInv
  <2>2. r.length \in 1..r.max /\ r.max \in Nat
    BY <2>1, PlannedSizes
  <2> QED  BY <2>1, <2>2 DEF KeyPlaces
<1>2. \A c \in DOMAIN keys : IsKeyPart(r, keys[c].at, c, keys[c].part)
  BY DEF PartsInv
<1> HIDE DEF r
<1>3. k \in 0..(KeyRows(r) - 1) /\ t \in 0..(r.length - 1) /\ Planned(r)
  BY DEF r
<1>4. /\ cell[1] \div ChannelsPerBlock = o
      /\ \A l \in 0..(KeyRows(r) - 1), c \in 0..(Copies - 1) :
           KeyCell(r, t, l, c) = cell => l = k
  BY <1>1, <1>3, KeyCellParts
<1>5. ASSUME NEW read \in S
      PROVE  read \in ReadsAt(met.keys, cell, column)
  <2>1. /\ read \in met.keys /\ read.cell \in DOMAIN keys /\ keys[read.cell].at = t
        /\ keys[read.cell].part = k /\ read.cell[1] \div ChannelsPerBlock = o
        /\ read.column = column
    BY DEF Meeting
  <2>2. PICK l \in 0..(KeyRows(r) - 1) : \E c \in 0..(Copies - 1) :
               read.cell = KeyCell(r, t, l, c) /\ k = l
    BY <1>2, <2>1 DEF IsKeyPart
  <2>3. PICK c \in 0..(Copies - 1) : read.cell = KeyCell(r, t, l, c) /\ k = l
    BY <2>2
  <2>4. KeyCell(r, t, l, c)[1] \div ChannelsPerBlock = c
    BY <1>1, <1>3, <2>2, <2>3, KeyCellParts
  <2>5. read.cell = cell
    BY <2>1, <2>3, <2>4
  <2> QED  BY <2>1, <2>5 DEF ReadsAt
<1>6. ASSUME NEW read \in ReadsAt(met.keys, cell, column)
      PROVE  read \in S
  <2>1. read \in met.keys /\ read.cell = cell /\ read.column = column
    BY DEF ReadsAt
  <2>2. cell \in KeyCells(r, t)
    BY <1>3 DEF KeyCells
  <2>3. cell \in DOMAIN keys /\ keys[cell].at = t
    BY <1>1, <1>3, <2>2 DEF Cached, Holds
  <2>4. PICK l \in 0..(KeyRows(r) - 1) : \E c \in 0..(Copies - 1) :
               cell = KeyCell(r, t, l, c) /\ keys[cell].part = l
    BY <1>2, <2>3 DEF IsKeyPart
  <2>5. keys[cell].part = k
    BY <1>4, <2>4
  <2> HIDE DEF cell
  <2>6. read \in Meeting(keys, met.keys, t, k)
    BY <2>1, <2>3, <2>5 DEF Meeting
  <2> QED  BY <1>4, <2>1, <2>6
<1> HIDE DEF S, cell
<1>7. S = ReadsAt(met.keys, cell, column)
  <2>1. \A x : x \in ReadsAt(met.keys, cell, column) <=> x \in S
    BY <1>5, <1>6
  <2> QED  BY <2>1
<1> QED  BY <1>7 DEF S, cell, r

(* The keys that are met are those of the tokens cached. *)
LEMMA KeysScored ==
  ASSUME CacheInv, PartsInv
  PROVE  EveryKeyIsScored
<1> SUFFICES ASSUME Visible
             PROVE  LET perRow == DramColumns \div HeadSize(request)
                    IN  \A at \in 0..(request.length - 1), head \in 0..(request.kv_heads - 1),
                           copy \in 0..(Copies - 1) :
                          Cardinality({read \in Meeting(keys, met.keys, at, head \div perRow) :
                                         /\ read.cell[1] \div ChannelsPerBlock = copy
                                         /\ read.column = (head % perRow) * HeadSize(request)})
                            = SharedBy
  BY DEF EveryKeyIsScored
<1>1. request \in SizedRequest /\ Planned(request) /\ met = MetWith(request)
  BY DEF Visible, CacheInv
<1> DEFINE perRow == DramColumns \div HeadSize(request)
<1>2. perRow = HeadsPerKeyRow(request)
  BY DEF HeadsPerKeyRow
<1> HIDE DEF perRow
<1>3. ASSUME NEW at \in 0..(request.length - 1), NEW head \in 0..(request.kv_heads - 1),
             NEW copy \in 0..(Copies - 1)
      PROVE  Cardinality({read \in Meeting(keys, met.keys, at, head \div perRow) :
                            /\ read.cell[1] \div ChannelsPerBlock = copy
                            /\ read.column = (head % perRow) * HeadSize(request)})
               = SharedBy
  <2> DEFINE k == head \div perRow
             column == (head % perRow) * HeadSize(request)
  <2>1. k \in 0..(KeyRows(request) - 1)
    BY <1>1, <1>2, HeadPlace
  <2>2. Cardinality(ReadsAt(MetWith(request).keys, KeyCell(request, at, k, copy), column))
          = request.heads \div request.kv_heads
    BY <1>1, <1>2, KeysCounted
  <2> HIDE DEF k, column
  <2>3. {read \in Meeting(keys, met.keys, at, k) :
           read.cell[1] \div ChannelsPerBlock = copy /\ read.column = column}
          = ReadsAt(met.keys, KeyCell(request, at, k, copy), column)
    BY <1>1, <2>1, KeyReadsMeet
  <2>4. Cardinality({read \in Meeting(keys, met.keys, at, k) :
           read.cell[1] \div ChannelsPerBlock = copy /\ read.column = column}) = SharedBy
    BY <1>1, <2>2, <2>3 DEF SharedBy
  <2> QED  BY <2>4 DEF k, column
<1> QED  BY <1>3 DEF perRow

(***************************************************************************)
(* Every key is scored (EveryKeyIsScored): for every request and geometry, *)
(* between two decode steps each key head of each cached token is met in   *)
(* every copy of the block exactly as often as query heads share it.       *)
(***************************************************************************)
THEOREM KeysAreScored ==
  CacheSpec => []EveryKeyIsScored
BY KeysScored, CachesHoldTheTokens, PartsInPlace, PTL DEF CacheSpec

-----------------------------------------------------------------------------
(* The instructions of the output stage, by the head in a channel, the row *)
(* of tokens and the group of dimensions they are for.                     *)
OutputHeads(p) == CeilDiv(p.spec.kv_heads, ChannelsPerBlock)
OutputDimensions(p) == CeilDiv(p.spec.head, NumBanks)
OutputSpan(p) == CeilDiv(p.spec.max, DramColumns)
OutputRows(p) == CeilDiv(p.spec.length, DramColumns)
OutputBias(p, h, r, k, d) == WriteBias(AllChannels, p.buffers.output.start,
                                       {IF k = 0 THEN "zero" ELSE Weighted(h, r, d)})
OutputMac(p, h, k, d) ==
  Mac(AllChannels,
      p.rows.value_cache.start + ValueRow(OutputSpan(p), OutputDimensions(p), h, d, k),
      0, RowBursts(p.spec.length, k), 0, "GLOBAL_BUFFER", {"value", "host"},
      {Weights(p, h, turn, k) : turn \in 0..(p.spec.repeat - 1)})
OutputResult(p, h, r, d) ==
  ReadResult("RD_MAC", AllChannels, p.buffers.output.start, 0, Weighted(h, r, d))
OutputStream(p, h, r, k) ==
  WriteGlobal(AllChannels, p.buffers.scores.start, RowBursts(p.spec.length, k),
              Weights(p, h, r, k))

(* And its loops. *)
OutputPart(p, h, r, k, d) ==
  Append1(OutputBias(p, h, r, k, d)) \o Append1(OutputMac(p, h, k, d))
  \o Append1(OutputResult(p, h, r, d))
OutputOfRow(p, h, r, k) ==
  Append1(OutputStream(p, h, r, k))
  \o FlattenSeq([y \in 1..OutputDimensions(p) |-> OutputPart(p, h, r, k, y - 1)])
OutputOfHead(p, h, r) == FlattenSeq([y \in 1..OutputRows(p) |-> OutputOfRow(p, h, r, y - 1)])
OutputOfQueries(p, h) == FlattenSeq([y \in 1..p.spec.repeat |-> OutputOfHead(p, h, y - 1)])
OutputProgram(p) == FlattenSeq([y \in 1..OutputHeads(p) |-> OutputOfQueries(p, y - 1)])

\* The stage is a check and these loops.
LEMMA OutputIsProgram ==
  ASSUME NEW p
  PROVE  \E ok : AttentionOutput(p) = Check(ok) \o OutputProgram(p)
BY DEF AttentionOutput, Each, OutputProgram, OutputOfQueries, OutputOfHead, OutputOfRow,
       OutputPart, OutputBias, OutputMac, OutputResult, OutputStream, OutputHeads,
       OutputDimensions, OutputSpan, OutputRows

(* Its steps: those that load scores, those that make a product with a row *)
(* of tokens, and the rest.                                                *)
OutputLoads(p) == {Appending(OutputStream(p, w[1], w[2], w[3])) : w \in Nat \X Nat \X Nat}
OutputOthers(p) ==
  {Appending(OutputBias(p, w[1], w[2], w[3], w[4])) : w \in Nat \X Nat \X Nat \X Nat}
  \cup {Appending(OutputResult(p, w[1], w[2], w[3])) : w \in Nat \X Nat \X Nat}
  \cup OutputLoads(p)
OutputProducts(p, k) ==
  {Appending(OutputMac(p, w[1], k, w[2])) :
     w \in (0..(OutputHeads(p) - 1)) \X (0..(OutputDimensions(p) - 1))}
OutputSteps(p) == OutputOthers(p) \cup UNION {OutputProducts(p, k) : k \in 0..(OutputRows(p) - 1)}

(* A plan of the output stage with the sizes a request has. *)
OutputSized(p) ==
  /\ OutputHeads(p) \in Nat /\ OutputDimensions(p) \in Nat /\ OutputSpan(p) \in Nat
  /\ OutputRows(p) \in Nat /\ OutputRows(p) <= OutputSpan(p)
  /\ p.spec.repeat \in Nat /\ p.rows.value_cache.start \in Nat

\* A product of a row of tokens, by its head and dimensions.
LEMMA InOutputProducts ==
  ASSUME NEW p, NEW k, NEW s
  PROVE  s \in OutputProducts(p, k)
           <=> \E h \in 0..(OutputHeads(p) - 1) : \E d \in 0..(OutputDimensions(p) - 1) :
                 s = Appending(OutputMac(p, h, k, d))
<1> DEFINE H == 0..(OutputHeads(p) - 1)
           D == 0..(OutputDimensions(p) - 1)
<1>1. ASSUME NEW h \in H, NEW d \in D, s = Appending(OutputMac(p, h, k, d))
      PROVE  s \in OutputProducts(p, k)
  <2> DEFINE w == <<h, d>>
  <2>1. w \in H \X D /\ w[1] = h /\ w[2] = d
    OBVIOUS
  <2> HIDE DEF w, H, D
  <2>2. s = Appending(OutputMac(p, w[1], k, w[2]))
    BY <1>1, <2>1
  <2> QED  BY <2>1, <2>2 DEF OutputProducts, H, D
<1>2. ASSUME s \in OutputProducts(p, k)
      PROVE  \E h \in H : \E d \in D : s = Appending(OutputMac(p, h, k, d))
  <2>1. PICK w \in H \X D : s = Appending(OutputMac(p, w[1], k, w[2]))
    BY <1>2 DEF OutputProducts
  <2>2. w[1] \in H /\ w[2] \in D
    OBVIOUS
  <2> HIDE DEF H, D
  <2> QED  BY <2>1, <2>2
<1> QED  BY <1>1, <1>2

\* Two products of the output stage are of different rows.
LEMMA OutputsDiffer ==
  ASSUME NEW p, OutputSized(p),
         NEW h \in Nat, NEW k \in 0..(OutputRows(p) - 1), NEW d \in 0..(OutputDimensions(p) - 1),
         NEW g \in Nat, NEW l \in 0..(OutputRows(p) - 1), NEW e \in 0..(OutputDimensions(p) - 1),
         OutputMac(p, h, k, d).row = OutputMac(p, g, l, e).row
  PROVE  h = g /\ k = l /\ d = e
<1> DEFINE D == OutputDimensions(p)
           S == OutputSpan(p)
           start == p.rows.value_cache.start
           m == h * D + d
           n == g * D + e
<1>1. start + (m * S + k) = start + (n * S + l)
  BY DEF OutputMac, Mac, ValueRow
<1>2. /\ D \in Nat \ {0} /\ S \in Nat \ {0} /\ start \in Nat
      /\ k \in 0..(S - 1) /\ l \in 0..(S - 1) /\ d \in 0..(D - 1) /\ e \in 0..(D - 1)
  BY DEF OutputSized
<1> HIDE DEF D, S, start
<1>3. m \in Nat /\ n \in Nat
  BY <1>2
<1> HIDE DEF m, n
<1>4. m * S + k = n * S + l
  <2> DEFINE x == m * S
             y == n * S
  <2>1. x \in Nat /\ y \in Nat
    BY <1>2, <1>3
  <2> HIDE DEF x, y
  <2>2. x + k = y + l
    BY <1>1, <1>2, <2>1 DEF x, y
  <2> QED  BY <2>2 DEF x, y
<1>5. m = n /\ k = l
  BY <1>2, <1>3, <1>4, PartsUnique
<1>6. h = g /\ d = e
  BY <1>2, <1>5, PartsUnique DEF m, n
<1> QED  BY <1>5, <1>6

\* The steps of the output stage are among them.
LEMMA OutputStepsAre ==
  ASSUME NEW p, NEW h \in 0..(OutputHeads(p) - 1), NEW k \in 0..(OutputRows(p) - 1)
  PROVE  /\ \A r, d \in Nat : /\ Appending(OutputBias(p, h, r, k, d)) \in OutputOthers(p)
                               /\ Appending(OutputResult(p, h, r, d)) \in OutputOthers(p)
         /\ \A r \in Nat : Appending(OutputStream(p, h, r, k)) \in OutputLoads(p)
         /\ OutputLoads(p) \subseteq OutputOthers(p) /\ OutputOthers(p) \subseteq OutputSteps(p)
         /\ \A d \in 0..(OutputDimensions(p) - 1) :
              /\ Appending(OutputMac(p, h, k, d)) \in OutputProducts(p, k)
              /\ Appending(OutputMac(p, h, k, d)) \in OutputSteps(p)
<1>1. OutputLoads(p) \subseteq OutputOthers(p) /\ OutputOthers(p) \subseteq OutputSteps(p)
  BY DEF OutputOthers, OutputSteps
<1>3. ASSUME NEW r \in Nat, NEW d \in Nat
      PROVE  /\ Appending(OutputBias(p, h, r, k, d)) \in OutputOthers(p)
             /\ Appending(OutputResult(p, h, r, d)) \in OutputOthers(p)
             /\ Appending(OutputStream(p, h, r, k)) \in OutputLoads(p)
  <2> DEFINE W == Nat \X Nat \X Nat
             W4 == Nat \X Nat \X Nat \X Nat
             a == <<h, r, k, d>>
             b == <<h, r, d>>
             c == <<h, r, k>>
  <2>1. /\ a \in W4 /\ a[1] = h /\ a[2] = r /\ a[3] = k /\ a[4] = d
        /\ b \in W /\ b[1] = h /\ b[2] = r /\ b[3] = d
        /\ c \in W /\ c[1] = h /\ c[2] = r /\ c[3] = k
    OBVIOUS
  <2> HIDE DEF W, W4, a, b, c
  <2>2. /\ Appending(OutputBias(p, h, r, k, d))
             \in {Appending(OutputBias(p, w[1], w[2], w[3], w[4])) : w \in W4}
        /\ Appending(OutputResult(p, h, r, d))
             \in {Appending(OutputResult(p, w[1], w[2], w[3])) : w \in W}
        /\ Appending(OutputStream(p, h, r, k))
             \in {Appending(OutputStream(p, w[1], w[2], w[3])) : w \in W}
    BY <2>1
  <2> QED  BY <2>2 DEF OutputOthers, OutputLoads, W, W4
<1>2. ASSUME NEW d \in 0..(OutputDimensions(p) - 1)
      PROVE  /\ Appending(OutputMac(p, h, k, d)) \in OutputProducts(p, k)
             /\ Appending(OutputMac(p, h, k, d)) \in OutputSteps(p)
  <2>1. Appending(OutputMac(p, h, k, d)) \in OutputProducts(p, k)
    BY InOutputProducts
  <2> QED  BY <2>1 DEF OutputSteps
<1> QED  BY <1>1, <1>2, <1>3

\* What is no product.
LEMMA OutputOthersAre ==
  ASSUME NEW p, NEW s \in OutputOthers(p)
  PROVE  \E i : s = Appending(i) /\ i.op # "MAC_ABK" /\ (i.op = "WR_GB" <=> s \in OutputLoads(p))
<1>1. /\ \A h, r, k, d : OutputBias(p, h, r, k, d).op = "WR_BIAS"
      /\ \A h, r, d : OutputResult(p, h, r, d).op = "RD_MAC"
      /\ \A h, r, k : OutputStream(p, h, r, k).op = "WR_GB"
  BY DEF OutputBias, OutputResult, OutputStream, WriteBias, ReadResult, WriteGlobal
<1>2. \A a, b : Appending(a) = Appending(b) => a = b
  BY DEF Appending
<1>3. \A i : Appending(i) \in OutputLoads(p) => i.op = "WR_GB"
  BY <1>1, <1>2 DEF OutputLoads
<1>4. CASE s \in {Appending(OutputBias(p, w[1], w[2], w[3], w[4])) :
                   w \in Nat \X Nat \X Nat \X Nat}
  <2>1. PICK w \in Nat \X Nat \X Nat \X Nat :
               s = Appending(OutputBias(p, w[1], w[2], w[3], w[4]))
    BY <1>4
  <2>2. s \notin OutputLoads(p)
    BY <1>1, <1>3, <2>1
  <2> QED  BY <1>1, <2>1, <2>2
<1>5. CASE s \in {Appending(OutputResult(p, w[1], w[2], w[3])) : w \in Nat \X Nat \X Nat}
  <2>1. PICK w \in Nat \X Nat \X Nat : s = Appending(OutputResult(p, w[1], w[2], w[3]))
    BY <1>5
  <2>2. s \notin OutputLoads(p)
    BY <1>1, <1>3, <2>1
  <2> QED  BY <1>1, <2>1, <2>2
<1>6. CASE s \in OutputLoads(p)
  <2>1. PICK w \in Nat \X Nat \X Nat : s = Appending(OutputStream(p, w[1], w[2], w[3]))
    BY <1>6 DEF OutputLoads
  <2> QED  BY <1>1, <1>6, <2>1
<1> QED  BY <1>4, <1>5, <1>6 DEF OutputOthers

(* Every product is made as often as query heads share the head.           *)
LEMMA OutputTally ==
  ASSUME NEW p, OutputSized(p), NEW l \in 0..(OutputHeads(p) - 1),
         NEW g \in 0..(OutputRows(p) - 1), NEW j \in 0..(OutputDimensions(p) - 1)
  PROVE  Tallies(OutputProgram(p), OutputSteps(p), {Appending(OutputMac(p, l, g, j))},
                 p.spec.repeat)
<1> DEFINE heads == OutputHeads(p)
           rows == OutputRows(p)
           dims == OutputDimensions(p)
           m == p.spec.repeat
           U == OutputSteps(p)
           X == {Appending(OutputMac(p, l, g, j))}
<1>1. /\ heads \in Nat /\ rows \in Nat /\ dims \in Nat /\ m \in Nat
      /\ l \in 0..(heads - 1) /\ g \in 0..(rows - 1) /\ j \in 0..(dims - 1)
  BY DEF OutputSized
<1>2. ASSUME NEW h \in 0..(heads - 1), NEW k \in 0..(rows - 1), NEW d \in 0..(dims - 1)
      PROVE  /\ Appending(OutputMac(p, h, k, d)) \in U
             /\ Appending(OutputMac(p, h, k, d)) \in X <=> h = l /\ k = g /\ d = j
  <2>1. \A a, b : Appending(a) = Appending(b) => a = b
    BY DEF Appending
  <2>2. OutputMac(p, h, k, d) = OutputMac(p, l, g, j) => h = l /\ k = g /\ d = j
    <3> SUFFICES ASSUME OutputMac(p, h, k, d) = OutputMac(p, l, g, j)
                 PROVE  h = l /\ k = g /\ d = j
      OBVIOUS
    <3>1. OutputMac(p, h, k, d).row = OutputMac(p, l, g, j).row
      OBVIOUS
    <3>2. h \in Nat /\ l \in Nat
      BY <1>1
    <3> QED  BY <3>1, <3>2, OutputsDiffer
  <2> QED  BY <2>1, <2>2, OutputStepsAre
<1>3. ASSUME NEW h \in 0..(heads - 1), NEW r \in Nat, NEW k \in 0..(rows - 1), NEW d \in Nat
      PROVE  /\ Appending(OutputBias(p, h, r, k, d)) \in U \ X
             /\ Appending(OutputResult(p, h, r, d)) \in U \ X
             /\ Appending(OutputStream(p, h, r, k)) \in U \ X
  <2>1. \A a, b : Appending(a) = Appending(b) => a = b
    BY DEF Appending
  <2>2. /\ OutputBias(p, h, r, k, d).op # OutputMac(p, l, g, j).op
        /\ OutputResult(p, h, r, d).op # OutputMac(p, l, g, j).op
        /\ OutputStream(p, h, r, k).op # OutputMac(p, l, g, j).op
    BY DEF OutputBias, OutputResult, OutputStream, OutputMac, WriteBias, ReadResult, WriteGlobal,
           Mac
  <2> QED  BY <2>1, <2>2, OutputStepsAre
<1> HIDE DEF U, X, heads, rows, dims, m
<1>4. ASSUME NEW h \in 0..(heads - 1), NEW r \in Nat, NEW k \in 0..(rows - 1),
             NEW d \in 0..(dims - 1)
      PROVE  Tallies(OutputPart(p, h, r, k, d), U, X, IF h = l /\ k = g /\ d = j THEN 1 ELSE 0)
  <2> DEFINE a == Append1(OutputBias(p, h, r, k, d))
             b == Append1(OutputMac(p, h, k, d))
             c == Append1(OutputResult(p, h, r, d))
             x == IF h = l /\ k = g /\ d = j THEN 1 ELSE 0
  <2>1. Tallies(a, U, X, 0) /\ Tallies(c, U, X, 0)
    BY <1>3, TalliesOne
  <2>2. Tallies(b, U, X, x)
    BY <1>2, TalliesOne
  <2>3. x \in Nat /\ 0 + x = x /\ x + 0 = x
    OBVIOUS
  <2>4. OutputPart(p, h, r, k, d) = (a \o b) \o c
    BY DEF OutputPart
  <2> HIDE DEF a, b, c, x
  <2>5. Tallies(a \o b, U, X, 0 + x)
    BY <2>1, <2>2, <2>3, TalliesConcat
  <2>6. Tallies((a \o b) \o c, U, X, x + 0)
    BY <2>1, <2>3, <2>5, TalliesConcat
  <2> QED  BY <2>3, <2>4, <2>6 DEF x
<1>5. ASSUME NEW h \in 0..(heads - 1), NEW r \in Nat, NEW k \in 0..(rows - 1)
      PROVE  Tallies(OutputOfRow(p, h, r, k), U, X, IF h = l /\ k = g THEN 1 ELSE 0)
  <2> DEFINE s == [y \in 1..dims |-> OutputPart(p, h, r, k, y - 1)]
             x == IF h = l /\ k = g THEN 1 ELSE 0
  <2>1. s = [y \in 1..dims |-> s[y]] /\ \A y \in 1..dims : s[y] = OutputPart(p, h, r, k, y - 1)
    OBVIOUS
  <2>2. OutputOfRow(p, h, r, k) = Append1(OutputStream(p, h, r, k)) \o FlattenSeq(s)
    BY DEF OutputOfRow, dims
  <2>4. x \in Nat /\ 0 + x = x
    OBVIOUS
  <2> HIDE DEF s
  <2>5. ASSUME NEW y \in 1..dims
        PROVE  Tallies(s[y], U, X, IF h = l /\ k = g /\ y - 1 = j THEN 1 ELSE 0)
    <3>1. y - 1 \in 0..(dims - 1)
      BY <1>1
    <3>2. Tallies(OutputPart(p, h, r, k, y - 1), U, X,
                  IF h = l /\ k = g /\ y - 1 = j THEN 1 ELSE 0)
      BY <1>4, <3>1
    <3> QED  BY <2>1, <3>2
  <2>6. Tallies(FlattenSeq(s), U, X, x)
    <3>1. CASE h = l /\ k = g
      <4>1. j + 1 \in 1..dims /\ (j + 1) - 1 = j
        BY <1>1
      <4>2. Tallies(s[j + 1], U, X, 1)
        BY <2>5, <3>1, <4>1
      <4>3. ASSUME NEW y \in 1..dims, y # j + 1
            PROVE  Tallies(s[y], U, X, 0)
        <5>1. y - 1 # j
          BY <1>1, <4>1, <4>3
        <5> QED  BY <2>5, <5>1
      <4>4. 1 \in Nat
        OBVIOUS
      <4>5. Tallies(FlattenSeq(s), U, X, 1)
        BY <1>1, <2>1, <4>1, <4>2, <4>3, <4>4, TalliesTurn
      <4> QED  BY <3>1, <4>5
    <3>2. CASE ~(h = l /\ k = g)
      <4>1. \A y \in 1..dims : Tallies(s[y], U, X, 0)
        BY <2>5, <3>2
      <4>2. Tallies(FlattenSeq(s), U, X, dims * 0)
        BY <1>1, <2>1, <4>1, TalliesTurns
      <4>3. dims * 0 = 0
        BY <1>1
      <4> QED  BY <3>2, <4>2, <4>3
    <3> QED  BY <3>1, <3>2
  <2>7. Tallies(Append1(OutputStream(p, h, r, k)), U, X, 0)
    <3>1. j \in Nat
      BY <1>1
    <3> QED  BY <1>3, <3>1, TalliesOne
  <2> HIDE DEF x
  <2>8. Tallies(OutputOfRow(p, h, r, k), U, X, 0 + x)
    BY <2>2, <2>4, <2>6, <2>7, TalliesConcat
  <2> QED  BY <2>4, <2>8 DEF x
<1>6. ASSUME NEW h \in 0..(heads - 1), NEW r \in Nat
      PROVE  Tallies(OutputOfHead(p, h, r), U, X, IF h = l THEN 1 ELSE 0)
  <2> DEFINE s == [y \in 1..rows |-> OutputOfRow(p, h, r, y - 1)]
  <2>1. s = [y \in 1..rows |-> s[y]] /\ \A y \in 1..rows : s[y] = OutputOfRow(p, h, r, y - 1)
    OBVIOUS
  <2>2. OutputOfHead(p, h, r) = FlattenSeq(s)
    BY DEF OutputOfHead, rows
  <2> HIDE DEF s
  <2>3. ASSUME NEW y \in 1..rows
        PROVE  Tallies(s[y], U, X, IF h = l /\ y - 1 = g THEN 1 ELSE 0)
    <3>1. y - 1 \in 0..(rows - 1)
      BY <1>1
    <3>2. Tallies(OutputOfRow(p, h, r, y - 1), U, X, IF h = l /\ y - 1 = g THEN 1 ELSE 0)
      BY <1>5, <3>1
    <3> QED  BY <2>1, <3>2
  <2>4. CASE h = l
    <3>1. g + 1 \in 1..rows /\ (g + 1) - 1 = g
      BY <1>1
    <3>2. Tallies(s[g + 1], U, X, 1)
      BY <2>3, <2>4, <3>1
    <3>3. ASSUME NEW y \in 1..rows, y # g + 1
          PROVE  Tallies(s[y], U, X, 0)
      <4>1. y - 1 # g
        BY <1>1, <3>1, <3>3
      <4> QED  BY <2>3, <4>1
    <3>4. 1 \in Nat
      OBVIOUS
    <3>5. \A y \in 1..rows : y # g + 1 => Tallies(s[y], U, X, 0)
      BY <3>3
    <3>6. s = [y \in 1..rows |-> s[y]] /\ rows \in Nat
      BY <1>1, <2>1
    <3>7. Tallies(FlattenSeq(s), U, X, 1)
      BY <3>1, <3>2, <3>4, <3>5, <3>6, TalliesTurn
    <3> QED  BY <2>2, <2>4, <3>7
  <2>5. CASE h # l
    <3>1. \A y \in 1..rows : Tallies(s[y], U, X, 0)
      BY <2>3, <2>5
    <3>2. Tallies(FlattenSeq(s), U, X, rows * 0)
      BY <1>1, <2>1, <3>1, TalliesTurns
    <3>3. rows * 0 = 0
      BY <1>1
    <3> QED  BY <2>2, <2>5, <3>2, <3>3
  <2> QED  BY <2>4, <2>5
<1>7. ASSUME NEW h \in 0..(heads - 1)
      PROVE  Tallies(OutputOfQueries(p, h), U, X, IF h = l THEN m ELSE 0)
  <2> DEFINE s == [y \in 1..m |-> OutputOfHead(p, h, y - 1)]
             x == IF h = l THEN 1 ELSE 0
  <2>1. s = [y \in 1..m |-> s[y]] /\ \A y \in 1..m : s[y] = OutputOfHead(p, h, y - 1)
    OBVIOUS
  <2>2. OutputOfQueries(p, h) = FlattenSeq(s)
    BY DEF OutputOfQueries, m
  <2>3. x \in Nat /\ m * x = IF h = l THEN m ELSE 0
    BY <1>1
  <2>4. \A y \in 1..m : Tallies(OutputOfHead(p, h, y - 1), U, X, x)
    <3>1. \A y \in 1..m : y - 1 \in Nat
      BY <1>1
    <3> QED  BY <1>6, <3>1
  <2> HIDE DEF s, x
  <2>5. Tallies(FlattenSeq(s), U, X, m * x)
    BY <1>1, <2>1, <2>3, <2>4, TalliesTurns
  <2> QED  BY <2>2, <2>3, <2>5
<1>8. Tallies(OutputProgram(p), U, X, m)
  <2> DEFINE s == [y \in 1..heads |-> OutputOfQueries(p, y - 1)]
  <2>1. s = [y \in 1..heads |-> s[y]] /\ \A y \in 1..heads : s[y] = OutputOfQueries(p, y - 1)
    OBVIOUS
  <2>2. OutputProgram(p) = FlattenSeq(s)
    BY DEF OutputProgram, heads
  <2> HIDE DEF s
  <2>3. ASSUME NEW y \in 1..heads
        PROVE  Tallies(s[y], U, X, IF y - 1 = l THEN m ELSE 0)
    <3>1. y - 1 \in 0..(heads - 1)
      BY <1>1
    <3>2. Tallies(OutputOfQueries(p, y - 1), U, X, IF y - 1 = l THEN m ELSE 0)
      BY <1>7, <3>1
    <3> QED  BY <2>1, <3>2
  <2>4. l + 1 \in 1..heads /\ (l + 1) - 1 = l
    BY <1>1
  <2>5. Tallies(s[l + 1], U, X, m)
    BY <2>3, <2>4
  <2>6. ASSUME NEW y \in 1..heads, y # l + 1
        PROVE  Tallies(s[y], U, X, 0)
    <3>1. y - 1 # l
      BY <1>1, <2>4, <2>6
    <3> QED  BY <2>3, <3>1
  <2>7. Tallies(FlattenSeq(s), U, X, m)
    BY <1>1, <2>1, <2>4, <2>5, <2>6, TalliesTurn
  <2> QED  BY <2>2, <2>7
<1> QED  BY <1>8 DEF U, X, m

-----------------------------------------------------------------------------
(* Steps of the output stage that start with one that loads scores.        *)
Leading(p, s) == IsListing(s) /\ (Len(s) > 0 => s[1] \in OutputLoads(p))

\* One part of the stage after the other.
LEMMA LeadingConcat ==
  ASSUME NEW p, NEW s, NEW t, Leading(p, s), IsListing(t), Len(s) = 0 => Leading(p, t)
  PROVE  Leading(p, s \o t)
<1> DEFINE u == s \o t
           a == Len(s)
           b == Len(t)
<1>1. IsListing(s) /\ IsListing(u)
  BY InConcat DEF Leading
<1>2. /\ a \in Nat /\ b \in Nat /\ Len(u) = a + b
      /\ \A k \in 1..a : u[k] = s[k]
      /\ \A k \in 1..b : u[a + k] = t[k]
  <2>1. s \in Seq(Elements(s)) /\ t \in Seq(Elements(t))
    BY <1>1, ListsElements DEF Lists
  <2>2. \A S, T : s \in Seq(S) /\ t \in Seq(T) =>
          /\ Len(s) \in Nat /\ Len(t) \in Nat /\ Len(s \o t) = Len(s) + Len(t)
          /\ \A k \in 1..Len(s) : (s \o t)[k] = s[k]
          /\ \A k \in 1..Len(t) : (s \o t)[Len(s) + k] = t[k]
    OBVIOUS
  <2> QED  BY <2>1, <2>2
<1>3. /\ a > 0 => s[1] \in OutputLoads(p)
      /\ a = 0 /\ b > 0 => t[1] \in OutputLoads(p)
  BY DEF Leading
<1> HIDE DEF u, a, b
<1>4. CASE a > 0
  <2>1. u[1] = s[1]
    BY <1>2, <1>4
  <2> QED  BY <1>1, <1>3, <1>4, <2>1 DEF Leading, u
<1>5. CASE a = 0
  <2>1. Len(u) = b /\ (b > 0 => u[1] = t[1])
    <3>1. b > 0 => u[0 + 1] = t[1]
      BY <1>2, <1>5
    <3>2. 0 + 1 = 1
      OBVIOUS
    <3> QED  BY <1>2, <1>5, <3>1, <3>2
  <2> QED  BY <1>1, <1>3, <1>5, <2>1 DEF Leading, u
<1> QED  BY <1>2, <1>4, <1>5

\* A loop whose turns do.
LEMMA LeadingTurns ==
  ASSUME NEW p, NEW n \in Nat, NEW seqs, seqs = [i \in 1..n |-> seqs[i]],
         \A i \in 1..n : Leading(p, seqs[i])
  PROVE  Leading(p, FlattenSeq(seqs))
<1>1. \A i \in 1..n : IsListing(seqs[i])
  BY DEF Leading
<1>2. PICK f : Joined(f, seqs, n)
  BY <1>1, TurnsJoined
<1> DEFINE Wrong == {i \in 0..n : ~Leading(p, f[i])}
<1>3. Wrong = {}
  <2> SUFFICES ASSUME Wrong # {} PROVE FALSE
    OBVIOUS
  <2>1. PICK m \in Wrong : \A k \in Wrong : m <= k
    <3>1. Wrong \subseteq Nat
      OBVIOUS
    <3> HIDE DEF Wrong
    <3> QED  BY <3>1, LeastNatural
  <2>2. m \in 0..n /\ ~Leading(p, f[m])
    OBVIOUS
  <2>3. CASE m = 0
    <3>1. f[0] = <<>> /\ IsListing(<<>>) /\ Len(<<>>) = 0
      BY <1>2 DEF Joined, IsListing
    <3> QED  BY <2>2, <2>3, <3>1 DEF Leading
  <2>4. CASE m # 0
    <3>1. m \in 1..n /\ m - 1 \in 0..n /\ ~(m <= m - 1)
      BY <2>2, <2>4
    <3>2. Leading(p, f[m - 1])
      BY <2>1, <3>1
    <3>3. f[m] = f[m - 1] \o seqs[m] /\ Leading(p, seqs[m]) /\ IsListing(seqs[m])
      BY <1>1, <1>2, <3>1 DEF Joined
    <3> QED  BY <2>2, <3>2, <3>3, LeadingConcat
  <2> QED  BY <2>3, <2>4
<1>4. n \in 0..n
  OBVIOUS
<1> QED  BY <1>2, <1>3, <1>4 DEF Joined

\* Scores are in the Global Buffer before the first product.
LEMMA OutputLeads ==
  ASSUME NEW p, OutputSized(p)
  PROVE  Leading(p, OutputProgram(p))
<1> DEFINE heads == OutputHeads(p)
           rows == OutputRows(p)
           dims == OutputDimensions(p)
           m == p.spec.repeat
<1>1. heads \in Nat /\ rows \in Nat /\ dims \in Nat /\ m \in Nat
  BY DEF OutputSized
<1> HIDE DEF heads, rows, dims, m
<1>2. ASSUME NEW h, NEW r, NEW k, NEW d
      PROVE  IsListing(OutputPart(p, h, r, k, d))
  <2>1. /\ IsListing(Append1(OutputBias(p, h, r, k, d)))
        /\ IsListing(Append1(OutputMac(p, h, k, d)))
        /\ IsListing(Append1(OutputResult(p, h, r, d)))
    BY InStep DEF Append1
  <2> QED  BY <2>1, InConcat DEF OutputPart
<1>3. ASSUME NEW h \in 0..(heads - 1), NEW r \in Nat, NEW k \in 0..(rows - 1)
      PROVE  Leading(p, OutputOfRow(p, h, r, k))
  <2> DEFINE s == [y \in 1..dims |-> OutputPart(p, h, r, k, y - 1)]
             i == OutputStream(p, h, r, k)
             a == Append1(i)
  <2>1. s = [y \in 1..dims |-> s[y]] /\ \A y \in 1..dims : s[y] = OutputPart(p, h, r, k, y - 1)
    OBVIOUS
  <2>2. OutputOfRow(p, h, r, k) = a \o FlattenSeq(s)
    BY DEF OutputOfRow, dims
  <2>3. Appending(i) \in OutputLoads(p)
    BY OutputStepsAre DEF heads, rows
  <2>4. a = <<Appending(i)>> /\ IsListing(a)
    BY InStep DEF Append1, Appending
  <2> HIDE DEF s, a, i
  <2>5. Len(<<Appending(i)>>) = 1 /\ <<Appending(i)>>[1] = Appending(i)
    OBVIOUS
  <2>6. Leading(p, a) /\ Len(a) = 1
    BY <2>3, <2>4, <2>5 DEF Leading
  <2>7. \A y \in 1..dims : IsListing(s[y])
    BY <1>2, <2>1
  <2>8. IsListing(FlattenSeq(s))
    BY <1>1, <2>1, <2>7, InFlatten
  <2>9. Len(a) = 0 => Leading(p, FlattenSeq(s))
    BY <2>6
  <2>10. Leading(p, a \o FlattenSeq(s))
    BY <2>6, <2>8, <2>9, LeadingConcat
  <2> QED  BY <2>2, <2>10
<1>4. ASSUME NEW h \in 0..(heads - 1), NEW r \in Nat
      PROVE  Leading(p, OutputOfHead(p, h, r))
  <2> DEFINE s == [y \in 1..rows |-> OutputOfRow(p, h, r, y - 1)]
  <2>1. s = [y \in 1..rows |-> s[y]] /\ \A y \in 1..rows : s[y] = OutputOfRow(p, h, r, y - 1)
    OBVIOUS
  <2>2. OutputOfHead(p, h, r) = FlattenSeq(s)
    BY DEF OutputOfHead, rows
  <2>3. \A y \in 1..rows : y - 1 \in 0..(rows - 1)
    BY <1>1
  <2> HIDE DEF s
  <2>4. \A y \in 1..rows : Leading(p, s[y])
    BY <1>3, <2>1, <2>3
  <2> QED  BY <1>1, <2>1, <2>2, <2>4, LeadingTurns
<1>5. ASSUME NEW h \in 0..(heads - 1)
      PROVE  Leading(p, OutputOfQueries(p, h))
  <2> DEFINE s == [y \in 1..m |-> OutputOfHead(p, h, y - 1)]
  <2>1. s = [y \in 1..m |-> s[y]] /\ \A y \in 1..m : s[y] = OutputOfHead(p, h, y - 1)
    OBVIOUS
  <2>2. OutputOfQueries(p, h) = FlattenSeq(s)
    BY DEF OutputOfQueries, m
  <2>3. \A y \in 1..m : y - 1 \in Nat
    BY <1>1
  <2> HIDE DEF s
  <2>4. \A y \in 1..m : Leading(p, s[y])
    BY <1>4, <2>1, <2>3
  <2> QED  BY <1>1, <2>1, <2>2, <2>4, LeadingTurns
<1> DEFINE s == [y \in 1..heads |-> OutputOfQueries(p, y - 1)]
<1>6. s = [y \in 1..heads |-> s[y]] /\ \A y \in 1..heads : s[y] = OutputOfQueries(p, y - 1)
  OBVIOUS
<1>7. OutputProgram(p) = FlattenSeq(s)
  BY DEF OutputProgram, heads
<1>8. \A y \in 1..heads : y - 1 \in 0..(heads - 1)
  BY <1>1
<1> HIDE DEF s
<1>9. \A y \in 1..heads : Leading(p, s[y])
  BY <1>5, <1>6, <1>8
<1> QED  BY <1>1, <1>6, <1>7, <1>9, LeadingTurns

\* If there is a load, there is a last one.
LEMMA LoadBeforeIs ==
  ASSUME NEW code, NEW j \in Nat, NEW l \in 1..j, code[l].op = "WR_GB"
  PROVE  LoadBefore(code, j) \in 1..j /\ code[LoadBefore(code, j)].op = "WR_GB"
<1> DEFINE Away == {w \in 0..j : j - w \in 1..j /\ code[j - w].op = "WR_GB"}
<1>1. j - l \in Away
  <2>1. j - l \in 0..j /\ j - (j - l) = l
    OBVIOUS
  <2> QED  BY <2>1
<1>2. PICK w \in Away : \A v \in Away : w <= v
  <2>1. Away \subseteq Nat
    OBVIOUS
  <2> HIDE DEF Away
  <2> QED  BY <1>1, <2>1, LeastNatural
<1> DEFINE m == j - w
<1>3. w \in 0..j /\ m \in 1..j /\ code[m].op = "WR_GB"
  OBVIOUS
<1>4. ASSUME NEW n \in (m + 1)..j, code[n].op = "WR_GB"
      PROVE  FALSE
  <2>1. j - n \in 0..j /\ j - (j - n) = n /\ n \in 1..j /\ ~(w <= j - n)
    BY <1>3
  <2>2. j - n \in Away
    BY <1>4, <2>1
  <2> HIDE DEF Away
  <2> QED  BY <1>2, <2>1, <2>2
<1> HIDE DEF m, Away
<1>5. \E x \in 1..j : /\ code[x].op = "WR_GB"
                      /\ \A n \in (x + 1)..j : code[n].op # "WR_GB"
  BY <1>3, <1>4
<1> QED  BY <1>5 DEF LoadBefore

-----------------------------------------------------------------------------
(* The plan of the output stage of a request has the sizes it has. *)
LEMMA OutputStageSized ==
  ASSUME NEW r \in SizedRequest, Planned(r), NEW p, p = StagePlan(r, "output")
  PROVE  /\ OutputSized(p) /\ OutputRows(p) # 0
         /\ OutputHeads(p) = ValueHeads(r) /\ OutputDimensions(p) = ValueDimensions(r)
         /\ OutputSpan(p) = TokenRows(r) /\ OutputRows(p) = CeilDiv(r.length, DramColumns)
         /\ p.spec.repeat = r.heads \div r.kv_heads /\ p.spec.length = r.length
         /\ p.rows.value_cache.start = ValueStart(r) /\ p.buffers.scores.start \in Nat
<1>1. /\ p.spec = AttentionSpec(r) /\ p.rows.value_cache.start = ValueStart(r)
      /\ p.buffers.scores.start \in Nat
  BY OutputStagePlan, SpansNatural
<1>2. /\ ValidPlacement /\ r.length \in Nat \ {0} /\ r.max \in Nat /\ r.length <= r.max
      /\ HeadSize(r) \in Nat /\ r.kv_heads \in Nat
      /\ r.heads \div r.kv_heads \in Nat /\ ValueStart(r) \in Nat
  BY PlannedSizes, StartsNatural
<1>3. DramColumns \in Nat \ {0} /\ NumBanks \in Nat \ {0} /\ ChannelsPerBlock \in Nat \ {0}
  BY <1>2, Geometry
<1>4. /\ p.spec.kv_heads = r.kv_heads /\ p.spec.head = HeadSize(r) /\ p.spec.max = r.max
      /\ p.spec.length = r.length /\ p.spec.repeat = r.heads \div r.kv_heads
  BY <1>1 DEF AttentionSpec
<1>5. /\ OutputHeads(p) = ValueHeads(r) /\ OutputDimensions(p) = ValueDimensions(r)
      /\ OutputSpan(p) = TokenRows(r) /\ OutputRows(p) = CeilDiv(r.length, DramColumns)
  BY <1>4 DEF OutputHeads, ValueHeads, OutputDimensions, ValueDimensions, OutputSpan, TokenRows,
              OutputRows
<1>6. /\ OutputHeads(p) \in Nat /\ OutputDimensions(p) \in Nat
      /\ OutputSpan(p) \in Nat /\ OutputRows(p) \in Nat
      /\ \A k \in Nat : k < OutputSpan(p) <=> k * DramColumns < r.max
      /\ \A k \in Nat : k < OutputRows(p) <=> k * DramColumns < r.length
  BY <1>2, <1>3, <1>4, CeilDivBelow DEF OutputHeads, OutputDimensions, OutputSpan, OutputRows
<1>7. OutputRows(p) # 0
  <2>1. 0 * DramColumns < r.length
    BY <1>2, <1>3
  <2> QED  BY <1>6, <2>1
<1>8. OutputRows(p) <= OutputSpan(p)
  <2> DEFINE n == OutputSpan(p)
             m == n * DramColumns
  <2>1. m \in Nat /\ ~(m < r.max)
    BY <1>3, <1>6
  <2> HIDE DEF m
  <2>2. ~(m < r.length)
    BY <1>2, <2>1
  <2>3. ~(n < OutputRows(p))
    BY <1>6, <2>2 DEF m
  <2> QED  BY <1>6, <2>3
<1> QED  BY <1>1, <1>2, <1>4, <1>5, <1>6, <1>7, <1>8 DEF OutputSized

\* A token is in a column its row of tokens has a score for.
LEMMA TokenScored ==
  ASSUME NEW r \in SizedRequest, Planned(r), NEW t \in 0..(r.length - 1)
  PROVE  LET k == t \div DramColumns
             x == t % DramColumns
         IN  /\ k \in 0..(CeilDiv(r.length, DramColumns) - 1)
             /\ x \in 0..(Lanes(RowBursts(r.length, k)) - 1)
             /\ k * DramColumns + x = t
<1> DEFINE rows == CeilDiv(r.length, DramColumns)
           k == t \div DramColumns
           x == t % DramColumns
           m == k * DramColumns
<1>1. ValidPlacement /\ r.length \in Nat \ {0} /\ t \in Nat
  BY PlannedSizes
<1>2. DramColumns \in Nat \ {0} /\ BurstLength \in Nat \ {0}
  BY <1>1, Geometry
<1>3. k \in Nat /\ x \in 0..(DramColumns - 1) /\ t = k * DramColumns + x
  BY <1>1, <1>2, Parts
<1> HIDE DEF k, x
<1>4. m \in Nat /\ t = m + x
  BY <1>2, <1>3
<1> HIDE DEF m
<1>5. m < r.length /\ x < r.length - m
  BY <1>1, <1>2, <1>3, <1>4
<1>6. k \in 0..(rows - 1)
  <2>1. rows \in Nat /\ (k < rows <=> k * DramColumns < r.length)
    BY <1>1, <1>2, <1>3, CeilDivBelow
  <2>2. k < rows
    BY <1>5, <2>1 DEF m
  <2> HIDE DEF rows
  <2> QED  BY <1>3, <2>1, <2>2
<1>7. x \in 0..(Lanes(RowBursts(r.length, k)) - 1)
  <2> DEFINE count == InRow(r.length, k)
             size == CeilDiv(count, BurstLength)
  <2>1. count \in Nat /\ x < count
    <3>1. count = Lesser(DramColumns, r.length - m)
      BY DEF InRow, m
    <3> HIDE DEF count
    <3> QED  BY <1>1, <1>2, <1>3, <1>4, <1>5, <3>1 DEF Lesser
  <2> HIDE DEF count
  <2>2. size \in Nat /\ ~(size < size)
    BY <1>2, <2>1, CeilDivBelow
  <2>3. size * BurstLength >= count
    <3>1. \A z \in Nat : z < size <=> z * BurstLength < count
      BY <1>2, <2>1, CeilDivBelow
    <3> HIDE DEF size
    <3>2. ~(size * BurstLength < count) /\ size * BurstLength \in Nat
      BY <1>2, <2>2, <3>1
    <3> QED  BY <2>1, <3>2
  <2>4. Lanes(RowBursts(r.length, k)) = size * BurstLength
    BY DEF Lanes, RowBursts, count
  <2> HIDE DEF size
  <2> DEFINE lanes == size * BurstLength
  <2>5. lanes \in Nat /\ lanes >= count
    BY <1>2, <2>2, <2>3
  <2> HIDE DEF lanes
  <2>6. x \in 0..(lanes - 1)
    BY <1>3, <2>1, <2>5
  <2> QED  BY <2>4, <2>6 DEF lanes
<1> QED  BY <1>3, <1>6, <1>7 DEF k, x, rows

(* The program of the output stage and its steps.                          *)
OutputMade(p, code, rest) ==
  /\ OutputSized(p) /\ OutputRows(p) # 0
  /\ IsListing(rest) /\ \A x : In(x, rest) => x \in OutputSteps(p)
  /\ Appends(code, rest)
  /\ Leading(p, rest)

(* A product of the output stage. *)
IsOutputOf(p, i) ==
  \E h \in 0..(OutputHeads(p) - 1) : \E k \in 0..(OutputRows(p) - 1) :
    \E d \in 0..(OutputDimensions(p) - 1) : i = OutputMac(p, h, k, d)

\* A step appends a product of a row, or something else.
LEMMA OutputStepIs ==
  ASSUME NEW p, NEW s \in OutputSteps(p)
  PROVE  \E i : /\ s = Appending(i)
                /\ i.op = "MAC_ABK" => IsOutputOf(p, i)
                /\ i.op = "WR_GB" <=> s \in OutputLoads(p)
<1>1. CASE s \in OutputOthers(p)
  <2>1. PICK i : s = Appending(i) /\ i.op # "MAC_ABK" /\ (i.op = "WR_GB" <=> s \in OutputLoads(p))
    BY <1>1, OutputOthersAre
  <2> QED  BY <2>1
<1>2. CASE s \notin OutputOthers(p)
  <2>1. PICK k \in 0..(OutputRows(p) - 1) : s \in OutputProducts(p, k)
    BY <1>2 DEF OutputSteps
  <2>2. PICK h \in 0..(OutputHeads(p) - 1) : \E d \in 0..(OutputDimensions(p) - 1) :
               s = Appending(OutputMac(p, h, k, d))
    BY <2>1, InOutputProducts
  <2>3. PICK d \in 0..(OutputDimensions(p) - 1) : s = Appending(OutputMac(p, h, k, d))
    BY <2>2
  <2>4. IsOutputOf(p, OutputMac(p, h, k, d)) /\ OutputMac(p, h, k, d).op = "MAC_ABK"
    BY DEF IsOutputOf, OutputMac, Mac
  <2>5. s \notin OutputLoads(p)
    BY <1>2 DEF OutputOthers
  <2> QED  BY <2>3, <2>4, <2>5
<1> QED  BY <1>1, <1>2

\* What an instruction of the stage is, and what loads it follows.
LEMMA OutputCode ==
  ASSUME NEW p, NEW code, NEW rest, OutputMade(p, code, rest), NEW j \in 1..Len(rest)
  PROVE  /\ rest[j] = Appending(code[j])
         /\ code[j].op = "MAC_ABK" => IsOutputOf(p, code[j])
         /\ code[j].op = "WR_GB" <=> rest[j] \in OutputLoads(p)
<1>1. \A a, b : Appending(a) = Appending(b) => a = b
  BY DEF Appending
<1>2. rest[j] = Appending(code[j]) /\ rest[j] \in OutputSteps(p)
  <2>1. In(rest[j], rest)
    BY DEF In
  <2> QED  BY <2>1 DEF OutputMade, Appends
<1>3. PICK i : /\ rest[j] = Appending(i)
               /\ i.op = "MAC_ABK" => IsOutputOf(p, i)
               /\ i.op = "WR_GB" <=> rest[j] \in OutputLoads(p)
  BY <1>2, OutputStepIs
<1>4. i = code[j]
  BY <1>1, <1>2, <1>3
<1> QED  BY <1>2, <1>3, <1>4

\* Before every product the Global Buffers take the score span, from column zero on.
LEMMA ScoresLoaded ==
  ASSUME NEW p, NEW code, NEW rest, OutputMade(p, code, rest), NEW j \in 1..Len(rest)
  PROVE  LET load == code[LoadBefore(code, j)]
         IN  load.slot = p.buffers.scores.start /\ load.column = 0
<1>1. Len(rest) \in Nat /\ Len(rest) > 0
  BY DEF OutputMade, IsListing
<1>2. j \in Nat /\ 1 \in 1..j /\ 1 \in 1..Len(rest) /\ \A n \in 1..j : n \in 1..Len(rest)
  BY <1>1
<1>3. rest[1] \in OutputLoads(p)
  BY <1>1 DEF OutputMade, Leading
<1>4. code[1].op = "WR_GB"
  BY <1>2, <1>3, OutputCode
<1> DEFINE m == LoadBefore(code, j)
<1>5. m \in 1..j /\ code[m].op = "WR_GB"
  BY <1>2, <1>4, LoadBeforeIs
<1> HIDE DEF m
<1>6. rest[m] = Appending(code[m]) /\ rest[m] \in OutputLoads(p)
  BY <1>2, <1>5, OutputCode
<1>7. PICK w \in Nat \X Nat \X Nat : rest[m] = Appending(OutputStream(p, w[1], w[2], w[3]))
  BY <1>6 DEF OutputLoads
<1>8. code[m] = OutputStream(p, w[1], w[2], w[3])
  <2>1. \A a, b : Appending(a) = Appending(b) => a = b
    BY DEF Appending
  <2> QED  BY <1>6, <1>7, <2>1
<1>9. \A h, r, k : /\ OutputStream(p, h, r, k).slot = p.buffers.scores.start
                   /\ OutputStream(p, h, r, k).column = 0
  BY DEF OutputStream, WriteGlobal
<1> QED  BY <1>8, <1>9 DEF m

\* The reads of a cell.
ReadsOf(reads, cell) == {read \in reads : read.cell = cell}

(* What a product of the output stage reads.                               *)
LEMMA ValueReadsOf ==
  ASSUME NEW p, NEW code, NEW rest, OutputMade(p, code, rest), DOMAIN code = 1..Len(rest),
         p.buffers.scores.start \in Nat, p.spec.length \in Nat,
         BurstLength \in Nat \ {0}, DramColumns \in Nat, NEW read
  PROVE  read \in ValueReads(code, p.buffers.scores.start)
           <=> \E j \in ProductsOf(code) :
                 \E c \in Range(code[j].channels), x \in 0..(Lanes(code[j].size) - 1) :
                   read = [by |-> j, cell |-> <<c, code[j].row, x>>, lane |-> x]
<1> DEFINE scores == p.buffers.scores.start
           reads(j) ==
             LET load == code[LoadBefore(code, j)]
                 first == (load.slot - scores) * BurstLength - load.column
             IN  {[by |-> j, cell |-> <<c, code[j].row, x>>, lane |-> first + x] :
                    c \in Range(code[j].channels),
                    x \in code[j].column..(code[j].column + Lanes(code[j].size) - 1)}
<1>1. ValueReads(code, scores) = UNION {reads(j) : j \in ProductsOf(code)}
  BY DEF ValueReads
<1> HIDE DEF scores
<1>2. ASSUME NEW j \in ProductsOf(code)
      PROVE  read \in reads(j)
               <=> \E c \in Range(code[j].channels), x \in 0..(Lanes(code[j].size) - 1) :
                     read = [by |-> j, cell |-> <<c, code[j].row, x>>, lane |-> x]
  <2> DEFINE load == code[LoadBefore(code, j)]
             first == (load.slot - scores) * BurstLength - load.column
             n == Lanes(code[j].size)
             C == Range(code[j].channels)
  <2>1. j \in 1..Len(rest) /\ code[j].op = "MAC_ABK"
    BY DEF ProductsOf
  <2>2. load.slot = scores /\ load.column = 0
    BY <2>1, ScoresLoaded DEF scores
  <2>3. first = 0
    <3>1. \A s \in Nat, b \in Nat : (s - s) * b - 0 = 0
      OBVIOUS
    <3> HIDE DEF load
    <3> QED  BY <2>2, <3>1 DEF scores
  <2>4. code[j].column = 0 /\ n \in Int
    <3>1. IsOutputOf(p, code[j])
      BY <2>1, OutputCode
    <3>2. PICK g \in 0..(OutputHeads(p) - 1) : \E k \in 0..(OutputRows(p) - 1) :
            \E d \in 0..(OutputDimensions(p) - 1) : code[j] = OutputMac(p, g, k, d)
      BY <3>1 DEF IsOutputOf
    <3>3. PICK k \in 0..(OutputRows(p) - 1) :
            \E d \in 0..(OutputDimensions(p) - 1) : code[j] = OutputMac(p, g, k, d)
      BY <3>2
    <3>4. code[j].column = 0 /\ code[j].size = RowBursts(p.spec.length, k)
      BY <3>3 DEF OutputMac, Mac
    <3>5. Lanes(RowBursts(p.spec.length, k)) \in Int
      <4> DEFINE count == InRow(p.spec.length, k)
      <4>1. count \in Int
        BY DEF InRow, Lesser
      <4> HIDE DEF count
      <4>2. CeilDiv(count, BurstLength) \in Int
        BY <4>1 DEF CeilDiv
      <4> QED  BY <4>2 DEF Lanes, RowBursts, count
    <3> QED  BY <3>4, <3>5
  <2>5. \A x \in 0..(n - 1) : first + x = x
    BY <2>3
  <2>6. code[j].column..(code[j].column + n - 1) = 0..(n - 1)
    BY <2>4
  <2>7. read \in reads(j)
          <=> \E c \in C, x \in code[j].column..(code[j].column + n - 1) :
                read = [by |-> j, cell |-> <<c, code[j].row, x>>, lane |-> first + x]
    OBVIOUS
  <2> HIDE DEF load, first, n, C, reads
  <2>8. read \in reads(j)
          <=> \E c \in C, x \in 0..(n - 1) :
                read = [by |-> j, cell |-> <<c, code[j].row, x>>, lane |-> first + x]
    BY <2>6, <2>7
  <2>9. read \in reads(j)
          <=> \E c \in C, x \in 0..(n - 1) :
                read = [by |-> j, cell |-> <<c, code[j].row, x>>, lane |-> x]
    BY <2>5, <2>8
  <2> QED  BY <2>9 DEF n, C
<1> HIDE DEF reads
<1>3. read \in ValueReads(code, scores) <=> \E j \in ProductsOf(code) : read \in reads(j)
  BY <1>1
<1> QED  BY <1>2, <1>3 DEF scores

(* The output stage reads the cell of a token, of a head and a group of    *)
(* dimensions, with the lane of the score span its token has in a row of   *)
(* tokens, as often as query heads share the head.                         *)
LEMMA ValuesCounted ==
  ASSUME NEW r \in SizedRequest, Planned(r), NEW t \in 0..(r.length - 1),
         NEW h \in 0..(ValueHeads(r) - 1), NEW d \in 0..(ValueDimensions(r) - 1),
         NEW c \in 0..(ChannelsPerBlock - 1)
  PROVE  LET S == ReadsOf(MetWith(r).values, ValueCell(r, t, h, d, c))
         IN  /\ Cardinality(S) = r.heads \div r.kv_heads
             /\ \A read \in S : read.lane = t % DramColumns
<1> DEFINE p == StagePlan(r, "output")
           code == Batches(AttentionOutput(p))
           scores == p.buffers.scores.start
           rest == OutputProgram(p)
           k == t \div DramColumns
           x == t % DramColumns
           cell == ValueCell(r, t, h, d, c)
           mac == OutputMac(p, h, k, d)
           S == ReadsOf(MetWith(r).values, cell)
<1>1. /\ OutputSized(p) /\ OutputRows(p) # 0
      /\ OutputHeads(p) = ValueHeads(r) /\ OutputDimensions(p) = ValueDimensions(r)
      /\ OutputSpan(p) = TokenRows(r) /\ OutputRows(p) = CeilDiv(r.length, DramColumns)
      /\ p.spec.repeat = r.heads \div r.kv_heads /\ p.spec.length = r.length
      /\ p.rows.value_cache.start = ValueStart(r) /\ scores \in Nat
  BY OutputStageSized
<1>2. MetWith(r).values = ValueReads(code, scores)
  BY DEF MetWith
<1> HIDE DEF p
<1>3. /\ k \in 0..(OutputRows(p) - 1) /\ x \in 0..(Lanes(RowBursts(r.length, k)) - 1)
      /\ k * DramColumns + x = t
  BY <1>1, TokenScored
<1>4. h \in 0..(OutputHeads(p) - 1) /\ d \in 0..(OutputDimensions(p) - 1) /\ h \in Nat
  <2>1. OutputHeads(p) \in Nat
    BY <1>1 DEF OutputSized
  <2> QED  BY <1>1, <2>1
<1>5. c \in Range(AllChannels)
  <2>1. ValidPlacement
    BY PlannedSizes
  <2>2. /\ ChannelsPerBlock \in Nat \ {0} /\ Copies \in Nat \ {0}
        /\ NumChannels = Copies * ChannelsPerBlock
    BY <2>1, Geometry
  <2>3. \A a, b \in Nat \ {0} : a * b \in Nat /\ b <= a * b
    OBVIOUS
  <2>4. NumChannels \in Nat /\ ChannelsPerBlock <= NumChannels
    BY <2>2, <2>3
  <2>5. c + 1 \in 1..NumChannels /\ (c + 1) - 1 = c
    BY <2>2, <2>4
  <2>6. c + 1 \in DOMAIN AllChannels /\ AllChannels[c + 1] = c
    BY <2>5 DEF AllChannels
  <2> QED  BY <2>6 DEF Range
<1>6. /\ mac.op = "MAC_ABK" /\ mac.channels = AllChannels
      /\ mac.row = ValueStart(r) + ValueRow(TokenRows(r), ValueDimensions(r), h, d, k)
      /\ mac.size = RowBursts(r.length, k)
  <2> HIDE DEF k
  <2>1. /\ mac.op = "MAC_ABK" /\ mac.channels = AllChannels
        /\ mac.row = p.rows.value_cache.start
                       + ValueRow(OutputSpan(p), OutputDimensions(p), h, d, k)
        /\ mac.size = RowBursts(p.spec.length, k)
    BY DEF OutputMac, Mac
  <2> QED  BY <1>1, <2>1
<1>7. cell = <<c, mac.row, x>>
  BY <1>6 DEF ValueCell
<1> HIDE DEF k, x, cell
<1> DEFINE X == {Appending(mac)}
           A == At(rest, X)
<1>8. /\ IsListing(rest) /\ \A z : In(z, rest) => z \in OutputSteps(p)
      /\ IsFiniteSet(A) /\ Cardinality(A) = p.spec.repeat
  BY <1>1, <1>3, <1>4, OutputTally DEF Tallies
<1>9. OutputMade(p, code, rest)
  <2>1. Leading(p, rest)
    BY <1>1, OutputLeads
  <2>2. Appends(code, rest)
    <3>1. PICK ok : AttentionOutput(p) = Check(ok) \o rest
      BY OutputIsProgram
    <3>2. \A j \in 1..Len(rest) : In(rest[j], rest)
      BY DEF In
    <3>3. \A j \in 1..Len(rest) : \E i : rest[j] = Appending(i)
      BY <1>8, <3>2, OutputStepIs
    <3> HIDE DEF rest
    <3> QED  BY <1>8, <3>1, <3>3, BatchesOfAppends
  <2> QED  BY <1>1, <1>8, <2>1, <2>2 DEF OutputMade
<1> HIDE DEF code, rest, mac, scores
<1>10. \A u, v : Appending(u) = Appending(v) => u = v
  BY DEF Appending
<1>11. DOMAIN code = 1..Len(rest)
  BY <1>9 DEF OutputMade, Appends
<1>12. \A j : j \in A <=> j \in DOMAIN code /\ code[j] = mac
  <2>1. \A j : j \in A <=> j \in 1..Len(rest) /\ rest[j] = Appending(mac)
    BY DEF At
  <2>2. \A j \in 1..Len(rest) : rest[j] = Appending(code[j])
    BY <1>9, OutputCode
  <2>3. \A j \in 1..Len(rest) : rest[j] = Appending(mac) <=> code[j] = mac
    BY <1>10, <2>2
  <2> HIDE DEF A
  <2> QED  BY <1>11, <2>1, <2>3
<1> HIDE DEF A
<1>13. \A read : read \in ValueReads(code, scores)
                   <=> \E j \in ProductsOf(code) :
                         \E e \in Range(code[j].channels), y \in 0..(Lanes(code[j].size) - 1) :
                           read = [by |-> j, cell |-> <<e, code[j].row, y>>, lane |-> y]
  <2>1. BurstLength \in Nat \ {0} /\ DramColumns \in Nat /\ p.spec.length \in Nat
    BY <1>1, PlannedSizes, Geometry
  <2>2. p.buffers.scores.start \in Nat
    BY <1>1 DEF scores
  <2>3. ASSUME NEW read
        PROVE  read \in ValueReads(code, p.buffers.scores.start)
                 <=> \E j \in ProductsOf(code) :
                       \E e \in Range(code[j].channels), y \in 0..(Lanes(code[j].size) - 1) :
                         read = [by |-> j, cell |-> <<e, code[j].row, y>>, lane |-> y]
    BY <1>9, <1>11, <2>1, <2>2, ValueReadsOf
  <2> QED  BY <2>3 DEF scores
<1> DEFINE f == [j \in A |-> [by |-> j, cell |-> cell, lane |-> x]]
<1>14. \A j \in A : /\ f[j] = [by |-> j, cell |-> cell, lane |-> x]
                    /\ f[j].by = j /\ f[j].cell = cell /\ f[j].lane = x
  OBVIOUS
<1>15. f = [j \in A |-> f[j]]
  OBVIOUS
<1> HIDE DEF f
<1>16. ASSUME NEW j \in A
       PROVE  f[j] \in S
  <2>1. j \in ProductsOf(code) /\ code[j] = mac
    BY <1>6, <1>12 DEF ProductsOf
  <2>2. f[j] = [by |-> j, cell |-> <<c, code[j].row, x>>, lane |-> x]
    BY <1>7, <1>14, <2>1
  <2>3. c \in Range(code[j].channels) /\ x \in 0..(Lanes(code[j].size) - 1)
    BY <1>3, <1>5, <1>6, <2>1
  <2>4. f[j] \in ValueReads(code, scores)
    BY <1>13, <2>1, <2>2, <2>3
  <2> QED  BY <1>2, <1>14, <2>4 DEF ReadsOf
<1>17. ASSUME NEW read \in S
       PROVE  \E j \in A : f[j] = read
  <2>1. read \in ValueReads(code, scores) /\ read.cell = cell
    BY <1>2 DEF ReadsOf
  <2>2. PICK j \in ProductsOf(code) :
          \E e \in Range(code[j].channels), y \in 0..(Lanes(code[j].size) - 1) :
            read = [by |-> j, cell |-> <<e, code[j].row, y>>, lane |-> y]
    BY <1>13, <2>1
  <2>3. PICK e \in Range(code[j].channels), y \in 0..(Lanes(code[j].size) - 1) :
          read = [by |-> j, cell |-> <<e, code[j].row, y>>, lane |-> y]
    BY <2>2
  <2>4. read.cell = <<e, code[j].row, y>>
    BY <2>3
  <2>5. code[j].row = mac.row /\ y = x
    BY <1>7, <2>1, <2>4
  <2>6. j \in 1..Len(rest) /\ code[j].op = "MAC_ABK"
    BY <1>11 DEF ProductsOf
  <2>7. IsOutputOf(p, code[j])
    BY <1>9, <2>6, OutputCode
  <2>8. PICK g \in 0..(OutputHeads(p) - 1) : \E l \in 0..(OutputRows(p) - 1) :
          \E b \in 0..(OutputDimensions(p) - 1) : code[j] = OutputMac(p, g, l, b)
    BY <2>7 DEF IsOutputOf
  <2>9. PICK l \in 0..(OutputRows(p) - 1) :
          \E b \in 0..(OutputDimensions(p) - 1) : code[j] = OutputMac(p, g, l, b)
    BY <2>8
  <2>10. PICK b \in 0..(OutputDimensions(p) - 1) : code[j] = OutputMac(p, g, l, b)
    BY <2>9
  <2>11. g = h /\ l = k /\ b = d
    <3>1. g \in Nat
      <4>1. OutputHeads(p) \in Nat
        BY <1>1 DEF OutputSized
      <4> QED  BY <4>1
    <3>2. OutputMac(p, g, l, b).row = OutputMac(p, h, k, d).row
      BY <2>5, <2>10 DEF mac
    <3> QED  BY <1>1, <1>3, <1>4, <3>1, <3>2, OutputsDiffer
  <2>12. j \in A
    BY <1>11, <1>12, <2>6, <2>10, <2>11 DEF mac
  <2>13. f[j] = read
    BY <1>14, <2>1, <2>3, <2>5, <2>12
  <2> QED  BY <2>12, <2>13
<1>18. \A u, v \in A : f[u] = f[v] => u = v
  BY <1>14
<1> HIDE DEF S
<1>19. Cardinality(S) = Cardinality(A)
  BY <1>8, <1>15, <1>16, <1>17, <1>18, SameCount
<1>20. \A read \in S : read.lane = x
  <2>1. \A j \in A : f[j].lane = x
    BY <1>14
  <2> QED  BY <1>17, <2>1
<1>21. Cardinality(S) = r.heads \div r.kv_heads
  BY <1>1, <1>8, <1>19
<1> QED  BY <1>20, <1>21 DEF S, cell, x

\* Two cells of a token are not the same.
LEMMA ValueCellsDiffer ==
  ASSUME NEW r \in SizedRequest, Planned(r), NEW t \in 0..(r.max - 1),
         NEW h \in 0..(ValueHeads(r) - 1), NEW d \in 0..(ValueDimensions(r) - 1), NEW c,
         NEW g \in 0..(ValueHeads(r) - 1), NEW e \in 0..(ValueDimensions(r) - 1), NEW b,
         ValueCell(r, t, h, d, c) = ValueCell(r, t, g, e, b)
  PROVE  h = g /\ d = e /\ c = b
<1> DEFINE q == t \div DramColumns
           T == TokenRows(r)
           V == ValueDimensions(r)
           m == h * V + d
           n == g * V + e
<1>1. /\ ValidPlacement /\ ValueStart(r) \in Nat /\ r.kv_heads \in Nat /\ HeadSize(r) \in Nat
      /\ r.max \in Nat
  BY PlannedSizes, StartsNatural
<1>2. DramColumns \in Nat \ {0} /\ NumBanks \in Nat \ {0} /\ ChannelsPerBlock \in Nat \ {0}
  BY <1>1, Geometry
<1>3. ValueHeads(r) \in Nat /\ V \in Nat /\ T \in Nat
  BY <1>1, <1>2, CeilDivBelow DEF ValueHeads, ValueDimensions, TokenRows
<1>4. q \in 0..(T - 1)
  BY TokenRow
<1>5. c = b /\ ValueStart(r) + ValueRow(T, V, h, d, q) = ValueStart(r) + ValueRow(T, V, g, e, q)
  BY DEF ValueCell
<1>6. ValueRow(T, V, h, d, q) = m * T + q /\ ValueRow(T, V, g, e, q) = n * T + q
  BY DEF ValueRow
<1>7. /\ h \in Nat /\ g \in Nat /\ d \in 0..(V - 1) /\ e \in 0..(V - 1) /\ V \in Nat \ {0}
      /\ T \in Nat \ {0}
  <2>1. d \in 0..(V - 1) /\ e \in 0..(V - 1)
    OBVIOUS
  <2> HIDE DEF V, T, q
  <2> QED  BY <1>3, <1>4, <2>1
<1> HIDE DEF T, V, q
<1>8. m \in Nat /\ n \in Nat
  BY <1>7
<1> HIDE DEF m, n
<1>9. m * T + q = n * T + q
  <2> DEFINE x == m * T
             y == n * T
  <2>1. x \in Nat /\ y \in Nat
    BY <1>7, <1>8
  <2>2. ValueStart(r) + (x + q) = ValueStart(r) + (y + q)
    BY <1>5, <1>6
  <2> HIDE DEF x, y
  <2>3. x + q = y + q
    BY <1>1, <1>4, <1>7, <2>1, <2>2
  <2> QED  BY <2>3 DEF x, y
<1>10. m = n
  BY <1>4, <1>7, <1>8, <1>9, PartsUnique
<1>11. h = g /\ d = e
  BY <1>7, <1>10, PartsUnique DEF m, n
<1> QED  BY <1>5, <1>11

\* The cell of a token that a part is in is not another's.
LEMMA ValuePartCell ==
  ASSUME NEW r \in SizedRequest, Planned(r),
         NEW h \in 0..(ValueHeads(r) - 1), NEW d \in 0..(ValueDimensions(r) - 1),
         NEW c \in 0..(ChannelsPerBlock - 1),
         NEW g \in 0..(ValueHeads(r) - 1), NEW e \in 0..(ValueDimensions(r) - 1),
         NEW b \in 0..(ChannelsPerBlock - 1),
         (c * ValueHeads(r) + h) * ValueDimensions(r) + d
           = (b * ValueHeads(r) + g) * ValueDimensions(r) + e
  PROVE  h = g /\ d = e /\ c = b
<1> DEFINE H == ValueHeads(r)
           D == ValueDimensions(r)
           m == c * H + h
           n == b * H + g
<1>1. H \in Nat /\ D \in Nat /\ ChannelsPerBlock \in Nat
  <2>1. /\ ValidPlacement /\ r.kv_heads \in Nat /\ HeadSize(r) \in Nat
    BY PlannedSizes
  <2>2. NumBanks \in Nat \ {0} /\ ChannelsPerBlock \in Nat \ {0}
    BY <2>1, Geometry
  <2> QED  BY <2>1, <2>2, CeilDivBelow DEF ValueHeads, ValueDimensions
<1> HIDE DEF H, D
<1>2. /\ H \in Nat \ {0} /\ D \in Nat \ {0} /\ h \in 0..(H - 1) /\ g \in 0..(H - 1)
      /\ d \in 0..(D - 1) /\ e \in 0..(D - 1) /\ c \in Nat /\ b \in Nat
  <2>1. h \in 0..(H - 1) /\ g \in 0..(H - 1) /\ d \in 0..(D - 1) /\ e \in 0..(D - 1)
    BY DEF H, D
  <2> QED  BY <1>1, <2>1
<1>3. m \in Nat /\ n \in Nat
  BY <1>2
<1>4. m * D + d = n * D + e
  BY DEF H, D
<1> HIDE DEF m, n
<1>5. m = n /\ d = e
  BY <1>2, <1>3, <1>4, PartsUnique
<1>6. c = b /\ h = g
  BY <1>2, <1>5, PartsUnique DEF m, n
<1> QED  BY <1>5, <1>6

\* Where a part of a value is.
LEMMA ValuePartPlace ==
  ASSUME NEW r \in SizedRequest, Planned(r),
         NEW part \in 0..(r.kv_heads * ValueDimensions(r) - 1)
  PROVE  \E h \in 0..(ValueHeads(r) - 1) : \E d \in 0..(ValueDimensions(r) - 1) :
           \E c \in 0..(ChannelsPerBlock - 1) :
             /\ HeadExists(r, h, c)
             /\ part = (c * ValueHeads(r) + h) * ValueDimensions(r) + d
<1> DEFINE H == ValueHeads(r)
           D == ValueDimensions(r)
           v == r.kv_heads
           C == ChannelsPerBlock
           w == v * D
           head == part \div D
           d == part % D
           c == head \div H
           h == head % H
<1>1. /\ v \in Nat \ {0} /\ H \in Nat /\ D \in Nat /\ C \in Nat \ {0}
      /\ \A k \in Nat : k < H <=> k * C < v
      /\ D # 0
  <2>1. /\ ValidPlacement /\ v \in Nat \ {0} /\ HeadSize(r) \in Nat \ {0}
    BY PlannedSizes
  <2>2. NumBanks \in Nat \ {0} /\ C \in Nat \ {0}
    BY <2>1, Geometry
  <2>3. D \in Nat /\ (0 < D <=> 0 * NumBanks < HeadSize(r))
    BY <2>1, <2>2, CeilDivBelow DEF ValueDimensions
  <2>4. 0 * NumBanks = 0
    BY <2>2
  <2>5. D # 0
    BY <2>1, <2>3, <2>4
  <2> QED  BY <2>1, <2>2, <2>3, <2>5, CeilDivBelow DEF ValueHeads
<1> HIDE DEF H, D, v, C
<1>2. w \in Nat /\ part \in 0..(w - 1)
  BY <1>1 DEF v, D
<1> HIDE DEF w
<1>3. head \in Nat /\ d \in 0..(D - 1) /\ part = head * D + d
  <2>1. part \in Nat /\ D \in Nat \ {0}
    BY <1>1, <1>2
  <2> QED  BY <2>1, Parts
<1> HIDE DEF head, d
<1>4. head < v
  <2>1. head * D < v * D
    <3> DEFINE x == head * D
    <3>1. x \in Nat /\ part = x + d
      BY <1>1, <1>3
    <3> HIDE DEF x
    <3>2. x < w
      BY <1>1, <1>2, <1>3, <3>1
    <3> QED  BY <3>2 DEF x, w
  <2>2. \A x, y \in Nat, z \in Nat \ {0} : x * z < y * z => x < y
    OBVIOUS
  <2> QED  BY <1>1, <1>3, <2>1, <2>2
<1>5. H # 0
  <2>1. 0 * C = 0 /\ 0 < v
    BY <1>1
  <2> QED  BY <1>1, <2>1
<1>6. c \in Nat /\ h \in 0..(H - 1) /\ head = c * H + h
  BY <1>1, <1>3, <1>5, Parts
<1> HIDE DEF c, h
<1>7. c < C
  <2> DEFINE x == H * C
             y == c * H
  <2>1. x \in Nat /\ y \in Nat
    BY <1>1, <1>6
  <2>2. ~(x < v)
    BY <1>1
  <2> HIDE DEF x, y
  <2>3. y < x
    BY <1>1, <1>4, <1>6, <2>1, <2>2 DEF y
  <2>4. \A i, j \in Nat, z \in Nat \ {0} : i * z < z * j => i < j
    OBVIOUS
  <2> QED  BY <1>1, <1>5, <1>6, <2>3, <2>4 DEF x, y
<1>8. c \in 0..(C - 1) /\ c * H + h < v /\ part = (c * H + h) * D + d
  BY <1>1, <1>3, <1>4, <1>6, <1>7
<1> QED  BY <1>3, <1>6, <1>8 DEF H, D, v, C, HeadExists

(***************************************************************************)
(* The reads that meet a part of a token are those of the one cell for it. *)
(***************************************************************************)
LEMMA ValueReadsMeet ==
  ASSUME CacheInv, PartsInv, NEW t \in 0..(request.length - 1), Planned(request),
         NEW h \in 0..(ValueHeads(request) - 1), NEW d \in 0..(ValueDimensions(request) - 1),
         NEW c \in 0..(ChannelsPerBlock - 1), HeadExists(request, h, c),
         NEW part, part = (c * ValueHeads(request) + h) * ValueDimensions(request) + d
  PROVE  Meeting(values, met.values, t, part)
           = ReadsOf(met.values, ValueCell(request, t, h, d, c))
<1> DEFINE r == request
           cell == ValueCell(r, t, h, d, c)
           S == Meeting(values, met.values, t, part)
<1>1. /\ r \in SizedRequest /\ t \in Nat /\ t \in 0..(r.max - 1) /\ t \in DOMAIN ValuePlaces(r)
      /\ ValuePlaces(r)[t] = ValueCells(r, t)
      /\ Cached(values, ValuePlaces(r), r.length, sequence)
  <2>1. r \in SizedRequest /\ Cached(values, ValuePlaces(r), r.length, sequence)
    BY DEF CacheInv
  <2>2. r.length \in 1..r.max /\ r.max \in Nat
    BY <2>1, PlannedSizes
  <2> QED  BY <2>1, <2>2 DEF ValuePlaces
<1>2. \A x \in DOMAIN values : IsValuePart(r, values[x].at, x, values[x].part)
  BY DEF PartsInv
<1> HIDE DEF r
<1>3. /\ h \in 0..(ValueHeads(r) - 1) /\ d \in 0..(ValueDimensions(r) - 1)
      /\ c \in 0..(ChannelsPerBlock - 1) /\ HeadExists(r, h, c)
      /\ t \in 0..(r.length - 1) /\ Planned(r)
      /\ part = (c * ValueHeads(r) + h) * ValueDimensions(r) + d
  BY DEF r
<1>4. ASSUME NEW x, IsValuePart(r, t, x, part)
      PROVE  x = cell
  <2>1. PICK g \in 0..(ValueHeads(r) - 1) : \E e \in 0..(ValueDimensions(r) - 1) :
          \E b \in 0..(ChannelsPerBlock - 1) :
            /\ HeadExists(r, g, b) /\ x = ValueCell(r, t, g, e, b)
            /\ part = (b * ValueHeads(r) + g) * ValueDimensions(r) + e
    BY <1>4 DEF IsValuePart
  <2>2. PICK e \in 0..(ValueDimensions(r) - 1) : \E b \in 0..(ChannelsPerBlock - 1) :
            /\ HeadExists(r, g, b) /\ x = ValueCell(r, t, g, e, b)
            /\ part = (b * ValueHeads(r) + g) * ValueDimensions(r) + e
    BY <2>1
  <2>3. PICK b \in 0..(ChannelsPerBlock - 1) :
            /\ x = ValueCell(r, t, g, e, b)
            /\ part = (b * ValueHeads(r) + g) * ValueDimensions(r) + e
    BY <2>2
  <2>4. (c * ValueHeads(r) + h) * ValueDimensions(r) + d
          = (b * ValueHeads(r) + g) * ValueDimensions(r) + e
    BY <1>3, <2>3
  <2>5. h = g /\ d = e /\ c = b
    BY <1>1, <1>3, <2>1, <2>2, <2>3, <2>4, ValuePartCell
  <2> QED  BY <2>3, <2>5
<1>5. cell \in DOMAIN values /\ values[cell].at = t
  <2>1. cell \in ValueCells(r, t)
    BY <1>3, ValueCellListed
  <2> QED  BY <1>1, <1>3, <2>1 DEF Cached, Holds
<1>6. values[cell].part = part
  <2>1. IsValuePart(r, t, cell, values[cell].part)
    BY <1>2, <1>5
  <2> DEFINE other == values[cell].part
  <2> HIDE DEF cell
  <2>2. PICK g \in 0..(ValueHeads(r) - 1) : \E e \in 0..(ValueDimensions(r) - 1) :
          \E b \in 0..(ChannelsPerBlock - 1) :
            /\ HeadExists(r, g, b) /\ cell = ValueCell(r, t, g, e, b)
            /\ other = (b * ValueHeads(r) + g) * ValueDimensions(r) + e
    BY <2>1 DEF IsValuePart
  <2>3. PICK e \in 0..(ValueDimensions(r) - 1) : \E b \in 0..(ChannelsPerBlock - 1) :
            /\ cell = ValueCell(r, t, g, e, b)
            /\ other = (b * ValueHeads(r) + g) * ValueDimensions(r) + e
    BY <2>2
  <2>4. PICK b \in 0..(ChannelsPerBlock - 1) :
            /\ cell = ValueCell(r, t, g, e, b)
            /\ other = (b * ValueHeads(r) + g) * ValueDimensions(r) + e
    BY <2>3
  <2>5. ValueCell(r, t, h, d, c) = ValueCell(r, t, g, e, b)
    BY <2>4 DEF cell
  <2>6. h = g /\ d = e /\ c = b
    BY <1>1, <1>3, <2>2, <2>3, <2>4, <2>5, ValueCellsDiffer
  <2> QED  BY <1>3, <2>4, <2>6
<1> HIDE DEF cell
<1>7. ASSUME NEW read \in S
      PROVE  read \in ReadsOf(met.values, cell)
  <2>1. /\ read \in met.values /\ read.cell \in DOMAIN values /\ values[read.cell].at = t
        /\ values[read.cell].part = part
    BY DEF Meeting
  <2>2. IsValuePart(r, t, read.cell, part)
    BY <1>2, <2>1
  <2> QED  BY <1>4, <2>1, <2>2 DEF ReadsOf
<1>8. ASSUME NEW read \in ReadsOf(met.values, cell)
      PROVE  read \in S
  BY <1>5, <1>6 DEF ReadsOf, Meeting
<1> HIDE DEF S
<1>9. S = ReadsOf(met.values, cell)
  BY <1>7, <1>8 DEF ReadsOf
<1> QED  BY <1>9 DEF S, cell, r
(* The values that are met are those of the tokens cached. *)
LEMMA ValuesScored ==
  ASSUME CacheInv, PartsInv
  PROVE  ValuesMeetTheirLane
<1> DEFINE D == CeilDiv(HeadSize(request), NumBanks)
<1> SUFFICES ASSUME Visible, NEW at \in 0..(request.length - 1),
                    NEW part \in 0..(request.kv_heads * D - 1)
             PROVE  LET reads == Meeting(values, met.values, at, part)
                    IN  /\ Cardinality(reads) = SharedBy
                        /\ {read.lane : read \in reads} = {at % DramColumns}
  BY DEF ValuesMeetTheirLane
<1>1. request \in SizedRequest /\ Planned(request) /\ met = MetWith(request)
  BY DEF Visible, CacheInv
<1>2. D = ValueDimensions(request)
  BY DEF ValueDimensions
<1> HIDE DEF D
<1>3. part \in 0..(request.kv_heads * ValueDimensions(request) - 1)
  BY <1>2
<1>4. PICK h \in 0..(ValueHeads(request) - 1) : \E d \in 0..(ValueDimensions(request) - 1) :
        \E c \in 0..(ChannelsPerBlock - 1) :
          /\ HeadExists(request, h, c)
          /\ part = (c * ValueHeads(request) + h) * ValueDimensions(request) + d
  BY <1>1, <1>3, ValuePartPlace
<1>5. PICK d \in 0..(ValueDimensions(request) - 1) : \E c \in 0..(ChannelsPerBlock - 1) :
          /\ HeadExists(request, h, c)
          /\ part = (c * ValueHeads(request) + h) * ValueDimensions(request) + d
  BY <1>4
<1>6. PICK c \in 0..(ChannelsPerBlock - 1) :
          /\ HeadExists(request, h, c)
          /\ part = (c * ValueHeads(request) + h) * ValueDimensions(request) + d
  BY <1>5
<1> DEFINE reads == Meeting(values, met.values, at, part)
<1>7. reads = ReadsOf(met.values, ValueCell(request, at, h, d, c))
  BY <1>1, <1>6, ValueReadsMeet
<1>8. /\ Cardinality(ReadsOf(met.values, ValueCell(request, at, h, d, c)))
           = request.heads \div request.kv_heads
      /\ \A read \in ReadsOf(met.values, ValueCell(request, at, h, d, c)) : read.lane = at % DramColumns
  BY <1>1, ValuesCounted
<1> HIDE DEF reads
<1>9. Cardinality(reads) = SharedBy /\ \A read \in reads : read.lane = at % DramColumns
  BY <1>7, <1>8 DEF SharedBy
<1>10. reads # {}
  <2>1. SharedBy # 0
    BY <1>1, PlannedSizes DEF SharedBy
  <2>2. Cardinality({}) = 0
    BY FS_EmptySet
  <2> QED  BY <1>9, <2>1, <2>2
<1>11. {read.lane : read \in reads} = {at % DramColumns}
  BY <1>9, <1>10
<1> QED  BY <1>9, <1>11 DEF reads

(***************************************************************************)
(* Every value meets its lane (ValuesMeetTheirLane): for every request and *)
(* geometry, between two decode steps each part of the value of a cached   *)
(* token is multiplied with the lane of the score span its token has in a  *)
(* row of tokens and no other, exactly as often as query heads share its   *)
(* head.  Which row of scores the span holds is not said.                  *)
(***************************************************************************)
THEOREM ValuesMeetLane ==
  CacheSpec => []ValuesMeetTheirLane
BY ValuesScored, CachesHoldTheTokens, PartsInPlace, PTL DEF CacheSpec
=============================================================================
