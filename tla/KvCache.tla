------------------------------ MODULE KvCache ------------------------------
(***************************************************************************)
(* The key and value caches across the decode steps of sequences on one    *)
(* device: what lower_kv_cache_update writes, one instruction at a time,   *)
(* and what the score and output stages of a step of the same length read  *)
(* (lowering/transformer/attention.py, models/llama/planning.py).          *)
(*                                                                         *)
(* Every step is compiled anew for its length; nothing but the DRAM rows   *)
(* is carried from one to the next.  A cell names what it holds: the       *)
(* position of the token, its sequence, and which part of the key or value *)
(* it is.  A new sequence starts over in rows that still hold the old one. *)
(***************************************************************************)
EXTENDS LlamaStages

CONSTANTS CachedRequests,   \* requests whose decode steps are run
          MaxSequences      \* sequences run one after the other

(* Sizes are integers (LlamaModelSpec, DecodeStepSpec).                    *)
ASSUME CachedRequestsAssumption ==
  CachedRequests \subseteq [hidden : Nat, heads : Nat, kv_heads : Nat,
                            intermediate : Nat, length : Nat, max : Nat]

VARIABLES request,    \* its length is the number of tokens cached
          sequence,
          pending,    \* instructions of the update under way
          keys,       \* <<channel, bank, row>> -> key part
          values,     \* <<channel, row, column>> -> value part
          met         \* what the readers of a step of this length meet

cacheVars == <<request, sequence, pending, keys, values, met>>

Batches(steps) == FlattenSeq([k \in DOMAIN steps |-> steps[k].batch])

-----------------------------------------------------------------------------
(* What the readers of a step meet. *)

ProductsOf(code) == {j \in DOMAIN code : code[j].op = "MAC_ABK"}

(* A MAC of the score stage meets a key row in every bank it is sent to,   *)
(* from its column on.                                                     *)
KeyReads(code) ==
  UNION {{[by |-> j, cell |-> <<c, b, code[j].row>>, column |-> code[j].column] :
            c \in Range(code[j].channels), b \in Banks} : j \in ProductsOf(code)}

(* The instruction that filled the Global Buffers last.                    *)
LoadBefore(code, j) ==
  CHOOSE m \in 1..j : /\ code[m].op = "WR_GB"
                      /\ \A n \in (m + 1)..j : code[n].op # "WR_GB"

(* A MAC of the output stage meets each column its size covers with the    *)
(* lane of the score span that the Global Buffer has in the same column.   *)
ValueReads(code, scores) ==
  UNION {LET load == code[LoadBefore(code, j)]
             first == (load.slot - scores) * BurstLength - load.column
         IN  {[by |-> j, cell |-> <<c, code[j].row, x>>, lane |-> first + x] :
                c \in Range(code[j].channels),
                x \in code[j].column..(code[j].column + Lanes(code[j].size) - 1)}
           : j \in ProductsOf(code)}

MetWith(r) ==
  LET output == StagePlan(r, "output")
  IN  [keys   |-> KeyReads(Batches(ScoreGemv(StagePlan(r, "scores")))),
       values |-> ValueReads(Batches(AttentionOutput(output)), output.buffers.scores.start)]

Nothing == [keys |-> {}, values |-> {}]

-----------------------------------------------------------------------------

Longer == [request EXCEPT !.length = @ + 1]

Compiles(steps) == {k \in DOMAIN steps : ~(steps[k].ok /\ BatchAccepted(steps[k].batch))} = {}

CacheInit ==
  /\ request \in {[r EXCEPT !.length = 0] : r \in CachedRequests}
  /\ sequence = 1 /\ pending = <<>> /\ keys = << >> /\ values = << >>
  /\ met = Nothing

(* The next token is decoded: a block is compiled for one token more. *)
BeginStep ==
  /\ pending = <<>>
  /\ request.length < request.max
  /\ Planned(Longer)
  /\ \E steps \in {KvCacheUpdate(StagePlan(Longer, "kv_update"))} :
       Compiles(steps) /\ pending' = Batches(steps)
  /\ UNCHANGED <<request, sequence, keys, values, met>>

(* A write to one cell replaces what it holds. *)
Overwritten(cells, cell, part) ==
  Extended([c \in {cell} |-> [at |-> request.length, of |-> sequence, part |-> part]], cells)

(* The key row of a WR_SBK, by its place in the row group of the token. *)
WriteKey(i) ==
  /\ i.op = "WR_SBK"
  /\ keys' = Overwritten(keys, <<i.channel, i.bank, i.row>>,
                         (i.slot - BufferSpans(Longer).key.start)
                            \div (DramColumns \div BurstLength))
  /\ UNCHANGED values

(* The dimensions of a head a WR_ABK spreads over the banks of a channel. *)
WriteValue(i) ==
  /\ i.op = "WR_ABK"
  /\ values' = Overwritten(values, <<i.channel, i.row, i.column>>,
                           i.slot - BufferSpans(Longer).value.start)
  /\ UNCHANGED keys

CacheWrite ==
  /\ pending # <<>>
  /\ WriteKey(Head(pending)) \/ WriteValue(Head(pending))
  /\ pending' = Tail(pending)
  /\ IF Len(pending) = 1
     THEN request' = Longer /\ met' = MetWith(Longer)
     ELSE UNCHANGED <<request, met>>
  /\ UNCHANGED sequence

(* The next sequence takes over the rows, as they are. *)
NextSequence ==
  /\ pending = <<>>
  /\ request.length > 0
  /\ sequence < MaxSequences
  /\ sequence' = sequence + 1
  /\ request' = [request EXCEPT !.length = 0]
  /\ met' = Nothing
  /\ UNCHANGED <<pending, keys, values>>

CacheNext == BeginStep \/ CacheWrite \/ NextSequence

CacheSpec == CacheInit /\ [][CacheNext]_cacheVars

-----------------------------------------------------------------------------
(* The sequences the cells met for a position are of. *)
Found(cells, reads, at) ==
  {cells[c].of : c \in {d \in {read.cell : read \in reads} \cap DOMAIN cells :
                         cells[d].at = at}}

CachedLog ==
  [t \in 1..request.length |->
     [keys |-> Found(keys, met.keys, t - 1), values |-> Found(values, met.values, t - 1)]]

Log == INSTANCE TokenLog WITH log <- CachedLog

(* The cells are a token log: a decode step appends its token and disturbs *)
(* no other, and the tokens of an earlier sequence, still in the rows, are *)
(* never taken for those of this one.                                      *)
CacheIsTokenLog == Log!LogSpec

Visible == pending = <<>> /\ request.length > 0

SharedBy == request.heads \div request.kv_heads

(* The reads that meet a part of the key or value of a token. *)
Meeting(cells, reads, at, part) ==
  {read \in reads : /\ read.cell \in DOMAIN cells
                    /\ cells[read.cell].at = at
                    /\ cells[read.cell].part = part}

(* The key of every cached token is read in every copy of the block: each  *)
(* head of it, at its column of the key row, as often as query heads share *)
(* it.                                                                     *)
EveryKeyIsScored ==
  Visible =>
    LET perRow == DramColumns \div HeadSize(request)
    IN  \A at \in 0..(request.length - 1), head \in 0..(request.kv_heads - 1),
           copy \in 0..(Copies - 1) :
          Cardinality({read \in Meeting(keys, met.keys, at, head \div perRow) :
                         /\ read.cell[1] \div ChannelsPerBlock = copy
                         /\ read.column = (head % perRow) * HeadSize(request)})
            = SharedBy

(* Every part of a cached value is read as often as query heads share its  *)
(* head, always against the lane of the score span that is its token's in  *)
(* a row of tokens, and no other.  Which row of scores the span holds by   *)
(* then is not said: every row streams the same slots (TODO(attention)).   *)
ValuesMeetTheirLane ==
  Visible =>
    \A at \in 0..(request.length - 1),
       part \in 0..(request.kv_heads * CeilDiv(HeadSize(request), NumBanks) - 1) :
      LET reads == Meeting(values, met.values, at, part)
      IN  /\ Cardinality(reads) = SharedBy
          /\ {read.lane : read \in reads} = {at % DramColumns}
=============================================================================
