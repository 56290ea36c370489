------------------------------ MODULE MCDevice ------------------------------
(***************************************************************************)
(* CentDevice on one device of one channel, four banks, and commits of up  *)
(* to three effects: overlapping writes to one object, writes to several   *)
(* objects, spans that cross the end of their space, a channel that does   *)
(* not exist, an effect without values, and the empty tuple.               *)
(***************************************************************************)
EXTENDS CentDevice

CONSTANTS v1, v2

Accepted ==
  { Effect(DramRow(0, 1, 0), 0, <<v1, v2>>),
    Effect(DramRow(0, 1, 0), 1, <<v1>>),
    Effect(DramRow(0, 2, 0), 0, <<v2>>),
    Effect(GlobalBuffer(0), 0, <<v1>>),
    Effect(Accumulators(0, 3), 0, <<v1>>) }

Refused ==
  { Effect(DramRow(0, 1, 0), 1, <<v1, v1>>),        \* crosses the row
    Effect(GlobalBuffer(NumChannels), 0, <<v1>>),   \* no such channel
    Effect(SharedBuffer, 1, <<>>) }                 \* no values

DramWrites == {e \in Accepted : e.space[1] = "dram"}

MCEffectTuples ==
  {<<>>} \cup {<<e>> : e \in Accepted \cup Refused}
         \cup (Accepted \X (Accepted \cup Refused))
         \cup (DramWrites \X DramWrites \X DramWrites)

MCValue == {v1, v2}
=============================================================================
