------------------------------ MODULE MCPacked ------------------------------
(***************************************************************************)
(* PackedVectors on every layout of up to MaxValues values: partitions     *)
(* that divide the vector and that do not, slots wider than a partition.   *)
(***************************************************************************)
EXTENDS PackedVectors
=============================================================================
