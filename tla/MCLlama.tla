------------------------------ MODULE MCLlama ------------------------------
(***************************************************************************)
(* Llama blocks small enough to compile and execute instruction by         *)
(* instruction: one and several rows per vector, heads per key row and     *)
(* rows per key, one and several tokens per bank and rows of scores, one   *)
(* score in all, a product in one chunk and in two, and requests the       *)
(* planner turns down.                                                     *)
(***************************************************************************)
EXTENDS LlamaBlock

Request(hidden, heads, kv, intermediate, length, max) ==
  [hidden |-> hidden, heads |-> heads, kv_heads |-> kv,
   intermediate |-> intermediate, length |-> length, max |-> max]

MCRequests ==
  { Request(4, 1, 1, 8, 5, 8), Request(8, 2, 1, 8, 3, 9), Request(8, 2, 2, 12, 9, 9),
    Request(4, 1, 1, 8, 9, 9), Request(8, 1, 1, 8, 1, 1), Request(8, 2, 1, 32, 1, 2),
    Request(16, 4, 2, 8, 13, 17),
    Request(24, 6, 3, 16, 5, 13), Request(8, 2, 1, 40, 1, 2), Request(8, 2, 1, 8, 4, 3),
    Request(8, 1, 1, 5, 1, 1), Request(12, 3, 2, 8, 1, 1) }

MCFaultyRequests == { Request(8, 2, 1, 8, 5, 17), Request(24, 6, 6, 20, 9, 9) }

MCReuseRequests == { Request(8, 2, 1, 16, 1, 2), Request(8, 2, 2, 12, 3, 9) }
MCNoRequests == {}

MCPart(value, piece) == ToString(<<value, piece>>)

MCValues == {0, 1}
MCAdd(x, y) == x
MCRejects(op, operands) == FALSE
MCService(name, operands, k) == 0
=============================================================================
