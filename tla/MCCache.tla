------------------------------ MODULE MCCache ------------------------------
(* Decode steps past the last bank and past the end of a row of tokens.    *)
EXTENDS KvCache

Request(hidden, heads, kv, max) ==
  [hidden |-> hidden, heads |-> heads, kv_heads |-> kv, intermediate |-> 8,
   length |-> 0, max |-> max]

MCCachedRequests == { Request(8, 2, 1, 10), Request(16, 4, 2, 9), Request(16, 2, 2, 9),
                        Request(16, 4, 4, 9) }

MCPart(value, piece) == ToString(<<value, piece>>)

MCValues == {0, 1}
MCAdd(x, y) == x
MCRejects(op, operands) == FALSE
MCService(name, operands, k) == 0
=============================================================================
