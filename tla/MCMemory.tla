------------------------------ MODULE MCMemory ------------------------------
(* A session of a few blocks: dialogue, a call, outputs with its id and      *)
(* without, a reply without text.                                            *)
EXTENDS Memory
CONSTANTS c1

Block(kind, id, blank) == [kind |-> kind, id |-> id, blank |-> blank]

MCBlocks ==
  {Block("user", NoId, FALSE), Block("assistant", NoId, FALSE),
   Block("assistant", NoId, TRUE), Block("call", c1, FALSE),
   Block("output", c1, FALSE), Block("output", NoId, FALSE)}
=============================================================================
