---------------------------- MODULE MCBufferPool ----------------------------
(* Calls named after their kind: c1 and c2 copy, o returns an output.      *)
EXTENDS BufferPool

CONSTANTS c1, c2, o

MCMode == [u \in Users |-> IF u = o THEN "output" ELSE "copy"]
=============================================================================
