-------------------------------- MODULE MCDb --------------------------------
(* Small instances of Db.  Lengths are in units of 16 bytes: 4, 1 and 2 for  *)
(* the overheads of 64, 16 and 32.                                           *)
EXTENDS DbRefinement

CONSTANTS k1, k2, k3, b1, b2, t1, t2

MCKeyLen == [k \in Keys |-> 4]
MCByteLen == [b \in Bytes |-> IF b = b1 THEN 1 ELSE 3]
\* b2 is an item that exceeds the limit of 18 on its own.
LargeItem == [b \in Bytes |-> IF b = b1 THEN 1 ELSE 12]

MCIndexes == {-2, 1}
OneShard == [k \in Keys |-> 1]
=============================================================================
