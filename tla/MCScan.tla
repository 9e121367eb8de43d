------------------------------- MODULE MCScan -------------------------------
(* A small instance of Scan: two shards of two keys and one, and a third that  *)
(* stays empty.                                                                *)
EXTENDS Scan

A == 97
B == 98

MCKeys == {<<A>>, <<A, A, B>>, <<B>>}
MCShardOf == [k \in Keys |-> IF k = <<B>> THEN 2 ELSE 0]
MCTypeOf == [k \in Keys |-> IF k = <<A>> THEN "list" ELSE "string"]

\* What patterns are made of: every kind of item, classes with and without their end.
Pieces ==
    {<<ANY>>, <<ONE>>, <<A>>, <<B>>, <<ESCAPE, A>>, <<ESCAPE>>,
     <<OPEN, A, DASH, B, CLOSE>>, <<OPEN, CARET, A, CLOSE>>, <<OPEN, A, B>>}

MCKeysPatterns ==
    {<<>>} \cup Pieces
    \cup {<<ANY>> \o y : y \in Pieces}
    \cup {<<A, ANY>>, <<A, ANY, B>>, <<ANY, A, ANY>>, <<ANY, A, B>>}
\* Matches both keys of the first shard, of which one is a list, and not the one of the last.
MCScanPatterns == {<<ANY, A, ANY>>}
=============================================================================
