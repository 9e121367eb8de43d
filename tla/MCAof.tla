------------------------------- MODULE MCAof -------------------------------
(* Small instances of Aof.  The lengths of CacheEntry play no part here.     *)
EXTENDS Aof

CONSTANTS k1, k2, b1, b2, c1, c2

MCKeyLen == [k \in Keys |-> 0]
MCByteLen == [b \in Bytes |-> 0]

Cmd(op, k, b, ttl) == [op |-> op, key |-> k, value |-> b, ttl |-> ttl]

\* Each connection has a key of its own.
OwnKeys ==
    [c \in Conns |->
       IF c = c1 THEN {Cmd("rpush", k1, b1, None), Cmd("lpop", k1, b1, None),
                       Cmd("set", k1, b2, None), Cmd("del", k1, b1, None)}
       ELSE {Cmd("rpush", k2, b1, None)}]

\* Every connection writes to k1.
SharedKey == [c \in Conns |-> {Cmd("set", k1, b, None) : b \in Bytes}]

\* Writes of one key only, so that the bound on commands is spent on the channel.
OneWrite == [c \in Conns |-> {Cmd("rpush", k1, b1, None)}]

\* A key with a time to live of one instant, set in one go or in two.
Expiring ==
    [c \in Conns |-> {Cmd("set", k1, b1, 1), Cmd("set", k1, b1, None),
                      Cmd("expire", k1, b1, 1), Cmd("get", k1, b1, None)}]
=============================================================================
