----------------------------- MODULE MCTableFlush -----------------------------
(* TableFlush for the model checker: keys over two bytes that share prefixes *)
(* of every length; compressed blocks shorter and longer than the raw ones;  *)
(* and hash functions with which all keys collide, keys of one length        *)
(* collide, and the second hash value wraps around.                          *)
EXTENDS TableFlush

MCKeys == {<<>>, <<0>>, <<0, 1>>, <<1>>, <<1, 0>>}

MCCompressed(bytes) == IF bytes < 40 THEN bytes + 2 ELSE bytes \div 2

LastByte(k) == IF k = <<>> THEN 0 ELSE k[Len(k)]

MCHashFns ==
  {[k \in MCKeys |-> <<3, 0>>],
   [k \in MCKeys |-> <<Len(k), 5>>],
   [k \in MCKeys |-> <<250 + Len(k), 100 * LastByte(k) + 7>>]}

==============================================================================
