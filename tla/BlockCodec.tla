------------------------------- MODULE BlockCodec -------------------------------
(* The encoding of a data block: the builder of src/sstable/block.rs and the *)
(* decoder of src/sstable/reader.rs.  Each entry stores three varints (the   *)
(* length of the prefix it shares with the key before it, the length of the  *)
(* rest of the key, the length of the value), the rest of the key, the value *)
(* and eight bytes of timestamp.  Of a value only its size is kept.          *)
EXTENDS KeyOrder

\* encode_varint: seven bits per byte, the least significant first; all but the
\* last byte carry the continuation bit.
EncodeVarint[n \in Nat] ==
  IF n < 128 THEN <<n>> ELSE <<128 + (n % 128)>> \o EncodeVarint[n \div 128]

\* decode_varint takes no more bytes than the 64 bits of a usize need.
MaxVarint == 10

\* A number that fits into them
IsLength(n) == Len(EncodeVarint[n]) <= MaxVarint

\* decode_varint of the bytes at the cursor: the number, and how many bytes it
\* took.  0 bytes stand for an error: the data ends within the number, or the
\* number is too large.
DecodeVarint(bytes) ==
  LET ends == {i \in DOMAIN bytes : bytes[i] < 128 /\ i <= MaxVarint}
      used == IF ends = {} THEN 0 ELSE Min(ends)
      value[i \in 1..used] == (bytes[i] % 128) + (IF i = used THEN 0 ELSE 128 * value[i + 1])
  IN [used |-> used, value |-> IF used = 0 THEN 0 ELSE value[1]]

\* The bytes behind it
AfterVarint(bytes) == SubSeq(bytes, DecodeVarint(bytes).used + 1, Len(bytes))

CommonPrefixLen(a, b) ==
  Max({n \in 0..Len(a) : n <= Len(b) /\ SubSeq(a, 1, n) = SubSeq(b, 1, n)})

\* BlockBuilder::add: what is stored of e after an entry with key last_key
EncodeEntry(last_key, e) ==
  LET shared == CommonPrefixLen(last_key, e.key)
      rest == SubSeq(e.key, shared + 1, Len(e.key))
  IN [lengths |-> EncodeVarint[shared] \o EncodeVarint[Len(rest)] \o EncodeVarint[e.size],
      rest |-> rest, size |-> e.size, timestamp |-> e.timestamp]

\* BlockBuilder::size
BlockBytes(block) ==
  Total([i \in DOMAIN block |->
           Len(block[i].lengths) + Len(block[i].rest) + block[i].size + 8])

\* One round of decode_block.  Lengths other than those of the key and the value
\* move the cursor to a wrong place.
DecodeEntry(acc, c) ==
  LET shared == DecodeVarint(c.lengths)
      unshared == DecodeVarint(AfterVarint(c.lengths))
      value == DecodeVarint(AfterVarint(AfterVarint(c.lengths)))
      framed == unshared.value = Len(c.rest) /\ value.value = c.size
      key == SubSeq(acc.previous, 1, shared.value) \o c.rest
      ordered == acc.previous = <<>> \/ Less(acc.previous, key)
  IN IF \/ acc.corrupted
        \/ shared.used = 0 \/ unshared.used = 0 \/ value.used = 0
        \/ shared.value > Len(acc.previous) \/ ~framed \/ ~ordered
       THEN [acc EXCEPT !.corrupted = TRUE]
       ELSE [corrupted |-> FALSE, previous |-> key,
             entries |-> Append(acc.entries,
               [key |-> key, size |-> c.size, timestamp |-> c.timestamp])]

\* decode_block: the entries, and whether the block is found corrupted
DecodeBlock(block) ==
  LET read[i \in 0..Len(block)] ==
        IF i = 0 THEN [corrupted |-> FALSE, previous |-> <<>>, entries |-> <<>>]
                 ELSE DecodeEntry(read[i - 1], block[i])
  IN read[Len(block)]

==============================================================================
