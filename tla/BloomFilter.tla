------------------------------ MODULE BloomFilter ------------------------------
(* The Bloom filter of src/sstable/bloom.rs.  A filter keeps the number of   *)
(* its bits, the number of its hash functions, the length of its bit array   *)
(* in bytes, and the positions that are set.  A key is known to it by the    *)
(* two hash values <<h1, h2>> of hash_fn.                                    *)
EXTENDS Naturals

CONSTANTS
  NumBits,       \* optimal_num_bits for the expected number of keys
  NumHashes,     \* optimal_num_hash_functions
  Word           \* 2^w: where the arithmetic on hash values wraps

ASSUME BloomAssumption ==
  NumBits \in Nat \ {0} /\ NumHashes \in Nat \ {0} /\ Word \in Nat \ {0}

BytesFor(num_bits) == (num_bits + 7) \div 8

NewFilter ==
  [num_bits |-> NumBits, num_hash_functions |-> NumHashes,
   bytes |-> BytesFor(NumBits), bits |-> {}]

\* hash(): double hashing, with wrapping operations
Positions(filter, h) ==
  {((h[1] + ((i * h[2]) % Word)) % Word) % filter.num_bits :
     i \in 0..(filter.num_hash_functions - 1)}

\* set_bit and get_bit ignore a position behind the bit array.
InArray(filter, p) == p \div 8 < filter.bytes

\* BloomFilterBuilder::add
AddToFilter(filter, h) ==
  [filter EXCEPT !.bits = @ \cup {p \in Positions(filter, h) : InArray(filter, p)}]

\* Seeded bug: one hash function more is looked at than was set.
BloomContainsOneMore(filter, h) ==
  \A p \in Positions([filter EXCEPT !.num_hash_functions = @ + 1], h) :
    InArray(filter, p) /\ p \in filter.bits

\* contains(key)
BloomContains(filter, h) ==
  \A p \in Positions(filter, h) : InArray(filter, p) /\ p \in filter.bits

\* encode: two numbers of four bytes, then the array
EncodeFilter(filter) ==
  [size |-> 8 + filter.bytes, num_bits |-> filter.num_bits,
   num_hash_functions |-> filter.num_hash_functions, bits |-> filter.bits]

\* decode accepts an array of the length that fits the number of bits ...
FilterDecodes(data) == data.size >= 8 /\ data.size - 8 = BytesFor(data.num_bits)

\* ... and takes over what is stored.
DecodeFilter(data) ==
  [num_bits |-> data.num_bits, num_hash_functions |-> data.num_hash_functions,
   bytes |-> data.size - 8, bits |-> data.bits]

==============================================================================
