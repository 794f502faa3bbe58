-------------------------------- MODULE SsTable --------------------------------
(* An SSTable file: the writer of src/sstable/writer.rs and the reader of    *)
(* src/sstable/reader.rs, in the format of src/sstable/format.rs.  The file  *)
(* is a sequence of parts, each with its position and size: header, blocks,  *)
(* Bloom filter, index, footer.  The writer counts positions in offset, on   *)
(* its own; the reader finds every part by the numbers stored in the file.   *)
EXTENDS BlockCodec, BloomFilter

CONSTANTS
  BlockSize,        \* block_size, in bytes
  Compressed(_),    \* size of a block of so many bytes after Snappy
  HashFns,          \* functions from keys to <<h1, h2>>
  MaxTimestamp      \* u64::MAX

ASSUME SsTableAssumption == BlockSize \in Nat /\ MaxTimestamp \in Nat

HeaderSize == 64
FooterSize == 64

VARIABLES
  writer,           \* SsTableWriter: builder, index_entries, bloom_filter, offset,
                    \* header, and the file
  hash_fn           \* what BloomFilter::hash_fn computes

svars == <<writer, hash_fn>>

\* write_all appends a part at the end of the file.
FileSize(file) == IF file = <<>> THEN 0 ELSE Last(file).at + Last(file).size
WriteAll(file, kind, size, body) ==
  Append(file, [kind |-> kind, at |-> FileSize(file), size |-> size, body |-> body])

\* Header::new
NewHeader == [num_blocks |-> 0, min_timestamp |-> MaxTimestamp, max_timestamp |-> 0]

\* Seeded bug: the writer counts from the start of the file, over the header.
DataStartAtZero == 0

\* The position of the first block, as far as the writer knows
DataStart == HeaderSize

------------------------------------------------------------------------------
(* Writing *)

\* BlockBuilder::new
NewBuilder == [buffer |-> <<>>, last_key |-> <<>>, first_key |-> <<>>]

\* SsTableWriter::new
New ==
  /\ writer = [builder |-> NewBuilder, index_entries |-> <<>>, bloom_filter |-> NewFilter,
               offset |-> DataStart, header |-> NewHeader,
               file |-> WriteAll(<<>>, "header", HeaderSize, NewHeader)]
  /\ hash_fn \in HashFns

\* BlockBuilder::add
AddToBlock(builder, e) ==
  [buffer |-> Append(builder.buffer, EncodeEntry(builder.last_key, e)),
   last_key |-> e.key,
   first_key |-> IF builder.buffer = <<>> THEN e.key ELSE builder.first_key]

\* Seeded bug: the builder is reset without its last key.
ResetKeepingLast(builder) == [NewBuilder EXCEPT !.last_key = builder.last_key]

\* BlockBuilder::reset
Reset(builder) == NewBuilder

\* flush_block
FlushBlock(w) ==
  LET size == Compressed(BlockBytes(w.builder.buffer))
      entry == [first_key |-> w.builder.first_key, offset |-> w.offset, size |-> size]
  IN IF w.builder.buffer = <<>> THEN w
     ELSE [w EXCEPT !.file = WriteAll(w.file, "block", size, w.builder.buffer),
                    !.index_entries = Append(w.index_entries, entry),
                    !.offset = w.offset + size,
                    !.header.num_blocks = @ + 1,
                    !.builder = Reset(w.builder)]

Lesser(a, b) == IF a < b THEN a ELSE b
Greater(a, b) == IF a > b THEN a ELSE b

\* SsTableWriter::add, the flush of a full block included
Add(e) ==
  LET added == [writer EXCEPT
                  !.bloom_filter = AddToFilter(writer.bloom_filter, hash_fn[e.key]),
                  !.header.min_timestamp = Lesser(e.timestamp, writer.header.min_timestamp),
                  !.header.max_timestamp = Greater(e.timestamp, writer.header.max_timestamp),
                  !.builder = AddToBlock(writer.builder, e)]
  IN /\ writer' = IF BlockBytes(added.builder.buffer) >= BlockSize
                    THEN FlushBlock(added) ELSE added
     /\ UNCHANGED hash_fn

\* encode_index: a key with the two bytes of its length, offset and size
IndexBytes(entries) ==
  Total([i \in DOMAIN entries |-> 2 + Len(entries[i].first_key) + 8 + 4])

\* Seeded bug: the header written first stays.
HeaderNotRewritten(file, header) == file

\* finish goes back to position 0 and writes the header again.
RewriteHeader(file, header) == [file EXCEPT ![1].body = header]

\* SsTableWriter::finish: the last block, filter, index and footer, the header
FinishTable ==
  LET w == FlushBlock(writer)
      filter == EncodeFilter(w.bloom_filter)
      bytes == IndexBytes(w.index_entries)
      footer == [bloom_offset |-> w.offset, bloom_size |-> filter.size,
                 index_offset |-> w.offset + filter.size, index_size |-> bytes]
      filtered == WriteAll(w.file, "bloom", filter.size, filter)
      indexed == WriteAll(filtered, "index", bytes, w.index_entries)
      closed == WriteAll(indexed, "footer", FooterSize, footer)
  IN /\ writer' = [w EXCEPT !.offset = footer.index_offset + bytes,
                            !.file = RewriteHeader(closed, w.header)]
     /\ UNCHANGED hash_fn

------------------------------------------------------------------------------
(* Reading *)

\* What seek to at and read_exact of size bytes find, if it is a part of the
\* kind the reader decodes it as
Stored(kind, at, size) ==
  {part.body : part \in {g \in Range(writer.file) : g.kind = kind /\ g.at = at /\ g.size = size}}

Footers == Stored("footer", FileSize(writer.file) - FooterSize, FooterSize)
Headers == Stored("header", 0, HeaderSize)
Filters(footer) ==
  {data \in Stored("bloom", footer.bloom_offset, footer.bloom_size) : FilterDecodes(data)}
Indexes(footer) == Stored("index", footer.index_offset, footer.index_size)

\* SsTableReader::open: what it keeps in memory, or nothing if it fails
Readers ==
  {[header |-> h, index |-> i, bloom_filter |-> DecodeFilter(b)] :
     h \in Headers,
     i \in UNION {Indexes(f) : f \in Footers},
     b \in UNION {Filters(f) : f \in Footers}}

\* read_and_decompress_block
ReadBlock(entry) ==
  LET found == Stored("block", entry.offset, entry.size)
  IN IF found = {} THEN [corrupted |-> TRUE, entries |-> <<>>]
     ELSE DecodeBlock(CHOOSE b \in found : TRUE)

\* Seeded bug: the search stops before the block that begins with the key.
FindBlockBefore(index, key) ==
  Cardinality({i \in DOMAIN index : Less(index[i].first_key, key)})

\* find_block_for_key: the last block whose first key is at most key; 0 is None.
FindBlock(index, key) ==
  Cardinality({i \in DOMAIN index : AtMost(index[i].first_key, key)})

\* get(key): an error of the block, or the entries of that key, one or none
TableGet(reader, key) ==
  LET at == FindBlock(reader.index, key)
      block == ReadBlock(reader.index[at])
  IN IF ~BloomContains(reader.bloom_filter, hash_fn[key]) \/ at = 0
       THEN [error |-> FALSE, found |-> {}]
     ELSE IF block.corrupted THEN [error |-> TRUE, found |-> {}]
     ELSE [error |-> FALSE, found |-> {e \in Range(block.entries) : e.key = key}]

\* The entries of the blocks of index from the i-th on
EntriesFrom(index, i) ==
  LET from[j \in i..(Len(index) + 1)] ==
        IF j > Len(index) THEN <<>> ELSE ReadBlock(index[j]).entries \o from[j + 1]
  IN from[i]

\* Seeded bug: the end of the range is excluded.
StopsAtEnd(entry, end) == AtMost(end, entry.key)

\* The scan returns when it comes to an entry beyond the end.
StopsAfterEnd(entry, end) == Less(end, entry.key)

\* The blocks from the i-th on that a scan to end decodes: none behind one with an
\* entry beyond the end
BlocksUpTo(index, i, end) ==
  {j \in i..Len(index) :
     \A l \in i..(j - 1) : \A e \in Range(ReadBlock(index[l]).entries) : ~StopsAfterEnd(e, end)}

\* scan(start, end): the end is included; an error of a block it comes to ends it.
TableScan(reader, start, end) ==
  LET first == Greater(FindBlock(reader.index, start), 1)
      read == EntriesFrom(reader.index, first)
      beyond == {i \in DOMAIN read : StopsAfterEnd(read[i], end)}
      seen == {i \in DOMAIN read : \A stop \in beyond : i < stop}
  IN IF \E j \in BlocksUpTo(reader.index, first, end) : ReadBlock(reader.index[j]).corrupted
       THEN [error |-> TRUE, entries |-> <<>>]
     ELSE [error |-> FALSE, entries |-> At(read, {i \in seen : ~Less(read[i].key, start)})]

==============================================================================
