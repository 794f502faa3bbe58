------------------------------ MODULE TableFlush ------------------------------
(* flush_memtable_to_disk of src/storage_engine.rs: a memtable fills up, is  *)
(* frozen, and is written to an SSTable, entry by entry; then the SSTable    *)
(* answers in its place.                                                     *)
EXTENDS MemTable, SsTable

\* Keys are what is hashed, and no clock goes beyond u64::MAX.
ASSUME TableAssumption == HashFns \subseteq [Keys -> Nat \X Nat] /\ MaxPuts <= MaxTimestamp

\* Lengths of keys and values are numbers of 64 bits.
ASSUME LengthsAssumption ==
  /\ \A k \in Keys : \A n \in 0..Len(k) : IsLength(n)
  /\ \A size \in ValueSizes : IsLength(size)

VARIABLES
  frozen,     \* the memtable takes no more puts
  todo,       \* the entries the writer has still to be given
  finished    \* the writer has written the whole file

tvars == <<mvars, svars, frozen, todo, finished>>

TableInit == MemInit /\ New /\ frozen = FALSE /\ todo = <<>> /\ finished = FALSE

\* put into the active memtable
Fill(k, size) == ~frozen /\ Put(k, size) /\ UNCHANGED <<svars, frozen, todo, finished>>

\* The full memtable is handed over.
Freeze ==
  /\ ~frozen /\ Full
  /\ frozen' = TRUE
  /\ todo' = Entries
  /\ UNCHANGED <<mvars, svars, finished>>

\* writer.add of the next entry
AddNext ==
  /\ frozen /\ todo # <<>>
  /\ Add(Head(todo))
  /\ todo' = Tail(todo)
  /\ UNCHANGED <<mvars, frozen, finished>>

\* writer.finish
FinishFlush ==
  /\ frozen /\ todo = <<>> /\ ~finished
  /\ FinishTable
  /\ finished' = TRUE
  /\ UNCHANGED <<mvars, frozen, todo>>

TableNext ==
  \/ \E k \in Keys, size \in ValueSizes : Fill(k, size)
  \/ Freeze
  \/ AddNext
  \/ FinishFlush

TableSpec == TableInit /\ [][TableNext]_tvars

------------------------------------------------------------------------------
(* Properties *)

TableTypeOK ==
  /\ \A k \in DOMAIN data : k \in Keys /\ data[k].size \in ValueSizes
  /\ size_bytes \in Nat /\ puts \in 0..MaxPuts
  /\ \A i \in DOMAIN writer.index_entries : writer.index_entries[i].first_key \in Keys
  /\ writer.builder.buffer = <<>> => writer.builder = NewBuilder
  /\ frozen \in BOOLEAN /\ finished \in BOOLEAN

\* A flush loses and invents nothing: the file opens, and get answers for every
\* key what the memtable did, whatever the hash, the block borders, the shared
\* prefixes and the sizes of the compressed blocks (sstable/reader.rs get).
GetFindsFlushed ==
  finished =>
    /\ Readers # {}
    /\ \A r \in Readers, k \in Keys : TableGet(r, k) = [error |-> FALSE, found |-> MemGet(k)]

\* scan of the SSTable returns in order what scan of the memtable did, and the
\* entry at the end of the range, which the memtable leaves out: "start <= key
\* <= end" (sstable/reader.rs:102 scan).
ScanFindsFlushed ==
  finished =>
    \A r \in Readers, start, end \in Keys :
      AtMost(start, end) =>
        TableScan(r, start, end) =
          [error |-> FALSE,
           entries |-> MemScan(start, end)
                         \o At(Entries, {i \in DOMAIN Entries : Entries[i].key = end})]

\* At every moment of a flush, the blocks are where the index says, and they and
\* the builder decode without an error to the entries added so far, in order: a
\* block never depends on the one before it (sstable/writer.rs flush_block,
\* sstable/block.rs reset, sstable/reader.rs decode_block).
WrittenDecodes ==
  LET index == writer.index_entries
  IN frozen =>
       /\ \A i \in DOMAIN index : ~ReadBlock(index[i]).corrupted
       /\ EntriesFrom(index, 1) \o DecodeBlock(writer.builder.buffer).entries \o todo = Entries

\* The header a reader gets is about this table, not the placeholder written when
\* the file was created: as many blocks as the index has, and the oldest and
\* newest timestamp of the entries (sstable/writer.rs finish).
HeaderDescribesTable ==
  finished =>
    \A r \in Readers :
      LET timestamps == {data[k].timestamp : k \in DOMAIN data}
      IN r.header = [num_blocks |-> Len(r.index),
                     min_timestamp |-> Min(timestamps), max_timestamp |-> Max(timestamps)]

==============================================================================
