------------------------------- MODULE MemTable -------------------------------
(* The memtable of src/memtable.rs: a sorted map with an account of its size *)
(* in bytes, which decides when it is flushed.  A value is the number of its *)
(* bytes and the timestamp of the put, which also tells versions apart.      *)
EXTENDS KeyOrder

CONSTANTS
  Keys,          \* byte strings
  ValueSizes,    \* lengths of values
  MaxSize,       \* max_size, in bytes
  MaxPuts        \* bound: puts into one memtable

ASSUME MemTableAssumption ==
  /\ \A k \in Keys : k \in Seq(Nat)
  /\ ValueSizes \subseteq Nat /\ MaxSize \in Nat \ {0} /\ MaxPuts \in Nat

VARIABLES
  data,          \* key -> [size, timestamp]
  size_bytes,
  puts           \* puts so far, the clock of the timestamps

mvars == <<data, size_bytes, puts>>

EntryOverhead == 48
Bytes(k, size) == Len(k) + size + EntryOverhead

MemInit == data = [k \in {} |-> 0] /\ size_bytes = 0 /\ puts = 0

\* The length of the value that a put of k replaces, 0 if there is none.
OldSize(k) == IF k \in DOMAIN data THEN data[k].size ELSE 0

\* Seeded bug: replacing a value only ever shrinks the account.
SizeAfterForgetting(k, size) ==
  IF OldSize(k) > 0 THEN size_bytes - OldSize(k) ELSE size_bytes + Bytes(k, size)

\* The account after a put.  A key whose value was empty counts as a new one.
SizeAfter(k, size) ==
  IF OldSize(k) > 0 THEN size_bytes - OldSize(k) + size ELSE size_bytes + Bytes(k, size)

\* put(k, value); it goes on beyond the limit while the log is replayed.
Put(k, size) ==
  /\ puts < MaxPuts
  /\ data' = [j \in DOMAIN data \cup {k} |->
                IF j = k THEN [size |-> size, timestamp |-> puts + 1] ELSE data[j]]
  /\ size_bytes' = SizeAfter(k, size)
  /\ puts' = puts + 1

\* what put returns
Full == size_bytes >= MaxSize

\* entries_with_timestamps(): in the order of the keys
Entries ==
  LET sorted == Ascending(DOMAIN data)
  IN [i \in DOMAIN sorted |->
        [key |-> sorted[i], size |-> data[sorted[i]].size,
         timestamp |-> data[sorted[i]].timestamp]]

\* get_with_timestamp(k): its entry, if there is one
MemGet(k) ==
  {[key |-> j, size |-> data[j].size, timestamp |-> data[j].timestamp] : j \in DOMAIN data \cap {k}}

\* scan_with_timestamps(start, end): the end is excluded
MemScan(start, end) ==
  At(Entries, {i \in DOMAIN Entries : AtMost(start, Entries[i].key) /\ Less(Entries[i].key, end)})

\* The bytes that the entries take: each byte is the n-th of its entry.
EntryBytes == UNION {{k} \X (1..Bytes(k, data[k].size)) : k \in DOMAIN data}

\* The account is never less than what the entries take: the memtable is
\* flushed at its limit at the latest, and the subtraction of an old value
\* does not underflow, through any sequence of replacements (memtable.rs put).
NeverUndercounts == size_bytes >= Cardinality(EntryBytes)

==============================================================================
