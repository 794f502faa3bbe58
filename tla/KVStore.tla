------------------------------- MODULE KVStore -------------------------------
(* What the storage engine promises to its users: one durable register per   *)
(* key.  A value is a version number, larger for a later put; 0 is "no       *)
(* value".  A put takes effect at one moment, for its key alone, and replaces *)
(* an older version.  A get, a flush, a compaction, a crash and a restart    *)
(* change nothing.                                                           *)
EXTENDS Naturals

CONSTANTS Keys, MaxVersion

VARIABLE store    \* key -> version

KVInit == store = [k \in Keys |-> 0]

Write(k) ==
  \E v \in (store[k] + 1)..MaxVersion : store' = [store EXCEPT ![k] = v]

KVNext == \E k \in Keys : Write(k)

KVSpec == KVInit /\ [][KVNext]_store

==============================================================================
