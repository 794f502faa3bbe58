----------------------------- MODULE MCCompaction -----------------------------
(* Compaction for the model checker: three keys, the last of them above the  *)
(* end of the scan, and two timestamps.  Every table with an entry the scan  *)
(* comes to, its size the number of its entries and one for the rest of the  *)
(* file, and one unreadable file of each size.                               *)
EXTENDS Compaction

MCNumKeys == 3
MCKeys == 1..MCNumKeys
MCScanEnd == 2

Entries(table) == Cardinality({k \in MCKeys : table[k] # 0})

Tables == {t \in [MCKeys -> 0..2] : \E k \in 1..MCScanEnd : t[k] # 0}

MCFiles ==
  {[size |-> 1 + Entries(t), data |-> t, readable |-> TRUE] : t \in Tables}
    \cup {[size |-> 1 + n, data |-> [k \in MCKeys |-> 0], readable |-> FALSE] : n \in 1..3}

==============================================================================
