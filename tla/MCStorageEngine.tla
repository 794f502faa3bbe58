---------------------------- MODULE MCStorageEngine ----------------------------
(* StorageEngine for the model checker: keys are interchangeable, so runs    *)
(* that check invariants only may take them up to permutation.               *)
EXTENDS StorageEngine

KeySymmetry == Permutations(Keys)

==============================================================================
