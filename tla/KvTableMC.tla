----------------------------- MODULE KvTableMC -----------------------------
(* The instance of KvTable for TLC: the first bucket is empty, every key   *)
(* hashes to the last one, so chains have as many nodes as there are keys. *)
EXTENDS KvTable, TLC

LastBucketForAll == [k \in Keys |-> NumBuckets - 1]

(* Workers, keys, values and cells are interchangeable. *)
Symmetry == Permutations(Workers) \cup Permutations(Keys) \cup Permutations(Values)
              \cup Permutations(Nodes)

=============================================================================
