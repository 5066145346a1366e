---------------------------- MODULE StatsSnapshot ----------------------------
(***************************************************************************)
(* KvTable with a history variable: the values that hits and misses had,   *)
(* together, since a worker took the read lock for STATS.                  *)
(***************************************************************************)
EXTENDS KvTableMC

VARIABLE instants

InStats(w) == pc[w] \in {"stats", "stats2", "unlock"} /\ Op(w) = "STATS"

SnapshotInit == Init /\ instants = [w \in Workers |-> {}]

SnapshotNext ==
  /\ Next
  /\ instants' = [w \in Workers |->
                    IF InStats(w)' THEN instants[w] \cup {<<hits', misses'>>} ELSE {}]

SnapshotSpec == SnapshotInit /\ [][SnapshotNext]_<<vars, instants>>

(* "STATS -> Shared Read Lock (for consistency)" (handle_client.c:46): the *)
(* hits and the misses STATS reports are those of one instant.             *)
StatsConsistent ==
  \A w \in Workers :
    reply[w] = "STATS" => <<stats[w].h, stats[w].m>> \in instants[w]

=============================================================================
