---------------------------- MODULE KvTableProofs ----------------------------
(***************************************************************************)
(* Theorems about the hash table, for any number of workers, keys, buckets *)
(* and cells: its memory stays sound whatever the workers and the sweeper  *)
(* do to it, and nothing is left of it after the teardown.                 *)
(*                                                                         *)
(* The invariant says who is inside under which lock (Phases), that the    *)
(* chains are lists that share no cell (Lists), where each traversal       *)
(* stands in them (Walks), and what the counters say (Counts).  That a     *)
(* node is reachable is said without a path: it is in every set that       *)
(* contains the head of its bucket and is closed under next.               *)
(***************************************************************************)
EXTENDS KvTable, SetInduction

-----------------------------------------------------------------------------
(* Requests, and who is inside. *)

LEMMA RequestFields ==
  ASSUME NEW r \in Requests
  PROVE  /\ r.op \in {"GET", "DEL", "PUT", "STATS"}
         /\ r.op \in {"GET", "DEL", "PUT"} => r.key \in Keys
         /\ r.op = "PUT" => r.val \in Values /\ r.ttl \in TTLs
BY DEF Requests

Reads(w)  == /\ pc[w] \in {"time", "search", "stats", "stats2", "unlock"}
             /\ Op(w) \in {"GET", "STATS"}
Writes(w) == pc[w] \in {"time", "search", "unlock"} /\ Op(w) \in {"PUT", "DEL"}

(* Which requests are at which point. *)
Stages ==
  \A w \in Workers :
    /\ pc[w] \in {"idle", "lock", "time", "search", "stats", "stats2", "unlock", "exited"}
    /\ pc[w] \in {"idle", "exited"} <=> req[w] = NULL
    /\ pc[w] = "time" => Op(w) \in {"GET", "PUT"}
    /\ pc[w] = "search" => Op(w) \in {"GET", "PUT", "DEL"}
    /\ pc[w] \in {"stats", "stats2"} => Op(w) = "STATS"

(* The threads between the lock and the unlock hold the lock they took. *)
Locking ==
  /\ \A w \in Workers : (w \in readers <=> Reads(w)) /\ (writer = w <=> Writes(w))
  /\ pc[Sweeper] \in {"check", "sleep", "lock", "time", "sweep", "exited"}
  /\ writer = Sweeper <=> pc[Sweeper] \in {"time", "sweep"}
  /\ Sweeper \notin readers
  /\ writer # NULL => readers = {}

Ended == ~alive => \A t \in Threads : pc[t] = "exited"

Phases == Stages /\ Locking /\ Ended

LEMMA ThreadFacts ==
  /\ Sweeper \in Threads /\ Sweeper \notin Workers
  /\ \A w \in Workers : w \in Threads /\ w # Sweeper /\ w # NULL
  /\ NULL \notin Threads /\ NULL \notin Nodes
BY TableAssumption DEF Threads

LEMMA PhasesInit == Init => Phases
BY ThreadFacts, NullAssumption DEF Init, Phases, Stages, Locking, Ended, Reads, Writes, Op

LEMMA PhasesStep == TypeOK /\ Phases /\ [Next]_vars => Phases'
<1> SUFFICES ASSUME TypeOK, Phases, [Next]_vars PROVE Phases'
  OBVIOUS
<1>0. /\ pc \in [Threads -> PCs] /\ req \in [Workers -> Requests \cup {NULL}]
      /\ readers \in SUBSET Threads /\ writer \in Threads \cup {NULL} /\ alive \in BOOLEAN
  BY DEF TypeOK
<1> USE <1>0, ThreadFacts, NullAssumption DEF Phases, Stages, Locking, Ended, Reads, Writes, Op, Goto, Set
<1>1. CASE UNCHANGED vars
  BY <1>1 DEF vars, life, rwlock, locals
<1>2. ASSUME NEW w \in Workers, Call(w) PROVE Phases'
  BY <1>2 DEF Call, life, rwlock, locals
<1>3. ASSUME NEW w \in Workers, GetLock(w) PROVE Phases'
  BY <1>3 DEF GetLock, Enter, LockForReading, life, rwlock, locals
<1>4. ASSUME NEW w \in Workers, PutLock(w) PROVE Phases'
  BY <1>4 DEF PutLock, Enter, LockForWriting, life, rwlock, locals
<1>5. ASSUME NEW w \in Workers, DelLock(w) PROVE Phases'
  BY <1>5 DEF DelLock, Enter, LockForWriting, life, rwlock, locals
<1>6. ASSUME NEW w \in Workers, StatsLock(w) PROVE Phases'
  BY <1>6 DEF StatsLock, LockForReading, life, rwlock, locals
<1>7. ASSUME NEW w \in Workers, GetTime(w) PROVE Phases'
  BY <1>7 DEF GetTime, life, rwlock, locals
<1>8. ASSUME NEW w \in Workers, PutTime(w) PROVE Phases'
  BY <1>8 DEF PutTime, life, rwlock, locals
<1>9. ASSUME NEW w \in Workers, SearchNext(w) PROVE Phases'
  BY <1>9 DEF SearchNext, life, rwlock, locals
<1>10. ASSUME NEW w \in Workers, GetHit(w) PROVE Phases'
  BY <1>10 DEF GetHit, Found, Decide, life, rwlock, locals
<1>11. ASSUME NEW w \in Workers, GetMiss(w) PROVE Phases'
  BY <1>11 DEF GetMiss, Found, Missing, Decide, life, rwlock, locals
<1>12. ASSUME NEW w \in Workers, PutUpdate(w) PROVE Phases'
  BY <1>12 DEF PutUpdate, Found, Decide, life, rwlock, locals
<1>13. ASSUME NEW w \in Workers, PutInsert(w) PROVE Phases'
  BY <1>13 DEF PutInsert, Missing, Decide, life, rwlock, locals
<1>14. ASSUME NEW w \in Workers, DelUnlink(w) PROVE Phases'
  BY <1>14 DEF DelUnlink, Found, Decide, life, rwlock, locals
<1>15. ASSUME NEW w \in Workers, DelMissing(w) PROVE Phases'
  BY <1>15 DEF DelMissing, Missing, Decide, life, rwlock, locals
<1>16. ASSUME NEW w \in Workers, StatsHits(w) PROVE Phases'
  BY <1>16 DEF StatsHits, life, rwlock, locals
<1>17. ASSUME NEW w \in Workers, StatsMisses(w) PROVE Phases'
  BY <1>17 DEF StatsMisses, life, rwlock, locals
<1>18. ASSUME NEW w \in Workers, Return(w) PROVE Phases'
  BY <1>18 DEF Return, UnlockTable, life, rwlock, locals
<1>19. ASSUME NEW w \in Workers, WorkerExit(w) PROVE Phases'
  BY <1>19 DEF WorkerExit, life, rwlock, locals
<1>20. CASE SweepCheck
  BY <1>20 DEF SweepCheck, life, rwlock, locals
<1>21. CASE SweepAwake
  BY <1>21 DEF SweepAwake, life, rwlock, locals
<1>22. CASE SweepLock
  BY <1>22 DEF SweepLock, LockForWriting, life, rwlock, locals
<1>23. CASE SweepTime
  BY <1>23 DEF SweepTime, life, rwlock, locals
<1>24. CASE SweepFree
  BY <1>24 DEF SweepFree, life, rwlock, locals
<1>25. CASE SweepKeep
  BY <1>25 DEF SweepKeep, life, rwlock, locals
<1>26. CASE SweepBucket
  BY <1>26 DEF SweepBucket, life, rwlock, locals
<1>27. CASE SweepUnlock
  BY <1>27 DEF SweepUnlock, UnlockTable, life, rwlock, locals
<1>28. CASE sigint_handler \/ StopAccepting
  BY <1>28 DEF sigint_handler, StopAccepting, life, rwlock, locals
<1>29. CASE kv_destroy
  BY <1>29 DEF kv_destroy, AllJoined, life, rwlock, locals
<1>30. CASE Tick
  BY <1>30 DEF Tick, life, rwlock, locals
<1> QED
  BY <1>1, <1>2, <1>3, <1>4, <1>5, <1>6, <1>7, <1>8, <1>9, <1>10, <1>11, <1>12, <1>13, <1>14, <1>15, <1>16, <1>17, <1>18, <1>19, <1>20, <1>21, <1>22, <1>23, <1>24, <1>25, <1>26, <1>27, <1>28, <1>29, <1>30
     DEF Next, RequestStep, SweeperStep

-----------------------------------------------------------------------------
(* The chains. *)

Indexes == 0 .. NumBuckets - 1

(* Every pointer leads to an allocated cell or nowhere. *)
Linked ==
  /\ \A i \in Indexes : buckets[i] \in allocated \cup {NULL}
  /\ \A n \in allocated : heap[n].next \in allocated \cup {NULL}

(* No two pointers lead to the same cell. *)
Unshared ==
  /\ \A i, j \in Indexes : buckets[i] # NULL /\ buckets[i] = buckets[j] => i = j
  /\ \A m, n \in allocated : heap[n].next # NULL /\ heap[m].next = heap[n].next => m = n
  /\ \A i \in Indexes : \A n \in allocated : buckets[i] # NULL => heap[n].next # buckets[i]

KeysOnce == \A m, n \in allocated : heap[m].key = heap[n].key => m = n

(* The cells a pointer leads to, in one step or several. *)
Followed(S) == \A m \in S : heap[m].next \in S \cup {NULL}
Reachable(p) ==
  {n \in allocated : p # NULL /\ \A S \in SUBSET allocated : p \in S /\ Followed(S) => n \in S}

(* Every cell is found from the head of its bucket. *)
AllFound == \A n \in allocated : n \in Reachable(buckets[Bucket[heap[n].key]])

Lists == Linked /\ Unshared /\ KeysOnce /\ AllFound

LEMMA ReachSelf == ASSUME NEW p \in allocated, p # NULL PROVE p \in Reachable(p)
BY DEF Reachable

(* What is reachable from a cell and is not that cell is reachable from    *)
(* its successor.                                                          *)
LEMMA ReachNext ==
  ASSUME NEW p \in allocated, NEW n \in Reachable(p), n # p
  PROVE  heap[p].next # NULL /\ n \in Reachable(heap[p].next)
<1>1. heap[p].next # NULL
  <2>1. SUFFICES ASSUME heap[p].next = NULL PROVE FALSE
    OBVIOUS
  <2>2. {p} \in SUBSET allocated /\ p \in {p} /\ Followed({p})
    BY <2>1 DEF Followed
  <2> QED
    BY <2>2 DEF Reachable
<1>2. ASSUME NEW S \in SUBSET allocated, heap[p].next \in S, Followed(S) PROVE n \in S
  <2>1. S \cup {p} \in SUBSET allocated /\ p \in S \cup {p} /\ Followed(S \cup {p})
    BY <1>2 DEF Followed
  <2>2. n \in S \cup {p}
    BY <2>1 DEF Reachable
  <2> QED
    BY <2>2
<1> QED
  BY <1>1, <1>2 DEF Reachable

(* A chain has no cell that leads to itself. *)
LEMMA NoLoop ==
  ASSUME TypeOK, Lists, NEW n \in allocated PROVE heap[n].next # n
<1> SUFFICES ASSUME heap[n].next = n PROVE FALSE
  OBVIOUS
<1> DEFINE i == Bucket[heap[n].key]
<1>1. i \in Indexes /\ n # NULL
  BY TableAssumption DEF TypeOK, Cells, Indexes
<1>2. n \in Reachable(buckets[i])
  BY DEF Lists, AllFound
<1>3. buckets[i] \in allocated \ {n} /\ buckets[i] # NULL
  BY <1>1, <1>2 DEF Lists, Linked, Unshared, Reachable
<1>4. Followed(allocated \ {n})
  <2> SUFFICES ASSUME NEW m \in allocated \ {n}
               PROVE  heap[m].next \in (allocated \ {n}) \cup {NULL}
    BY DEF Followed
  <2> QED
    BY <1>1 DEF Lists, Linked, Unshared
<1> QED
  BY <1>2, <1>3, <1>4 DEF Reachable

LEMMA MemoryKept ==
  ASSUME UNCHANGED memory
  PROVE  (Lists => Lists') /\ \A p : Reachable(p)' = Reachable(p)
<1>1. \A p : Reachable(p)' = Reachable(p)
  BY DEF memory, Reachable, Followed
<1> QED
  BY <1>1 DEF memory, Lists, Linked, Unshared, KeysOnce, AllFound

(* The two stores of an unlink. *)
LEMMA UnlinkEffect ==
  ASSUME TypeOK, NEW b \in Indexes, NEW n \in allocated, NEW p \in allocated \cup {NULL},
         Unlink(b, p, n)
  PROVE  /\ buckets' \in [Indexes -> Nodes \cup {NULL}] /\ DOMAIN heap' = Nodes
         /\ \A m \in allocated :
              /\ heap'[m] \in Cells /\ heap'[m].key = heap[m].key
              /\ heap'[m].val = heap[m].val /\ heap'[m].exp = heap[m].exp
              /\ heap'[m].next = IF m = p THEN heap[n].next ELSE heap[m].next
         /\ \A i \in Indexes :
              buckets'[i] = IF p = NULL /\ i = b THEN heap[n].next ELSE buckets[i]
<1> USE ThreadFacts
<1>1. heap[n].next \in Nodes \cup {NULL}
  BY DEF TypeOK, Cells
<1>2. CASE p = NULL
  BY <1>1, <1>2 DEF Unlink, Set, TypeOK, Indexes
<1>3. CASE p # NULL
  <2>1. heap' = [heap EXCEPT ![p].next = heap[n].next] /\ buckets' = buckets /\ p \in allocated
    BY <1>3 DEF Unlink
  <2>2. \A m \in allocated \ {p} : heap'[m] = heap[m]
    BY <2>1 DEF TypeOK
  <2>3. heap[p] \in Cells /\ p \in Nodes
    BY <2>1 DEF TypeOK
  <2>4. heap'[p] = [heap[p] EXCEPT !.next = heap[n].next]
    BY <2>1, <2>3 DEF TypeOK
  <2>5. /\ heap'[p] \in Cells /\ heap'[p].key = heap[p].key /\ heap'[p].val = heap[p].val
        /\ heap'[p].exp = heap[p].exp /\ heap'[p].next = heap[n].next
    BY <1>1, <2>3, <2>4 DEF Cells
  <2> QED
    BY <1>3, <2>1, <2>2, <2>5 DEF TypeOK, Indexes
<1> QED
  BY <1>2, <1>3

LEMMA UnlinkLists ==
  ASSUME TypeOK, Lists, NEW b \in Indexes, NEW n \in allocated, NEW p \in allocated \cup {NULL},
         IF p = NULL THEN n = buckets[b] ELSE heap[p].next = n,
         Unlink(b, p, n), allocated' = allocated \ {n}
  PROVE  Lists' /\ heap[n].next # n /\ p # n
<1> USE ThreadFacts
<1>1. heap[n].next # n /\ p # n /\ n # NULL
  BY NoLoop DEF TypeOK
<1>2. /\ \A m \in allocated : heap'[m].key = heap[m].key
      /\ \A m \in allocated : heap'[m].next = IF m = p THEN heap[n].next ELSE heap[m].next
      /\ \A i \in Indexes : buckets'[i] = IF p = NULL /\ i = b THEN heap[n].next ELSE buckets[i]
  BY UnlinkEffect
<1>3. Linked'
  BY <1>1, <1>2 DEF Lists, Linked, Unshared, Indexes
<1>4. Unshared'
  <2>1. Linked /\ Unshared
    BY DEF Lists
  <2>2. p # NULL => heap[p].next = n
    OBVIOUS
  <2>3. p = NULL => buckets[b] = n
    OBVIOUS
  <2>4. ASSUME NEW i \in Indexes, NEW j \in Indexes, buckets'[i] # NULL, buckets'[i] = buckets'[j]
        PROVE  i = j
    BY <1>1, <1>2, <2>1, <2>3, <2>4 DEF Unshared
  <2>5. ASSUME NEW m \in allocated', NEW k \in allocated',
               heap'[k].next # NULL, heap'[m].next = heap'[k].next
        PROVE  m = k
    BY <1>1, <1>2, <2>1, <2>2, <2>5 DEF Unshared
  <2>6. ASSUME NEW i \in Indexes, NEW k \in allocated', buckets'[i] # NULL
        PROVE  heap'[k].next # buckets'[i]
    <3>1. k # n /\ k \in allocated /\ k # NULL
      BY <2>6 DEF TypeOK
    <3>2. CASE p = NULL
      BY <1>1, <1>2, <2>1, <2>3, <2>6, <3>1, <3>2 DEF Unshared
    <3>3. CASE p # NULL
      BY <1>1, <1>2, <2>1, <2>2, <2>6, <3>1, <3>3 DEF Unshared
    <3> QED
      BY <3>2, <3>3
  <2> QED
    BY <2>4, <2>5, <2>6 DEF Unshared
<1>5. KeysOnce'
  BY <1>2 DEF Lists, KeysOnce
<1>6. AllFound'
  <2> SUFFICES ASSUME NEW m \in allocated' PROVE m \in Reachable(buckets[Bucket[heap[m].key]])'
    BY <1>2 DEF AllFound
  <2> DEFINE i == Bucket[heap[m].key]
  <2>1. i \in Indexes /\ heap'[m].key = heap[m].key /\ m # n /\ m \in allocated
    BY <1>2, TableAssumption DEF TypeOK, Cells, Indexes
  <2>2. m \in Reachable(buckets[i]) /\ buckets[i] # NULL
    BY <2>1 DEF Lists, AllFound, Reachable
  <2>3. buckets'[i] # NULL
    <3>1. CASE buckets[i] = n
      BY <2>1, <2>2, <3>1, <1>2, ReachNext DEF Lists, Unshared
    <3>2. CASE buckets[i] # n
      BY <2>1, <2>2, <3>2, <1>2
    <3> QED
      BY <3>1, <3>2
  <2>4. ASSUME NEW S \in SUBSET allocated', buckets'[i] \in S, Followed(S)' PROVE m \in S
    (* S with n put back in is closed in the old heap. *)
    <3> DEFINE T == IF p \in S \/ buckets[i] = n THEN S \cup {n} ELSE S
    <3>1. T \in SUBSET allocated
      OBVIOUS
    <3>2. buckets[i] \in T
      BY <1>2, <2>1, <2>4
    <3>3. Followed(T)
      <4> SUFFICES ASSUME NEW k \in T PROVE heap[k].next \in T \cup {NULL}
        BY DEF Followed
      <4>1. CASE k \in S
        <5>1. heap'[k].next \in S \cup {NULL}
          BY <2>4, <4>1 DEF Followed
        <5>2. CASE k = p
          BY <2>4, <4>1, <5>2 DEF TypeOK
        <5>3. CASE k # p
          BY <1>2, <2>4, <4>1, <5>1, <5>3
        <5> QED
          BY <5>2, <5>3
      <4>2. CASE k \notin S
        <5>1. k = n /\ (p \in S \/ buckets[i] = n)
          BY <4>2
        <5>2. CASE p \in S
          <6>1. heap'[p].next \in S \cup {NULL} /\ p \in allocated
            BY <2>4, <5>2 DEF Followed
          <6> QED
            BY <1>2, <5>1, <6>1
        <5>3. CASE buckets[i] = n /\ p \notin S
          <6>1. CASE p = NULL
            BY <1>2, <2>1, <2>4, <5>1, <5>3, <6>1 DEF Lists, Unshared
          <6>2. CASE p # NULL
            BY <1>1, <2>1, <5>3, <6>2 DEF Lists, Unshared
          <6> QED
            BY <6>1, <6>2
        <5> QED
          BY <5>1, <5>2, <5>3
      <4> QED
        BY <4>1, <4>2
    <3>4. m \in T
      BY <2>2, <3>1, <3>2, <3>3 DEF Reachable
    <3> QED
      BY <2>1, <3>4
  <2> QED
    BY <2>1, <2>3, <2>4 DEF Reachable
<1> QED
  BY <1>1, <1>3, <1>4, <1>5, <1>6 DEF Lists

(* The insert of a new cell at the head of its bucket. *)
LEMMA InsertLists ==
  ASSUME TypeOK, Lists, NEW b \in Indexes, NEW n \in Nodes \ allocated,
         NEW k \in Keys, b = Bucket[k], \A m \in allocated : heap[m].key # k,
         NEW r, r.key = k, r.next = buckets[b],
         heap' = Set(heap, n, r), buckets' = Set(buckets, b, n),
         allocated' = allocated \cup {n}
  PROVE  Lists'
<1> USE ThreadFacts DEF Set
<1>1. /\ heap'[n] = r /\ \A m \in allocated : heap'[m] = heap[m]
      /\ \A i \in Indexes : buckets'[i] = IF i = b THEN n ELSE buckets[i]
      /\ allocated \subseteq Nodes /\ n # NULL
  BY DEF TypeOK, Indexes
<1>2. Linked /\ Unshared
  BY DEF Lists
<1>3. Linked'
  BY <1>1, <1>2 DEF Linked, Indexes
<1>4. Unshared'
  <2>1. ASSUME NEW i \in Indexes, NEW j \in Indexes, buckets'[i] # NULL, buckets'[i] = buckets'[j]
        PROVE  i = j
    BY <1>1, <1>2, <2>1 DEF Linked, Unshared
  <2>2. ASSUME NEW m \in allocated', NEW l \in allocated',
               heap'[l].next # NULL, heap'[m].next = heap'[l].next
        PROVE  m = l
    BY <1>1, <1>2, <2>2 DEF Unshared
  <2>3. ASSUME NEW i \in Indexes, NEW l \in allocated', buckets'[i] # NULL
        PROVE  heap'[l].next # buckets'[i]
    BY <1>1, <1>2, <2>3 DEF Linked, Unshared
  <2> QED
    BY <2>1, <2>2, <2>3 DEF Unshared
<1>5. KeysOnce'
  BY <1>1 DEF Lists, KeysOnce
<1>6. AllFound'
  <2> SUFFICES ASSUME NEW m \in allocated' PROVE m \in Reachable(buckets[Bucket[heap[m].key]])'
    BY DEF AllFound
  <2>1. CASE m = n
    BY <1>1, <2>1 DEF Reachable
  <2>2. CASE m # n
    <3> DEFINE i == Bucket[heap[m].key]
    <3>1. i \in Indexes /\ m \in allocated /\ heap'[m].key = heap[m].key
      BY <1>1, <2>2, TableAssumption DEF TypeOK, Cells, Indexes
    <3>2. m \in Reachable(buckets[i]) /\ buckets[i] # NULL /\ buckets[i] \in allocated
      BY <1>2, <3>1 DEF Lists, AllFound, Reachable, Linked
    <3>3. buckets'[i] # NULL
      BY <1>1, <3>1, <3>2
    <3>4. ASSUME NEW S \in SUBSET allocated', buckets'[i] \in S, Followed(S)' PROVE m \in S
      <4>1. buckets[i] \in S
        <5>1. CASE i = b
          <6>1. heap'[n].next \in S \cup {NULL}
            BY <1>1, <3>1, <3>4, <5>1 DEF Followed
          <6> QED
            BY <1>1, <3>2, <5>1, <6>1
        <5>2. CASE i # b
          BY <1>1, <3>1, <3>4, <5>2
        <5> QED
          BY <5>1, <5>2
      <4>2. S \ {n} \in SUBSET allocated /\ buckets[i] \in S \ {n}
        BY <3>2, <4>1
      <4>3. Followed(S \ {n})
        <5> SUFFICES ASSUME NEW l \in S \ {n} PROVE heap[l].next \in (S \ {n}) \cup {NULL}
          BY DEF Followed
        <5>1. heap'[l].next \in S \cup {NULL} /\ l \in allocated
          BY <3>4 DEF Followed
        <5> QED
          BY <1>1, <1>2, <5>1 DEF Linked
      <4> QED
        BY <3>2, <4>2, <4>3 DEF Reachable
    <3> QED
      BY <3>1, <3>3, <3>4 DEF Reachable
  <2> QED
    BY <2>1, <2>2
<1> QED
  BY <1>3, <1>4, <1>5, <1>6 DEF Lists

(* The update of an entry in place. *)
LEMMA UpdateLists ==
  ASSUME Lists, UNCHANGED <<buckets, allocated>>,
         \A m \in allocated : heap'[m].key = heap[m].key /\ heap'[m].next = heap[m].next
  PROVE  Lists'
<1>1. \A S \in SUBSET allocated : Followed(S)' <=> Followed(S)
  BY DEF Followed
<1>2. \A p : Reachable(p)' = Reachable(p)
  BY <1>1 DEF Reachable
<1>3. Lists'
  <2>1. Linked'
    BY DEF Lists, Linked
  <2>2. Unshared'
    <3>1. Unshared /\ UNCHANGED <<buckets, allocated>> /\ \A m \in allocated : heap'[m].next = heap[m].next
      BY DEF Lists
    <3>2. ASSUME NEW m \in allocated, NEW k \in allocated,
                 heap'[k].next # NULL, heap'[m].next = heap'[k].next
          PROVE  m = k
      BY <3>1, <3>2 DEF Unshared
    <3>3. ASSUME NEW i \in Indexes, NEW k \in allocated, buckets'[i] # NULL
          PROVE  heap'[k].next # buckets'[i]
      BY <3>1, <3>3 DEF Unshared
    <3>4. \A i, j \in Indexes : buckets'[i] # NULL /\ buckets'[i] = buckets'[j] => i = j
      BY <3>1 DEF Unshared
    <3> QED
      BY <3>1, <3>2, <3>3, <3>4 DEF Unshared
  <2>3. KeysOnce'
    BY DEF Lists, KeysOnce
  <2>4. AllFound'
    BY <1>2 DEF Lists, AllFound
  <2> QED
    BY <2>1, <2>2, <2>3, <2>4 DEF Lists
<1> QED
  BY <1>3

-----------------------------------------------------------------------------
(* The traversals. *)

(* Thread t stands on curr, which its predecessor prev leads to, or the    *)
(* head of bucket b.                                                       *)
StandsIn(t, b) ==
  /\ curr[t] \in allocated \cup {NULL} /\ prev[t] \in allocated \cup {NULL}
  /\ prev[t] = NULL => curr[t] = buckets[b]
  /\ prev[t] # NULL => heap[prev[t]].next = curr[t]

(* A cell with the key a worker searches for is still ahead of it. *)
Ahead(w) == \A n \in allocated : heap[n].key = req[w].key => n \in Reachable(curr[w])

WorkerWalk(w) == pc[w] \in {"time", "search"} => StandsIn(w, BucketOf(w)) /\ Ahead(w)

SweeperWalk ==
  /\ pc[Sweeper] = "sweep" => StandsIn(Sweeper, idx)
  /\ pc[Sweeper] # "sweep" => curr[Sweeper] = NULL /\ prev[Sweeper] = NULL

Walks == (\A w \in Workers : WorkerWalk(w)) /\ SweeperWalk

(* The tables of a running server are lists, those of a closed one empty. *)
Alive == IF alive THEN Lists ELSE allocated = {}

(* A writer is alone in the table. *)
LEMMA Alone ==
  ASSUME TypeOK, Phases, NEW t \in Threads, writer = t
  PROVE  /\ \A w \in Workers \ {t} : pc[w] \in {"idle", "lock", "exited"}
         /\ t # Sweeper => pc[Sweeper] \notin {"time", "sweep"}
         /\ alive
<1>1. t # NULL
  BY ThreadFacts
<1>2. \A w \in Workers \ {t} : pc[w] \in {"idle", "lock", "exited"}
  <2> SUFFICES ASSUME NEW w \in Workers \ {t} PROVE pc[w] \in {"idle", "lock", "exited"}
    OBVIOUS
  <2>1. ~Reads(w) /\ ~Writes(w)
    BY <1>1 DEF Phases, Locking
  <2>2. req[w] # NULL => Op(w) \in {"GET", "PUT", "DEL", "STATS"}
    BY RequestFields DEF Op, TypeOK
  <2>3. pc[w] \in {"time", "search", "stats", "stats2", "unlock"} => req[w] # NULL
    BY DEF Phases, Stages
  <2>4. /\ pc[w] = "time" => Op(w) \in {"GET", "PUT"}
        /\ pc[w] = "search" => Op(w) \in {"GET", "PUT", "DEL"}
        /\ pc[w] \in {"stats", "stats2"} => Op(w) = "STATS"
        /\ pc[w] \in {"idle", "lock", "time", "search", "stats", "stats2", "unlock", "exited"}
    BY DEF Phases, Stages
  <2> QED
    BY <2>1, <2>2, <2>3, <2>4 DEF Reads, Writes
<1> QED
  BY <1>1, <1>2, ThreadFacts DEF Phases, Locking, Ended, Threads, Writes

(* The walk of the worker that steps settles the others. *)
LEMMA WorkerMoves ==
  ASSUME Walks, UNCHANGED memory, UNCHANGED idx, NEW w \in Workers,
         \A t \in Threads \ {w} : pc'[t] = pc[t] /\ curr'[t] = curr[t] /\ prev'[t] = prev[t],
         \A u \in Workers \ {w} : req'[u] = req[u],
         WorkerWalk(w)'
  PROVE  Walks'
<1> USE ThreadFacts
<1>1. \A p : Reachable(p)' = Reachable(p)
  BY MemoryKept
<1>2. ASSUME NEW u \in Workers \ {w} PROVE WorkerWalk(u)'
  <2>1. WorkerWalk(u) /\ pc'[u] = pc[u] /\ curr'[u] = curr[u] /\ prev'[u] = prev[u] /\ req'[u] = req[u]
    BY <1>2 DEF Walks
  <2>2. StandsIn(u, BucketOf(u)) => StandsIn(u, BucketOf(u))'
    BY <2>1 DEF StandsIn, BucketOf, memory
  <2>3. Ahead(u) => Ahead(u)'
    BY <2>1, <1>1 DEF Ahead, memory
  <2> QED
    BY <2>1, <2>2, <2>3 DEF WorkerWalk
<1>3. SweeperWalk'
  BY DEF Walks, SweeperWalk, StandsIn, memory
<1> QED
  BY <1>2, <1>3 DEF Walks

(* While one thread writes, no other one walks. *)
LEMMA WriterMoves ==
  ASSUME TypeOK, Phases, Walks, NEW t \in Threads, writer = t,
         \A u \in Threads \ {t} : pc'[u] = pc[u] /\ curr'[u] = curr[u] /\ prev'[u] = prev[u],
         IF t = Sweeper THEN SweeperWalk' ELSE WorkerWalk(t)'
  PROVE  Walks'
<1>1. ASSUME NEW u \in Workers \ {t} PROVE WorkerWalk(u)'
  BY <1>1, Alone, ThreadFacts DEF WorkerWalk
<1>2. t # Sweeper => SweeperWalk'
  BY Alone, ThreadFacts DEF Walks, SweeperWalk
<1> QED
  BY <1>1, <1>2, ThreadFacts DEF Walks, Threads

LEMMA Entered ==
  ASSUME TypeOK, Phases, Lists, NEW w \in Workers, NEW op \in {"GET", "PUT", "DEL"},
         NEW next, Enter(w, op, next)
  PROVE  StandsIn(w, BucketOf(w))' /\ Ahead(w)'
<1>1. /\ curr'[w] = buckets[BucketOf(w)] /\ prev'[w] = NULL
      /\ UNCHANGED <<buckets, heap, allocated, req>>
  BY ThreadFacts DEF Enter, memory, TypeOK, Set
<1>2. req[w] \in Requests /\ req[w].op = op
  BY NullAssumption DEF Enter, Op, TypeOK
<1>3. BucketOf(w) \in Indexes /\ BucketOf(w)' = BucketOf(w)
  BY <1>1, <1>2, RequestFields, TableAssumption DEF BucketOf, Indexes
<1>4. \A p : Reachable(p)' = Reachable(p)
  BY <1>1, MemoryKept DEF memory
<1>5. StandsIn(w, BucketOf(w))'
  BY <1>1, <1>3 DEF StandsIn, Lists, Linked
<1>6. Ahead(w)'
  BY <1>1, <1>4 DEF Ahead, Lists, AllFound, BucketOf
<1> QED
  BY <1>5, <1>6

LEMMA WalksStep == TypeOK /\ Phases /\ Alive /\ Walks /\ [Next]_vars => Walks'
<1> SUFFICES ASSUME TypeOK, Phases, Alive, Walks, [Next]_vars PROVE Walks'
  OBVIOUS
<1> USE ThreadFacts
<1>1. ASSUME UNCHANGED <<memory, curr, prev, idx, req>>,
             \A w \in Workers : pc'[w] \in {"time", "search"} => pc[w] \in {"time", "search"},
             pc'[Sweeper] = "sweep" <=> pc[Sweeper] = "sweep"
      PROVE  Walks'
  <2>1. \A p : Reachable(p)' = Reachable(p)
    BY <1>1, MemoryKept
  <2>2. ASSUME NEW w \in Workers PROVE WorkerWalk(w)'
    <3>1. pc'[w] \in {"time", "search"} => pc[w] \in {"time", "search"}
      BY <1>1
    <3>2. WorkerWalk(w)
      BY DEF Walks
    <3>3. StandsIn(w, BucketOf(w)) => StandsIn(w, BucketOf(w))'
      BY <1>1 DEF StandsIn, BucketOf, memory
    <3>4. Ahead(w) => Ahead(w)'
      BY <1>1, <2>1 DEF Ahead, memory
    <3> QED
      BY <3>1, <3>2, <3>3, <3>4 DEF WorkerWalk
  <2>3. SweeperWalk'
    BY <1>1 DEF Walks, SweeperWalk, StandsIn, memory
  <2> QED
    BY <2>2, <2>3 DEF Walks
<1>2. ASSUME NEW t \in Threads, pc[t] \notin {"exited"} PROVE Lists
  BY <1>2 DEF Phases, Ended, Alive
(* Where a worker that moves without touching the memory arrives. *)
<1>3. ASSUME NEW w \in Workers, GetLock(w) \/ PutLock(w) \/ DelLock(w) PROVE Walks'
  <2>1. PICK op \in {"GET", "PUT", "DEL"}, next \in {"time", "search"} : Enter(w, op, next)
    BY <1>3 DEF GetLock, PutLock, DelLock
  <2>2. Lists
    BY <1>2, <2>1 DEF Enter
  <2>3. WorkerWalk(w)'
    BY <2>1, <2>2, Entered DEF WorkerWalk
  <2> QED
    BY <2>1, <2>3, WorkerMoves DEF Enter, TypeOK, Set, Goto
<1>4. ASSUME NEW w \in Workers, SearchNext(w) PROVE Walks'
  <2>1. /\ pc[w] = "search" /\ curr[w] # NULL /\ heap[curr[w]].key # req[w].key
        /\ prev'[w] = curr[w] /\ curr'[w] = heap[curr[w]].next
        /\ UNCHANGED <<buckets, heap, allocated, req, pc>>
    BY <1>4 DEF SearchNext, memory, TypeOK, Set
  <2>2. Lists
    BY <1>2, <2>1
  <2>3. curr[w] \in allocated /\ StandsIn(w, BucketOf(w)) /\ Ahead(w)
    BY <2>1 DEF Walks, WorkerWalk, StandsIn
  <2>4. StandsIn(w, BucketOf(w))'
    BY <2>1, <2>2, <2>3 DEF StandsIn, Lists, Linked
  <2>5. Ahead(w)'
    <3>1. \A p : Reachable(p)' = Reachable(p)
      BY <2>1, MemoryKept DEF memory
    <3> QED
      BY <2>1, <2>3, <3>1, ReachNext DEF Ahead
  <2> QED
    BY <1>4, <2>4, <2>5, WorkerMoves DEF WorkerWalk, SearchNext, TypeOK, Set
<1>5. ASSUME NEW w \in Workers, NEW l, l \notin {"time", "search"}, pc' = [pc EXCEPT ![w] = l],
             UNCHANGED <<memory, idx>>,
             \A t \in Threads \ {w} : curr'[t] = curr[t] /\ prev'[t] = prev[t],
             \A u \in Workers \ {w} : req'[u] = req[u]
      PROVE  Walks'
  <2>1. WorkerWalk(w)'
    BY <1>5 DEF WorkerWalk, TypeOK
  <2> QED
    BY <1>5, <2>1, WorkerMoves DEF TypeOK
(* The writes of a worker. *)
<1>6. ASSUME NEW w \in Workers, Op(w) \in {"PUT", "DEL"}, pc[w] = "search",
             pc' = [pc EXCEPT ![w] = "unlock"], UNCHANGED <<curr, prev>>
      PROVE  Walks'
  <2>1. writer = w
    BY <1>6 DEF Phases, Locking, Writes
  <2>2. WorkerWalk(w)'
    BY <1>6 DEF WorkerWalk, TypeOK
  <2> QED
    BY <1>6, <2>1, <2>2, WriterMoves DEF TypeOK
(* The sweeper. *)
<1>7. ASSUME writer = Sweeper, pc[Sweeper] \in {"time", "sweep"}, SweeperWalk',
             \A u \in Threads \ {Sweeper} : pc'[u] = pc[u] /\ curr'[u] = curr[u] /\ prev'[u] = prev[u]
      PROVE  Walks'
  BY <1>7, WriterMoves
<1>8. pc[Sweeper] \in {"time", "sweep"} => writer = Sweeper /\ Lists
  BY <1>2 DEF Phases, Locking
<1>9. CASE SweepTime
  <2>1. SweeperWalk'
    BY <1>8, <1>9, TableAssumption DEF SweepTime, SweeperWalk, Walks, StandsIn, Lists, Linked,
       Indexes, memory, TypeOK, Set, Goto
  <2> QED
    BY <1>7, <1>8, <1>9, <2>1 DEF SweepTime, TypeOK, Set, Goto
<1>10. CASE SweepFree
  <2> DEFINE n == curr[Sweeper]
  <2>1. /\ pc[Sweeper] = "sweep" /\ n # NULL /\ Unlink(idx, prev[Sweeper], n)
        /\ allocated' = allocated \ {n} /\ curr' = Set(curr, Sweeper, heap[n].next)
        /\ UNCHANGED <<pc, prev, idx>>
    BY <1>10 DEF SweepFree
  <2>2. n \in allocated /\ StandsIn(Sweeper, idx) /\ idx \in Indexes
    BY <2>1 DEF Walks, SweeperWalk, StandsIn, TypeOK, Indexes
  <2>3. heap[n].next # n /\ prev[Sweeper] # n
    BY <1>8, <2>1, <2>2, UnlinkLists DEF StandsIn
  <2>4. heap[n].next \in allocated \cup {NULL}
    BY <1>8, <2>1, <2>2 DEF Lists, Linked
  <2>5. /\ \A m \in allocated : heap'[m].next = IF m = prev[Sweeper] THEN heap[n].next ELSE heap[m].next
        /\ \A i \in Indexes : buckets'[i] = IF prev[Sweeper] = NULL /\ i = idx THEN heap[n].next ELSE buckets[i]
    BY <2>1, <2>2, UnlinkEffect DEF StandsIn
  <2>6. curr'[Sweeper] = heap[n].next
    BY <2>1 DEF Set, TypeOK
  <2>7. SweeperWalk'
    BY <2>1, <2>2, <2>3, <2>4, <2>5, <2>6 DEF SweeperWalk, StandsIn
  <2> QED
    BY <1>7, <1>8, <2>1, <2>7 DEF Set, TypeOK
<1>11. CASE SweepKeep
  <2>1. curr[Sweeper] \in allocated
    BY <1>11 DEF SweepKeep, Walks, SweeperWalk, StandsIn
  <2>2. SweeperWalk'
    BY <1>8, <1>11, <2>1 DEF SweepKeep, SweeperWalk, StandsIn, Lists, Linked, memory, TypeOK, Set
  <2> QED
    BY <1>7, <1>8, <1>11, <2>2 DEF SweepKeep, TypeOK, Set
<1>12. CASE SweepBucket
  <2>1. SweeperWalk'
    BY <1>8, <1>12, TableAssumption DEF SweepBucket, LastBucket, SweeperWalk, StandsIn, Lists,
       Linked, Indexes, memory, TypeOK, Set
  <2> QED
    BY <1>7, <1>8, <1>12, <2>1 DEF SweepBucket, TypeOK, Set
<1>13. CASE SweepUnlock
  <2>1. SweeperWalk'
    BY <1>13 DEF SweepUnlock, SweeperWalk, TypeOK, Set, Goto
  <2> QED
    BY <1>7, <1>8, <1>13, <2>1 DEF SweepUnlock, TypeOK, Set, Goto
<1>14. CASE SweepCheck \/ SweepAwake \/ SweepLock
  <2>1. PICK l \in {"exited", "sleep", "lock", "time"} : pc' = [pc EXCEPT ![Sweeper] = l]
    BY <1>14 DEF SweepCheck, SweepAwake, SweepLock, Goto
  <2>2. UNCHANGED <<memory, curr, prev, idx, req>> /\ pc[Sweeper] # "sweep"
    BY <1>14 DEF SweepCheck, SweepAwake, SweepLock, locals
  <2> QED
    BY <1>1, <2>1, <2>2 DEF TypeOK
(* The teardown finds nobody in the table. *)
<1>15. CASE kv_destroy
  BY <1>15 DEF kv_destroy, AllJoined, Walks, WorkerWalk, SweeperWalk, locals, Threads
<1>16. ASSUME UNCHANGED <<memory, pc, locals>> PROVE Walks'
  BY <1>1, <1>16 DEF locals
<1>17. ASSUME NEW w \in Workers, GetTime(w) \/ PutTime(w) PROVE Walks'
  <2>1. pc[w] = "time" /\ pc' = [pc EXCEPT ![w] = "search"] /\ UNCHANGED <<memory, curr, prev, idx, req>>
    BY <1>17 DEF GetTime, PutTime, Goto
  <2> QED
    BY <1>1, <2>1 DEF TypeOK
<1>18. ASSUME NEW w \in Workers, PutUpdate(w) \/ PutInsert(w) \/ DelUnlink(w) PROVE Walks'
  BY <1>6, <1>18 DEF PutUpdate, PutInsert, DelUnlink, Found, Missing, Decide, Goto
<1>19. ASSUME NEW w \in Workers,
              \/ Call(w) \/ StatsLock(w) \/ GetHit(w) \/ GetMiss(w) \/ DelMissing(w)
              \/ StatsHits(w) \/ StatsMisses(w) \/ Return(w) \/ WorkerExit(w)
       PROVE  Walks'
  <2>1. PICK l \in {"lock", "stats", "stats2", "unlock", "idle", "exited"} : pc' = [pc EXCEPT ![w] = l]
    BY <1>19 DEF Call, StatsLock, GetHit, GetMiss, DelMissing, StatsHits, StatsMisses, Return,
       WorkerExit, Decide, Goto
  <2>2. UNCHANGED <<memory, idx>>
    BY <1>19 DEF Call, StatsLock, GetHit, GetMiss, DelMissing, StatsHits, StatsMisses, Return,
       WorkerExit, Decide, locals
  <2>3. /\ \A t \in Threads \ {w} : curr'[t] = curr[t] /\ prev'[t] = prev[t]
        /\ \A u \in Workers \ {w} : req'[u] = req[u]
    BY <1>19 DEF Call, StatsLock, GetHit, GetMiss, DelMissing, StatsHits, StatsMisses, Return,
       WorkerExit, Decide, locals, TypeOK, Set
  <2> QED
    BY <1>5, <2>1, <2>2, <2>3
<1>20. CASE sigint_handler \/ StopAccepting \/ Tick \/ UNCHANGED vars
  BY <1>16, <1>20 DEF sigint_handler, StopAccepting, Tick, vars
<1> QED
  BY <1>3, <1>4, <1>9, <1>10, <1>11, <1>12, <1>13, <1>14, <1>15, <1>17, <1>18, <1>19, <1>20
     DEF Next, RequestStep, SweeperStep

-----------------------------------------------------------------------------
(* The loop of kv_destroy.  Chain unfolds a recursive function as often as *)
(* there are cells: that is enough to reach the end of every chain.        *)

StepFrom(S) == S \cup ({heap[n].next : n \in S} \ {NULL})

(* The cells that a path of at most i steps leads to from p. *)
Path(s, j, p) ==
  s \in [0 .. j -> allocated] /\ s[0] = p /\ \A l \in 0 .. j - 1 : heap[s[l]].next = s[l + 1]
Within(i, p) == {n \in allocated : \E j \in 0 .. i : \E s \in [0 .. j -> allocated] :
                                     Path(s, j, p) /\ s[j] = n}

LEMMA WithinNone ==
  ASSUME TypeOK, NEW p \in allocated \cup {NULL} PROVE Within(0, p) = {p} \ {NULL}
<1>1. NULL \notin allocated
  BY ThreadFacts DEF TypeOK
<1>2. ASSUME NEW n \in Within(0, p) PROVE n = p
  BY DEF Within, Path
<1>3. ASSUME p \in allocated PROVE p \in Within(0, p)
  <2> DEFINE s == [l \in 0 .. 0 |-> p]
  <2>1. s \in [0 .. 0 -> allocated] /\ Path(s, 0, p) /\ s[0] = p
    BY <1>3 DEF Path
  <2> HIDE DEF s
  <2> QED
    BY <1>3, <2>1 DEF Within
<1> QED
  BY <1>1, <1>2, <1>3 DEF Within

LEMMA WithinOneMore ==
  ASSUME TypeOK, Linked, NEW p \in allocated \cup {NULL}, NEW i \in Nat
  PROVE  Within(i + 1, p) = StepFrom(Within(i, p))
<1>1. NULL \notin allocated
  BY ThreadFacts DEF TypeOK
<1>2. ASSUME NEW n \in Within(i + 1, p) PROVE n \in StepFrom(Within(i, p))
  <2>0. PICK j \in 0 .. i + 1 : \E s \in [0 .. j -> allocated] : Path(s, j, p) /\ s[j] = n
    BY <1>2 DEF Within
  <2>1. PICK s \in [0 .. j -> allocated] : Path(s, j, p) /\ s[j] = n
    BY <2>0
  <2>2. CASE j \in 0 .. i
    BY <1>2, <2>1, <2>2 DEF Within, StepFrom
  <2>3. CASE j = i + 1
    <3> DEFINE m == s[i]
               r == [l \in 0 .. i |-> s[l]]
    <3>1. m \in allocated /\ heap[m].next = n
      BY <2>1, <2>3 DEF Path
    <3>2. r \in [0 .. i -> allocated] /\ r[i] = m
      BY <2>1, <2>3
    <3>3. Path(r, i, p)
      BY <2>1, <2>3, <3>2 DEF Path
    <3>4. m \in Within(i, p)
      <4> HIDE DEF r, m
      <4> QED
        <5>1. i \in 0 .. i
          OBVIOUS
        <5> QED
          BY <3>1, <3>2, <3>3, <5>1 DEF Within
    <3> QED
      BY <1>1, <1>2, <3>1, <3>4 DEF StepFrom, Within
  <2> QED
    BY <2>2, <2>3
<1>3. ASSUME NEW m \in Within(i, p), heap[m].next # NULL PROVE heap[m].next \in Within(i + 1, p)
  <2>0. PICK j \in 0 .. i : \E s \in [0 .. j -> allocated] : Path(s, j, p) /\ s[j] = m
    BY <1>3 DEF Within
  <2>1. PICK s \in [0 .. j -> allocated] : Path(s, j, p) /\ s[j] = m
    BY <2>0
  <2> DEFINE n == heap[m].next
             r == [l \in 0 .. j + 1 |-> IF l <= j THEN s[l] ELSE n]
  <2>2. n \in allocated /\ m \in allocated
    BY <1>3 DEF Linked, Within
  <2>3. r \in [0 .. j + 1 -> allocated] /\ r[j + 1] = n /\ \A l \in 0 .. j : r[l] = s[l]
    BY <2>1, <2>2
  <2>4. Path(r, j + 1, p)
    <3> HIDE DEF r
    <3>1. r[0] = p
      BY <2>1, <2>3 DEF Path
    <3>2. ASSUME NEW l \in 0 .. (j + 1) - 1 PROVE heap[r[l]].next = r[l + 1]
      <4>1. CASE l = j
        BY <2>1, <2>3, <4>1
      <4>2. CASE l # j
        BY <2>1, <2>3, <4>2 DEF Path
      <4> QED
        BY <4>1, <4>2
    <3> QED
      BY <2>3, <3>1, <3>2 DEF Path
  <2>5. j + 1 \in 0 .. i + 1
    OBVIOUS
  <2> HIDE DEF r, n
  <2> QED
    BY <2>2, <2>3, <2>4, <2>5 DEF Within, n
<1>4. Within(i, p) \subseteq Within(i + 1, p)
  BY DEF Within
<1> QED
  BY <1>2, <1>3, <1>4 DEF StepFrom

LEMMA NodesFinite ==
  /\ IsFiniteSet(Nodes) /\ Cardinality(Nodes) \in Nat
  /\ TypeOK => IsFiniteSet(allocated) /\ Cardinality(allocated) \in Nat
  /\ allocated' \subseteq Nodes => IsFiniteSet(allocated') /\ Cardinality(allocated') \in Nat
BY TableAssumption, FS_Subset, FS_CardinalityType DEF TypeOK

(* What Chain yields is closed under next and no more than is allocated. *)
LEMMA ChainFollows ==
  ASSUME TypeOK, Linked, NEW p \in allocated \cup {NULL}
  PROVE  /\ Chain(p) \in SUBSET allocated /\ Followed(Chain(p))
         /\ p # NULL => p \in Chain(p)
<1> DEFINE F == [i \in Nat |-> Within(i, p)]
           Rec(g, i) == IF i = 0 THEN {p} \ {NULL}
                        ELSE g[i - 1] \cup ({heap[n].next : n \in g[i - 1]} \ {NULL})
           upto == CHOOSE g : g = [i \in Nat |-> Rec(g, i)]
           K == Cardinality(Nodes)
<1>1. F = [i \in Nat |-> Rec(F, i)]
  <2>1. ASSUME NEW i \in Nat PROVE Within(i, p) = Rec(F, i)
    <3>1. CASE i = 0
      BY <3>1, WithinNone
    <3>2. CASE i # 0
      <4>1. i - 1 \in Nat /\ (i - 1) + 1 = i
        BY <3>2
      <4>2. Within(i, p) = StepFrom(Within(i - 1, p))
        BY <4>1, WithinOneMore
      <4>3. F[i - 1] = Within(i - 1, p)
        BY <4>1
      <4> HIDE DEF F
      <4> QED
        BY <3>2, <4>2, <4>3 DEF StepFrom
    <3> QED
      BY <3>1, <3>2
  <2> QED
    BY <2>1
<1>2. upto = [i \in Nat |-> Rec(upto, i)]
  <2> HIDE DEF F
  <2> QED
    BY <1>1
<1>3. Chain(p) = upto[K]
  BY DEF Chain
<1> HIDE DEF upto, F
<1>4. upto[0] = {p} \ {NULL} /\ \A i \in Nat : upto[i + 1] = StepFrom(upto[i])
  <2>1. \A i \in Nat : upto[i] = Rec(upto, i)
    BY <1>2
  <2>2. ASSUME NEW i \in Nat PROVE upto[i + 1] = StepFrom(upto[i])
    <3>1. i + 1 \in Nat /\ i + 1 # 0 /\ (i + 1) - 1 = i
      OBVIOUS
    <3>2. upto[i + 1] = Rec(upto, i + 1)
      BY <2>1, <3>1
    <3> QED
      BY <3>1, <3>2 DEF StepFrom
  <2> QED
    BY <2>1, <2>2
<1> HIDE DEF Rec
<1>5. \A i \in Nat : upto[i] \in SUBSET allocated
  <2> DEFINE Good == {i \in Nat : upto[i] \in SUBSET allocated}
  <2>1. 0 \in Good
    BY <1>4
  <2>2. \A i \in Nat : i \in Good => i + 1 \in Good
    BY <1>4 DEF StepFrom, Linked
  <2>3. Nat \subseteq Good
    <3> HIDE DEF Good
    <3> QED
      BY <2>1, <2>2, NatInduct
  <2> QED
    BY <2>3
<1>6. ASSUME p # NULL PROVE \A i \in Nat : p \in upto[i]
  <2> DEFINE Good == {i \in Nat : p \in upto[i]}
  <2>1. 0 \in Good
    BY <1>4, <1>6
  <2>2. \A i \in Nat : i \in Good => i + 1 \in Good
    BY <1>4 DEF StepFrom
  <2>3. Nat \subseteq Good
    <3> HIDE DEF Good
    <3> QED
      BY <2>1, <2>2, NatInduct
  <2> QED
    BY <2>3
<1>7. \A i \in Nat : upto[i] # {} /\ upto[i + 1] # upto[i] => Cardinality(upto[i]) > i
  <2> DEFINE Good == {i \in Nat : upto[i] # {} /\ upto[i + 1] # upto[i] => Cardinality(upto[i]) > i}
  <2>0. \A i \in Nat : IsFiniteSet(upto[i]) /\ Cardinality(upto[i]) \in Nat
    BY <1>5, NodesFinite, FS_Subset, FS_CardinalityType
  <2>1. 0 \in Good
    <3>1. upto[0] # {} => Cardinality(upto[0]) # 0
      BY <2>0, FS_EmptySet
    <3>2. Cardinality(upto[0]) \in Nat
      BY <2>0
    <3> QED
      BY <3>1, <3>2
  <2>2. ASSUME NEW i \in Nat, i \in Good, upto[i + 1] # {}, upto[(i + 1) + 1] # upto[i + 1]
        PROVE  Cardinality(upto[i + 1]) > i + 1
    <3>1. upto[i + 1] = StepFrom(upto[i]) /\ upto[(i + 1) + 1] = StepFrom(upto[i + 1])
      BY <1>4
    <3>2. upto[i + 1] # upto[i] /\ upto[i] \subseteq upto[i + 1] /\ upto[i] # {}
      BY <2>2, <3>1 DEF StepFrom
    <3>3. Cardinality(upto[i]) > i
      BY <2>2, <3>2
    <3>4. IsFiniteSet(upto[i + 1]) /\ Cardinality(upto[i + 1]) \in Nat /\ Cardinality(upto[i]) \in Nat
      BY <2>0
    <3>5. Cardinality(upto[i]) <= Cardinality(upto[i + 1]) /\ Cardinality(upto[i]) # Cardinality(upto[i + 1])
      BY <3>2, <3>4, FS_Subset
    <3> QED
      BY <3>3, <3>4, <3>5
  <2>3. \A i \in Nat : i \in Good => i + 1 \in Good
    BY <2>2
  <2>4. Nat \subseteq Good
    <3> HIDE DEF Good
    <3> QED
      BY <2>1, <2>3, NatInduct
  <2> QED
    BY <2>4
<1>8. K \in Nat /\ upto[K] \in SUBSET allocated /\ Cardinality(upto[K]) <= K /\ Cardinality(upto[K]) \in Nat
  <2>1. K \in Nat /\ upto[K] \in SUBSET Nodes
    BY <1>5, NodesFinite DEF TypeOK
  <2> QED
    BY <1>5, <2>1, NodesFinite, FS_Subset, FS_CardinalityType
<1>9. StepFrom(upto[K]) = upto[K]
  <2>1. upto[K] = {} => StepFrom(upto[K]) = upto[K]
    BY DEF StepFrom
  <2> QED
    BY <1>4, <1>7, <1>8, <2>1
<1>10. Followed(upto[K])
  BY <1>9 DEF Followed, StepFrom
<1> QED
  BY <1>3, <1>6, <1>8, <1>10

(* The chains together are what is allocated, so the teardown frees it all.*)
LEMMA ChainsCover ==
  ASSUME TypeOK, Lists
  PROVE  /\ \A n \in allocated : n \in Chain(buckets[Bucket[heap[n].key]])
         /\ allocated = UNION {Chain(buckets[i]) : i \in DOMAIN buckets}
<1>1. DOMAIN buckets = Indexes
  BY DEF TypeOK, Indexes
<1>2. \A i \in Indexes : Chain(buckets[i]) \in SUBSET allocated
  BY ChainFollows DEF Lists, Linked
<1>3. ASSUME NEW n \in allocated PROVE n \in Chain(buckets[Bucket[heap[n].key]])
  <2> DEFINE p == buckets[Bucket[heap[n].key]]
  <2>1. p \in allocated \cup {NULL} /\ p # NULL /\ n \in Reachable(p)
    BY TableAssumption DEF Lists, Linked, AllFound, Reachable, TypeOK, Cells, Indexes
  <2>2. Chain(p) \in SUBSET allocated /\ Followed(Chain(p)) /\ p \in Chain(p)
    BY <2>1, ChainFollows DEF Lists
  <2> HIDE DEF p
  <2>3. n \in Chain(p)
    BY <2>1, <2>2 DEF Reachable
  <2> QED
    BY <2>3 DEF p
<1>4. \A n \in allocated : Bucket[heap[n].key] \in Indexes
  BY TableAssumption DEF TypeOK, Cells, Indexes
<1> QED
  BY <1>1, <1>2, <1>3, <1>4

-----------------------------------------------------------------------------
(* The steps that change the memory. *)

LEMMA Searching ==
  ASSUME TypeOK, Phases, Alive, Walks, NEW w \in Workers, pc[w] = "search"
  PROVE  /\ Lists /\ alive /\ StandsIn(w, BucketOf(w)) /\ Ahead(w)
         /\ BucketOf(w) \in Indexes /\ req[w] \in Requests /\ req[w].key \in Keys
         /\ Op(w) = req[w].op
<1>1. req[w] # NULL /\ Op(w) \in {"GET", "PUT", "DEL"}
  BY DEF Phases, Stages
<1>2. req[w] \in Requests /\ Op(w) = req[w].op
  BY <1>1 DEF TypeOK, Op
<1>3. req[w].key \in Keys
  BY <1>1, <1>2, RequestFields
<1> QED
  BY <1>2, <1>3, TableAssumption, ThreadFacts
     DEF Phases, Ended, Alive, Walks, WorkerWalk, BucketOf, Indexes

LEMMA InsertStep ==
  ASSUME TypeOK, Phases, Alive, Walks, NEW w \in Workers, PutInsert(w)
  PROVE  /\ Lists' /\ UNCHANGED alive
         /\ \E n \in Nodes \ allocated :
              /\ allocated' = allocated \cup {n} /\ heap'[n] \in Cells
              /\ heap'[n].key = req[w].key /\ heap'[n].val = req[w].val /\ heap'[n].exp = now[w]
              /\ \A m \in allocated : heap'[m] = heap[m] /\ heap[m].key # req[w].key
         /\ DOMAIN heap' = Nodes /\ buckets' \in [Indexes -> Nodes \cup {NULL}]
<1>1. pc[w] = "search" /\ curr[w] = NULL /\ Op(w) = "PUT" /\ UNCHANGED alive
  BY DEF PutInsert, Missing, Decide, life
<1> DEFINE b == BucketOf(w)
           r == [key |-> req[w].key, val |-> req[w].val, exp |-> now[w], next |-> buckets[b]]
<1>2. PICK n \in Nodes \ allocated :
        allocated' = allocated \cup {n} /\ heap' = Set(heap, n, r) /\ buckets' = Set(buckets, b, n)
  BY DEF PutInsert
<1>3. /\ Lists /\ Ahead(w) /\ b \in Indexes /\ b = Bucket[req[w].key] /\ req[w].key \in Keys
      /\ req[w].val \in Values
  BY <1>1, Searching, RequestFields DEF BucketOf
<1>4. \A m \in allocated : heap[m].key # req[w].key
  BY <1>1, <1>3 DEF Ahead, Reachable
<1>5. r \in Cells /\ r.key = req[w].key /\ r.next = buckets[b] /\ r.val = req[w].val /\ r.exp = now[w]
  BY <1>3, ThreadFacts DEF Cells, TypeOK, Indexes
<1> HIDE DEF r, b
<1>6. Lists'
  BY <1>2, <1>3, <1>4, <1>5, InsertLists
<1>7. /\ heap'[n] = r /\ DOMAIN heap' = Nodes /\ \A m \in allocated : heap'[m] = heap[m]
      /\ buckets' \in [Indexes -> Nodes \cup {NULL}]
  BY <1>2, <1>3 DEF TypeOK, Set, Indexes
<1> QED
  BY <1>1, <1>2, <1>4, <1>5, <1>6, <1>7

LEMMA UpdateStep ==
  ASSUME TypeOK, Phases, Alive, Walks, NEW w \in Workers, PutUpdate(w)
  PROVE  /\ Lists' /\ DOMAIN heap' = Nodes /\ UNCHANGED <<alive, buckets, allocated>>
         /\ curr[w] \in allocated /\ heap[curr[w]].key = req[w].key
         /\ \A m \in allocated :
              /\ heap'[m] \in Cells /\ heap'[m].key = heap[m].key /\ heap'[m].next = heap[m].next
              /\ m # curr[w] => heap'[m] = heap[m]
         /\ heap'[curr[w]].val = req[w].val /\ heap'[curr[w]].exp = now[w]
<1>1. /\ pc[w] = "search" /\ curr[w] # NULL /\ Op(w) = "PUT" /\ heap[curr[w]].key = req[w].key
      /\ UNCHANGED alive /\ UNCHANGED <<buckets, allocated>>
      /\ heap' = [heap EXCEPT ![curr[w]].val = req[w].val, ![curr[w]].exp = now[w]]
  BY DEF PutUpdate, Found, Decide, life
<1>2. Lists /\ curr[w] \in allocated /\ req[w].val \in Values /\ now[w] \in Nat
  BY <1>1, Searching, RequestFields, ThreadFacts DEF StandsIn, TypeOK
<1> DEFINE n == curr[w]
<1>3. n \in Nodes /\ heap[n] \in Cells /\ DOMAIN heap = Nodes /\ allocated \subseteq Nodes
  BY <1>2 DEF TypeOK
<1>4. heap'[n] = [heap[n] EXCEPT !.val = req[w].val, !.exp = now[w]] /\ DOMAIN heap' = Nodes
  BY <1>1, <1>3
<1>5. \A m \in allocated \ {n} : heap'[m] = heap[m]
  BY <1>1, <1>3
<1>6. heap'[n] \in Cells /\ heap'[n].key = heap[n].key /\ heap'[n].next = heap[n].next
      /\ heap'[n].val = req[w].val /\ heap'[n].exp = now[w]
  BY <1>2, <1>3, <1>4 DEF Cells
<1>7. \A m \in allocated :
        /\ heap'[m] \in Cells /\ heap'[m].key = heap[m].key /\ heap'[m].next = heap[m].next
        /\ m # n => heap'[m] = heap[m]
  BY <1>2, <1>5, <1>6 DEF TypeOK
<1>8. Lists'
  BY <1>1, <1>2, <1>7, UpdateLists
<1> QED
  BY <1>1, <1>2, <1>4, <1>6, <1>7, <1>8

LEMMA DeleteStep ==
  ASSUME TypeOK, Phases, Alive, Walks, NEW w \in Workers, DelUnlink(w)
  PROVE  /\ Lists' /\ DOMAIN heap' = Nodes /\ buckets' \in [Indexes -> Nodes \cup {NULL}]
         /\ UNCHANGED alive
         /\ curr[w] \in allocated /\ heap[curr[w]].key = req[w].key
         /\ allocated' = allocated \ {curr[w]}
         /\ \A m \in allocated : heap'[m] \in Cells /\ heap'[m].key = heap[m].key
                                  /\ heap'[m].val = heap[m].val /\ heap'[m].exp = heap[m].exp
<1>1. /\ pc[w] = "search" /\ curr[w] # NULL /\ heap[curr[w]].key = req[w].key /\ UNCHANGED alive
      /\ Unlink(BucketOf(w), prev[w], curr[w]) /\ allocated' = allocated \ {curr[w]}
  BY DEF DelUnlink, Found, Decide, life
<1>2. Lists /\ curr[w] \in allocated /\ StandsIn(w, BucketOf(w)) /\ BucketOf(w) \in Indexes
  BY <1>1, Searching DEF StandsIn
<1>3. Lists'
  BY <1>1, <1>2, UnlinkLists DEF StandsIn
<1> QED
  BY <1>1, <1>2, <1>3, UnlinkEffect DEF StandsIn

LEMMA FreeStep ==
  ASSUME TypeOK, Phases, Alive, Walks, SweepFree
  PROVE  /\ Lists' /\ DOMAIN heap' = Nodes /\ buckets' \in [Indexes -> Nodes \cup {NULL}]
         /\ UNCHANGED alive /\ alive
         /\ curr[Sweeper] \in allocated /\ ExpiredForSweep(curr[Sweeper], now[Sweeper])
         /\ allocated' = allocated \ {curr[Sweeper]}
         /\ heap[curr[Sweeper]].next \in Nodes \cup {NULL}
         /\ \A m \in allocated : heap'[m] \in Cells /\ heap'[m].key = heap[m].key
                                  /\ heap'[m].val = heap[m].val /\ heap'[m].exp = heap[m].exp
<1>1. /\ pc[Sweeper] = "sweep" /\ curr[Sweeper] # NULL /\ UNCHANGED alive
      /\ ExpiredForSweep(curr[Sweeper], now[Sweeper])
      /\ Unlink(idx, prev[Sweeper], curr[Sweeper]) /\ allocated' = allocated \ {curr[Sweeper]}
  BY DEF SweepFree, life
<1>2. /\ alive /\ Lists /\ curr[Sweeper] \in allocated /\ StandsIn(Sweeper, idx) /\ idx \in Indexes
  BY <1>1, ThreadFacts DEF Phases, Ended, Alive, Walks, SweeperWalk, StandsIn, TypeOK, Indexes
<1>3. Lists'
  BY <1>1, <1>2, UnlinkLists DEF StandsIn
<1>4. heap[curr[Sweeper]].next \in Nodes \cup {NULL}
  BY <1>2 DEF TypeOK, Cells
<1> QED
  BY <1>1, <1>2, <1>3, <1>4, UnlinkEffect DEF StandsIn

(* All other steps leave the memory alone, but for the teardown. *)
MemoryStep ==
  (\E w \in Workers : PutInsert(w) \/ PutUpdate(w) \/ DelUnlink(w)) \/ SweepFree \/ kv_destroy

LEMMA MemoryOrNot ==
  ASSUME [Next]_vars, ~MemoryStep PROVE UNCHANGED <<memory, alive, keys, dels>> /\ puts' = puts
<1> DEFINE Kept == UNCHANGED <<memory, alive, keys, dels>> /\ puts' = puts
<1>1. ASSUME NEW w \in Workers, GetLock(w) \/ PutLock(w) \/ DelLock(w) \/ StatsLock(w) PROVE Kept
  BY <1>1 DEF GetLock, PutLock, DelLock, StatsLock, Enter, life, counters
<1>2. ASSUME NEW w \in Workers, GetTime(w) \/ PutTime(w) \/ SearchNext(w) \/ GetHit(w) \/ GetMiss(w)
      PROVE  Kept
  BY <1>2 DEF GetTime, PutTime, SearchNext, GetHit, GetMiss, Decide, life, counters
<1>3. ASSUME NEW w \in Workers,
             DelMissing(w) \/ StatsHits(w) \/ StatsMisses(w) \/ Return(w) \/ Call(w) \/ WorkerExit(w)
      PROVE  Kept
  BY <1>3 DEF DelMissing, StatsHits, StatsMisses, Return, Call, WorkerExit, Decide, life, counters
<1>4. ASSUME SweeperStep, ~SweepFree PROVE Kept
  BY <1>4 DEF SweeperStep, SweepCheck, SweepAwake, SweepLock, SweepTime, SweepKeep, SweepBucket,
              SweepUnlock, life, counters
<1>5. ASSUME sigint_handler \/ StopAccepting \/ Tick \/ UNCHANGED vars PROVE Kept
  BY <1>5 DEF sigint_handler, StopAccepting, Tick, vars, life, counters
<1>6. ASSUME \E w \in Workers : Call(w) \/ RequestStep(w) \/ WorkerExit(w) PROVE Kept
  <2>1. PICK w \in Workers : Call(w) \/ RequestStep(w) \/ WorkerExit(w)
    BY <1>6
  <2>2. ~PutInsert(w) /\ ~PutUpdate(w) /\ ~DelUnlink(w)
    BY DEF MemoryStep
  <2>3. \/ GetLock(w) \/ PutLock(w) \/ DelLock(w) \/ StatsLock(w)
        \/ GetTime(w) \/ PutTime(w) \/ SearchNext(w) \/ GetHit(w) \/ GetMiss(w)
        \/ DelMissing(w) \/ StatsHits(w) \/ StatsMisses(w) \/ Return(w) \/ Call(w) \/ WorkerExit(w)
    BY <2>1, <2>2, Zenon DEF RequestStep
  <2> HIDE DEF Kept
  <2>4. CASE GetLock(w) \/ PutLock(w) \/ DelLock(w) \/ StatsLock(w)
    BY <1>1, <2>4, Zenon
  <2>5. CASE GetTime(w) \/ PutTime(w) \/ SearchNext(w) \/ GetHit(w) \/ GetMiss(w)
    BY <1>2, <2>5, Zenon
  <2>6. CASE DelMissing(w) \/ StatsHits(w) \/ StatsMisses(w) \/ Return(w) \/ Call(w) \/ WorkerExit(w)
    BY <1>3, <2>6, Zenon
  <2> QED
    BY <2>3, <2>4, <2>5, <2>6, Zenon
<1>7. ~SweepFree /\ ~kv_destroy
  BY DEF MemoryStep
<1>8. Kept
  <2> HIDE DEF Kept
  <2>1. \/ \E w \in Workers : Call(w) \/ RequestStep(w) \/ WorkerExit(w)
        \/ SweeperStep
        \/ sigint_handler \/ StopAccepting \/ Tick \/ UNCHANGED vars
    BY <1>7, Zenon DEF Next
  <2>2. CASE SweeperStep
    BY <1>4, <1>7, <2>2, Zenon
  <2>3. CASE sigint_handler \/ StopAccepting \/ Tick \/ UNCHANGED vars
    BY <1>5, <2>3, Zenon
  <2> QED
    BY <1>6, <2>1, <2>2, <2>3, Zenon
<1> QED
  BY <1>8 DEF Kept

LEMMA DestroyStep ==
  ASSUME TypeOK, Phases, Alive, Walks, kv_destroy
  PROVE  allocated' = {} /\ alive' = FALSE /\ alive = TRUE /\ UNCHANGED <<buckets, heap>>
BY ChainsCover DEF kv_destroy, Alive

LEMMA AliveStep == TypeOK /\ Phases /\ Alive /\ Walks /\ [Next]_vars => Alive'
<1> SUFFICES ASSUME TypeOK, Phases, Alive, Walks, [Next]_vars PROVE Alive'
  OBVIOUS
<1>1. ASSUME NEW w \in Workers, PutInsert(w) \/ PutUpdate(w) \/ DelUnlink(w) PROVE Alive'
  <2>1. pc[w] = "search" /\ UNCHANGED alive
    BY <1>1 DEF PutInsert, PutUpdate, DelUnlink, Found, Missing, Decide, life
  <2>2. alive
    BY <2>1, Searching
  <2> QED
    BY <1>1, <2>1, <2>2, InsertStep, UpdateStep, DeleteStep DEF Alive
<1>2. CASE SweepFree
  BY <1>2, FreeStep DEF Alive
<1>3. CASE kv_destroy
  BY <1>3, DestroyStep DEF Alive
<1>4. CASE ~MemoryStep
  <2>1. UNCHANGED <<memory, alive>>
    BY <1>4, MemoryOrNot
  <2> QED
    BY <2>1, MemoryKept DEF Alive, memory
<1> QED
  BY <1>1, <1>2, <1>3, <1>4 DEF MemoryStep

-----------------------------------------------------------------------------
(* Types and counters. *)

Counts == alive => keys = Cardinality(allocated)

(* Every key that is there or was deleted was put. *)
Ledger == keys + dels <= puts

(* What a STATS request has read so far. *)
Snapshots ==
  \A w \in Workers :
    /\ stats[w] \in [k : Nat, h : Nat, m : Nat, p : Nat, d : Nat]
    /\ IF pc[w] = "stats2" THEN stats[w].k = keys ELSE stats[w].k + stats[w].d <= stats[w].p

(* A cell that is taken from the table was counted. *)
LEMMA Uncounted ==
  ASSUME TypeOK, NEW n \in allocated, keys = Cardinality(allocated)
  PROVE  keys - 1 \in Nat /\ keys - 1 = Cardinality(allocated \ {n})
<1>1. IsFiniteSet(allocated) /\ Cardinality(allocated) \in Nat
  BY NodesFinite
<1>2. IsFiniteSet(allocated \ {n}) /\ Cardinality(allocated \ {n}) = Cardinality(allocated) - 1
  BY <1>1, FS_RemoveElement
<1>3. Cardinality(allocated \ {n}) \in Nat
  BY <1>2, FS_CardinalityType
<1> QED
  BY <1>1, <1>2, <1>3

LEMMA CountsStep ==
  TypeOK /\ Phases /\ Alive /\ Walks /\ Counts /\ Ledger /\ [Next]_vars
    => Counts' /\ Ledger' /\ keys' \in Nat /\ dels' \in Nat /\ puts' \in Nat
<1> SUFFICES ASSUME TypeOK, Phases, Alive, Walks, Counts, Ledger, [Next]_vars
             PROVE  Counts' /\ Ledger' /\ keys' \in Nat /\ dels' \in Nat /\ puts' \in Nat
  OBVIOUS
<1>0. keys \in Nat /\ dels \in Nat /\ puts \in Nat /\ keys + dels <= puts
  BY DEF TypeOK, Ledger
<1>1. ASSUME NEW w \in Workers, PutInsert(w)
      PROVE  Counts' /\ Ledger' /\ keys' \in Nat /\ dels' \in Nat /\ puts' \in Nat
  <2>1. PICK n \in Nodes \ allocated : allocated' = allocated \cup {n}
    BY <1>1 DEF PutInsert
  <2>2. alive /\ keys' = keys + 1 /\ puts' = puts + 1 /\ dels' = dels
    BY <1>1, Searching DEF PutInsert, Missing
  <2>3. Cardinality(allocated') = Cardinality(allocated) + 1
    BY <2>1, NodesFinite, FS_AddElement
  <2> QED
    BY <1>0, <2>2, <2>3 DEF Counts, Ledger
<1>2. ASSUME NEW w \in Workers, PutUpdate(w)
      PROVE  Counts' /\ Ledger' /\ keys' \in Nat /\ dels' \in Nat /\ puts' \in Nat
  BY <1>0, <1>2 DEF PutUpdate, Decide, life, Counts, Ledger
<1>3. ASSUME NEW w \in Workers, DelUnlink(w)
      PROVE  Counts' /\ Ledger' /\ keys' \in Nat /\ dels' \in Nat /\ puts' \in Nat
  <2>1. alive /\ curr[w] \in allocated /\ allocated' = allocated \ {curr[w]}
    BY <1>3, Searching, DeleteStep DEF DelUnlink, Found
  <2>2. keys' = keys - 1 /\ dels' = dels + 1 /\ puts' = puts
    BY <1>3 DEF DelUnlink
  <2>3. keys' \in Nat /\ keys' = Cardinality(allocated')
    BY <2>1, <2>2, Uncounted DEF Counts
  <2> QED
    BY <1>0, <2>2, <2>3 DEF Counts, Ledger
<1>4. CASE SweepFree
  <2>1. alive /\ curr[Sweeper] \in allocated /\ allocated' = allocated \ {curr[Sweeper]}
    BY <1>4, FreeStep
  <2>2. keys' = keys - 1 /\ dels' = dels /\ puts' = puts
    BY <1>4 DEF SweepFree
  <2>3. keys' \in Nat /\ keys' = Cardinality(allocated')
    BY <2>1, <2>2, Uncounted DEF Counts
  <2> QED
    BY <1>0, <2>2, <2>3 DEF Counts, Ledger
<1>5. CASE kv_destroy
  BY <1>0, <1>5 DEF kv_destroy, counters, Counts, Ledger
<1>6. CASE ~MemoryStep
  BY <1>0, <1>6, MemoryOrNot DEF Counts, Ledger, memory
<1> QED
  BY <1>1, <1>2, <1>3, <1>4, <1>5, <1>6 DEF MemoryStep

StatsTypes == stats \in [Workers -> [k : Nat, h : Nat, m : Nat, p : Nat, d : Nat]]

(* A reader sees the counters of writes standing still. *)
LEMMA ReaderSees ==
  ASSUME TypeOK, Phases, Alive, Walks, [Next]_vars, NEW w \in Workers, pc[w] = "stats2"
  PROVE  keys' = keys
<1>1. writer = NULL
  BY ThreadFacts DEF Phases, Stages, Locking, Reads
<1>2. ASSUME MemoryStep PROVE FALSE
  <2>1. ASSUME NEW v \in Workers, PutInsert(v) \/ PutUpdate(v) \/ DelUnlink(v) PROVE FALSE
    <3>1. pc[v] = "search" /\ Op(v) \in {"PUT", "DEL"}
      BY <2>1 DEF PutInsert, PutUpdate, DelUnlink, Found, Missing, Decide
    <3> QED
      BY <1>1, <3>1, ThreadFacts DEF Phases, Locking, Writes
  <2>2. ~SweepFree
    BY <1>1, ThreadFacts DEF SweepFree, Phases, Locking
  <2>3. ~kv_destroy
    BY ThreadFacts DEF kv_destroy, AllJoined
  <2> QED
    BY <1>2, <2>1, <2>2, <2>3 DEF MemoryStep
<1> QED
  BY <1>2, MemoryOrNot

LEMMA SnapshotsStep ==
  TypeOK /\ Phases /\ Alive /\ Walks /\ Ledger /\ Snapshots /\ StatsTypes /\ [Next]_vars
    => Snapshots' /\ StatsTypes'
<1> SUFFICES ASSUME TypeOK, Phases, Alive, Walks, Ledger, Snapshots, StatsTypes, [Next]_vars
             PROVE  Snapshots' /\ StatsTypes'
  OBVIOUS
<1>1. ASSUME UNCHANGED stats, \A w \in Workers : pc'[w] = "stats2" <=> pc[w] = "stats2"
      PROVE  Snapshots' /\ StatsTypes'
  <2>1. ASSUME NEW w \in Workers, pc'[w] = "stats2" PROVE stats'[w].k = keys'
    BY <1>1, <2>1, ReaderSees DEF Snapshots
  <2> QED
    BY <1>1, <2>1 DEF Snapshots, StatsTypes
<1>2. ASSUME NEW w \in Workers, NEW r \in [k : Nat, h : Nat, m : Nat, p : Nat, d : Nat],
             stats' = [stats EXCEPT ![w] = r], NEW l, pc' = [pc EXCEPT ![w] = l],
             IF l = "stats2" THEN r.k = keys' ELSE r.k + r.d <= r.p
      PROVE  Snapshots' /\ StatsTypes'
  <2>1. stats'[w] = r /\ pc'[w] = l /\ StatsTypes'
    BY <1>2 DEF StatsTypes, TypeOK, Threads
  <2>2. ASSUME NEW v \in Workers \ {w}
        PROVE  /\ stats'[v] \in [k : Nat, h : Nat, m : Nat, p : Nat, d : Nat]
               /\ IF pc'[v] = "stats2" THEN stats'[v].k = keys'
                  ELSE stats'[v].k + stats'[v].d <= stats'[v].p
    <3>1. stats'[v] = stats[v] /\ pc'[v] = pc[v]
      BY <1>2 DEF StatsTypes, TypeOK, Threads
    <3> QED
      BY <3>1, ReaderSees DEF Snapshots
  <2> QED
    BY <1>2, <2>1, <2>2 DEF Snapshots
<1>3. ASSUME NEW w \in Workers, StatsHits(w) PROVE Snapshots' /\ StatsTypes'
  <2> DEFINE r == [stats[w] EXCEPT !.k = keys, !.h = hits]
  <2>1. /\ stats' = [stats EXCEPT ![w] = r] /\ pc' = [pc EXCEPT ![w] = "stats2"] /\ keys' = keys
    BY <1>3 DEF StatsHits, Goto, counters, StatsTypes
  <2>2. r \in [k : Nat, h : Nat, m : Nat, p : Nat, d : Nat] /\ r.k = keys
    BY DEF StatsTypes, TypeOK
  <2> HIDE DEF r
  <2> QED
    BY <1>2, <2>1, <2>2
<1>4. ASSUME NEW w \in Workers, StatsMisses(w) PROVE Snapshots' /\ StatsTypes'
  <2> DEFINE r == [stats[w] EXCEPT !.m = misses, !.p = puts, !.d = dels]
  <2>1. /\ stats' = [stats EXCEPT ![w] = r] /\ pc' = [pc EXCEPT ![w] = "unlock"]
        /\ pc[w] = "stats2"
    BY <1>4 DEF StatsMisses, Goto, StatsTypes
  <2>2. /\ r \in [k : Nat, h : Nat, m : Nat, p : Nat, d : Nat]
        /\ r.k = stats[w].k /\ r.p = puts /\ r.d = dels
    BY DEF StatsTypes, TypeOK
  <2>3. r.k + r.d <= r.p
    BY <2>1, <2>2 DEF Snapshots, Ledger
  <2> HIDE DEF r
  <2> QED
    BY <1>2, <2>1, <2>2, <2>3
<1>5. ASSUME NEW w \in Workers, Return(w) PROVE Snapshots' /\ StatsTypes'
  <2>1. stats' = [stats EXCEPT ![w] = Zero] /\ pc' = [pc EXCEPT ![w] = "idle"]
    BY <1>5 DEF Return, Goto, Set
  <2>2. Zero \in [k : Nat, h : Nat, m : Nat, p : Nat, d : Nat] /\ Zero.k + Zero.d <= Zero.p
    BY DEF Zero
  <2> HIDE DEF Zero
  <2> QED
    BY <1>2, <2>1, <2>2
<1>6. ASSUME NEW w \in Workers, NEW l, l # "stats2", pc[w] # "stats2", UNCHANGED stats,
             pc' = pc \/ pc' = [pc EXCEPT ![w] = l]
      PROVE  Snapshots' /\ StatsTypes'
  BY <1>1, <1>6 DEF TypeOK, Threads
<1>7. ASSUME NEW w \in Workers, Call(w) PROVE Snapshots' /\ StatsTypes'
  BY <1>6, <1>7 DEF Call, Goto, locals
<1>8. ASSUME NEW w \in Workers, GetLock(w) PROVE Snapshots' /\ StatsTypes'
  BY <1>6, <1>8 DEF GetLock, Enter, Goto, locals
<1>9. ASSUME NEW w \in Workers, PutLock(w) PROVE Snapshots' /\ StatsTypes'
  BY <1>6, <1>9 DEF PutLock, Enter, Goto, locals
<1>10. ASSUME NEW w \in Workers, DelLock(w) PROVE Snapshots' /\ StatsTypes'
  BY <1>6, <1>10 DEF DelLock, Enter, Goto, locals
<1>11. ASSUME NEW w \in Workers, StatsLock(w) PROVE Snapshots' /\ StatsTypes'
  BY <1>6, <1>11 DEF StatsLock, Goto, locals
<1>12. ASSUME NEW w \in Workers, GetTime(w) PROVE Snapshots' /\ StatsTypes'
  BY <1>6, <1>12 DEF GetTime, Goto, locals
<1>13. ASSUME NEW w \in Workers, PutTime(w) PROVE Snapshots' /\ StatsTypes'
  BY <1>6, <1>13 DEF PutTime, Goto, locals
<1>14. ASSUME NEW w \in Workers, SearchNext(w) PROVE Snapshots' /\ StatsTypes'
  BY <1>6, <1>14 DEF SearchNext, Goto, locals
<1>15. ASSUME NEW w \in Workers, GetHit(w) PROVE Snapshots' /\ StatsTypes'
  BY <1>6, <1>15 DEF GetHit, Found, Decide, Goto, locals
<1>16. ASSUME NEW w \in Workers, GetMiss(w) PROVE Snapshots' /\ StatsTypes'
  BY <1>6, <1>16 DEF GetMiss, Found, Missing, Decide, Goto, locals
<1>17. ASSUME NEW w \in Workers, PutUpdate(w) PROVE Snapshots' /\ StatsTypes'
  BY <1>6, <1>17 DEF PutUpdate, Found, Decide, Goto, locals
<1>18. ASSUME NEW w \in Workers, PutInsert(w) PROVE Snapshots' /\ StatsTypes'
  BY <1>6, <1>18 DEF PutInsert, Missing, Decide, Goto, locals
<1>19. ASSUME NEW w \in Workers, DelUnlink(w) PROVE Snapshots' /\ StatsTypes'
  BY <1>6, <1>19 DEF DelUnlink, Found, Decide, Goto, locals
<1>20. ASSUME NEW w \in Workers, DelMissing(w) PROVE Snapshots' /\ StatsTypes'
  BY <1>6, <1>20 DEF DelMissing, Missing, Decide, Goto, locals
<1>21. ASSUME NEW w \in Workers, WorkerExit(w) PROVE Snapshots' /\ StatsTypes'
  BY <1>6, <1>21 DEF WorkerExit, Goto, locals
<1>22. CASE SweeperStep \/ sigint_handler \/ StopAccepting \/ kv_destroy \/ Tick \/ UNCHANGED vars
  <2>1. UNCHANGED stats /\ \A w \in Workers : pc'[w] = pc[w]
    BY <1>22, ThreadFacts DEF SweeperStep, SweepCheck, SweepAwake, SweepLock, SweepTime, SweepFree,
       SweepKeep, SweepBucket, SweepUnlock, sigint_handler, StopAccepting, kv_destroy, Tick, vars, locals, Goto, TypeOK
  <2> QED
    BY <1>1, <2>1
<1> QED
  BY <1>3, <1>4, <1>5, <1>7, <1>8, <1>9, <1>10, <1>11, <1>12, <1>13, <1>14, <1>15, <1>16, <1>17, <1>18, <1>19, <1>20, <1>21, <1>22
     DEF Next, RequestStep

(* Types: the memory, and everything else. *)
MemoryTypes ==
  /\ buckets \in [0 .. NumBuckets - 1 -> Nodes \cup {NULL}]
  /\ allocated \in SUBSET Nodes
  /\ DOMAIN heap = Nodes /\ \A n \in allocated : heap[n] \in Cells

OtherTypes ==
  /\ clock \in 1 .. MaxTime /\ ops \in 0 .. MaxOps
  /\ g_shutdown \in BOOLEAN /\ accepting \in BOOLEAN /\ alive \in BOOLEAN
  /\ hits \in Nat /\ misses \in Nat
  /\ readers \in SUBSET Threads /\ writer \in Threads \cup {NULL}
  /\ pc \in [Threads -> PCs]
  /\ req \in [Workers -> Requests \cup {NULL}]
  /\ curr \in [Threads -> Nodes \cup {NULL}] /\ prev \in [Threads -> Nodes \cup {NULL}]
  /\ now \in [Threads -> Nat]
  /\ reply \in [Workers -> Values \cup {"OK", "NOT_FOUND", "STATS", NULL}]
  /\ idx \in 0 .. NumBuckets - 1

LEMMA MemoryTypesStep ==
  TypeOK /\ Phases /\ Alive /\ Walks /\ [Next]_vars => MemoryTypes'
<1> SUFFICES ASSUME TypeOK, Phases, Alive, Walks, [Next]_vars PROVE MemoryTypes'
  OBVIOUS
<1>0. MemoryTypes
  BY DEF TypeOK, MemoryTypes
<1>1. ASSUME NEW w \in Workers, PutInsert(w) PROVE MemoryTypes'
  BY <1>0, <1>1, InsertStep DEF MemoryTypes, Indexes
<1>2. ASSUME NEW w \in Workers, PutUpdate(w) PROVE MemoryTypes'
  BY <1>0, <1>2, UpdateStep DEF MemoryTypes
<1>3. ASSUME NEW w \in Workers, DelUnlink(w) PROVE MemoryTypes'
  BY <1>0, <1>3, DeleteStep DEF MemoryTypes, Indexes
<1>4. CASE SweepFree
  BY <1>0, <1>4, FreeStep DEF MemoryTypes, Indexes
<1>5. CASE kv_destroy
  BY <1>0, <1>5, DestroyStep DEF MemoryTypes
<1>6. CASE ~MemoryStep
  BY <1>0, <1>6, MemoryOrNot DEF MemoryTypes, memory
<1> QED
  BY <1>1, <1>2, <1>3, <1>4, <1>5, <1>6 DEF MemoryStep

(* What a worker finds in the table. *)
LEMMA FoundTypes ==
  ASSUME TypeOK, Phases, Alive, Walks, NEW w \in Workers, Found(w) \/ (pc[w] = "search" /\ curr[w] # NULL)
  PROVE  heap[curr[w]].next \in Nodes \cup {NULL} /\ heap[curr[w]].val \in Values
<1>1. curr[w] \in allocated
  BY Searching DEF Found, StandsIn
<1> QED
  BY <1>1 DEF TypeOK, Cells

LEMMA OtherTypesStep ==
  TypeOK /\ Phases /\ Alive /\ Walks /\ [Next]_vars => OtherTypes'
<1> SUFFICES ASSUME TypeOK, Phases, Alive, Walks, [Next]_vars PROVE OtherTypes'
  OBVIOUS
<1>0. OtherTypes /\ \A b \in 0 .. NumBuckets - 1 : buckets[b] \in Nodes \cup {NULL}
  BY DEF TypeOK, OtherTypes
<1> USE ThreadFacts, TableAssumption DEF Goto, Set, PCs, life, rwlock, locals
<1>1. ASSUME NEW w \in Workers, Call(w) PROVE OtherTypes'
  BY <1>0, <1>1 DEF Call, OtherTypes, counters
<1>2. ASSUME NEW w \in Workers, GetLock(w) PROVE OtherTypes'
  <2>1. req[w] \in Requests /\ req[w].op = "GET"
    BY <1>0, <1>2, NullAssumption DEF GetLock, Enter, Op, OtherTypes
  <2>2. buckets[BucketOf(w)] \in Nodes \cup {NULL}
    BY <1>0, <2>1, RequestFields DEF BucketOf
  <2> QED
    BY <1>0, <1>2, <2>2 DEF GetLock, Enter, LockForReading, OtherTypes, counters
<1>3. ASSUME NEW w \in Workers, PutLock(w) PROVE OtherTypes'
  <2>1. req[w] \in Requests /\ req[w].op = "PUT"
    BY <1>0, <1>3, NullAssumption DEF PutLock, Enter, Op, OtherTypes
  <2>2. buckets[BucketOf(w)] \in Nodes \cup {NULL}
    BY <1>0, <2>1, RequestFields DEF BucketOf
  <2> QED
    BY <1>0, <1>3, <2>2 DEF PutLock, Enter, LockForWriting, OtherTypes, counters
<1>4. ASSUME NEW w \in Workers, DelLock(w) PROVE OtherTypes'
  <2>1. req[w] \in Requests /\ req[w].op = "DEL"
    BY <1>0, <1>4, NullAssumption DEF DelLock, Enter, Op, OtherTypes
  <2>2. buckets[BucketOf(w)] \in Nodes \cup {NULL}
    BY <1>0, <2>1, RequestFields DEF BucketOf
  <2> QED
    BY <1>0, <1>4, <2>2 DEF DelLock, Enter, LockForWriting, OtherTypes, counters
<1>5. ASSUME NEW w \in Workers, StatsLock(w) PROVE OtherTypes'
  BY <1>0, <1>5 DEF StatsLock, LockForReading, OtherTypes, counters
<1>6. ASSUME NEW w \in Workers, GetTime(w) PROVE OtherTypes'
  BY <1>0, <1>6 DEF GetTime, OtherTypes, counters
<1>7. ASSUME NEW w \in Workers, PutTime(w) PROVE OtherTypes'
  <2>1. req[w] \in Requests /\ req[w].op = "PUT"
    BY <1>0, <1>7, NullAssumption DEF PutTime, Op, OtherTypes
  <2>2. req[w].ttl \in Int /\ clock \in Nat
    <3>1. req[w].ttl \in TTLs
      BY <2>1, RequestFields
    <3>2. TTLs \subseteq Int /\ clock \in 1 .. MaxTime /\ MaxTime \in Nat
      BY <1>0 DEF OtherTypes
    <3>3. req[w].ttl \in Int
      BY <3>1, <3>2, Zenon
    <3>4. clock \in Nat
      BY <3>2, SMT
    <3> QED
      BY <3>3, <3>4
  <2>3. (IF req[w].ttl > 0 THEN clock + req[w].ttl ELSE 0) \in Nat
    BY <2>2
  <2> QED
    BY <1>0, <1>7, <2>3 DEF PutTime, OtherTypes, counters
<1>8. ASSUME NEW w \in Workers, SearchNext(w) PROVE OtherTypes'
  BY <1>0, <1>8, FoundTypes DEF SearchNext, OtherTypes, counters
<1>9. ASSUME NEW w \in Workers, GetHit(w) PROVE OtherTypes'
  BY <1>0, <1>9, FoundTypes DEF GetHit, Found, Decide, OtherTypes, counters
<1>10. ASSUME NEW w \in Workers, GetMiss(w) PROVE OtherTypes'
  BY <1>0, <1>10 DEF GetMiss, Found, Missing, Decide, OtherTypes, counters
<1>11. ASSUME NEW w \in Workers, PutUpdate(w) PROVE OtherTypes'
  BY <1>0, <1>11 DEF PutUpdate, Found, Decide, OtherTypes, counters
<1>12. ASSUME NEW w \in Workers, PutInsert(w) PROVE OtherTypes'
  BY <1>0, <1>12 DEF PutInsert, Missing, Decide, OtherTypes, counters
<1>13. ASSUME NEW w \in Workers, DelUnlink(w) PROVE OtherTypes'
  BY <1>0, <1>13 DEF DelUnlink, Found, Decide, OtherTypes, counters
<1>14. ASSUME NEW w \in Workers, DelMissing(w) PROVE OtherTypes'
  BY <1>0, <1>14 DEF DelMissing, Missing, Decide, OtherTypes, counters
<1>15. ASSUME NEW w \in Workers, StatsHits(w) PROVE OtherTypes'
  BY <1>0, <1>15 DEF StatsHits, OtherTypes, counters
<1>16. ASSUME NEW w \in Workers, StatsMisses(w) PROVE OtherTypes'
  BY <1>0, <1>16 DEF StatsMisses, OtherTypes, counters
<1>17. ASSUME NEW w \in Workers, Return(w) PROVE OtherTypes'
  BY <1>0, <1>17 DEF Return, UnlockTable, OtherTypes, counters
<1>18. ASSUME NEW w \in Workers, WorkerExit(w) PROVE OtherTypes'
  BY <1>0, <1>18 DEF WorkerExit, OtherTypes, counters
<1>19. CASE SweepCheck
  BY <1>0, <1>19 DEF SweepCheck, OtherTypes, counters
<1>20. CASE SweepAwake
  BY <1>0, <1>20 DEF SweepAwake, OtherTypes, counters
<1>21. CASE SweepLock
  BY <1>0, <1>21 DEF SweepLock, LockForWriting, OtherTypes, counters
<1>22. CASE SweepTime
  BY <1>0, <1>22 DEF SweepTime, OtherTypes, counters
<1>23. CASE SweepFree
  BY <1>0, <1>23, FreeStep DEF SweepFree, OtherTypes, counters
<1>24. CASE SweepKeep
  <2>1. heap[curr[Sweeper]].next \in Nodes \cup {NULL}
    BY <1>24 DEF SweepKeep, Walks, SweeperWalk, StandsIn, TypeOK, Cells
  <2> QED
    BY <1>0, <1>24, <2>1 DEF SweepKeep, OtherTypes, counters
<1>25. CASE SweepBucket
  BY <1>0, <1>25 DEF SweepBucket, LastBucket, OtherTypes, counters
<1>26. CASE SweepUnlock
  BY <1>0, <1>26 DEF SweepUnlock, UnlockTable, OtherTypes, counters
<1>27. CASE sigint_handler \/ StopAccepting
  BY <1>0, <1>27 DEF sigint_handler, StopAccepting, OtherTypes, counters
<1>28. CASE kv_destroy
  BY <1>0, <1>28 DEF kv_destroy, AllJoined, OtherTypes, counters
<1>29. CASE Tick
  BY <1>0, <1>29 DEF Tick, OtherTypes, counters
<1>30. CASE UNCHANGED vars
  BY <1>0, <1>30 DEF vars, OtherTypes, counters
<1> QED
  BY <1>1, <1>2, <1>3, <1>4, <1>5, <1>6, <1>7, <1>8, <1>9, <1>10, <1>11, <1>12, <1>13, <1>14, <1>15, <1>16, <1>17, <1>18, <1>19, <1>20, <1>21, <1>22, <1>23, <1>24, <1>25, <1>26, <1>27, <1>28, <1>29, <1>30
     DEF Next, RequestStep, SweeperStep

(* A reply is there between the decision and the unlock. *)
Replies == \A w \in Workers : pc[w] = "unlock" <=> reply[w] # NULL

LEMMA RepliesStep ==
  TypeOK /\ Phases /\ Alive /\ Walks /\ Replies /\ [Next]_vars => Replies'
<1> SUFFICES ASSUME TypeOK, Phases, Alive, Walks, Replies, [Next]_vars PROVE Replies'
  OBVIOUS
<1>0. pc \in [Threads -> PCs] /\ reply \in [Workers -> Values \cup {"OK", "NOT_FOUND", "STATS", NULL}]
  BY DEF TypeOK
<1> USE ThreadFacts, NullAssumption DEF Replies, Goto, Set, locals
<1>1. ASSUME NEW w \in Workers, Call(w) PROVE Replies'
  BY <1>0, <1>1 DEF Call
<1>2. ASSUME NEW w \in Workers, GetLock(w) PROVE Replies'
  BY <1>0, <1>2 DEF GetLock, Enter
<1>3. ASSUME NEW w \in Workers, PutLock(w) PROVE Replies'
  BY <1>0, <1>3 DEF PutLock, Enter
<1>4. ASSUME NEW w \in Workers, DelLock(w) PROVE Replies'
  BY <1>0, <1>4 DEF DelLock, Enter
<1>5. ASSUME NEW w \in Workers, StatsLock(w) PROVE Replies'
  BY <1>0, <1>5 DEF StatsLock
<1>6. ASSUME NEW w \in Workers, GetTime(w) PROVE Replies'
  BY <1>0, <1>6 DEF GetTime
<1>7. ASSUME NEW w \in Workers, PutTime(w) PROVE Replies'
  BY <1>0, <1>7 DEF PutTime
<1>8. ASSUME NEW w \in Workers, SearchNext(w) PROVE Replies'
  BY <1>0, <1>8 DEF SearchNext
<1>9. ASSUME NEW w \in Workers, GetHit(w) PROVE Replies'
  <2>1. heap[curr[w]].val # NULL
    BY <1>9, FoundTypes, TableAssumption DEF GetHit
  <2> QED
    BY <1>0, <1>9, <2>1 DEF GetHit, Found, Decide
<1>10. ASSUME NEW w \in Workers, GetMiss(w) PROVE Replies'
  BY <1>0, <1>10 DEF GetMiss, Found, Missing, Decide
<1>11. ASSUME NEW w \in Workers, PutUpdate(w) PROVE Replies'
  BY <1>0, <1>11 DEF PutUpdate, Found, Decide
<1>12. ASSUME NEW w \in Workers, PutInsert(w) PROVE Replies'
  BY <1>0, <1>12 DEF PutInsert, Missing, Decide
<1>13. ASSUME NEW w \in Workers, DelUnlink(w) PROVE Replies'
  BY <1>0, <1>13 DEF DelUnlink, Found, Decide
<1>14. ASSUME NEW w \in Workers, DelMissing(w) PROVE Replies'
  BY <1>0, <1>14 DEF DelMissing, Missing, Decide
<1>15. ASSUME NEW w \in Workers, StatsHits(w) PROVE Replies'
  BY <1>0, <1>15 DEF StatsHits
<1>16. ASSUME NEW w \in Workers, StatsMisses(w) PROVE Replies'
  BY <1>0, <1>16 DEF StatsMisses
<1>17. ASSUME NEW w \in Workers, Return(w) PROVE Replies'
  BY <1>0, <1>17 DEF Return, UnlockTable
<1>18. ASSUME NEW w \in Workers, WorkerExit(w) PROVE Replies'
  BY <1>0, <1>18 DEF WorkerExit
<1>19. CASE SweeperStep \/ sigint_handler \/ StopAccepting \/ kv_destroy \/ Tick \/ UNCHANGED vars
  BY <1>0, <1>19 DEF SweeperStep, SweepCheck, SweepAwake, SweepLock, SweepTime, SweepFree,
       SweepKeep, SweepBucket, SweepUnlock, sigint_handler, StopAccepting, kv_destroy, Tick, vars
<1> QED
  BY <1>1, <1>2, <1>3, <1>4, <1>5, <1>6, <1>7, <1>8, <1>9, <1>10, <1>11, <1>12, <1>13, <1>14, <1>15, <1>16, <1>17, <1>18, <1>19
     DEF Next, RequestStep

-----------------------------------------------------------------------------
(* The invariant and what follows from it. *)

TableInv ==
  /\ TypeOK /\ Phases /\ Alive /\ Walks /\ Counts /\ Ledger /\ Snapshots /\ StatsTypes
  /\ Replies

LEMMA TableInit == Init => TableInv
<1> SUFFICES ASSUME Init PROVE TableInv
  OBVIOUS
<1> USE ThreadFacts, TableAssumption
<1>1. TypeOK
  <2>1. 0 \in 0 .. MaxOps /\ 1 \in 1 .. MaxTime /\ 0 \in 0 .. NumBuckets - 1 /\ 0 \in Nat
    OBVIOUS
  <2>2. pc \in [Threads -> PCs]
    BY DEF Init, PCs
  <2>3. buckets \in [0 .. NumBuckets - 1 -> Nodes \cup {NULL}]
    BY DEF Init
  <2>4. stats \in [Workers -> [k : Nat, h : Nat, m : Nat, p : Nat, d : Nat]]
    BY DEF Init, Zero
  <2> QED
    BY <2>1, <2>2, <2>3, <2>4 DEF Init, TypeOK
<1>2. Alive
  BY DEF Init, Alive, Lists, Linked, Unshared, KeysOnce, AllFound, Indexes
<1>3. Walks
  BY DEF Init, Walks, WorkerWalk, SweeperWalk, Threads
<1>4. Counts /\ Ledger
  BY FS_EmptySet DEF Init, Counts, Ledger
<1>5. Snapshots /\ StatsTypes
  BY DEF Init, Snapshots, StatsTypes, Zero, Threads
<1>6. Replies
  BY DEF Init, Replies, Threads
<1> QED
  BY <1>1, <1>2, <1>3, <1>4, <1>5, <1>6, PhasesInit DEF TableInv

LEMMA TableStep == TableInv /\ [Next]_vars => TableInv'
<1> SUFFICES ASSUME TableInv, [Next]_vars PROVE TableInv'
  OBVIOUS
<1>1. TypeOK /\ Phases /\ Alive /\ Walks /\ Counts /\ Ledger /\ Snapshots /\ StatsTypes
      /\ Replies
  BY DEF TableInv
<1>2. Counts' /\ Ledger' /\ keys' \in Nat /\ dels' \in Nat /\ puts' \in Nat
  BY <1>1, CountsStep
<1>3. Phases' /\ Alive' /\ Walks' /\ Snapshots' /\ StatsTypes' /\ Replies'
  BY <1>1, PhasesStep, AliveStep, WalksStep, SnapshotsStep, RepliesStep
<1>4. TypeOK'
  BY <1>1, <1>2, <1>3, MemoryTypesStep, OtherTypesStep DEF TypeOK, MemoryTypes, OtherTypes, StatsTypes
<1> QED
  BY <1>2, <1>3, <1>4 DEF TableInv

LEMMA TableInvariant == Spec => []TableInv
BY TableInit, TableStep, PTL DEF Spec

(* Every variable keeps its type; in particular the number of keys, which  *)
(* the sweeper and kv_del decrement, never becomes negative.               *)
THEOREM TableTypeCorrect == Spec => []TypeOK
BY TableInvariant, PTL DEF TableInv

(* No pointer that a worker or the sweeper follows leads to a freed cell,  *)
(* and the teardown comes after every thread has left (hash.c:41, 76, 103, *)
(* 137, 168).                                                              *)
THEOREM NoDanglingPointer == Spec => []NoUseAfterFree
<1>1. TableInv => NoUseAfterFree
  <2> SUFFICES ASSUME TableInv PROVE NoUseAfterFree
    OBVIOUS
  <2>1. ASSUME NEW w \in Workers, pc[w] \in {"time", "search", "sweep"}
        PROVE  curr[w] \in allocated \cup {NULL} /\ prev[w] \in allocated \cup {NULL}
    BY <2>1 DEF TableInv, Phases, Stages, Walks, WorkerWalk, StandsIn
  <2>2. /\ curr[Sweeper] \in allocated \cup {NULL}
        /\ prev[Sweeper] \in allocated \cup {NULL}
    BY DEF TableInv, Walks, SweeperWalk, StandsIn
  <2> QED
    BY <2>1, <2>2 DEF NoUseAfterFree, Threads, TableInv, Phases, Ended
<1> QED
  BY <1>1, TableInvariant, PTL

(* The chains hold every key once and in its bucket, nothing is leaked or  *)
(* lost by an insert, an unlink or a sweep, and the counter keys is the    *)
(* number of the nodes (hash.c:33-151).                                    *)
THEOREM ChainsHold == Spec => []ChainsOK
<1>1. TableInv => ChainsOK
  <2> SUFFICES ASSUME TableInv, alive PROVE
        /\ allocated = UNION {Chain(buckets[i]) : i \in DOMAIN buckets}
        /\ \A n \in allocated : n \in Chain(buckets[Bucket[heap[n].key]])
        /\ \A n1, n2 \in allocated : heap[n1].key = heap[n2].key => n1 = n2
        /\ keys = Cardinality(allocated)
    BY DEF ChainsOK
  <2>1. TypeOK /\ Lists /\ keys = Cardinality(allocated)
    BY DEF TableInv, Alive, Counts
  <2> QED
    BY <2>1, ChainsCover DEF Lists, KeysOnce
<1> QED
  BY <1>1, TableInvariant, PTL

(* The teardown frees every node (hash.c:153-169). *)
THEOREM TeardownFreesAll == Spec => []NoLeak
<1>1. TableInv => NoLeak
  BY DEF TableInv, Alive, NoLeak
<1> QED
  BY <1>1, TableInvariant, PTL

(* What one STATS reply says adds up, whatever goes on while its five      *)
(* counters are read one by one (handle_client.c:46-52).                   *)
THEOREM RepliesAddUp == Spec => []StatsAddUp
<1>1. TableInv => StatsAddUp
  <2> SUFFICES ASSUME TableInv, NEW w \in Workers, reply[w] = "STATS"
               PROVE  stats[w].k + stats[w].d <= stats[w].p /\ stats[w].k >= 0
    BY DEF StatsAddUp
  <2>1. pc[w] # "stats2"
    BY NullAssumption DEF TableInv, Replies
  <2>2. stats[w] \in [k : Nat, h : Nat, m : Nat, p : Nat, d : Nat] /\ stats[w].k + stats[w].d <= stats[w].p
    BY <2>1 DEF TableInv, Snapshots
  <2> QED
    BY <2>2
<1> QED
  BY <1>1, TableInvariant, PTL

=============================================================================
