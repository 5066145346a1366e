------------------------------- MODULE KvTable -------------------------------
(***************************************************************************)
(* The hash table of the Mini-KV server (hash.c): chained buckets in a     *)
(* heap whose cells malloc and free hand out and take back, one            *)
(* reader-writer lock, expiry times, the counters STATS reports, the       *)
(* sweeper thread and the teardown.  The workers call it from              *)
(* handle_client, one request at a time.                                   *)
(*                                                                         *)
(* A step is what a thread does between two points at which another thread *)
(* can matter: taking the lock (and reading the head of the bucket), the   *)
(* call of time(), each node of a traversal, the change with its counters, *)
(* the unlock.                                                             *)
(***************************************************************************)
EXTENDS Integers, FiniteSets

CONSTANTS Workers, Sweeper,
          Keys, Values,
          TTLs,         \* the ttl arguments clients send; 0: none given
          NumBuckets,
          Bucket,       \* hash_function(key) % num_buckets
          Nodes,        \* the cells malloc can return
          NULL,
          MaxOps,       \* bound: requests
          MaxTime       \* bound: the last second

ASSUME TableAssumption ==
  /\ Sweeper \notin Workers
  /\ NumBuckets \in Nat \ {0}
  /\ Bucket \in [Keys -> 0 .. NumBuckets - 1]
  /\ TTLs \subseteq Int
  /\ IsFiniteSet(Keys) /\ IsFiniteSet(Nodes)
  /\ Cardinality(Keys) <= Cardinality(Nodes)    \* malloc does not fail
  /\ NULL \notin Nodes \cup Workers \cup {Sweeper} \cup Values
  /\ MaxOps \in Nat /\ MaxTime \in Nat \ {0}

Threads == Workers \cup {Sweeper}

Requests ==
  [op : {"GET"}, key : Keys] \cup [op : {"DEL"}, key : Keys] \cup
  [op : {"PUT"}, key : Keys, val : Values, ttl : TTLs] \cup [op : {"STATS"}]

(* NULL, also "no request", "no reply" and "no entry", is none of those. *)
ASSUME NullAssumption ==
  /\ NULL \notin Requests /\ NULL \notin {"OK", "NOT_FOUND", "STATS"}
  /\ NULL \notin [val : Values, exp : Nat]

VARIABLES
  clock,                              \* time(NULL)
  g_shutdown,
  accepting,                          \* main has not left its accept loop
  alive,                              \* kv_destroy has not run
  buckets, heap, allocated,           \* bucket heads, cells, cells in use
  keys, hits, misses, puts, dels,     \* the atomic counters
  readers, writer,                    \* the holders of table->rwlock
  pc,                                 \* where each thread is
  req,                                \* the request each worker executes
  curr, prev,                         \* the pointers of each traversal
  now,                                \* the local now, or kv_put's expires_at
  reply,                              \* the result of each worker's request
  stats,                              \* the locals of a STATS request
  idx,                                \* the sweeper's loop index i
  ops                                 \* requests so far

memory   == <<buckets, heap, allocated>>
counters == <<keys, hits, misses, puts, dels>>
rwlock   == <<readers, writer>>
locals   == <<req, curr, prev, now, reply, stats, idx>>
life     == <<clock, g_shutdown, accepting, alive, ops>>
vars     == <<life, memory, counters, rwlock, pc, locals>>

Zero == [k |-> 0, h |-> 0, m |-> 0, p |-> 0, d |-> 0]

(* kv_init, and the locals of every thread. *)
Init ==
  /\ clock = 1 /\ ops = 0
  /\ g_shutdown = FALSE /\ accepting = TRUE /\ alive = TRUE
  /\ buckets = [i \in 0 .. NumBuckets - 1 |-> NULL]
  /\ heap = [n \in Nodes |-> NULL]
  /\ allocated = {}
  /\ keys = 0 /\ hits = 0 /\ misses = 0 /\ puts = 0 /\ dels = 0
  /\ readers = {} /\ writer = NULL
  /\ pc = [t \in Threads |-> IF t = Sweeper THEN "check" ELSE "idle"]
  /\ req = [w \in Workers |-> NULL]
  /\ curr = [t \in Threads |-> NULL]
  /\ prev = [t \in Threads |-> NULL]
  /\ now = [t \in Threads |-> 0]
  /\ reply = [w \in Workers |-> NULL]
  /\ stats = [w \in Workers |-> Zero]
  /\ idx = 0

-----------------------------------------------------------------------------
(* Helpers. *)

Goto(t, l) == pc' = [pc EXCEPT ![t] = l]
Set(v, t, x) == [v EXCEPT ![t] = x]

(* pthread_rwlock_rdlock, wrlock and unlock. *)
LockForReading(t) == writer = NULL /\ readers' = readers \cup {t} /\ UNCHANGED writer
LockForWritingTooSoon(t) == writer = NULL /\ writer' = t /\ UNCHANGED readers
LockForWriting(t) == writer = NULL /\ readers = {} /\ writer' = t /\ UNCHANGED readers
UnlockForgottenOnMiss(t) ==
  IF t \in Workers /\ reply[t] = "NOT_FOUND"
  THEN UNCHANGED <<readers, writer>>
  ELSE readers' = readers \ {t} /\ writer' = IF writer = t THEN NULL ELSE writer
UnlockTable(t) ==
  /\ readers' = readers \ {t}
  /\ writer' = IF writer = t THEN NULL ELSE writer

(* The bucket of thread t's request, and its first node. *)
BucketOf(t) == Bucket[req[t].key]

(* kv_get and the sweeper disagree by one second on what has expired. *)
ExpiredForGetLate(n, time) == heap[n].exp # 0 /\ time > heap[n].exp
ExpiredForGet(n, time) == heap[n].exp # 0 /\ time >= heap[n].exp
ExpiredForSweep(n, time) == heap[n].exp # 0 /\ heap[n].exp < time

(* What unlinks node n of bucket b whose predecessor is p: both stores. *)
UnlinkAsHead(b, p, n) ==
  buckets' = Set(buckets, b, heap[n].next) /\ UNCHANGED heap
Unlink(b, p, n) ==
  IF p = NULL THEN buckets' = Set(buckets, b, heap[n].next) /\ UNCHANGED heap
              ELSE heap' = [heap EXCEPT ![p].next = heap[n].next] /\ UNCHANGED buckets

-----------------------------------------------------------------------------
(* A worker's request.  pc: idle; lock: about to take the lock; time:      *)
(* about to call time(); search: in the loop; stats; unlock.               *)

Call(w) ==
  /\ pc[w] = "idle"
  /\ ops < MaxOps
  /\ ops' = ops + 1
  /\ \E r \in Requests : req' = Set(req, w, r)
  /\ Goto(w, "lock")
  /\ UNCHANGED <<clock, g_shutdown, accepting, alive, memory, counters, rwlock,
                 curr, prev, now, reply, stats, idx>>

Op(w) == IF req[w] = NULL THEN "none" ELSE req[w].op

(* The lock each operation takes, and its first look at the bucket. *)
Enter(w, op, next) ==
  /\ pc[w] = "lock" /\ Op(w) = op
  /\ curr' = Set(curr, w, buckets[BucketOf(w)])
  /\ prev' = Set(prev, w, NULL)
  /\ Goto(w, next)
  /\ UNCHANGED <<life, memory, counters, req, now, reply, stats, idx>>

GetLock(w) == Enter(w, "GET", "time") /\ LockForReading(w)
PutLock(w) == Enter(w, "PUT", "time") /\ LockForWriting(w)
DelLock(w) == Enter(w, "DEL", "search") /\ LockForWriting(w)

GetTime(w) ==
  /\ pc[w] = "time" /\ Op(w) = "GET"
  /\ now' = Set(now, w, clock)
  /\ Goto(w, "search")
  /\ UNCHANGED <<life, memory, counters, rwlock, req, curr, prev, reply, stats, idx>>

PutTime(w) ==
  /\ pc[w] = "time" /\ Op(w) = "PUT"
  /\ now' = Set(now, w, IF req[w].ttl > 0 THEN clock + req[w].ttl ELSE 0)
  /\ Goto(w, "search")
  /\ UNCHANGED <<life, memory, counters, rwlock, req, curr, prev, reply, stats, idx>>

(* The loop of kv_get, kv_put and kv_del. *)
Found(w)   == pc[w] = "search" /\ curr[w] # NULL /\ heap[curr[w]].key = req[w].key
Missing(w) == pc[w] = "search" /\ curr[w] = NULL

SearchNext(w) ==
  /\ pc[w] = "search" /\ curr[w] # NULL /\ heap[curr[w]].key # req[w].key
  /\ prev' = Set(prev, w, curr[w])
  /\ curr' = Set(curr, w, heap[curr[w]].next)
  /\ UNCHANGED <<life, memory, counters, rwlock, pc, req, now, reply, stats, idx>>

(* The result is known and only the unlock is left. *)
Decide(w, op, result) ==
  /\ Op(w) = op
  /\ reply' = Set(reply, w, result)
  /\ Goto(w, "unlock")
  /\ UNCHANGED <<life, rwlock, req, curr, prev, now, stats, idx>>

GetHit(w) ==
  /\ Found(w) /\ ~ExpiredForGet(curr[w], now[w])
  /\ Decide(w, "GET", heap[curr[w]].val)
  /\ hits' = hits + 1
  /\ UNCHANGED <<memory, keys, misses, puts, dels>>

GetMiss(w) ==
  /\ Missing(w) \/ (Found(w) /\ ExpiredForGet(curr[w], now[w]))
  /\ Decide(w, "GET", "NOT_FOUND")
  /\ misses' = misses + 1
  /\ UNCHANGED <<memory, keys, hits, puts, dels>>

PutUpdate(w) ==
  /\ Found(w)
  /\ Decide(w, "PUT", "OK")
  /\ heap' = [heap EXCEPT ![curr[w]].val = req[w].val, ![curr[w]].exp = now[w]]
  /\ puts' = puts + 1
  /\ UNCHANGED <<buckets, allocated, keys, hits, misses, dels>>

PutInsert(w) ==
  /\ Missing(w)
  /\ Decide(w, "PUT", "OK")
  /\ \E n \in Nodes \ allocated :
       /\ allocated' = allocated \cup {n}
       /\ heap' = Set(heap, n, [key |-> req[w].key, val |-> req[w].val,
                                exp |-> now[w], next |-> buckets[BucketOf(w)]])
       /\ buckets' = Set(buckets, BucketOf(w), n)
  /\ keys' = keys + 1 /\ puts' = puts + 1
  /\ UNCHANGED <<hits, misses, dels>>

DelUnlink(w) ==
  /\ Found(w)
  /\ Decide(w, "DEL", "OK")
  /\ Unlink(BucketOf(w), prev[w], curr[w])
  /\ allocated' = allocated \ {curr[w]}
  /\ keys' = keys - 1 /\ dels' = dels + 1
  /\ UNCHANGED <<hits, misses, puts>>

DelMissingCounted(w) ==
  /\ Missing(w)
  /\ Decide(w, "DEL", "NOT_FOUND")
  /\ keys' = keys - 1
  /\ UNCHANGED <<memory, hits, misses, puts, dels>>
DelMissing(w) ==
  /\ Missing(w)
  /\ Decide(w, "DEL", "NOT_FOUND")
  /\ UNCHANGED <<memory, counters>>

(* handle_client reads the five counters one by one under the read lock;   *)
(* keys, puts and dels change only under the write lock.                   *)
StatsUnlocked(w) ==
  /\ pc[w] = "lock" /\ Op(w) = "STATS"
  /\ Goto(w, "stats")
  /\ UNCHANGED <<life, memory, counters, rwlock, locals>>
StatsLock(w) ==
  /\ pc[w] = "lock" /\ Op(w) = "STATS"
  /\ LockForReading(w)
  /\ Goto(w, "stats")
  /\ UNCHANGED <<life, memory, counters, locals>>

StatsHits(w) ==
  /\ pc[w] = "stats"
  /\ stats' = [stats EXCEPT ![w].k = keys, ![w].h = hits]
  /\ Goto(w, "stats2")
  /\ UNCHANGED <<life, memory, counters, rwlock, req, curr, prev, now, reply, idx>>

StatsMisses(w) ==
  /\ pc[w] = "stats2"
  /\ stats' = [stats EXCEPT ![w].m = misses, ![w].p = puts, ![w].d = dels]
  /\ reply' = Set(reply, w, "STATS")
  /\ Goto(w, "unlock")
  /\ UNCHANGED <<life, memory, counters, rwlock, req, curr, prev, now, idx>>

(* The unlock, and the reply to the client. *)
Return(w) ==
  /\ pc[w] = "unlock" /\ w \in Workers
  /\ UnlockTable(w)
  /\ Goto(w, "idle")
  /\ req' = Set(req, w, NULL) /\ reply' = Set(reply, w, NULL)
  /\ curr' = Set(curr, w, NULL) /\ prev' = Set(prev, w, NULL)
  /\ now' = Set(now, w, 0) /\ stats' = Set(stats, w, Zero)
  /\ UNCHANGED <<life, memory, counters, idx>>

-----------------------------------------------------------------------------
(* sweeper_main.  pc: check: the loop test; sleep: nanosleep; lock; time;  *)
(* sweep: in the loops; prev = NULL stands for curr_ptr = &buckets[idx].   *)

SweepCheck ==
  /\ pc[Sweeper] = "check"
  /\ Goto(Sweeper, IF g_shutdown THEN "exited" ELSE "sleep")
  /\ UNCHANGED <<life, memory, counters, rwlock, locals>>

SweepAwake ==
  /\ pc[Sweeper] = "sleep"
  /\ Goto(Sweeper, IF g_shutdown THEN "exited" ELSE "lock")
  /\ UNCHANGED <<life, memory, counters, rwlock, locals>>

SweepLock ==
  /\ pc[Sweeper] = "lock"
  /\ LockForWriting(Sweeper)
  /\ Goto(Sweeper, "time")
  /\ UNCHANGED <<life, memory, counters, locals>>

SweepTime ==
  /\ pc[Sweeper] = "time"
  /\ now' = Set(now, Sweeper, clock)
  /\ idx' = 0
  /\ curr' = Set(curr, Sweeper, buckets[0])
  /\ Goto(Sweeper, "sweep")
  /\ UNCHANGED <<life, memory, counters, rwlock, req, prev, reply, stats>>

SweepFree ==
  LET n == curr[Sweeper]
  IN /\ pc[Sweeper] = "sweep" /\ n # NULL
     /\ ExpiredForSweep(n, now[Sweeper])
     /\ Unlink(idx, prev[Sweeper], n)
     /\ curr' = Set(curr, Sweeper, heap[n].next)
     /\ allocated' = allocated \ {n}
     /\ keys' = keys - 1
     /\ UNCHANGED <<life, hits, misses, puts, dels, rwlock, pc, req, prev, now,
                    reply, stats, idx>>

SweepKeep ==
  LET n == curr[Sweeper]
  IN /\ pc[Sweeper] = "sweep" /\ n # NULL
     /\ ~ExpiredForSweep(n, now[Sweeper])
     /\ prev' = Set(prev, Sweeper, n)
     /\ curr' = Set(curr, Sweeper, heap[n].next)
     /\ UNCHANGED <<life, memory, counters, rwlock, pc, req, now, reply, stats, idx>>

LastBucketEarly == idx + 1 >= NumBuckets - 1
LastBucket == idx = NumBuckets - 1

SweepBucket ==
  /\ pc[Sweeper] = "sweep" /\ curr[Sweeper] = NULL
  /\ ~LastBucket
  /\ idx' = idx + 1
  /\ curr' = Set(curr, Sweeper, buckets[idx + 1])
  /\ prev' = Set(prev, Sweeper, NULL)
  /\ UNCHANGED <<life, memory, counters, rwlock, pc, req, now, reply, stats>>

SweepUnlock ==
  /\ pc[Sweeper] = "sweep" /\ curr[Sweeper] = NULL
  /\ LastBucket
  /\ UnlockTable(Sweeper)
  /\ Goto(Sweeper, "check")
  /\ idx' = 0
  /\ prev' = Set(prev, Sweeper, NULL)
  /\ now' = Set(now, Sweeper, 0)
  /\ UNCHANGED <<life, memory, counters, req, curr, reply, stats>>

-----------------------------------------------------------------------------
(* The end: the signal, main leaves its accept loop (it may be in accept   *)
(* or in queue_enqueue for any time before), the workers return between    *)
(* two requests, main joins every thread and calls kv_destroy.             *)

sigint_handler ==
  /\ ~g_shutdown
  /\ g_shutdown' = TRUE
  /\ UNCHANGED <<clock, accepting, alive, ops, memory, counters, rwlock, pc, locals>>

StopAccepting ==
  /\ accepting /\ g_shutdown
  /\ accepting' = FALSE
  /\ UNCHANGED <<clock, g_shutdown, alive, ops, memory, counters, rwlock, pc, locals>>

WorkerExit(w) ==
  /\ pc[w] = "idle"
  /\ g_shutdown
  /\ Goto(w, "exited")
  /\ UNCHANGED <<life, memory, counters, rwlock, locals>>

(* The cells a pointer leads to. *)
ChainHead(p) == {p} \ {NULL}
Chain(p) ==
  LET upto[i \in Nat] ==
        IF i = 0 THEN {p} \ {NULL}
        ELSE upto[i - 1] \cup ({heap[n].next : n \in upto[i - 1]} \ {NULL})
  IN  upto[Cardinality(Nodes)]

AllJoined == \A t \in Threads : pc[t] = "exited"

kv_destroy ==
  /\ ~accepting /\ AllJoined /\ alive
  /\ writer = NULL /\ readers = {}
  /\ allocated' = allocated \ UNION {Chain(buckets[i]) : i \in DOMAIN buckets}
  /\ alive' = FALSE
  /\ UNCHANGED <<clock, g_shutdown, accepting, ops, buckets, heap, counters, rwlock, pc, locals>>

Tick ==
  /\ clock < MaxTime
  /\ clock' = clock + 1
  /\ UNCHANGED <<g_shutdown, accepting, alive, ops, memory, counters, rwlock, pc, locals>>

-----------------------------------------------------------------------------
RequestStep(w) ==
  \/ GetLock(w) \/ PutLock(w) \/ DelLock(w) \/ StatsLock(w)
  \/ GetTime(w) \/ PutTime(w) \/ SearchNext(w)
  \/ GetHit(w) \/ GetMiss(w) \/ PutUpdate(w) \/ PutInsert(w)
  \/ DelUnlink(w) \/ DelMissing(w)
  \/ StatsHits(w) \/ StatsMisses(w)
  \/ Return(w)

SweeperStep ==
  \/ SweepCheck \/ SweepAwake \/ SweepLock \/ SweepTime
  \/ SweepFree \/ SweepKeep \/ SweepBucket \/ SweepUnlock

Next ==
  \/ \E w \in Workers : Call(w) \/ RequestStep(w) \/ WorkerExit(w)
  \/ SweeperStep
  \/ sigint_handler \/ StopAccepting \/ kv_destroy \/ Tick

Spec == Init /\ [][Next]_vars

(* Every thread is scheduled, nanosleep returns and the clock goes on.     *)
(* Main need never leave its loop: accept may block for ever, signal or    *)
(* not.  A worker asleep on the empty queue is only sure to return after   *)
(* the broadcast main sends once it has left, one in a session once its    *)
(* client ends it, which it is assumed to do.                              *)
FairSpec ==
  /\ Spec
  /\ \A w \in Workers :
       WF_vars(RequestStep(w)) /\ WF_vars(~accepting /\ WorkerExit(w))
  /\ WF_vars(SweeperStep)
  /\ WF_vars(kv_destroy)
  /\ WF_vars(Tick)

-----------------------------------------------------------------------------
(* Properties. *)

PCs == {"idle", "lock", "time", "search", "stats", "stats2", "unlock",
        "check", "sleep", "sweep", "exited"}
Cells == [key : Keys, val : Values, exp : Nat, next : Nodes \cup {NULL}]

(* Every variable has its type, the five values a STATS has read included. *)
TypeOK ==
  /\ clock \in 1 .. MaxTime /\ ops \in 0 .. MaxOps
  /\ g_shutdown \in BOOLEAN /\ accepting \in BOOLEAN /\ alive \in BOOLEAN
  /\ buckets \in [0 .. NumBuckets - 1 -> Nodes \cup {NULL}]
  /\ allocated \in SUBSET Nodes
  /\ DOMAIN heap = Nodes /\ \A n \in allocated : heap[n] \in Cells
  /\ keys \in Nat /\ hits \in Nat /\ misses \in Nat /\ puts \in Nat /\ dels \in Nat
  /\ readers \in SUBSET Threads /\ writer \in Threads \cup {NULL}
  /\ pc \in [Threads -> PCs]
  /\ req \in [Workers -> Requests \cup {NULL}]
  /\ curr \in [Threads -> Nodes \cup {NULL}] /\ prev \in [Threads -> Nodes \cup {NULL}]
  /\ now \in [Threads -> Nat]
  /\ reply \in [Workers -> Values \cup {"OK", "NOT_FOUND", "STATS", NULL}]
  /\ stats \in [Workers -> [k : Nat, h : Nat, m : Nat, p : Nat, d : Nat]]
  /\ idx \in 0 .. NumBuckets - 1

(* No thread follows a pointer to freed memory (hash.c:41, 76, 103, 137):  *)
(* every node a traversal stands on or came from is allocated, and no      *)
(* thread is inside the table when kv_destroy has freed it (hash.c:168).   *)
NoUseAfterFree ==
  /\ \A t \in Threads : curr[t] # NULL /\ pc[t] \in {"time", "search", "sweep"}
       => curr[t] \in allocated
  /\ \A t \in Threads : prev[t] # NULL /\ pc[t] \in {"search", "sweep"}
       => prev[t] \in allocated
  /\ ~alive => \A t \in Threads : pc[t] = "exited"

(* Whenever no writer is inside, the chains hold each key once, in its own *)
(* bucket, every allocated node is in a chain and no freed node is, and    *)
(* the counter keys is their number (hash.c:33-119, 123-151): no node is   *)
(* leaked, none is lost by an unlink or an insert.                         *)
ChainsOK ==
  alive /\ writer = NULL =>
    /\ allocated = UNION {Chain(buckets[i]) : i \in DOMAIN buckets}
    /\ \A n \in allocated : n \in Chain(buckets[Bucket[heap[n].key]])
    /\ \A n1, n2 \in allocated : heap[n1].key = heap[n2].key => n1 = n2
    /\ keys = Cardinality(allocated)

(* kv_destroy frees every node (hash.c:153-169). *)
NoLeak == ~alive => allocated = {}

(* What STATS reports adds up (handle_client.c:46-52): every key that is   *)
(* there or was deleted was put, although the counters are read one by one *)
(* while sweeps, puts and deletes go on.                                   *)
StatsAddUp ==
  \A w \in Workers :
    reply[w] = "STATS" => stats[w].k + stats[w].d <= stats[w].p /\ stats[w].k >= 0

(* The entry of key k as its clients see it.  A PUT counts from its call   *)
(* of time() on: from there until it returns it owns the write lock.       *)
Pending(k) == {w \in Workers : /\ pc[w] = "search" /\ Op(w) = "PUT"
                               /\ req[w].key = k}
EntryOf(k) ==
  IF Pending(k) # {}
  THEN LET w == CHOOSE w \in Pending(k) : TRUE
       IN  [val |-> req[w].val, exp |-> now[w]]
  ELSE LET ns == {n \in allocated : heap[n].key = k}
       IN  IF ns = {} THEN NULL
           ELSE LET n == CHOOSE n \in ns : TRUE
                IN  [val |-> heap[n].val, exp |-> heap[n].exp]

(* The result of worker w's request once it is determined: a GET answers   *)
(* for the second in which it called time().                               *)
AnswerOf(w) ==
  CASE pc[w] = "search" /\ Op(w) = "PUT" -> "OK"
    [] pc[w] = "search" /\ Op(w) = "GET" ->
         LET entry == EntryOf(req[w].key)
         IN  IF entry # NULL /\ (entry.exp = 0 \/ now[w] < entry.exp)
             THEN entry.val ELSE "NOT_FOUND"
    [] OTHER -> reply[w]

(* The table implements TtlStore: every GET, PUT and DEL takes effect at   *)
(* one instant between its call and its return, no GET sees an expired key *)
(* or misses one that has not expired, and the sweeper removes only what   *)
(* no GET can see (hash.c:33-151).                                         *)
Store == INSTANCE TtlStore
           WITH Clients <- Workers, Nothing <- NULL,
                store <- [k \in Keys |-> EntryOf(k)], time <- clock, open <- alive,
                ask <- req, answer <- [w \in Workers |-> AnswerOf(w)]
StoreSpec == Store!StoreSpec

(* An expired entry is freed or replaced in the end, in whichever bucket   *)
(* it is (hash.c:135-147), unless the server shuts down first.             *)
Reclaimed ==
  \A n \in Nodes : \A e \in 1 .. MaxTime :
    (n \in allocated /\ heap[n].exp = e /\ e < clock)
      ~> (g_shutdown \/ n \notin allocated \/ heap[n].exp # e)

(* Once main has left its accept loop the workers and the sweeper stop,    *)
(* whatever they were doing, and the table is destroyed (hash.c:129-131,   *)
(* kvserver.c:174-198).  The signal alone is not enough: see CleanShutdown *)
(* in WorkerPool.                                                          *)
Destroyed == ~accepting ~> ~alive

=============================================================================
