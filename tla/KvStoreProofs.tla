---------------------------- MODULE KvStoreProofs ----------------------------
(***************************************************************************)
(* The hash table of hash.c implements the map with expiry times of        *)
(* TtlStore, for any number of workers, keys, buckets and cells: each      *)
(* request takes effect at one instant between its call and its return.    *)
(*                                                                         *)
(* GET takes effect when it reads the clock, PUT too, DEL when it unlinks  *)
(* the node or finds none, STATS with its last counter.  The sweeper's     *)
(* free is a Purge, as its clock is never ahead of the time.  Every other  *)
(* step leaves the map and the answers as they were.                       *)
(***************************************************************************)
EXTENDS KvTableProofs

-----------------------------------------------------------------------------
(* The second for which the sweeper sweeps has come. *)

SweepClock == pc[Sweeper] = "sweep" => now[Sweeper] <= clock

LEMMA SweepClockStep == TypeOK /\ SweepClock /\ [Next]_vars => SweepClock'
<1> SUFFICES ASSUME TypeOK, SweepClock, [Next]_vars PROVE SweepClock'
  OBVIOUS
<1>0. /\ pc \in [Threads -> PCs] /\ now \in [Threads -> Nat] /\ clock \in Int
      /\ Sweeper \in Threads
  BY ThreadFacts, TableAssumption DEF TypeOK
<1>1. ASSUME NEW w \in Workers, Call(w) \/ RequestStep(w) \/ WorkerExit(w) PROVE SweepClock'
  <2>1. clock' = clock /\ pc'[Sweeper] = pc[Sweeper] /\ now'[Sweeper] = now[Sweeper]
    <3>1. w # Sweeper
      BY ThreadFacts
    <3> QED
      BY <1>0, <1>1, <3>1 DEF Call, RequestStep, WorkerExit, GetLock, PutLock, DelLock, StatsLock,
         Enter, GetTime, PutTime, SearchNext, GetHit, GetMiss, PutUpdate, PutInsert, DelUnlink,
         DelMissing, Decide, StatsHits, StatsMisses, Return, life, locals, Goto, Set
  <2> QED
    BY <2>1 DEF SweepClock
<1>2. CASE SweepTime
  BY <1>0, <1>2 DEF SweepTime, SweepClock, life, Set, Goto
<1>3. CASE SweepFree \/ SweepKeep \/ SweepBucket
  BY <1>3 DEF SweepFree, SweepKeep, SweepBucket, SweepClock, life
<1>4. CASE SweepCheck \/ SweepAwake \/ SweepLock \/ SweepUnlock
  <2>1. pc'[Sweeper] # "sweep"
    BY <1>0, <1>4 DEF SweepCheck, SweepAwake, SweepLock, SweepUnlock, Goto
  <2> QED
    BY <2>1 DEF SweepClock
<1>5. CASE Tick
  BY <1>0, <1>5 DEF Tick, SweepClock, locals
<1>6. CASE sigint_handler \/ StopAccepting \/ kv_destroy \/ UNCHANGED vars
  BY <1>6 DEF sigint_handler, StopAccepting, kv_destroy, vars, SweepClock, locals, life
<1> QED
  BY <1>1, <1>2, <1>3, <1>4, <1>5, <1>6 DEF Next, SweeperStep

-----------------------------------------------------------------------------
(* The map the table stands for. *)

Puts(w) == pc[w] = "search" /\ Op(w) = "PUT"
Entry   == [val : Values, exp : Nat]

(* The entry of a key, in the four situations there are. *)
EntriesOK ==
  \A k \in Keys :
    /\ EntryOf(k) \in Entry \cup {NULL}
    /\ \A w \in Workers : Puts(w) /\ req[w].key = k
         => EntryOf(k) = [val |-> req[w].val, exp |-> now[w]]
    /\ (\A w \in Workers : Puts(w) => req[w].key # k) =>
         /\ \A n \in allocated : heap[n].key = k
              => EntryOf(k) = [val |-> heap[n].val, exp |-> heap[n].exp]
         /\ (\A n \in allocated : heap[n].key # k) => EntryOf(k) = NULL

LEMMA Entries == TableInv => EntriesOK
<1> SUFFICES ASSUME TableInv, NEW k \in Keys PROVE
      /\ EntryOf(k) \in Entry \cup {NULL}
      /\ \A w \in Workers : Puts(w) /\ req[w].key = k
           => EntryOf(k) = [val |-> req[w].val, exp |-> now[w]]
      /\ (\A w \in Workers : Puts(w) => req[w].key # k) =>
           /\ \A n \in allocated : heap[n].key = k
                => EntryOf(k) = [val |-> heap[n].val, exp |-> heap[n].exp]
           /\ (\A n \in allocated : heap[n].key # k) => EntryOf(k) = NULL
  BY DEF EntriesOK
<1>0. TypeOK /\ Phases /\ Alive /\ allocated \subseteq Nodes
      /\ now \in [Threads -> Nat] /\ \A n \in allocated : heap[n] \in Cells
  BY DEF TableInv, TypeOK
<1>1. CASE Pending(k) # {}
  <2> DEFINE w == CHOOSE w \in Pending(k) : TRUE
  <2>1. w \in Pending(k)
    BY <1>1
  <2>2. EntryOf(k) = [val |-> req[w].val, exp |-> now[w]]
    BY <1>1 DEF EntryOf
  <2> HIDE DEF w
  <2>3. w \in Workers /\ Puts(w) /\ req[w].key = k
    BY <2>1 DEF Pending, Puts
  <2>4. req[w] \in Requests /\ req[w].op = "PUT"
    BY <1>0, <2>3, NullAssumption DEF Puts, Op, TypeOK
  <2>5. EntryOf(k) \in Entry
    BY <1>0, <2>2, <2>3, <2>4, RequestFields, ThreadFacts DEF Entry
  <2>6. ASSUME NEW v \in Workers, Puts(v) PROVE v = w
    <3>1. writer = v /\ writer = w
      BY <1>0, <2>3, <2>6 DEF Puts, Phases, Locking, Writes
    <3> QED
      BY <3>1
  <2> QED
    BY <2>2, <2>3, <2>5, <2>6
<1>2. CASE Pending(k) = {}
  <2> DEFINE ns == {n \in allocated : heap[n].key = k}
  <2>1. \A w \in Workers : Puts(w) => req[w].key # k
    BY <1>2 DEF Pending, Puts
  <2>2. CASE ns = {}
    <3>1. EntryOf(k) = NULL
      BY <1>2, <2>2 DEF EntryOf
    <3> QED
      BY <2>1, <2>2, <3>1
  <2>3. CASE ns # {}
    <3> DEFINE n == CHOOSE n \in ns : TRUE
    <3>1. n \in ns
      BY <2>3
    <3>2. EntryOf(k) = [val |-> heap[n].val, exp |-> heap[n].exp]
      BY <1>2, <2>3 DEF EntryOf
    <3> HIDE DEF n
    <3>3. n \in allocated /\ heap[n].key = k
      BY <3>1
    <3>4. EntryOf(k) \in Entry
      BY <1>0, <3>2, <3>3 DEF Cells, Entry
    <3>5. \A m \in allocated : heap[m].key = k => m = n
      BY <1>0, <3>3 DEF Alive, Lists, KeysOnce
    <3> QED
      BY <2>1, <3>2, <3>3, <3>4, <3>5
  <2> QED
    BY <2>2, <2>3
<1> QED
  BY <1>1, <1>2

LEMMA EntriesNext == TableInv' => EntriesOK'
BY Entries, PTL

(* What changes neither the PUT under way nor the cells changes no entry. *)
LEMMA EntryKept ==
  ASSUME TableInv, TableInv', NEW k \in Keys,
         \A w \in Workers : Puts(w)' /\ req'[w].key = k <=> Puts(w) /\ req[w].key = k,
         \A w \in Workers : Puts(w) => req'[w].val = req[w].val /\ now'[w] = now[w],
         \A n : (n \in allocated' /\ heap'[n].key = k) <=> (n \in allocated /\ heap[n].key = k),
         \A n \in allocated : heap[n].key = k =>
           heap'[n].val = heap[n].val /\ heap'[n].exp = heap[n].exp
  PROVE  EntryOf(k)' = EntryOf(k)
<1>1. EntriesOK /\ EntriesOK'
  BY Entries, EntriesNext
<1>2. CASE \E w \in Workers : Puts(w) /\ req[w].key = k
  BY <1>1, <1>2 DEF EntriesOK
<1>3. CASE \A w \in Workers : Puts(w) => req[w].key # k
  <2>1. CASE \E n \in allocated : heap[n].key = k
    <3>1. PICK n \in allocated : heap[n].key = k
      BY <2>1
    <3>2. EntryOf(k) = [val |-> heap[n].val, exp |-> heap[n].exp]
      BY <1>1, <1>3, <3>1 DEF EntriesOK
    <3>3. EntryOf(k)' = [val |-> heap'[n].val, exp |-> heap'[n].exp]
      BY <1>1, <1>3, <3>1 DEF EntriesOK
    <3> QED
      BY <3>1, <3>2, <3>3
  <2>2. CASE \A n \in allocated : heap[n].key # k
    BY <1>1, <1>3, <2>2 DEF EntriesOK
  <2> QED
    BY <2>1, <2>2
<1> QED
  BY <1>2, <1>3

-----------------------------------------------------------------------------
(* The answers. *)

(* A worker that stands still keeps its answer if no entry changes under   *)
(* its search.                                                             *)
LEMMA AnswerKept ==
  ASSUME TableInv, NEW w \in Workers,
         pc'[w] = pc[w] \/ (pc[w] # "search" /\ pc'[w] # "search"),
         req'[w] = req[w], now'[w] = now[w], reply'[w] = reply[w],
         pc[w] = "search" /\ Op(w) = "GET" => \A k \in Keys : EntryOf(k)' = EntryOf(k)
  PROVE  AnswerOf(w)' = AnswerOf(w)
<1>1. Op(w)' = Op(w)
  BY DEF Op
<1>2. CASE pc[w] = "search" /\ Op(w) = "GET"
  <2>1. req[w].key \in Keys
    BY <1>2, Searching DEF TableInv
  <2>2. EntryOf(req[w].key)' = EntryOf(req[w].key)
    BY <1>2, <2>1
  <2>3. pc'[w] = "search" /\ Op(w)' = "GET"
    BY <1>1, <1>2
  <2> QED
    BY <1>2, <2>2, <2>3 DEF AnswerOf
<1>3. CASE ~(pc[w] = "search" /\ Op(w) = "GET")
  BY <1>1, <1>3 DEF AnswerOf
<1> QED
  BY <1>2, <1>3

TheMap     == [k \in Keys |-> EntryOf(k)]
TheAnswers == [w \in Workers |-> AnswerOf(w)]

(* A step that changes no entry and no answer is one the clients do not    *)
(* see.                                                                    *)
LEMMA Unseen ==
  ASSUME UNCHANGED <<clock, alive, req>>,
         \A k \in Keys : EntryOf(k)' = EntryOf(k),
         \A w \in Workers : AnswerOf(w)' = AnswerOf(w)
  PROVE  UNCHANGED Store!storeVars
<1>1. TheMap' = TheMap /\ TheAnswers' = TheAnswers
  BY DEF TheMap, TheAnswers
<1> QED
  BY <1>1 DEF Store!storeVars, TheMap, TheAnswers

(* The steps that only move a worker or the sweeper. *)
LEMMA Unnoticed ==
  ASSUME TableInv, TableInv', UNCHANGED <<clock, alive, req, heap, allocated>>,
         \A w \in Workers :
           /\ now'[w] = now[w] /\ reply'[w] = reply[w]
           /\ pc'[w] = pc[w] \/ Op(w) = "DEL" \/ (pc[w] # "search" /\ pc'[w] # "search")
  PROVE  UNCHANGED Store!storeVars
<1>1. \A w \in Workers : Op(w)' = Op(w)
  BY DEF Op
<1>2. ASSUME NEW k \in Keys PROVE EntryOf(k)' = EntryOf(k)
  <2>1. \A w \in Workers : Puts(w)' <=> Puts(w)
    BY <1>1 DEF Puts
  <2> QED
    BY <2>1, EntryKept
<1>3. ASSUME NEW w \in Workers PROVE AnswerOf(w)' = AnswerOf(w)
  <2>1. CASE Op(w) = "DEL"
    BY <1>1, <2>1 DEF AnswerOf
  <2>2. CASE Op(w) # "DEL"
    BY <1>2, <2>2, AnswerKept
  <2> QED
    BY <2>1, <2>2
<1> QED
  BY <1>2, <1>3, Unseen

-----------------------------------------------------------------------------
(* What each step is to a client. *)

StoreStep == [Store!StoreNext]_(Store!storeVars)

LEMMA StoreInitially == Init => Store!StoreInit
<1> SUFFICES ASSUME Init PROVE Store!StoreInit
  OBVIOUS
<1> USE ThreadFacts
<1>1. \A k \in Keys : EntryOf(k) = NULL
  <2>1. TableInv /\ EntriesOK
    BY TableInit, Entries
  <2>2. \A w \in Workers : ~Puts(w)
    BY DEF Init, Puts, Threads
  <2> QED
    BY <2>1, <2>2 DEF Init, EntriesOK
<1>2. \A w \in Workers : AnswerOf(w) = NULL
  BY DEF Init, AnswerOf, Threads
<1> QED
  BY <1>1, <1>2 DEF Init, Store!StoreInit

LEMMA CallIsAsk ==
  ASSUME TableInv, TableInv', NEW w \in Workers, Call(w) PROVE Store!Ask(w)
<1>0. /\ pc \in [Threads -> PCs] /\ pc[w] = "idle" /\ UNCHANGED <<heap, allocated, clock, alive, now, reply>>
      /\ pc' = [pc EXCEPT ![w] = "lock"] /\ w \in Threads
      /\ \E r \in Requests : req' = [req EXCEPT ![w] = r]
  BY ThreadFacts DEF TableInv, TypeOK, Call, Goto, Set, memory
<1>1. req[w] = NULL /\ alive = TRUE
  BY <1>0 DEF TableInv, TypeOK, Phases, Stages, Ended
<1>2. \A v \in Workers \ {w} : req'[v] = req[v] /\ pc'[v] = pc[v]
  BY <1>0 DEF TableInv, TypeOK
<1>3. \A v \in Workers : Puts(v)' <=> Puts(v)
  BY <1>0, <1>2 DEF Puts, Op
<1>4. \A k \in Keys : EntryOf(k)' = EntryOf(k)
  <2> SUFFICES ASSUME NEW k \in Keys PROVE EntryOf(k)' = EntryOf(k)
    OBVIOUS
  <2>1. \A v \in Workers : Puts(v) => v # w
    BY <1>0 DEF Puts
  <2> QED
    BY <1>0, <1>2, <1>3, <2>1, EntryKept
<1>5. \A v \in Workers : AnswerOf(v)' = AnswerOf(v)
  <2>1. ASSUME NEW v \in Workers \ {w} PROVE AnswerOf(v)' = AnswerOf(v)
    BY <1>0, <1>2, <1>4, <2>1, AnswerKept
  <2>2. AnswerOf(w)' = AnswerOf(w)
    BY <1>0 DEF AnswerOf
  <2> QED
    BY <2>1, <2>2
<1>6. TheMap' = TheMap /\ TheAnswers' = TheAnswers
  BY <1>4, <1>5 DEF TheMap, TheAnswers
<1>7. \E r \in Store!Requests : req' = [req EXCEPT ![w] = r]
  BY <1>0 DEF Requests, Store!Requests
<1> QED
  BY <1>0, <1>1, <1>6, <1>7 DEF Store!Ask, TheMap, TheAnswers

(* The answers after a step that settles the request of worker w. *)
LEMMA OneAnswer ==
  ASSUME NEW w \in Workers, NEW a, AnswerOf(w)' = a,
         \A v \in Workers \ {w} : AnswerOf(v)' = AnswerOf(v)
  PROVE  TheAnswers' = [TheAnswers EXCEPT ![w] = a]
BY DEF TheAnswers

LEMMA GetTimeIsGet ==
  ASSUME TableInv, TableInv', NEW w \in Workers, GetTime(w) PROVE Store!Get(w)
<1>0. /\ pc \in [Threads -> PCs] /\ now \in [Threads -> Nat]
      /\ pc[w] = "time" /\ Op(w) = "GET"
      /\ UNCHANGED <<heap, allocated, clock, alive, req, reply>>
      /\ pc' = [pc EXCEPT ![w] = "search"] /\ now' = [now EXCEPT ![w] = clock] /\ w \in Threads
  BY ThreadFacts DEF TableInv, TypeOK, GetTime, Goto, Set, memory, life
<1>1. /\ \A v \in Workers \ {w} : pc'[v] = pc[v] /\ now'[v] = now[v]
      /\ \A v \in Workers : Op(v)' = Op(v)
      /\ pc'[w] = "search" /\ now'[w] = clock
  BY <1>0, ThreadFacts DEF Op
<1>2. \A v \in Workers : (Puts(v)' <=> Puts(v)) /\ (Puts(v) => v # w)
  BY <1>0, <1>1 DEF Puts
<1>3. ASSUME NEW k \in Keys PROVE EntryOf(k)' = EntryOf(k)
  BY <1>0, <1>1, <1>2, EntryKept
<1>4. ASSUME NEW v \in Workers \ {w} PROVE AnswerOf(v)' = AnswerOf(v)
  BY <1>0, <1>1, <1>3, AnswerKept
<1>5. req[w] # NULL /\ req[w] \in Requests /\ req[w].op = "GET" /\ req[w].key \in Keys
      /\ AnswerOf(w) = NULL
  <2>1. req[w] # NULL /\ req[w] \in Requests /\ req[w].op = "GET"
    BY <1>0, NullAssumption DEF Op, TableInv, TypeOK
  <2>2. reply[w] = NULL
    BY <1>0 DEF TableInv, Replies
  <2> QED
    BY <1>0, <2>1, <2>2, RequestFields DEF AnswerOf
<1> DEFINE e == EntryOf(req[w].key)
           a == IF e # NULL /\ (e.exp = 0 \/ clock < e.exp) THEN e.val ELSE "NOT_FOUND"
<1>6. AnswerOf(w)' = a
  <2>1. EntryOf(req[w].key)' = e
    BY <1>0, <1>3, <1>5
  <2>2. Op(w)' = "GET" /\ pc'[w] = "search" /\ now'[w] = clock
    BY <1>0, <1>1
  <2> QED
    BY <2>1, <2>2 DEF AnswerOf
<1>7. TheMap' = TheMap /\ TheMap[req[w].key] = e /\ TheAnswers[w] = NULL
  BY <1>3, <1>5 DEF TheMap, TheAnswers
<1>8. TheAnswers' = [TheAnswers EXCEPT ![w] = a]
  <2> HIDE DEF a
  <2> QED
    BY <1>4, <1>6, OneAnswer
<1>9. a = IF Store!Valid(TheMap[req[w].key]) THEN TheMap[req[w].key].val ELSE "NOT_FOUND"
  BY <1>7 DEF Store!Valid
<1> HIDE DEF a, e
<1> QED
  BY <1>0, <1>5, <1>7, <1>8, <1>9 DEF Store!Get, Store!Waits, TheMap, TheAnswers

(* A worker that puts or deletes has the table to itself. *)
LEMMA WriterAlone ==
  ASSUME TableInv, NEW w \in Workers, pc[w] \in {"time", "search"}, Op(w) \in {"PUT", "DEL"}
  PROVE  \A v \in Workers \ {w} : pc[v] \in {"idle", "lock", "exited"} /\ ~Puts(v)
<1>1. writer = w
  BY DEF TableInv, Phases, Locking, Writes
<1> QED
  BY <1>1, Alone, ThreadFacts DEF TableInv, Puts

LEMMA WriterFacts ==
  ASSUME TableInv, NEW w \in Workers, pc[w] \in {"time", "search"}, NEW op, Op(w) = op,
         op \in {"GET", "PUT", "DEL"}
  PROVE  req[w] # NULL /\ req[w] \in Requests /\ req[w].op = op /\ req[w].key \in Keys
         /\ reply[w] = NULL
<1>1. req[w] # NULL /\ req[w] \in Requests /\ req[w].op = op
  BY NullAssumption DEF Op, TableInv, TypeOK
<1>2. reply[w] = NULL
  BY DEF TableInv, Replies
<1> QED
  BY <1>1, <1>2, RequestFields

LEMMA PutTimeIsPut ==
  ASSUME TableInv, TableInv', NEW w \in Workers, PutTime(w) PROVE Store!Put(w)
<1>a. PICK r : r = req[w]
  OBVIOUS
<1>b. PICK t : t = IF r.ttl > 0 THEN clock + r.ttl ELSE 0
  OBVIOUS
<1>0. /\ pc \in [Threads -> PCs] /\ now \in [Threads -> Nat]
      /\ pc[w] = "time" /\ Op(w) = "PUT"
      /\ UNCHANGED <<heap, allocated, clock, alive, req, reply>>
      /\ pc' = [pc EXCEPT ![w] = "search"] /\ now' = [now EXCEPT ![w] = t] /\ w \in Threads
  BY <1>a, <1>b, ThreadFacts DEF TableInv, TypeOK, PutTime, Goto, Set, memory, life
<1>1. /\ \A v \in Workers \ {w} : pc'[v] = pc[v] /\ now'[v] = now[v]
      /\ \A v \in Workers : Op(v)' = Op(v)
      /\ pc'[w] = "search" /\ now'[w] = t
  BY <1>0, ThreadFacts DEF Op
<1>2. \A v \in Workers \ {w} : pc[v] \in {"idle", "lock", "exited"} /\ ~Puts(v) /\ ~Puts(v)'
  BY <1>0, <1>1, WriterAlone DEF Puts
<1>3. ~Puts(w) /\ Puts(w)'
  BY <1>0, <1>1 DEF Puts
<1>4. r # NULL /\ r \in Requests /\ r.op = "PUT" /\ r.key \in Keys /\ reply[w] = NULL
  BY <1>0, <1>a, WriterFacts
<1>5. EntryOf(r.key)' = [val |-> r.val, exp |-> t]
  <2>1. req'[w] = r /\ EntriesOK'
    BY <1>0, <1>a, EntriesNext
  <2> QED
    BY <1>1, <1>3, <1>4, <2>1 DEF EntriesOK
<1>6. ASSUME NEW k \in Keys \ {r.key} PROVE EntryOf(k)' = EntryOf(k)
  BY <1>0, <1>2, <1>3, <1>6, <1>a, EntryKept
<1>7. ASSUME NEW v \in Workers \ {w} PROVE AnswerOf(v)' = AnswerOf(v)
  BY <1>0, <1>1, <1>2, <1>7, AnswerKept
<1>8. AnswerOf(w) = NULL /\ AnswerOf(w)' = "OK"
  BY <1>0, <1>1, <1>4 DEF AnswerOf
<1>9. TheMap' = [TheMap EXCEPT ![r.key] = [val |-> r.val, exp |-> t]]
  BY <1>4, <1>5, <1>6 DEF TheMap
<1>10. TheAnswers' = [TheAnswers EXCEPT ![w] = "OK"] /\ TheAnswers[w] = NULL
  BY <1>7, <1>8, OneAnswer DEF TheAnswers
<1>11. t = Store!Expiry(r.ttl)
  BY <1>b DEF Store!Expiry
<1> QED
  BY <1>0, <1>a, <1>4, <1>9, <1>10, <1>11 DEF Store!Put, Store!Waits, TheMap, TheAnswers

(* The delete of a key that is there, and of one that is not. *)
LEMMA DelUnlinkIsDel ==
  ASSUME TableInv, TableInv', NEW w \in Workers, DelUnlink(w) PROVE Store!Del(w)
<1>k. PICK k : k = req[w].key
  OBVIOUS
<1>n. PICK n : n = curr[w]
  OBVIOUS
<1>0. /\ pc \in [Threads -> PCs] /\ reply \in [Workers -> Values \cup {"OK", "NOT_FOUND", "STATS", NULL}]
      /\ pc[w] = "search" /\ Op(w) = "DEL"
      /\ UNCHANGED <<clock, alive, req, now>>
      /\ pc' = [pc EXCEPT ![w] = "unlock"] /\ reply' = [reply EXCEPT ![w] = "OK"] /\ w \in Threads
  BY ThreadFacts DEF TableInv, TypeOK, DelUnlink, Decide, Found, Goto, Set, life
<1>1. /\ \A v \in Workers \ {w} : pc'[v] = pc[v] /\ reply'[v] = reply[v]
      /\ \A v \in Workers : Op(v)' = Op(v)
      /\ pc'[w] = "unlock" /\ reply'[w] = "OK"
  BY <1>0, ThreadFacts DEF Op
<1>2. \A v \in Workers \ {w} : pc[v] \in {"idle", "lock", "exited"} /\ ~Puts(v) /\ ~Puts(v)'
  BY <1>0, <1>1, WriterAlone DEF Puts
<1>3. ~Puts(w) /\ ~Puts(w)'
  BY <1>0, <1>1 DEF Puts
<1>4. req[w] # NULL /\ req[w].op = "DEL" /\ k \in Keys /\ reply[w] = NULL
  BY <1>0, <1>k, WriterFacts
<1>5. /\ n \in allocated /\ heap[n].key = k /\ allocated' = allocated \ {n}
      /\ \A m \in allocated : heap'[m].key = heap[m].key
           /\ heap'[m].val = heap[m].val /\ heap'[m].exp = heap[m].exp
      /\ \A m \in allocated : heap[m].key = k => m = n
  <2>1. KeysOnce
    BY <1>0, Searching DEF TableInv, Lists
  <2> QED
    BY <1>k, <1>n, <2>1, DeleteStep DEF TableInv, KeysOnce
<1>6. EntryOf(k) # NULL /\ EntryOf(k)' = NULL
  <2>1. EntriesOK /\ EntriesOK'
    BY Entries, EntriesNext
  <2>2. EntryOf(k) = [val |-> heap[n].val, exp |-> heap[n].exp]
    BY <1>2, <1>3, <1>4, <1>5, <2>1 DEF EntriesOK
  <2>3. heap[n] \in Cells
    BY <1>5 DEF TableInv, TypeOK
  <2>4. EntryOf(k) \in [val : Values, exp : Nat]
    BY <2>2, <2>3 DEF Cells
  <2>5. EntryOf(k)' = NULL
    BY <1>2, <1>3, <1>4, <1>5, <2>1 DEF EntriesOK
  <2> QED
    BY <2>4, <2>5, NullAssumption
<1>7. ASSUME NEW l \in Keys \ {k} PROVE EntryOf(l)' = EntryOf(l)
  BY <1>0, <1>2, <1>3, <1>5, <1>7, EntryKept
<1>8. ASSUME NEW v \in Workers \ {w} PROVE AnswerOf(v)' = AnswerOf(v)
  BY <1>0, <1>1, <1>2, <1>8, AnswerKept
<1>9. AnswerOf(w) = NULL /\ AnswerOf(w)' = "OK"
  BY <1>0, <1>1, <1>4 DEF AnswerOf
<1>10. TheMap' = [TheMap EXCEPT ![k] = NULL] /\ TheMap[k] # NULL
  BY <1>4, <1>6, <1>7 DEF TheMap
<1>11. TheAnswers' = [TheAnswers EXCEPT ![w] = "OK"] /\ TheAnswers[w] = NULL
  BY <1>8, <1>9, OneAnswer DEF TheAnswers
<1> QED
  BY <1>0, <1>4, <1>k, <1>10, <1>11 DEF Store!Del, Store!Waits, TheMap, TheAnswers

LEMMA DelMissingIsDel ==
  ASSUME TableInv, TableInv', NEW w \in Workers, DelMissing(w) PROVE Store!Del(w)
<1> DEFINE k == req[w].key
<1>0. /\ pc \in [Threads -> PCs] /\ reply \in [Workers -> Values \cup {"OK", "NOT_FOUND", "STATS", NULL}]
      /\ pc[w] = "search" /\ Op(w) = "DEL" /\ curr[w] = NULL
      /\ UNCHANGED <<heap, allocated, clock, alive, req, now>>
      /\ pc' = [pc EXCEPT ![w] = "unlock"] /\ reply' = [reply EXCEPT ![w] = "NOT_FOUND"] /\ w \in Threads
  BY ThreadFacts DEF TableInv, TypeOK, DelMissing, Decide, Missing, Goto, Set, life, memory
<1>1. /\ \A v \in Workers \ {w} : pc'[v] = pc[v] /\ reply'[v] = reply[v]
      /\ \A v \in Workers : Op(v)' = Op(v)
      /\ pc'[w] = "unlock" /\ reply'[w] = "NOT_FOUND"
  BY <1>0, ThreadFacts DEF Op
<1>2. \A v \in Workers : ~Puts(v) /\ ~Puts(v)'
  BY <1>0, <1>1, WriterAlone DEF Puts
<1>3. ASSUME NEW l \in Keys PROVE EntryOf(l)' = EntryOf(l)
  BY <1>0, <1>2, EntryKept
<1>4. ASSUME NEW v \in Workers \ {w} PROVE AnswerOf(v)' = AnswerOf(v)
  BY <1>0, <1>1, <1>3, AnswerKept
<1>5. req[w] # NULL /\ req[w].op = "DEL" /\ k \in Keys /\ reply[w] = NULL
  BY <1>0, WriterFacts
<1>6. EntryOf(k) = NULL
  <2>1. \A m \in allocated : heap[m].key # k
    BY <1>0, Searching DEF TableInv, Ahead, Reachable
  <2> QED
    BY <1>2, <1>5, <2>1, Entries DEF EntriesOK
<1>7. AnswerOf(w) = NULL /\ AnswerOf(w)' = "NOT_FOUND"
  BY <1>0, <1>1, <1>5 DEF AnswerOf
<1>8. TheMap' = [TheMap EXCEPT ![k] = NULL] /\ TheMap[k] = NULL
  BY <1>3, <1>5, <1>6 DEF TheMap
<1>9. TheAnswers' = [TheAnswers EXCEPT ![w] = "NOT_FOUND"] /\ TheAnswers[w] = NULL
  BY <1>4, <1>7, OneAnswer DEF TheAnswers
<1> QED
  BY <1>0, <1>5, <1>8, <1>9 DEF Store!Del, Store!Waits, TheMap, TheAnswers

LEMMA StatsMissesIsStats ==
  ASSUME TableInv, TableInv', NEW w \in Workers, StatsMisses(w) PROVE Store!Stats(w)
<1>0. /\ pc \in [Threads -> PCs] /\ reply \in [Workers -> Values \cup {"OK", "NOT_FOUND", "STATS", NULL}]
      /\ pc[w] = "stats2" /\ UNCHANGED <<heap, allocated, clock, alive, req, now>>
      /\ pc' = [pc EXCEPT ![w] = "unlock"] /\ reply' = [reply EXCEPT ![w] = "STATS"] /\ w \in Threads
  BY ThreadFacts DEF TableInv, TypeOK, StatsMisses, Goto, Set, life, memory
<1>1. /\ \A v \in Workers \ {w} : pc'[v] = pc[v] /\ reply'[v] = reply[v]
      /\ \A v \in Workers : Op(v)' = Op(v)
      /\ pc'[w] = "unlock" /\ reply'[w] = "STATS"
  BY <1>0, ThreadFacts DEF Op
<1>2. \A v \in Workers : (Puts(v)' <=> Puts(v)) /\ (Puts(v) => v # w)
  BY <1>0, <1>1 DEF Puts
<1>3. ASSUME NEW l \in Keys PROVE EntryOf(l)' = EntryOf(l)
  BY <1>0, <1>2, EntryKept
<1>4. ASSUME NEW v \in Workers \ {w} PROVE AnswerOf(v)' = AnswerOf(v)
  BY <1>0, <1>1, <1>3, AnswerKept
<1>5. req[w] # NULL /\ req[w].op = "STATS" /\ reply[w] = NULL
  BY <1>0, NullAssumption DEF TableInv, Phases, Stages, Replies, Op
<1>6. AnswerOf(w) = NULL /\ AnswerOf(w)' = "STATS"
  BY <1>0, <1>1, <1>5 DEF AnswerOf
<1>7. TheMap' = TheMap
  BY <1>3 DEF TheMap
<1>8. TheAnswers' = [TheAnswers EXCEPT ![w] = "STATS"] /\ TheAnswers[w] = NULL
  BY <1>4, <1>6, OneAnswer DEF TheAnswers
<1> QED
  BY <1>0, <1>5, <1>7, <1>8 DEF Store!Stats, Store!Waits, TheMap, TheAnswers

LEMMA ReturnIsReturn ==
  ASSUME TableInv, TableInv', NEW w \in Workers, Return(w) PROVE Store!Return(w)
<1>0. /\ pc \in [Threads -> PCs] /\ reply \in [Workers -> Values \cup {"OK", "NOT_FOUND", "STATS", NULL}]
      /\ now \in [Threads -> Nat] /\ req \in [Workers -> Requests \cup {NULL}]
      /\ pc[w] = "unlock" /\ UNCHANGED <<heap, allocated, clock, alive>>
      /\ pc' = [pc EXCEPT ![w] = "idle"] /\ reply' = [reply EXCEPT ![w] = NULL] /\ w \in Threads
      /\ req' = [req EXCEPT ![w] = NULL] /\ now' = [now EXCEPT ![w] = 0]
  BY ThreadFacts DEF TableInv, TypeOK, Return, Goto, Set, life, memory
<1>1. /\ \A v \in Workers \ {w} : pc'[v] = pc[v] /\ reply'[v] = reply[v]
           /\ req'[v] = req[v] /\ now'[v] = now[v]
      /\ pc'[w] = "idle" /\ reply'[w] = NULL
  BY <1>0, ThreadFacts
<1>2. \A v \in Workers : (Puts(v)' <=> Puts(v)) /\ (Puts(v) => v # w)
  BY <1>0, <1>1 DEF Puts, Op
<1>3. ASSUME NEW l \in Keys PROVE EntryOf(l)' = EntryOf(l)
  BY <1>0, <1>1, <1>2, EntryKept
<1>4. ASSUME NEW v \in Workers \ {w} PROVE AnswerOf(v)' = AnswerOf(v)
  BY <1>0, <1>1, <1>3, AnswerKept
<1>5. AnswerOf(w) # NULL /\ AnswerOf(w)' = NULL
  BY <1>0, <1>1 DEF AnswerOf, TableInv, Replies
<1>6. TheMap' = TheMap
  BY <1>3 DEF TheMap
<1>7. TheAnswers' = [TheAnswers EXCEPT ![w] = NULL] /\ TheAnswers[w] # NULL
  BY <1>4, <1>5, OneAnswer DEF TheAnswers
<1> QED
  BY <1>0, <1>6, <1>7 DEF Store!Return, TheMap, TheAnswers

(* The sweeper frees what expired before now, and now is not in the        *)
(* future.                                                                 *)
LEMMA SweepFreeIsPurge ==
  ASSUME TableInv, TableInv', SweepClock, SweepFree PROVE \E k \in Keys : Store!Purge(k)
<1>n. PICK n : n = curr[Sweeper]
  OBVIOUS
<1>0. /\ n \in allocated /\ allocated' = allocated \ {n} /\ heap[n] \in Cells
      /\ heap[n].exp # 0 /\ heap[n].exp < now[Sweeper]
      /\ \A m \in allocated : heap'[m].key = heap[m].key
           /\ heap'[m].val = heap[m].val /\ heap'[m].exp = heap[m].exp
  BY <1>n, FreeStep DEF TableInv, TypeOK, ExpiredForSweep
<1>k. PICK k \in Keys : k = heap[n].key
  BY <1>0 DEF Cells
<1>1. /\ pc[Sweeper] = "sweep" /\ now[Sweeper] \in Nat /\ clock \in Int
      /\ UNCHANGED <<clock, alive, pc, req, now, reply>>
  BY ThreadFacts, TableAssumption DEF SweepFree, life, TableInv, TypeOK
<1>2. now[Sweeper] <= clock
  BY <1>1 DEF SweepClock
<1>3. \A v \in Workers : pc[v] \in {"idle", "lock", "exited"} /\ ~Puts(v) /\ ~Puts(v)'
  <2>1. writer = Sweeper
    BY <1>1 DEF TableInv, Phases, Locking
  <2>2. \A v \in Workers : pc[v] \in {"idle", "lock", "exited"}
    BY <2>1, Alone, ThreadFacts DEF TableInv
  <2> QED
    BY <1>1, <2>2 DEF Puts
<1>4. \A m \in allocated : heap[m].key = k => m = n
  BY <1>0, <1>k DEF TableInv, Alive, Lists, KeysOnce
<1>5. EntryOf(k) = [val |-> heap[n].val, exp |-> heap[n].exp]
  BY <1>0, <1>k, <1>3, Entries DEF EntriesOK
<1>6. EntryOf(k)' = NULL
  BY <1>0, <1>3, <1>4, EntriesNext DEF EntriesOK
<1>7. ASSUME NEW l \in Keys \ {k} PROVE EntryOf(l)' = EntryOf(l)
  BY <1>0, <1>1, <1>3, <1>k, <1>7, EntryKept
<1>8. ASSUME NEW v \in Workers PROVE AnswerOf(v)' = AnswerOf(v)
  BY <1>1, <1>3, AnswerKept
<1>9. TheMap' = [TheMap EXCEPT ![k] = NULL] /\ TheAnswers' = TheAnswers
  BY <1>6, <1>7, <1>8 DEF TheMap, TheAnswers
<1>10. EntryOf(k) # NULL
  <2>1. EntryOf(k) \in [val : Values, exp : Nat]
    BY <1>0, <1>5 DEF Cells
  <2> QED
    BY <2>1, NullAssumption
<1>11. EntryOf(k).exp # 0 /\ ~(clock < EntryOf(k).exp)
  <2>1. heap[n].exp \in Nat /\ EntryOf(k).exp = heap[n].exp
    BY <1>0, <1>5 DEF Cells
  <2> QED
    BY <1>0, <1>1, <1>2, <2>1
<1>12. TheMap[k] # NULL /\ ~Store!Valid(TheMap[k])
  BY <1>10, <1>11 DEF TheMap, Store!Valid
<1>13. Store!Purge(k)
  BY <1>1, <1>9, <1>12 DEF Store!Purge, TheMap, TheAnswers
<1> QED
  BY <1>13

LEMMA DestroyIsClose ==
  ASSUME TableInv, TableInv', kv_destroy PROVE Store!Close
<1>1. /\ allocated' = {} /\ alive' = FALSE /\ alive = TRUE
      /\ UNCHANGED <<clock, pc, req, now, reply>>
  BY DestroyStep DEF TableInv, kv_destroy, locals
<1>2. \A w \in Workers : pc[w] = "exited" /\ req[w] = NULL
  BY ThreadFacts DEF kv_destroy, AllJoined, TableInv, Phases, Stages
<1>3. ASSUME NEW k \in Keys PROVE EntryOf(k)' = NULL
  <2>1. \A w \in Workers : ~Puts(w)'
    BY <1>1, <1>2 DEF Puts
  <2> QED
    BY <1>1, <2>1, EntriesNext DEF EntriesOK
<1>4. ASSUME NEW v \in Workers PROVE AnswerOf(v)' = AnswerOf(v)
  BY <1>1, <1>2, AnswerKept
<1>5. TheMap' = [k \in Keys |-> NULL] /\ TheAnswers' = TheAnswers
  BY <1>3, <1>4 DEF TheMap, TheAnswers
<1> QED
  BY <1>1, <1>2, <1>5 DEF Store!Close, TheMap, TheAnswers

LEMMA TickIsTick ==
  ASSUME TableInv, TableInv', Tick PROVE Store!Tick
<1>1. /\ UNCHANGED <<heap, allocated, alive, pc, req, now, reply>> /\ clock' = clock + 1
  BY DEF Tick, memory, locals
<1>2. ASSUME NEW k \in Keys PROVE EntryOf(k)' = EntryOf(k)
  BY <1>1, EntryKept DEF Puts, Op
<1>3. ASSUME NEW v \in Workers PROVE AnswerOf(v)' = AnswerOf(v)
  BY <1>1, <1>2, AnswerKept
<1>4. TheMap' = TheMap /\ TheAnswers' = TheAnswers
  BY <1>2, <1>3 DEF TheMap, TheAnswers
<1> QED
  BY <1>1, <1>4 DEF Store!Tick, TheMap, TheAnswers

(* The end of a search only writes down the answer that was due.           *)
LEMMA Decided ==
  ASSUME TableInv, TableInv', NEW w \in Workers, NEW op \in {"GET", "PUT"}, NEW result,
         pc[w] = "search", Decide(w, op, result),
         AnswerOf(w) = result, \A k \in Keys : EntryOf(k)' = EntryOf(k)
  PROVE  UNCHANGED Store!storeVars
<1>0. /\ pc \in [Threads -> PCs] /\ reply \in [Workers -> Values \cup {"OK", "NOT_FOUND", "STATS", NULL}]
      /\ UNCHANGED <<clock, alive, req, now>> /\ w \in Threads
      /\ pc' = [pc EXCEPT ![w] = "unlock"] /\ reply' = [reply EXCEPT ![w] = result]
  BY ThreadFacts DEF TableInv, TypeOK, Decide, Goto, Set, life
<1>1. ASSUME NEW v \in Workers \ {w} PROVE AnswerOf(v)' = AnswerOf(v)
  <2>1. pc'[v] = pc[v] /\ reply'[v] = reply[v]
    BY <1>0
  <2> QED
    BY <1>0, <2>1, AnswerKept
<1>2. pc'[w] = "unlock" /\ reply'[w] = result
  BY <1>0
<1>3. AnswerOf(w)' = result
  BY <1>2 DEF AnswerOf
<1> QED
  BY <1>0, <1>1, <1>3, Unseen

LEMMA GetEnds ==
  ASSUME TableInv, TableInv', NEW w \in Workers, GetHit(w) \/ GetMiss(w)
  PROVE  UNCHANGED Store!storeVars
<1>k. PICK k : k = req[w].key
  OBVIOUS
<1>n. PICK n : n = curr[w]
  OBVIOUS
<1>0. pc[w] = "search" /\ Op(w) = "GET" /\ UNCHANGED <<heap, allocated, req, now>>
      /\ pc \in [Threads -> PCs] /\ pc' = [pc EXCEPT ![w] = "unlock"] /\ w \in Threads
  BY ThreadFacts DEF GetHit, GetMiss, Found, Missing, Decide, memory, TableInv, TypeOK, Goto
<1>1. /\ n \in allocated \cup {NULL} /\ Ahead(w) /\ k \in Keys /\ now[w] \in Nat
  BY <1>0, <1>k, <1>n, Searching, ThreadFacts DEF TableInv, TypeOK, StandsIn
<1>2. \A v \in Workers : ~Puts(v) /\ ~Puts(v)'
  <2>1. writer = NULL
    BY <1>0, ThreadFacts DEF TableInv, Phases, Locking, Reads
  <2>2. \A v \in Workers : ~Puts(v)
    BY <2>1, ThreadFacts DEF TableInv, Phases, Locking, Writes, Puts
  <2>3. \A v \in Workers : Puts(v)' => Puts(v)
    BY <1>0, ThreadFacts DEF Puts, Op
  <2> QED
    BY <2>2, <2>3
<1>3. ASSUME NEW l \in Keys PROVE EntryOf(l)' = EntryOf(l)
  BY <1>0, <1>2, EntryKept
<1>4. n # NULL /\ heap[n].key = k => EntryOf(k) = [val |-> heap[n].val, exp |-> heap[n].exp]
                                     /\ heap[n].exp \in Nat
  BY <1>1, <1>2, Entries DEF EntriesOK, TableInv, TypeOK, Cells
<1>5. EntryOf(k) # NULL => EntryOf(k) \in [val : Values, exp : Nat]
  BY <1>1, Entries DEF EntriesOK, Entry
<1>6. CASE GetHit(w)
  <2>1. n # NULL /\ heap[n].key = k /\ ~(heap[n].exp # 0 /\ now[w] >= heap[n].exp)
        /\ Decide(w, "GET", heap[n].val)
    BY <1>6, <1>k, <1>n DEF GetHit, Found, ExpiredForGet
  <2>2. EntryOf(k) # NULL
    <3>1. n \in allocated
      BY <1>1, <2>1
    <3>2. heap[n].val \in Values /\ heap[n].exp \in Nat
      BY <3>1 DEF TableInv, TypeOK, Cells
    <3>3. EntryOf(k) \in [val : Values, exp : Nat]
      BY <1>4, <2>1, <3>2
    <3> QED
      BY <3>3, NullAssumption
  <2>3. AnswerOf(w) = heap[n].val
    <3>1. EntryOf(k).exp = 0 \/ now[w] < EntryOf(k).exp
      BY <1>1, <1>4, <2>1
    <3> QED
      BY <1>0, <1>k, <1>4, <2>1, <2>2, <3>1 DEF AnswerOf
  <2>4. PICK x : x = heap[n].val
    OBVIOUS
  <2> QED
    BY <1>0, <1>3, <2>1, <2>3, <2>4, Decided
<1>7. CASE GetMiss(w)
  <2>1. Decide(w, "GET", "NOT_FOUND")
    BY <1>7 DEF GetMiss
  <2>2. ~(EntryOf(k) # NULL /\ (EntryOf(k).exp = 0 \/ now[w] < EntryOf(k).exp))
    <3>1. CASE n = NULL
      <4>1. \A m \in allocated : heap[m].key # k
        BY <1>1, <1>k, <1>n, <3>1 DEF Ahead, Reachable
      <4> QED
        BY <1>1, <1>2, <4>1, Entries DEF EntriesOK
    <3>2. CASE n # NULL
      <4>1. heap[n].key = k /\ heap[n].exp # 0 /\ now[w] >= heap[n].exp
        BY <1>7, <1>k, <1>n, <3>2 DEF GetMiss, Missing, Found, ExpiredForGet
      <4> QED
        BY <1>1, <1>4, <3>2, <4>1
    <3> QED
      BY <3>1, <3>2
  <2>3. AnswerOf(w) = "NOT_FOUND"
    BY <1>0, <1>k, <2>2 DEF AnswerOf
  <2> QED
    BY <1>0, <1>3, <2>1, <2>3, Decided
<1> QED
  BY <1>6, <1>7

LEMMA PutEnds ==
  ASSUME TableInv, TableInv', NEW w \in Workers, PutUpdate(w) \/ PutInsert(w)
  PROVE  UNCHANGED Store!storeVars
<1>k. PICK k : k = req[w].key
  OBVIOUS
<1>0. pc[w] = "search" /\ Op(w) = "PUT" /\ UNCHANGED <<req, now>> /\ Decide(w, "PUT", "OK")
      /\ pc \in [Threads -> PCs] /\ pc' = [pc EXCEPT ![w] = "unlock"] /\ w \in Threads
  BY ThreadFacts DEF PutUpdate, PutInsert, Found, Missing, Decide, TableInv, TypeOK, Goto
<1>1. k \in Keys
  BY <1>0, <1>k, Searching DEF TableInv
<1>2. \A v \in Workers : ~Puts(v)' /\ (v # w => ~Puts(v))
  BY <1>0, WriterAlone, ThreadFacts DEF Puts, Op
<1>3. PICK n : /\ n \in allocated' /\ heap'[n].key = k
               /\ heap'[n].val = req[w].val /\ heap'[n].exp = now[w]
               /\ \A m \in allocated' \ {n} : m \in allocated /\ heap'[m] = heap[m]
               /\ allocated \subseteq allocated'
               /\ n \in allocated => heap[n].key = k
  <2>1. CASE PutUpdate(w)
    BY <1>k, <2>1, UpdateStep DEF TableInv
  <2>2. CASE PutInsert(w)
    BY <1>k, <2>2, InsertStep DEF TableInv
  <2> QED
    BY <1>0, <2>1, <2>2
<1>4. EntryOf(k)' = EntryOf(k)
  <2>1. Puts(w) /\ EntryOf(k) = [val |-> req[w].val, exp |-> now[w]]
    BY <1>0, <1>1, <1>k, Entries DEF EntriesOK, Puts
  <2>2. EntryOf(k)' = [val |-> heap'[n].val, exp |-> heap'[n].exp]
    BY <1>1, <1>2, <1>3, EntriesNext DEF EntriesOK
  <2> QED
    BY <1>3, <2>1, <2>2
<1>5. ASSUME NEW l \in Keys \ {k} PROVE EntryOf(l)' = EntryOf(l)
  <2>1. EntriesOK /\ EntriesOK'
    BY Entries, EntriesNext
  <2>2. /\ \A v \in Workers : Puts(v) => req[v].key # l
        /\ \A v \in Workers : Puts(v)' => req'[v].key # l
    BY <1>2, <1>k, <1>5
  <2>3. CASE \E m \in allocated : heap[m].key = l
    <3>1. PICK m \in allocated : heap[m].key = l
      BY <2>3
    <3>2. m \in allocated' /\ heap'[m] = heap[m]
      BY <1>3, <1>5, <3>1
    <3>3. EntryOf(l) = [val |-> heap[m].val, exp |-> heap[m].exp]
      BY <1>5, <2>1, <2>2, <3>1 DEF EntriesOK
    <3>4. EntryOf(l)' = [val |-> heap'[m].val, exp |-> heap'[m].exp]
      BY <1>5, <2>1, <2>2, <3>1, <3>2 DEF EntriesOK
    <3> QED
      BY <3>2, <3>3, <3>4
  <2>4. CASE \A m \in allocated : heap[m].key # l
    <3>1. \A m \in allocated' : heap'[m].key # l
      BY <1>3, <1>5, <2>4
    <3> QED
      BY <1>5, <2>1, <2>2, <2>4, <3>1 DEF EntriesOK
  <2> QED
    BY <2>3, <2>4
<1>6. \A l \in Keys : EntryOf(l)' = EntryOf(l)
  BY <1>4, <1>5
<1>7. AnswerOf(w) = "OK"
  BY <1>0 DEF AnswerOf
<1> QED
  BY <1>0, <1>6, <1>7, Decided

-----------------------------------------------------------------------------
(* The refinement. *)

StoreInv == TableInv /\ SweepClock

LEMMA StoreStepTaken == StoreInv /\ StoreInv' /\ [Next]_vars => StoreStep
<1> SUFFICES ASSUME TableInv, TableInv', SweepClock, [Next]_vars PROVE StoreStep
  BY DEF StoreInv
<1> USE DEF StoreStep
<1>1. ASSUME NEW w \in Workers, Call(w) PROVE StoreStep
  BY <1>1, CallIsAsk DEF Store!StoreNext
<1>2. ASSUME NEW w \in Workers, GetTime(w) PROVE StoreStep
  BY <1>2, GetTimeIsGet DEF Store!StoreNext
<1>3. ASSUME NEW w \in Workers, PutTime(w) PROVE StoreStep
  BY <1>3, PutTimeIsPut DEF Store!StoreNext
<1>4. ASSUME NEW w \in Workers, DelUnlink(w) \/ DelMissing(w) PROVE StoreStep
  BY <1>4, DelUnlinkIsDel, DelMissingIsDel DEF Store!StoreNext
<1>5. ASSUME NEW w \in Workers, StatsMisses(w) PROVE StoreStep
  BY <1>5, StatsMissesIsStats DEF Store!StoreNext
<1>6. ASSUME NEW w \in Workers, Return(w) PROVE StoreStep
  BY <1>6, ReturnIsReturn DEF Store!StoreNext
<1>7. ASSUME NEW w \in Workers, GetHit(w) \/ GetMiss(w) PROVE StoreStep
  BY <1>7, GetEnds
<1>8. ASSUME NEW w \in Workers, PutUpdate(w) \/ PutInsert(w) PROVE StoreStep
  BY <1>8, PutEnds
<1>9. ASSUME NEW w \in Workers,
             GetLock(w) \/ PutLock(w) \/ DelLock(w) \/ StatsLock(w) \/ SearchNext(w)
               \/ StatsHits(w) \/ WorkerExit(w)
      PROVE  StoreStep
  <2>1. pc \in [Threads -> PCs] /\ w \in Threads
    BY ThreadFacts DEF TableInv, TypeOK
  <2>2. UNCHANGED <<clock, alive, req, heap, allocated, now, reply>>
    BY <1>9 DEF GetLock, PutLock, DelLock, StatsLock, Enter, SearchNext, StatsHits, WorkerExit,
       life, memory, locals
  <2>3. \A v \in Workers : pc'[v] = pc[v] \/ Op(v) = "DEL" \/ (pc[v] # "search" /\ pc'[v] # "search")
    BY <1>9, <2>1, ThreadFacts DEF GetLock, PutLock, DelLock, StatsLock, Enter, SearchNext,
       StatsHits, WorkerExit, Goto
  <2> QED
    BY <2>2, <2>3, Unnoticed
<1>10. CASE SweepCheck \/ SweepAwake \/ SweepLock \/ SweepTime \/ SweepKeep \/ SweepBucket
              \/ SweepUnlock \/ sigint_handler \/ StopAccepting \/ UNCHANGED vars
  <2>1. pc \in [Threads -> PCs] /\ now \in [Threads -> Nat] /\ \A v \in Workers : v # Sweeper /\ v \in Threads
    BY ThreadFacts DEF TableInv, TypeOK
  <2>2. UNCHANGED <<clock, alive, req, heap, allocated, reply>>
    BY <1>10 DEF SweepCheck, SweepAwake, SweepLock, SweepTime, SweepKeep, SweepBucket, SweepUnlock,
       sigint_handler, StopAccepting, vars, life, memory, locals
  <2>3. \A v \in Workers : pc'[v] = pc[v] /\ now'[v] = now[v]
    BY <1>10, <2>1 DEF SweepCheck, SweepAwake, SweepLock, SweepTime, SweepKeep, SweepBucket,
       SweepUnlock, sigint_handler, StopAccepting, vars, locals, Goto, Set
  <2> QED
    BY <2>2, <2>3, Unnoticed
<1>11. CASE SweepFree
  BY <1>11, SweepFreeIsPurge DEF Store!StoreNext
<1>12. CASE kv_destroy
  BY <1>12, DestroyIsClose DEF Store!StoreNext
<1>13. CASE Tick
  BY <1>13, TickIsTick DEF Store!StoreNext
<1> QED
  BY <1>1, <1>2, <1>3, <1>4, <1>5, <1>6, <1>7, <1>8, <1>9, <1>10, <1>11, <1>12, <1>13
     DEF Next, RequestStep, SweeperStep

LEMMA StoreInvariant == Spec => []StoreInv
<1>1. Init => StoreInv
  BY TableInit, ThreadFacts DEF Init, StoreInv, SweepClock, Threads
<1>2. StoreInv /\ [Next]_vars => StoreInv'
  BY TableStep, SweepClockStep DEF StoreInv, TableInv
<1> QED
  BY <1>1, <1>2, PTL DEF Spec

(* The hash table is a map with expiry times: every GET, PUT, DEL and      *)
(* STATS takes effect at one instant, no GET sees an expired key or misses *)
(* a valid one, and the sweeper takes away only what no GET can see        *)
(* (hash.c:33-151).                                                        *)
THEOREM TableImplementsStore == Spec => StoreSpec
<1>1. Init => Store!StoreInit
  BY StoreInitially
<1>2. StoreInv /\ StoreInv' /\ [Next]_vars => [Store!StoreNext]_(Store!storeVars)
  BY StoreStepTaken DEF StoreStep
<1> QED
  BY <1>1, <1>2, StoreInvariant, PTL DEF Spec, StoreSpec, Store!StoreSpec

=============================================================================
