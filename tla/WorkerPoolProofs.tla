-------------------------- MODULE WorkerPoolProofs --------------------------
(***************************************************************************)
(* Theorems about WorkerPool, for every set of workers and every bound.    *)
(* The inductive invariant is built in layers, each proved with the ones   *)
(* below it: types, then who owns the mutex, then who is in which wait     *)
(* set, then that no wakeup is lost.  The second half is about the         *)
(* connections: the locked ring implements the bounded FIFO hand-off of    *)
(* ConnHandoff, and each connection is in one place.                       *)
(***************************************************************************)
EXTENDS WorkerPool, FiniteSetTheorems, SequenceTheorems, TLAPS

-----------------------------------------------------------------------------
(* The ring. *)

(* The ring has at least two slots (kvserver.c:125, num_workers >= 1). *)
LEMMA CapacityType == Capacity \in Nat /\ Capacity >= 2
<1>1. IsFiniteSet(Workers) /\ Workers # {}
  BY PoolAssumption
<1>2. Cardinality(Workers) \in Nat /\ Cardinality(Workers) # 0
  BY <1>1, FS_CardinalityType, FS_EmptySet
<1> QED
  BY <1>2 DEF Capacity

(* The index arithmetic of kvserver.c:212 and 233 stays in the ring. *)
LEMMA NextSlotType == \A i \in Slots : NextSlot(i) \in Slots
  BY CapacityType DEF Slots, NextSlot

-----------------------------------------------------------------------------
(* Types.  Main has a connection in its hand only after accept. *)

InHandAccepted == mpc \in {"enqueue", "full", "wait"} => accepted >= 1
TypeInv == TypeOK /\ InHandAccepted

LEMMA TypeInit == Init => TypeInv
<1> SUFFICES ASSUME Init PROVE TypeInv
  OBVIOUS
<1> USE PoolAssumption, CapacityType
<1>1. 0 \in Slots
  BY DEF Slots
<1>2. fds \in [Slots -> Conns \cup {NoConn}]
  BY DEF Init
<1>3. conn \in [Workers -> Conns \cup {NoConn}] /\ wpc \in [Workers -> WorkerPCs]
  BY DEF Init, WorkerPCs
<1>4. arrived \in 0..MaxConns /\ accepted \in 0..arrived /\ count \in 0..Capacity
  BY DEF Init
<1>5. signals \in 0..MaxSignals /\ errors \in 0..MaxErrors
  BY DEF Init
<1>6. /\ g_shutdown \in BOOLEAN /\ lock \in Workers \cup {Main, Nobody} /\ mpc \in MainPCs
      /\ not_empty \in SUBSET Workers /\ not_full \in SUBSET {Main}
      /\ closed \in SUBSET (Conns \cup {NoConn})
  BY DEF Init, MainPCs
<1>7. head \in Slots /\ tail \in Slots
  BY <1>1 DEF Init
<1>8. TypeOK
  BY <1>2, <1>3, <1>4, <1>5, <1>6, <1>7 DEF TypeOK
<1> QED
  BY <1>8 DEF TypeInv, InHandAccepted, Init

LEMMA TypeStep == TypeInv /\ [Next]_vars => TypeInv'
<1> SUFFICES ASSUME TypeInv, [Next]_vars PROVE TypeInv'
  OBVIOUS
<1> USE PoolAssumption, CapacityType DEF TypeInv, InHandAccepted, TypeOK, MainPCs, WorkerPCs, env, ring, NoConn
<1>1. CASE MainCheck
  BY <1>1 DEF MainCheck
<1>2. CASE MainAccept
  BY <1>2 DEF MainAccept
<1>3. CASE MainAcceptError
  BY <1>3 DEF MainAcceptError
<1>4. CASE EnqueueLock
  BY <1>4 DEF EnqueueLock
<1>5. CASE EnqueueWait
  BY <1>5 DEF EnqueueWait
<1>6. CASE EnqueueWake
  BY <1>6 DEF EnqueueWake
<1>7. CASE EnqueuePut
  <2>1. NextSlot(tail) \in Slots
    BY NextSlotType
  <2>2. accepted \in Conns
    BY <1>7 DEF EnqueuePut, Conns
  <2>3. not_empty' \in SUBSET Workers
    BY <1>7 DEF EnqueuePut, NotifyWorker, WakeOne
  <2>4. count' \in 0 .. Capacity
    BY <1>7 DEF EnqueuePut, QueueFull
  <2> QED
    BY <1>7, <2>1, <2>2, <2>3, <2>4 DEF EnqueuePut
<1>8. CASE StopLock
  BY <1>8 DEF StopLock
<1>9. CASE StopBroadcast
  BY <1>9 DEF StopBroadcast
<1>10. CASE JoinAndFree
  BY <1>10 DEF JoinAndFree
<1>11. CASE Connect
  BY <1>11 DEF Connect
<1>12. CASE \E t \in Workers \cup {Main} : sigint_handler(t)
  BY <1>12 DEF sigint_handler
<1>13. CASE SpuriousWakeup
  BY <1>13 DEF SpuriousWakeup
<1>14. ASSUME NEW w \in Workers, WorkerStep(w) PROVE TypeInv'
  <2>1. CASE DequeueLock(w)
    BY <2>1 DEF DequeueLock
  <2>2. CASE DequeueTest(w)
    BY <2>2 DEF DequeueTest
  <2>3. CASE DequeueWait(w)
    BY <2>3 DEF DequeueWait
  <2>4. CASE DequeueWake(w)
    BY <2>4 DEF DequeueWake
  <2>5. CASE DequeueTake(w)
    <3>1. NextSlot(head) \in Slots
      BY NextSlotType
    <3>2. not_full' \in SUBSET {Main}
      BY <2>5 DEF DequeueTake, NotifyMain, WakeOne
    <3>3. count' \in 0 .. Capacity
      BY <2>5 DEF DequeueTake
    <3>4. Oldest \in Conns \cup {0}
      BY DEF Oldest
    <3> QED
      BY <2>5, <3>1, <3>2, <3>3, <3>4 DEF DequeueTake
  <2>6. CASE DequeueStop(w)
    BY <2>6 DEF DequeueStop
  <2>7. CASE HandleClient(w)
    BY <2>7 DEF HandleClient
  <2>8. CASE CloseConn(w)
    BY <2>8 DEF CloseConn
  <2> QED
    BY <1>14, <2>1, <2>2, <2>3, <2>4, <2>5, <2>6, <2>7, <2>8 DEF WorkerStep
<1>15. CASE UNCHANGED vars
  BY <1>15 DEF vars
<1> QED
  BY <1>1, <1>2, <1>3, <1>4, <1>5, <1>6, <1>7, <1>8, <1>9, <1>10, <1>11, <1>12,
     <1>13, <1>14, <1>15 DEF Next, MainStep

(* Every variable of the pool keeps its type, and head, tail and count     *)
(* never leave the ring (kvserver.c:204-241).                              *)
THEOREM TypeCorrect == Spec => []TypeOK
<1>1. Spec => []TypeInv
  BY TypeInit, TypeStep, PTL DEF Spec
<1>2. TypeInv => TypeOK
  BY DEF TypeInv
<1> QED
  BY <1>1, <1>2, PTL

-----------------------------------------------------------------------------
(* The mutex: a thread owns it exactly while it is between pthread_mutex_  *)
(* lock and the next unlock or cond_wait.                                  *)

Locking ==
  /\ lock = Main <=> mpc \in {"full", "broadcast"}
  /\ \A w \in Workers : lock = w <=> wpc[w] \in {"test", "sleep"}

LEMMA LockInit == Init => Locking
  BY PoolAssumption DEF Init, Locking

LEMMA LockStep == TypeOK /\ Locking /\ [Next]_vars => Locking'
<1> SUFFICES ASSUME TypeOK, Locking, [Next]_vars PROVE Locking'
  OBVIOUS
<1> USE PoolAssumption DEF Locking, TypeOK
<1>1. CASE MainCheck
  BY <1>1 DEF MainCheck
<1>2. CASE MainAccept
  BY <1>2 DEF MainAccept
<1>3. CASE MainAcceptError
  BY <1>3 DEF MainAcceptError
<1>4. CASE EnqueueLock
  BY <1>4 DEF EnqueueLock
<1>5. CASE EnqueueWait
  BY <1>5 DEF EnqueueWait
<1>6. CASE EnqueueWake
  BY <1>6 DEF EnqueueWake
<1>7. CASE EnqueuePut
  BY <1>7 DEF EnqueuePut
<1>8. CASE StopLock
  BY <1>8 DEF StopLock
<1>9. CASE StopBroadcast
  BY <1>9 DEF StopBroadcast
<1>10. CASE JoinAndFree
  BY <1>10 DEF JoinAndFree
<1>11. CASE Connect
  BY <1>11 DEF Connect
<1>12. CASE \E t \in Workers \cup {Main} : sigint_handler(t)
  BY <1>12 DEF sigint_handler
<1>13. CASE SpuriousWakeup
  BY <1>13 DEF SpuriousWakeup
<1>14. ASSUME NEW w \in Workers, WorkerStep(w) PROVE Locking'
  <2>1. CASE DequeueLock(w)
    BY <2>1 DEF DequeueLock
  <2>2. CASE DequeueTest(w)
    BY <2>2 DEF DequeueTest
  <2>3. CASE DequeueWait(w)
    BY <2>3 DEF DequeueWait
  <2>4. CASE DequeueWake(w)
    BY <2>4 DEF DequeueWake
  <2>5. CASE DequeueTake(w)
    BY <2>5 DEF DequeueTake
  <2>6. CASE DequeueStop(w)
    BY <2>6 DEF DequeueStop
  <2>7. CASE HandleClient(w)
    BY <2>7 DEF HandleClient
  <2>8. CASE CloseConn(w)
    BY <2>8 DEF CloseConn
  <2> QED
    BY <1>14, <2>1, <2>2, <2>3, <2>4, <2>5, <2>6, <2>7, <2>8 DEF WorkerStep
<1>15. CASE UNCHANGED vars
  BY <1>15 DEF vars
<1> QED
  BY <1>1, <1>2, <1>3, <1>4, <1>5, <1>6, <1>7, <1>8, <1>9, <1>10, <1>11, <1>12,
     <1>13, <1>14, <1>15 DEF Next, MainStep

(* At most one thread is between its tests of count and what it does about *)
(* it: the mutex is held by exactly the threads the source says hold it.   *)
THEOREM LockDiscipline == Spec => []Locking
<1>1. TypeOK /\ Locking /\ [Next]_vars => Locking'
  BY LockStep
<1> QED
  BY <1>1, LockInit, TypeCorrect, PTL DEF Spec

-----------------------------------------------------------------------------
(* The wait sets: only threads that are in cond_wait are in them, a worker *)
(* decides to wait only on an empty queue and keeps the mutex until it     *)
(* waits, and past the accept loop the flag is up.                         *)

WaitSets ==
  /\ \A w \in not_empty : wpc[w] = "wait"
  /\ not_full # {} => mpc = "wait" /\ count = Capacity
  /\ \A w \in Workers : wpc[w] = "sleep" => count = 0
  /\ mpc \in {"stop", "broadcast", "join", "exited"} => g_shutdown
  /\ ShutdownReachesAll

LEMMA WaitInit == Init => WaitSets
  BY DEF Init, WaitSets, ShutdownReachesAll

LEMMA WaitStep == TypeOK /\ Locking /\ WaitSets /\ [Next]_vars => WaitSets'
<1> SUFFICES ASSUME TypeOK, Locking, WaitSets, [Next]_vars PROVE WaitSets'
  OBVIOUS
<1> USE PoolAssumption, CapacityType DEF Locking, TypeOK, WaitSets, ShutdownReachesAll, ring, env
<1>1. CASE MainCheck
  BY <1>1 DEF MainCheck
<1>2. CASE MainAccept
  BY <1>2 DEF MainAccept
<1>3. CASE MainAcceptError
  BY <1>3 DEF MainAcceptError
<1>4. CASE EnqueueLock
  BY <1>4 DEF EnqueueLock
<1>5. CASE EnqueueWait
  BY <1>5 DEF EnqueueWait, QueueFull
<1>6. CASE EnqueueWake
  BY <1>6 DEF EnqueueWake
<1>7. CASE EnqueuePut
  <2>1. not_empty' \subseteq not_empty /\ not_full = {}
    BY <1>7 DEF EnqueuePut, NotifyWorker, WakeOne
  <2>2. \A w \in Workers : wpc[w] # "sleep"
    BY <1>7 DEF EnqueuePut
  <2> QED
    BY <1>7, <2>1, <2>2 DEF EnqueuePut
<1>8. CASE StopLock
  BY <1>8 DEF StopLock
<1>9. CASE StopBroadcast
  BY <1>9 DEF StopBroadcast
<1>10. CASE JoinAndFree
  BY <1>10 DEF JoinAndFree
<1>11. CASE Connect
  BY <1>11 DEF Connect
<1>12. CASE \E t \in Workers \cup {Main} : sigint_handler(t)
  BY <1>12 DEF sigint_handler
<1>13. CASE SpuriousWakeup
  BY <1>13 DEF SpuriousWakeup
<1>14. ASSUME NEW w \in Workers, WorkerStep(w) PROVE WaitSets'
  <2>1. CASE DequeueLock(w)
    BY <2>1 DEF DequeueLock
  <2>2. CASE DequeueTest(w)
    BY <2>2 DEF DequeueTest, MustWait
  <2>3. CASE DequeueWait(w)
    BY <2>3 DEF DequeueWait
  <2>4. CASE DequeueWake(w)
    BY <2>4 DEF DequeueWake
  <2>5. CASE DequeueTake(w)
    <3>1. not_full' = {}
      BY <2>5 DEF DequeueTake, NotifyMain, WakeOne
    <3>2. \A v \in Workers : wpc'[v] # "sleep"
      BY <2>5 DEF DequeueTake
    <3> QED
      BY <2>5, <3>1, <3>2 DEF DequeueTake
  <2>6. CASE DequeueStop(w)
    BY <2>6 DEF DequeueStop
  <2>7. CASE HandleClient(w)
    BY <2>7 DEF HandleClient
  <2>8. CASE CloseConn(w)
    BY <2>8 DEF CloseConn
  <2> QED
    BY <1>14, <2>1, <2>2, <2>3, <2>4, <2>5, <2>6, <2>7, <2>8 DEF WorkerStep
<1>15. CASE UNCHANGED vars
  BY <1>15 DEF vars
<1> QED
  BY <1>1, <1>2, <1>3, <1>4, <1>5, <1>6, <1>7, <1>8, <1>9, <1>10, <1>11, <1>12,
     <1>13, <1>14, <1>15 DEF Next, MainStep

LEMMA WaitInvariant == Spec => []WaitSets
<1>1. TypeOK /\ Locking /\ WaitSets /\ [Next]_vars => WaitSets'
  BY WaitStep
<1> QED
  BY <1>1, WaitInit, TypeCorrect, LockDiscipline, PTL DEF Spec

(* Main is asleep on not_full only while the queue is full: the signal of  *)
(* the dequeue that makes room is never lost (kvserver.c:207-209, 236).    *)
THEOREM MainNeverIdles == Spec => []NoIdleMain
<1>1. WaitSets => NoIdleMain
  BY DEF WaitSets, NoIdleMain
<1> QED
  BY <1>1, WaitInvariant, PTL

(* No worker sleeps through the shutdown broadcast (kvserver.c:177-180).   *)
THEOREM BroadcastReachesAll == Spec => []ShutdownReachesAll
<1>1. WaitSets => ShutdownReachesAll
  BY DEF WaitSets
<1> QED
  BY <1>1, WaitInvariant, PTL

-----------------------------------------------------------------------------
(* No lost wakeup: each queued connection has a worker of its own that     *)
(* will look at the queue, as long as any worker sleeps.                   *)

LEMMA ContendersFinite ==
  /\ IsFiniteSet(Contenders)  /\ Cardinality(Contenders) \in Nat
  /\ IsFiniteSet(Contenders)' /\ Cardinality(Contenders)' \in Nat
<1>1. Contenders \subseteq Workers /\ Contenders' \subseteq Workers
  BY DEF Contenders
<1>2. IsFiniteSet(Contenders) /\ IsFiniteSet(Contenders')
  BY <1>1, FS_Subset, PoolAssumption
<1> QED
  BY <1>2, FS_CardinalityType

(* A step that takes nobody out of the contenders, puts nobody to sleep    *)
(* and adds nothing to the queue keeps the invariant.                      *)
LEMMA Undisturbed ==
  ASSUME NoIdleWorker, count \in Nat, count' = count,
         not_empty' \subseteq not_empty, Contenders \subseteq Contenders'
  PROVE  NoIdleWorker'
<1>1. Cardinality(Contenders) <= Cardinality(Contenders')
  BY ContendersFinite, FS_Subset
<1> QED
  BY <1>1, ContendersFinite DEF NoIdleWorker

LEMMA WakeupStep ==
  TypeOK /\ Locking /\ WaitSets /\ NoIdleWorker /\ [Next]_vars => NoIdleWorker'
<1> SUFFICES ASSUME TypeOK, Locking, WaitSets, NoIdleWorker, [Next]_vars
             PROVE  NoIdleWorker'
  OBVIOUS
<1> USE PoolAssumption
<1>0. count \in Nat /\ not_empty \subseteq Workers /\ wpc \in [Workers -> WorkerPCs]
  BY CapacityType DEF TypeOK
<1>a. ASSUME count' = 0 PROVE NoIdleWorker'
  BY <1>a, ContendersFinite DEF NoIdleWorker
<1>b. ASSUME UNCHANGED <<count, not_empty, wpc>> PROVE NoIdleWorker'
  BY <1>0, <1>b, Undisturbed DEF Contenders
<1>1. CASE MainCheck
  BY <1>1, <1>b DEF MainCheck, ring
<1>2. CASE MainAccept
  BY <1>2, <1>b DEF MainAccept, ring
<1>3. CASE MainAcceptError
  BY <1>3, <1>b DEF MainAcceptError, ring
<1>4. CASE EnqueueLock
  BY <1>4, <1>b DEF EnqueueLock, ring
<1>5. CASE EnqueueWait
  BY <1>5, <1>b DEF EnqueueWait, ring
<1>6. CASE EnqueueWake
  BY <1>6, <1>b DEF EnqueueWake, ring
<1>7. CASE EnqueuePut
  <2>1. CASE not_empty = {}
    BY <1>7, <2>1 DEF EnqueuePut, NotifyWorker, WakeOne, NoIdleWorker
  <2>2. CASE not_empty # {}
    <3>1. PICK w \in not_empty : not_empty' = not_empty \ {w}
      BY <1>7, <2>2 DEF EnqueuePut, NotifyWorker, WakeOne
    <3>2. wpc[w] = "wait" /\ w \notin Contenders
      BY <3>1 DEF WaitSets, Contenders
    <3>3. Contenders' = Contenders \cup {w}
      BY <1>0, <1>7, <3>1, <3>2 DEF EnqueuePut, Contenders
    <3>4. Cardinality(Contenders') = Cardinality(Contenders) + 1
      BY <3>2, <3>3, ContendersFinite, FS_AddElement
    <3> QED
      BY <1>0, <1>7, <2>2, <3>4, ContendersFinite DEF EnqueuePut, NoIdleWorker
  <2> QED
    BY <2>1, <2>2
<1>8. CASE StopLock
  BY <1>8, <1>b DEF StopLock, ring
<1>9. CASE StopBroadcast
  BY <1>9 DEF StopBroadcast, NoIdleWorker
<1>10. CASE JoinAndFree
  BY <1>10, <1>b DEF JoinAndFree, ring
<1>11. CASE Connect
  BY <1>11, <1>b DEF Connect, ring
<1>12. ASSUME NEW t \in Workers \cup {Main}, sigint_handler(t) PROVE NoIdleWorker'
  BY <1>0, <1>12, Undisturbed DEF sigint_handler, Contenders, ring
<1>13. CASE SpuriousWakeup
  BY <1>0, <1>13, Undisturbed DEF SpuriousWakeup, Contenders, ring
<1>14. ASSUME NEW w \in Workers, WorkerStep(w) PROVE NoIdleWorker'
  <2>1. CASE DequeueLock(w)
    BY <1>0, <2>1, Undisturbed DEF DequeueLock, Contenders, ring
  <2>2. CASE DequeueTest(w)
    BY <2>2, <1>a DEF DequeueTest, MustWait, ring
  <2>3. CASE DequeueWait(w)
    BY <2>3, <1>a DEF DequeueWait, WaitSets, ring
  <2>4. CASE DequeueWake(w)
    BY <1>0, <2>4, Undisturbed DEF DequeueWake, Contenders, ring
  <2>5. CASE DequeueTake(w)
    <3>1. w \in Contenders
      BY <2>5 DEF DequeueTake, Contenders
    <3>2. Contenders' = Contenders \ {w}
      BY <1>0, <2>5 DEF DequeueTake, Contenders
    <3>3. Cardinality(Contenders') = Cardinality(Contenders) - 1
      BY <3>1, <3>2, ContendersFinite, FS_RemoveElement
    <3> QED
      BY <1>0, <2>5, <3>3, ContendersFinite DEF DequeueTake, NoIdleWorker
  <2>6. CASE DequeueStop(w)
    BY <2>6, <1>a DEF DequeueStop, MayStop, ring
  <2>7. CASE HandleClient(w)
    BY <1>0, <2>7, Undisturbed DEF HandleClient, Contenders, ring
  <2>8. CASE CloseConn(w)
    BY <1>0, <2>8, Undisturbed DEF CloseConn, Contenders, ring
  <2> QED
    BY <1>14, <2>1, <2>2, <2>3, <2>4, <2>5, <2>6, <2>7, <2>8 DEF WorkerStep
<1>15. CASE UNCHANGED vars
  BY <1>15, <1>b DEF vars, ring
<1> QED
  BY <1>1, <1>2, <1>3, <1>4, <1>5, <1>6, <1>7, <1>8, <1>9, <1>10, <1>11, <1>12,
     <1>13, <1>14, <1>15 DEF Next, MainStep

(* While a worker sleeps on not_empty there are as many other workers on   *)
(* their way to the queue as connections in it, whatever the interleaving  *)
(* of signals, barging workers and spurious wakeups (kvserver.c:215, 224). *)
THEOREM NoLostWakeup == Spec => []NoIdleWorker
<1>1. Init => NoIdleWorker
  BY DEF Init, NoIdleWorker
<1>2. TypeOK /\ Locking /\ WaitSets /\ NoIdleWorker /\ [Next]_vars => NoIdleWorker'
  BY WakeupStep
<1> QED
  BY <1>1, <1>2, TypeCorrect, LockDiscipline, WaitInvariant, PTL DEF Spec

-----------------------------------------------------------------------------
(* The ring: tail is count slots after head, and a worker without a        *)
(* session has empty hands.                                                *)

RingInv ==
  /\ tail = (head + count) % Capacity
  /\ \A w \in Workers : wpc[w] \notin {"serve", "close"} => conn[w] = NoConn

(* Remainders of numbers less than twice the modulus. *)
LEMMA SmallMod ==
  ASSUME NEW C \in Nat \ {0}
  PROVE  /\ \A x \in 0 .. C - 1 : x % C = x
         /\ \A x \in C .. 2 * C - 1 : x % C = x - C
  OBVIOUS

(* The slot c places after slot h, without the remainder. *)
After(h, c) == IF h + c < Capacity THEN h + c ELSE (h + c) - Capacity

LEMMA AfterValue ==
  ASSUME NEW h \in Slots, NEW c \in 0 .. Capacity
  PROVE  (h + c) % Capacity = After(h, c) /\ After(h, c) \in Slots
<1>1. Capacity \in Nat \ {0} /\ h \in 0 .. Capacity - 1 /\ c \in 0 .. Capacity
  BY CapacityType DEF Slots
<1>2. /\ \A x \in 0 .. Capacity - 1 : x % Capacity = x
      /\ \A x \in Capacity .. 2 * Capacity - 1 : x % Capacity = x - Capacity
  BY <1>1, SmallMod
<1>3. (h + c) % Capacity = After(h, c)
  <2>1. CASE h + c < Capacity
    <3>1. h + c \in 0 .. Capacity - 1
      BY <1>1, <2>1
    <3>2. (h + c) % Capacity = h + c
      BY <1>2, <3>1, Zenon
    <3> QED
      BY <2>1, <3>2, Zenon DEF After
  <2>2. CASE ~(h + c < Capacity)
    <3>1. h + c \in Capacity .. 2 * Capacity - 1
      BY <1>1, <2>2
    <3>2. (h + c) % Capacity = (h + c) - Capacity
      BY <1>2, <3>1, Zenon
    <3> QED
      BY <2>2, <3>2, Zenon DEF After
  <2> QED
    BY <2>1, <2>2
<1>4. After(h, c) \in 0 .. Capacity - 1
  BY <1>1 DEF After
<1> QED
  BY <1>3, <1>4 DEF After, Slots

(* The wrap of kvserver.c:212 and 233, as a case distinction. *)
LEMMA NextSlotValue ==
  ASSUME NEW i \in Slots
  PROVE  NextSlot(i) = IF i + 1 = Capacity THEN 0 ELSE i + 1
<1>1. Capacity \in Nat /\ Capacity >= 2 /\ i \in 0 .. Capacity - 1
  BY CapacityType DEF Slots
<1>2. 1 \in 0 .. Capacity
  BY <1>1
<1>3. NextSlot(i) = After(i, 1)
  BY <1>2, AfterValue DEF NextSlot
<1> QED
  BY <1>1, <1>3 DEF After

LEMMA RingInit == Init => RingInv
<1>1. 0 % Capacity = 0
  BY CapacityType, SmallMod
<1> QED
  BY <1>1, CapacityType DEF Init, RingInv

LEMMA RingStep == TypeInv /\ TypeInv' /\ RingInv /\ [Next]_vars => RingInv'
<1> SUFFICES ASSUME TypeInv, TypeInv', RingInv, [Next]_vars PROVE RingInv'
  OBVIOUS
<1>0. /\ TypeOK /\ TypeOK' /\ wpc \in [Workers -> WorkerPCs] /\ Capacity \in Nat /\ Capacity >= 2
      /\ head \in Slots /\ tail \in Slots /\ count \in 0 .. Capacity
      /\ conn \in [Workers -> Conns \cup {NoConn}]
      /\ head' \in Slots /\ tail' \in Slots /\ count' \in 0 .. Capacity
  BY CapacityType DEF TypeInv, TypeOK
<1>1. CASE EnqueuePut
  <2>1. tail' = NextSlot(tail) /\ count' = count + 1 /\ head' = head /\ count < Capacity
    BY <1>0, <1>1 DEF EnqueuePut, QueueFull
  <2>2. tail' = (head' + count') % Capacity
    <3>1. tail = After(head, count) /\ (head' + count') % Capacity = After(head, count + 1)
      BY <1>0, <2>1, AfterValue DEF RingInv
    <3>2. NextSlot(tail) = IF tail + 1 = Capacity THEN 0 ELSE tail + 1
      BY <1>0, NextSlotValue
    <3> QED
      BY <1>0, <2>1, <3>1, <3>2 DEF After, Slots
  <2> QED
    BY <1>1, <2>2 DEF EnqueuePut, RingInv, ring, env
<1>2. ASSUME NEW w \in Workers, DequeueTake(w) PROVE RingInv'
  <2>1. head' = NextSlot(head) /\ count' = count - 1 /\ tail' = tail /\ count > 0
    BY <1>2 DEF DequeueTake
  <2>2. tail' = (head' + count') % Capacity
    <3>1. tail = After(head, count) /\ (head' + count') % Capacity = After(head', count')
      BY <1>0, AfterValue DEF RingInv
    <3>2. NextSlot(head) = IF head + 1 = Capacity THEN 0 ELSE head + 1
      BY <1>0, NextSlotValue
    <3> QED
      BY <1>0, <2>1, <3>1, <3>2 DEF After, Slots
  <2>3. \A v \in Workers : wpc'[v] \notin {"serve", "close"} => conn'[v] = NoConn
    BY <1>0, <1>2 DEF DequeueTake, RingInv
  <2> QED
    BY <2>2, <2>3 DEF RingInv
<1>3. ASSUME NEW w \in Workers, CloseConn(w) PROVE RingInv'
  BY <1>0, <1>3 DEF CloseConn, RingInv, ring
<1>4. ASSUME UNCHANGED ring, UNCHANGED conn,
             \A w \in Workers : wpc[w] \in {"serve", "close"} => wpc'[w] \in {"serve", "close"}
      PROVE  RingInv'
  BY <1>4 DEF RingInv, ring
<1>5. ASSUME NEW w \in Workers, WorkerStep(w), ~DequeueTake(w), ~CloseConn(w)
      PROVE  RingInv'
  BY <1>0, <1>4, <1>5 DEF WorkerStep, DequeueLock, DequeueTest, DequeueWait,
     DequeueWake, DequeueStop, HandleClient
<1>6. ASSUME MainStep, ~EnqueuePut PROVE RingInv'
  BY <1>4, <1>6 DEF MainStep, MainCheck, MainAccept, EnqueueLock, EnqueueWait,
     EnqueueWake, StopLock, StopBroadcast, JoinAndFree
<1>7. ASSUME MainAcceptError \/ Connect \/ SpuriousWakeup \/ UNCHANGED vars PROVE RingInv'
  BY <1>4, <1>7 DEF MainAcceptError, Connect, SpuriousWakeup, vars
<1>8. ASSUME NEW t \in Workers \cup {Main}, sigint_handler(t) PROVE RingInv'
  BY <1>0, <1>4, <1>8 DEF sigint_handler
<1> QED
  BY <1>1, <1>2, <1>3, <1>5, <1>6, <1>7, <1>8 DEF Next

(* Both hold in every state: the indices never drift apart from count.    *)
LEMMA RingInvariant == Spec => [](TypeInv /\ RingInv)
<1>1. Init => TypeInv /\ RingInv
  BY TypeInit, RingInit
<1>2. TypeInv /\ RingInv /\ [Next]_vars => TypeInv' /\ RingInv'
  BY TypeStep, RingStep
<1> QED
  BY <1>1, <1>2, PTL DEF Spec

-----------------------------------------------------------------------------
(* The queue the ring stands for, and what a step makes of it.             *)

LEMMA FunctionIsSeq ==
  ASSUME NEW S, NEW n \in Nat, NEW f \in [1 .. n -> S]
  PROVE  f \in Seq(S) /\ Len(f) = n
OBVIOUS

LEMMA AppendIs ==
  ASSUME NEW S, NEW s \in Seq(S), NEW t \in Seq(S), NEW x \in S,
         Len(t) = Len(s) + 1, t[Len(t)] = x,
         \A i \in 1 .. Len(s) : t[i] = s[i]
  PROVE  t = Append(s, x)
<1>1. Append(s, x) \in Seq(S) /\ Len(Append(s, x)) = Len(s) + 1
  OBVIOUS
<1>2. \A i \in 1 .. Len(t) : t[i] = Append(s, x)[i]
  OBVIOUS
<1> QED
  BY <1>1, <1>2, SeqEqual

LEMMA TailIs ==
  ASSUME NEW S, NEW s \in Seq(S), NEW t \in Seq(S), s # <<>>,
         Len(t) = Len(s) - 1,
         \A i \in 1 .. Len(t) : t[i] = s[i + 1]
  PROVE  t = Tail(s)
<1>1. Tail(s) \in Seq(S) /\ Len(Tail(s)) = Len(s) - 1
  BY HeadTailProperties
<1>2. \A i \in 1 .. Len(t) : t[i] = Tail(s)[i]
  BY <1>1, HeadTailProperties
<1> QED
  BY <1>1, <1>2, SeqEqual

QueuedOK ==
  /\ Queued \in Seq(Conns \cup {NoConn})
  /\ Len(Queued) = count
  /\ \A i \in 1 .. count : Queued[i] = fds[After(head, i - 1)]

LEMMA QueuedType == TypeOK => QueuedOK
<1> SUFFICES ASSUME TypeOK PROVE QueuedOK
  OBVIOUS
<1>1. count \in 0 .. Capacity /\ head \in Slots /\ fds \in [Slots -> Conns \cup {NoConn}]
  BY DEF TypeOK
<1>2. ASSUME NEW i \in 1 .. count
      PROVE  (head + i - 1) % Capacity = After(head, i - 1) /\ After(head, i - 1) \in Slots
  <2>1. i - 1 \in 0 .. Capacity
    BY <1>1, CapacityType
  <2>2. (head + (i - 1)) % Capacity = After(head, i - 1) /\ After(head, i - 1) \in Slots
    BY <1>1, <2>1, AfterValue
  <2> QED
    BY <2>2
<1>3. Queued \in [1 .. count -> Conns \cup {NoConn}]
  BY <1>1, <1>2 DEF Queued
<1>4. count \in Nat
  BY <1>1, CapacityType
<1> QED
  BY <1>2, <1>3, <1>4, FunctionIsSeq DEF Queued, QueuedOK

LEMMA QueuedTypeNext == TypeOK' => QueuedOK'
BY QueuedType, PTL

(* queue_enqueue puts the connection in main's hand behind all the others. *)
LEMMA PutAppends ==
  TypeInv /\ TypeInv' /\ RingInv /\ EnqueuePut => Queued' = Append(Queued, accepted)
<1> SUFFICES ASSUME TypeInv, TypeInv', RingInv, EnqueuePut
             PROVE  Queued' = Append(Queued, accepted)
  OBVIOUS
<1> DEFINE S == Conns \cup {NoConn}
<1>1. /\ count \in 0 .. Capacity /\ count # Capacity /\ count' = count + 1
      /\ head \in Slots /\ head' = head /\ tail \in Slots
      /\ fds \in [Slots -> S] /\ fds' = [fds EXCEPT ![tail] = accepted]
  BY DEF TypeInv, TypeOK, EnqueuePut, QueueFull
<1>2. accepted \in S
  BY DEF TypeInv, TypeOK, InHandAccepted, EnqueuePut, Conns
<1>3. /\ Queued \in Seq(S) /\ Len(Queued) = count
      /\ \A i \in 1 .. count : Queued[i] = fds[After(head, i - 1)]
  BY QueuedType DEF TypeInv, QueuedOK
<1>4. /\ Queued' \in Seq(S) /\ Len(Queued') = count'
      /\ \A i \in 1 .. count' : Queued'[i] = fds'[After(head', i - 1)]
  BY QueuedTypeNext DEF TypeInv, QueuedOK
<1>5. tail = After(head, count)
  BY <1>1, AfterValue DEF RingInv
<1>6. Queued'[count + 1] = accepted
  BY <1>1, <1>4, <1>5, CapacityType
<1>7. ASSUME NEW i \in 1 .. count PROVE Queued'[i] = Queued[i]
  <2>1. After(head, i - 1) # tail
    BY <1>1, <1>5, CapacityType DEF After, Slots
  <2>2. After(head, i - 1) \in Slots
    <3>1. i - 1 \in 0 .. Capacity
      BY <1>1, CapacityType
    <3> QED
      BY <1>1, <3>1, AfterValue
  <2>3. i \in 1 .. count'
    BY <1>1, CapacityType
  <2> QED
    BY <1>1, <1>3, <1>4, <2>1, <2>2, <2>3
<1> HIDE DEF S
<1> QED
  BY <1>1, <1>2, <1>3, <1>4, <1>6, <1>7, AppendIs

(* queue_dequeue takes the oldest one and leaves the rest in order. *)
LEMMA TakeRemoves ==
  ASSUME TypeInv, TypeInv', RingInv, NEW w \in Workers, DequeueTake(w)
  PROVE  /\ Queued # <<>>
         /\ Head(Queued) = Oldest
         /\ Queued' = Tail(Queued)
<1> DEFINE S == Conns \cup {NoConn}
<1>1. /\ count \in 0 .. Capacity /\ count > 0 /\ count' = count - 1
      /\ head \in Slots /\ head' = NextSlot(head)
      /\ fds' = fds
  BY DEF TypeInv, TypeOK, DequeueTake
<1>2. /\ Queued \in Seq(S) /\ Len(Queued) = count
      /\ \A i \in 1 .. count : Queued[i] = fds[After(head, i - 1)]
  BY QueuedType DEF TypeInv, QueuedOK
<1>3. /\ Queued' \in Seq(S) /\ Len(Queued') = count'
      /\ \A i \in 1 .. count' : Queued'[i] = fds'[After(head', i - 1)]
  BY QueuedTypeNext DEF TypeInv, QueuedOK
<1>4. Queued # <<>>
  BY <1>1, <1>2, CapacityType
<1>5. Head(Queued) = Oldest
  <2>1. Queued[1] = fds[After(head, 1 - 1)] /\ Head(Queued) = Queued[1]
    BY <1>1, <1>2, <1>4, CapacityType
  <2>2. After(head, 1 - 1) = head
    BY <1>1, CapacityType DEF After, Slots
  <2> QED
    BY <2>1, <2>2 DEF Oldest
<1>6. ASSUME NEW i \in 1 .. count' PROVE Queued'[i] = Queued[i + 1]
  <2>1. i \in 1 .. count /\ i + 1 \in 1 .. count /\ (i + 1) - 1 = i
    BY <1>1, CapacityType
  <2>2. NextSlot(head) = IF head + 1 = Capacity THEN 0 ELSE head + 1
    BY <1>1, NextSlotValue
  <2>3. After(head', i - 1) = After(head, i)
    BY <1>1, <2>1, <2>2, CapacityType DEF After, Slots
  <2> QED
    BY <1>1, <1>2, <1>3, <2>1, <2>3
<1>7. Queued' = Tail(Queued)
  <2> HIDE DEF S
  <2> QED
    BY <1>1, <1>2, <1>3, <1>4, <1>6, CapacityType, TailIs
<1> QED
  BY <1>4, <1>5, <1>7

-----------------------------------------------------------------------------
(* The refinement. *)

(* How many connections main has handed over. *)
HandedOver == accepted - Cardinality(InMainsHand)

HandedOverOK ==
  HandedOver = IF mpc \in {"enqueue", "full", "wait"} THEN accepted - 1 ELSE accepted

LEMMA HandedOverValue == TypeOK => HandedOverOK
<1>1. Cardinality({accepted}) = 1 /\ Cardinality({}) = 0
  BY FS_Singleton, FS_EmptySet
<1> QED
  BY <1>1 DEF HandedOverOK, HandedOver, InMainsHand, TypeOK

LEMMA HandedOverNext == TypeOK' => HandedOverOK'
BY HandedOverValue, PTL

LEMMA HandoffInitially == Init => Handoff!HandoffInit
<1> SUFFICES ASSUME Init PROVE Handoff!HandoffInit
  OBVIOUS
<1>1. Queued = <<>>
  BY DEF Init, Queued
<1>2. HandedOver = 0
  BY TypeInit, HandedOverValue DEF Init, TypeInv, HandedOverOK
<1> QED
  BY <1>1, <1>2 DEF Init, HandedOver, Handoff!HandoffInit

LEMMA HandoffStep ==
  TypeInv /\ TypeInv' /\ RingInv /\ [Next]_vars
    => [Handoff!HandoffNext]_(Handoff!handoffVars)
<1> SUFFICES ASSUME TypeInv, TypeInv', RingInv, [Next]_vars
             PROVE  [Handoff!HandoffNext]_(Handoff!handoffVars)
  OBVIOUS
<1>0. /\ TypeOK /\ TypeOK' /\ accepted \in Int /\ accepted' \in Int
      /\ conn \in [Workers -> Conns \cup {NoConn}]
  BY PoolAssumption DEF TypeInv, TypeOK
<1>a. /\ HandedOver = IF mpc \in {"enqueue", "full", "wait"} THEN accepted - 1 ELSE accepted
      /\ HandedOver' = IF mpc' \in {"enqueue", "full", "wait"} THEN accepted' - 1 ELSE accepted'
  BY <1>0, HandedOverValue, HandedOverNext DEF HandedOverOK
<1>b. ASSUME UNCHANGED ring, UNCHANGED conn, HandedOver' = HandedOver
      PROVE  UNCHANGED Handoff!handoffVars
  BY <1>b DEF ring, Queued, HandedOver, Handoff!handoffVars
<1>1. CASE EnqueuePut
  <2>1. Len(Queued) < Capacity
    BY <1>0, <1>1, QueuedType, CapacityType DEF QueuedOK, EnqueuePut, QueueFull, TypeOK
  <2>2. HandedOver + 1 = accepted /\ HandedOver' = accepted
    BY <1>0, <1>1, <1>a DEF EnqueuePut, env
  <2>3. Queued' = Append(Queued, accepted) /\ conn' = conn
    BY <1>1, PutAppends DEF EnqueuePut
  <2>4. Handoff!Put
    BY <2>1, <2>2, <2>3 DEF Handoff!Put, HandedOver
  <2> QED
    BY <2>4 DEF Handoff!HandoffNext
<1>2. ASSUME NEW w \in Workers, DequeueTake(w) PROVE [Handoff!HandoffNext]_(Handoff!handoffVars)
  <2>1. Queued # <<>> /\ Head(Queued) = Oldest /\ Queued' = Tail(Queued)
    BY <1>2, TakeRemoves
  <2>2. conn[w] = NoConn /\ conn' = [conn EXCEPT ![w] = Oldest]
    BY <1>2 DEF DequeueTake, RingInv
  <2>3. HandedOver' = HandedOver
    BY <1>2, <1>a DEF DequeueTake, env
  <2>4. Handoff!Take(w)
    BY <2>1, <2>2, <2>3 DEF Handoff!Take, HandedOver
  <2> QED
    BY <2>4 DEF Handoff!HandoffNext
<1>3. ASSUME NEW w \in Workers, CloseConn(w) PROVE [Handoff!HandoffNext]_(Handoff!handoffVars)
  <2>1. UNCHANGED ring /\ HandedOver' = HandedOver /\ conn' = [conn EXCEPT ![w] = NoConn]
    BY <1>3, <1>a DEF CloseConn, env
  <2>2. CASE conn[w] = NoConn
    <3>1. conn' = conn
      BY <1>0, <2>1, <2>2
    <3> QED
      BY <1>b, <2>1, <3>1
  <2>3. CASE conn[w] # NoConn
    <3>1. Queued' = Queued
      BY <2>1 DEF ring, Queued
    <3>2. Handoff!Finish(w)
      BY <2>1, <2>3, <3>1 DEF Handoff!Finish, HandedOver
    <3> QED
      BY <3>2 DEF Handoff!HandoffNext
  <2> QED
    BY <2>2, <2>3
<1>4. ASSUME NEW w \in Workers, WorkerStep(w), ~DequeueTake(w), ~CloseConn(w)
      PROVE  UNCHANGED Handoff!handoffVars
  BY <1>4, <1>a, <1>b DEF WorkerStep, DequeueLock, DequeueTest, DequeueWait,
     DequeueWake, DequeueStop, HandleClient, env
<1>5. ASSUME MainStep, ~EnqueuePut PROVE UNCHANGED Handoff!handoffVars
  <2>1. UNCHANGED ring /\ UNCHANGED conn
    BY <1>5 DEF MainStep, MainCheck, MainAccept, EnqueueLock, EnqueueWait,
       EnqueueWake, StopLock, StopBroadcast, JoinAndFree
  <2>2. HandedOver' = HandedOver
    <3>1. CASE MainAccept
      BY <1>0, <1>a, <3>1 DEF MainAccept
    <3>2. CASE ~MainAccept
      BY <1>5, <1>a, <3>2 DEF MainStep, MainCheck, EnqueueLock, EnqueueWait,
         EnqueueWake, StopLock, StopBroadcast, JoinAndFree, env
    <3> QED
      BY <3>1, <3>2
  <2> QED
    BY <1>b, <2>1, <2>2
<1>6. ASSUME MainAcceptError \/ Connect \/ SpuriousWakeup \/ UNCHANGED vars
      PROVE  UNCHANGED Handoff!handoffVars
  BY <1>6, <1>a, <1>b DEF MainAcceptError, Connect, SpuriousWakeup, vars, env
<1>7. ASSUME NEW t \in Workers \cup {Main}, sigint_handler(t)
      PROVE  UNCHANGED Handoff!handoffVars
  BY <1>7, <1>a, <1>b DEF sigint_handler
<1> QED
  BY <1>1, <1>2, <1>3, <1>4, <1>5, <1>6, <1>7 DEF Next

(* Whatever the interleaving of main, workers, signals and spurious wakeups, *)
(* the locked ring of kvserver.c:204-241 passes connections on as the       *)
(* bounded FIFO of ConnHandoff does: in the order accept returned them, each *)
(* to one worker, none skipped, doubled or overwritten.                     *)
THEOREM ImplementsHandoff == Spec => HandoffSpec
<1>1. Init => Handoff!HandoffInit
  BY HandoffInitially
<1>2. TypeInv /\ TypeInv' /\ RingInv /\ [Next]_vars => [Handoff!HandoffNext]_(Handoff!handoffVars)
  BY HandoffStep
<1>3. Spec => [](TypeInv /\ RingInv)
  BY RingInvariant
<1> QED
  BY <1>1, <1>2, <1>3, PTL DEF Spec, HandoffSpec, Handoff!HandoffSpec

-----------------------------------------------------------------------------
(* Where each connection is.  The queue holds the last ones handed over,   *)
(* in order; all before them are closed or with a worker, and with one.    *)

Taken == HandedOver - count

HeldOnce ==
  /\ Taken \in Nat
  /\ \A i \in 1 .. count : Queued[i] = Taken + i
  /\ \A w \in Workers : wpc[w] \in {"serve", "close"} => conn[w] # NoConn
  /\ \A w \in Workers : conn[w] # NoConn => conn[w] \in 1 .. Taken /\ conn[w] \notin closed
  /\ \A v, w \in Workers : conn[v] = conn[w] /\ conn[v] # NoConn => v = w
  /\ closed \subseteq 1 .. Taken
  /\ \A c \in 1 .. Taken : c \in closed \/ \E w \in Workers : conn[w] = c

LEMMA HeldInit == Init => HeldOnce
<1> SUFFICES ASSUME Init PROVE HeldOnce
  OBVIOUS
<1>1. Taken = 0
  BY TypeInit, HandedOverValue DEF Init, TypeInv, HandedOverOK, Taken
<1> QED
  BY <1>1 DEF Init, HeldOnce

LEMMA HeldStep ==
  TypeInv /\ TypeInv' /\ RingInv /\ HeldOnce /\ [Next]_vars => HeldOnce'
<1> SUFFICES ASSUME TypeInv, TypeInv', RingInv, HeldOnce, [Next]_vars
             PROVE  HeldOnce'
  OBVIOUS
<1>0. /\ TypeOK /\ TypeOK' /\ accepted \in Int /\ accepted' \in Int
      /\ count \in Nat /\ count' \in Nat
      /\ conn \in [Workers -> Conns \cup {NoConn}] /\ wpc \in [Workers -> WorkerPCs]
  BY PoolAssumption, CapacityType DEF TypeInv, TypeOK
<1>a. /\ HandedOver = IF mpc \in {"enqueue", "full", "wait"} THEN accepted - 1 ELSE accepted
      /\ HandedOver' = IF mpc' \in {"enqueue", "full", "wait"} THEN accepted' - 1 ELSE accepted'
  BY <1>0, HandedOverValue, HandedOverNext DEF HandedOverOK
<1>q. /\ Len(Queued) = count /\ Queued \in Seq(Conns \cup {NoConn})
      /\ Len(Queued)' = count' /\ Queued' \in Seq(Conns \cup {NoConn})
  BY <1>0, QueuedType, QueuedTypeNext DEF QueuedOK
<1>b. ASSUME UNCHANGED <<ring, conn, closed>>, HandedOver' = HandedOver,
             \A w \in Workers : wpc'[w] \in {"serve", "close"} => wpc[w] \in {"serve", "close"}
      PROVE  HeldOnce'
  <2>1. Taken' = Taken /\ Queued' = Queued /\ count' = count
    BY <1>b DEF Taken, Queued, ring
  <2> QED
    BY <1>b, <2>1 DEF HeldOnce
<1>1. CASE EnqueuePut
  <2>1. /\ count' = count + 1 /\ HandedOver + 1 = accepted /\ HandedOver' = accepted
        /\ conn' = conn /\ closed' = closed /\ wpc' = wpc
    BY <1>0, <1>1, <1>a DEF EnqueuePut, env
  <2>2. Taken' = Taken /\ Taken \in Nat /\ accepted = Taken + count'
    <3>1. HandedOver \in Int
      BY <1>0, <1>a
    <3> QED
      BY <1>0, <2>1, <3>1 DEF Taken, HeldOnce
  <2>3. Queued' = Append(Queued, accepted)
    BY <1>1, PutAppends
  <2>4. ASSUME NEW i \in 1 .. count' PROVE Queued'[i] = Taken' + i
    <3>1. CASE i = count'
      BY <1>0, <1>q, <2>1, <2>2, <2>3, <3>1
    <3>2. CASE i # count'
      <4>1. i \in 1 .. count
        BY <1>0, <2>1, <3>2
      <4>2. Queued'[i] = Queued[i]
        BY <1>q, <2>3, <4>1
      <4> QED
        BY <2>2, <4>1, <4>2 DEF HeldOnce
    <3> QED
      BY <3>1, <3>2
  <2> QED
    BY <2>1, <2>2, <2>4 DEF HeldOnce
<1>2. ASSUME NEW w \in Workers, DequeueTake(w) PROVE HeldOnce'
  <2>1. Queued # <<>> /\ Head(Queued) = Oldest /\ Queued' = Tail(Queued)
    BY <1>2, TakeRemoves
  <2>2. /\ conn[w] = NoConn /\ conn' = [conn EXCEPT ![w] = Oldest]
        /\ closed' = closed /\ count' = count - 1 /\ count > 0
        /\ wpc' = [wpc EXCEPT ![w] = "serve"]
    BY <1>2 DEF DequeueTake, RingInv
  <2>3. HandedOver' = HandedOver
    BY <1>2, <1>a DEF DequeueTake, env
  <2>4. Taken' = Taken + 1 /\ Taken \in Nat
    <3>1. HandedOver \in Int
      BY <1>0, <1>a
    <3> QED
      BY <1>0, <2>2, <2>3, <3>1 DEF Taken, HeldOnce
  <2>5. Oldest = Taken + 1
    <3>1. Queued[1] = Oldest /\ 1 \in 1 .. count
      BY <1>0, <1>q, <2>1, <2>2
    <3> QED
      BY <3>1 DEF HeldOnce
  <2>6. ASSUME NEW i \in 1 .. count' PROVE Queued'[i] = Taken' + i
    <3>1. i + 1 \in 1 .. count /\ Queued'[i] = Queued[i + 1]
      BY <1>0, <1>q, <2>1, <2>2
    <3>2. Queued[i + 1] = Taken + (i + 1)
      BY <3>1 DEF HeldOnce
    <3> QED
      BY <2>4, <3>1, <3>2
  <2>7. ASSUME NEW v \in Workers, conn'[v] # NoConn
        PROVE  conn'[v] \in 1 .. Taken' /\ conn'[v] \notin closed'
    BY <1>0, <2>2, <2>4, <2>5, <2>7 DEF HeldOnce
  <2>8. ASSUME NEW v \in Workers, NEW u \in Workers, conn'[v] = conn'[u], conn'[v] # NoConn
        PROVE  v = u
    BY <1>0, <2>2, <2>4, <2>5, <2>8 DEF HeldOnce
  <2>9. ASSUME NEW c \in 1 .. Taken' PROVE c \in closed' \/ \E v \in Workers : conn'[v] = c
    <3>1. CASE c = Taken + 1
      BY <1>0, <2>2, <2>5, <3>1
    <3>2. CASE c # Taken + 1
      <4>1. c \in 1 .. Taken /\ c # NoConn
        BY <2>4, <3>2 DEF NoConn
      <4> QED
        BY <1>0, <2>2, <4>1 DEF HeldOnce
    <3> QED
      BY <3>1, <3>2
  <2>10. ASSUME NEW v \in Workers, wpc'[v] \in {"serve", "close"} PROVE conn'[v] # NoConn
    BY <1>0, <2>2, <2>4, <2>5, <2>10 DEF HeldOnce, NoConn
  <2>11. closed' \subseteq 1 .. Taken'
    BY <2>2, <2>4 DEF HeldOnce
  <2> QED
    BY <2>4, <2>6, <2>7, <2>8, <2>9, <2>10, <2>11 DEF HeldOnce
<1>3. ASSUME NEW w \in Workers, CloseConn(w) PROVE HeldOnce'
  <2>1. /\ HandedOver' = HandedOver /\ UNCHANGED ring
        /\ conn' = [conn EXCEPT ![w] = NoConn] /\ closed' = closed \cup {conn[w]}
        /\ wpc' = [wpc EXCEPT ![w] = "dequeue"] /\ wpc[w] = "close"
    BY <1>3, <1>a DEF CloseConn, env
  <2>2. Taken' = Taken /\ Queued' = Queued /\ count' = count
    BY <2>1 DEF Taken, Queued, ring
  <2>3. conn[w] \in 1 .. Taken
    BY <2>1 DEF HeldOnce
  <2> QED
    BY <1>0, <2>1, <2>2, <2>3 DEF HeldOnce
<1>4. ASSUME NEW w \in Workers, WorkerStep(w), ~DequeueTake(w), ~CloseConn(w) PROVE HeldOnce'
  <2>1. UNCHANGED <<ring, conn, closed>> /\ HandedOver' = HandedOver
    BY <1>4, <1>a DEF WorkerStep, DequeueLock, DequeueTest, DequeueWait,
       DequeueWake, DequeueStop, HandleClient, env
  <2>2. \A v \in Workers : wpc'[v] \in {"serve", "close"} => wpc[v] \in {"serve", "close"}
    BY <1>0, <1>4 DEF WorkerStep, DequeueLock, DequeueTest, DequeueWait,
       DequeueWake, DequeueStop, HandleClient
  <2> QED
    BY <1>b, <2>1, <2>2
<1>5. ASSUME MainStep, ~EnqueuePut PROVE HeldOnce'
  <2>1. UNCHANGED <<ring, conn, closed>> /\ wpc' = wpc
    BY <1>5 DEF MainStep, MainCheck, MainAccept, EnqueueLock, EnqueueWait,
       EnqueueWake, StopLock, StopBroadcast, JoinAndFree
  <2>2. HandedOver' = HandedOver
    <3>1. CASE MainAccept
      BY <1>0, <1>a, <3>1 DEF MainAccept
    <3>2. CASE ~MainAccept
      BY <1>5, <1>a, <3>2 DEF MainStep, MainCheck, EnqueueLock, EnqueueWait,
         EnqueueWake, StopLock, StopBroadcast, JoinAndFree, env
    <3> QED
      BY <3>1, <3>2
  <2> QED
    BY <1>b, <2>1, <2>2
<1>6. ASSUME MainAcceptError \/ Connect \/ SpuriousWakeup \/ UNCHANGED vars PROVE HeldOnce'
  <2>1. UNCHANGED <<ring, conn, closed>> /\ wpc' = wpc /\ HandedOver' = HandedOver
    BY <1>6, <1>a DEF MainAcceptError, Connect, SpuriousWakeup, vars, env
  <2> QED
    BY <1>b, <2>1
<1>7. ASSUME NEW t \in Workers \cup {Main}, sigint_handler(t) PROVE HeldOnce'
  <2>1. UNCHANGED <<ring, conn, closed>> /\ HandedOver' = HandedOver
    BY <1>7, <1>a DEF sigint_handler
  <2>2. \A v \in Workers : wpc'[v] \in {"serve", "close"} => wpc[v] \in {"serve", "close"}
    BY <1>0, <1>7 DEF sigint_handler
  <2> QED
    BY <1>b, <2>1, <2>2
<1> QED
  BY <1>1, <1>2, <1>3, <1>4, <1>5, <1>6, <1>7 DEF Next

LEMMA HeldInvariant == Spec => [](TypeInv /\ RingInv /\ HeldOnce)
<1>1. TypeInv /\ TypeInv' /\ RingInv /\ HeldOnce /\ [Next]_vars => HeldOnce'
  BY HeldStep
<1> QED
  BY <1>1, HeldInit, RingInvariant, PTL DEF Spec

(* A descriptor that accept returned is in exactly one place, whatever the *)
(* interleaving: it is not dropped on the way, nor closed or served twice  *)
(* (kvserver.c:162-171, 248-254).  That it leaves its slot is not said     *)
(* here: see ShutdownDrains.                                               *)
THEOREM EachHeldOnce == Spec => []OneHolder
<1>1. TypeInv /\ RingInv /\ HeldOnce => OneHolder
  <2> SUFFICES ASSUME TypeInv, RingInv, HeldOnce, NEW c \in 1 .. accepted
               PROVE  Cardinality(Holders(c)) = 1
    BY DEF OneHolder
  <2>0. /\ TypeOK /\ accepted \in Nat /\ count \in Nat /\ Taken \in Nat
        /\ HandedOver = Taken + count
        /\ HandedOver = IF mpc \in {"enqueue", "full", "wait"} THEN accepted - 1 ELSE accepted
    <3>1. TypeOK /\ accepted \in Nat /\ count \in Nat /\ Taken \in Nat
      BY PoolAssumption, CapacityType DEF TypeInv, TypeOK, HeldOnce
    <3>2. HandedOver = IF mpc \in {"enqueue", "full", "wait"} THEN accepted - 1 ELSE accepted
      BY <3>1, HandedOverValue DEF HandedOverOK
    <3> QED
      BY <3>1, <3>2 DEF Taken
  <2> DEFINE inHand == c \in InMainsHand
             inSlot(i) == i \in 1 .. count /\ Queued[i] = c
             with(w) == w \in Workers /\ conn[w] = c
  <2>2. \A x : x \in Holders(c) <=>
          \/ inHand /\ x = <<"main", 0>>
          \/ \E i : inSlot(i) /\ x = <<"slot", i>>
          \/ \E w : with(w) /\ x = <<"worker", w>>
          \/ c \in closed /\ x = <<"closed", 0>>
    BY DEF Holders
  <2>3. inHand <=> c = HandedOver + 1
    BY <2>0 DEF InMainsHand
  <2>4. \A i : inSlot(i) <=> i \in 1 .. count /\ c = Taken + i
    BY <2>0 DEF HeldOnce
  <2>5. \A w : with(w) => c \in 1 .. Taken /\ c \notin closed
    BY <2>0 DEF HeldOnce, NoConn
  <2>6. \A v, w : with(v) /\ with(w) => v = w
    BY <2>0 DEF HeldOnce, NoConn
  <2>7. c \in closed => c \in 1 .. Taken
    BY DEF HeldOnce
  <2>8. c \in 1 .. Taken => c \in closed \/ \E w : with(w)
    BY DEF HeldOnce
  <2> HIDE DEF inHand, inSlot, with
  <2>9. CASE c = HandedOver + 1
    <3>1. inHand /\ c \notin closed /\ (\A i : ~inSlot(i)) /\ (\A w : ~with(w))
      BY <2>0, <2>3, <2>4, <2>5, <2>7, <2>9
    <3>2. Holders(c) = {<<"main", 0>>}
      BY <2>2, <3>1
    <3> QED
      BY <3>2, FS_Singleton
  <2>10. CASE c \in Taken + 1 .. HandedOver
    <3>1. ~inHand /\ c \notin closed /\ inSlot(c - Taken) /\ (\A i : inSlot(i) => i = c - Taken)
          /\ (\A w : ~with(w))
      BY <2>0, <2>3, <2>4, <2>5, <2>7, <2>10
    <3>2. Holders(c) = {<<"slot", c - Taken>>}
      BY <2>2, <3>1
    <3> QED
      BY <3>2, FS_Singleton
  <2>11. CASE c \in 1 .. Taken
    <3>1. ~inHand /\ (\A i : ~inSlot(i))
      BY <2>0, <2>3, <2>4, <2>11
    <3>2. CASE c \in closed
      <4>1. \A w : ~with(w)
        BY <2>5, <3>2
      <4>2. Holders(c) = {<<"closed", 0>>}
        BY <2>2, <3>1, <3>2, <4>1
      <4> QED
        BY <4>2, FS_Singleton
    <3>3. CASE c \notin closed
      <4>1. PICK w : with(w)
        BY <2>8, <2>11, <3>3
      <4>2. Holders(c) = {<<"worker", w>>}
        BY <2>2, <2>6, <3>1, <3>3, <4>1
      <4> QED
        BY <4>2, FS_Singleton
    <3> QED
      BY <3>2, <3>3
  <2> QED
    BY <2>0, <2>9, <2>10, <2>11
<1> QED
  BY <1>1, HeldInvariant, PTL

-----------------------------------------------------------------------------
(* Shutdown.  A worker returns when it finds the queue empty and the flag  *)
(* up; from then on main can bring one more connection at most, as it does *)
(* not pass its own test of the flag again.                                *)

BeforePut == mpc \in {"accept", "enqueue", "full", "wait"}

LastOnly ==
  /\ \A w \in Workers : wpc[w] = "exited" =>
       g_shutdown /\ count <= 1 /\ (BeforePut => count = 0)
  /\ mpc = "exited" => \A w \in Workers : wpc[w] = "exited"

LEMMA LastStep == TypeInv /\ LastOnly /\ [Next]_vars => LastOnly'
<1> SUFFICES ASSUME TypeInv, LastOnly, [Next]_vars PROVE LastOnly'
  OBVIOUS
<1>0. wpc \in [Workers -> WorkerPCs] /\ count \in Nat
  BY CapacityType DEF TypeInv, TypeOK
<1> USE DEF LastOnly, BeforePut
<1>1. CASE EnqueuePut
  BY <1>0, <1>1 DEF EnqueuePut
<1>2. ASSUME MainStep, ~EnqueuePut PROVE LastOnly'
  BY <1>2 DEF MainStep, MainCheck, MainAccept, EnqueueLock, EnqueueWait,
     EnqueueWake, StopLock, StopBroadcast, JoinAndFree, ring
<1>3. ASSUME NEW w \in Workers, DequeueStop(w) PROVE LastOnly'
  BY <1>0, <1>3 DEF DequeueStop, MayStop, ring
<1>4. ASSUME NEW w \in Workers, WorkerStep(w), ~DequeueStop(w) PROVE LastOnly'
  BY <1>0, <1>4 DEF WorkerStep, DequeueLock, DequeueTest, DequeueWait, DequeueWake,
     DequeueTake, HandleClient, CloseConn, ring
<1>5. ASSUME MainAcceptError \/ Connect \/ SpuriousWakeup \/ UNCHANGED vars PROVE LastOnly'
  BY <1>5 DEF MainAcceptError, Connect, SpuriousWakeup, vars, ring
<1>6. ASSUME NEW t \in Workers \cup {Main}, sigint_handler(t) PROVE LastOnly'
  BY <1>0, <1>6 DEF sigint_handler, ring
<1> QED
  BY <1>1, <1>2, <1>3, <1>4, <1>5, <1>6 DEF Next

(* A clean shutdown leaves at most the last accepted connection unserved;  *)
(* every earlier one has been closed when main returns (kvserver.c:162-    *)
(* 181, 227).                                                              *)
THEOREM ShutdownDrains == Spec => []DrainedButLast
<1>1. Init => LastOnly
  BY DEF Init, LastOnly
<1>2. TypeInv /\ LastOnly /\ [Next]_vars => LastOnly'
  BY LastStep
<1>3. TypeInv /\ RingInv /\ HeldOnce /\ LastOnly => DrainedButLast
  <2> SUFFICES ASSUME TypeInv, RingInv, HeldOnce, LastOnly, mpc = "exited",
                      NEW c \in 1 .. accepted - 1
               PROVE  c \in closed
    BY DEF DrainedButLast
  <2>1. count <= 1 /\ \A w \in Workers : conn[w] = NoConn
    BY PoolAssumption DEF LastOnly, RingInv
  <2>2. accepted \in Nat /\ count \in Nat /\ HandedOver = accepted
    BY PoolAssumption, CapacityType, HandedOverValue DEF TypeInv, TypeOK, HandedOverOK
  <2>3. c \in 1 .. Taken /\ c # NoConn
    BY <2>1, <2>2 DEF Taken, NoConn
  <2> QED
    BY <2>1, <2>3 DEF HeldOnce
<1> QED
  BY <1>1, <1>2, <1>3, HeldInvariant, PTL DEF Spec

=============================================================================
