--------------------------- MODULE SchedulingProofs ---------------------------
(***************************************************************************)
(* Theorems about the scheduling simulator, for any number of processes,   *)
(* arrivals, run times, priorities and quanta: its queues hold who waits,  *)
(* its schedulers share the processor, each keeps to its policy, and       *)
(* shortest remaining time has the least turnaround.                       *)
(***************************************************************************)
EXTENDS SchedulingMC, SetInduction

-----------------------------------------------------------------------------
(* Queues. *)

Slots == 0 .. MaxQueueSize - 1

Shape(q) ==
  /\ q \in [items : [Slots -> Procs \cup {None}], front : Slots,
            rear : -1 .. MaxQueueSize - 1, size : 0 .. MaxQueueSize]
  /\ (q.rear + 1) % MaxQueueSize = (q.front + q.size) % MaxQueueSize

(* a is in front of b. *)
Before(q, a, b) ==
  \E j, k \in 0 .. q.size - 1 : j < k /\ Item(q, j) = a /\ Item(q, k) = b

(* A queue of processes, each once. *)
Good(q) ==
  /\ Shape(q)
  /\ \A k \in 0 .. q.size - 1 : Item(q, k) \in Procs
  /\ \A p \in Procs : ~Before(q, p, p)

(* The slot d places after slot x, without the remainder. *)
After(x, d) == IF x + d < MaxQueueSize THEN x + d ELSE (x + d) - MaxQueueSize

LEMMA Sizes == NumProcesses \in Nat \ {0} /\ MaxQueueSize \in Nat \ {0} /\ NumProcesses <= MaxQueueSize
BY SchedulingAssumption

LEMMA AfterValue ==
  ASSUME NEW x \in Slots, NEW d \in 0 .. MaxQueueSize
  PROVE  (x + d) % MaxQueueSize = After(x, d) /\ After(x, d) \in Slots
<1>0. /\ MaxQueueSize \in Nat \ {0}
      /\ x \in Int /\ 0 <= x /\ x < MaxQueueSize /\ d \in Int /\ 0 <= d /\ d <= MaxQueueSize
  BY Sizes DEF Slots
<1>1. /\ \A y \in 0 .. MaxQueueSize - 1 : y % MaxQueueSize = y
      /\ \A y \in MaxQueueSize .. 2 * MaxQueueSize - 1 : y % MaxQueueSize = y - MaxQueueSize
  BY <1>0
<1>2. CASE x + d < MaxQueueSize
  <2>1. x + d \in 0 .. MaxQueueSize - 1
    BY <1>0, <1>2
  <2>2. (x + d) % MaxQueueSize = x + d
    BY <1>1, <2>1, Zenon
  <2> QED
    BY <1>2, <2>1, <2>2 DEF After, Slots
<1>3. CASE x + d >= MaxQueueSize
  <2>1. x + d \in MaxQueueSize .. 2 * MaxQueueSize - 1
    BY <1>0, <1>3
  <2>2. (x + d) % MaxQueueSize = (x + d) - MaxQueueSize
    BY <1>1, <2>1, Zenon
  <2>3. (x + d) - MaxQueueSize \in 0 .. MaxQueueSize - 1 /\ ~(x + d < MaxQueueSize)
    BY <1>0, <1>3
  <2> QED
    BY <2>2, <2>3 DEF After, Slots
<1> QED
  BY <1>0, <1>2, <1>3

LEMMA ItemIs ==
  ASSUME NEW q, Shape(q), NEW k \in 0 .. q.size - 1
  PROVE  /\ Item(q, k) = q.items[After(q.front, k)] /\ After(q.front, k) \in Slots
         /\ q.front \in Slots /\ q.size \in 0 .. MaxQueueSize
<1>1. q.front \in Slots /\ k \in 0 .. MaxQueueSize /\ q.size \in 0 .. MaxQueueSize
  BY Sizes DEF Shape
<1> QED
  BY <1>1, AfterValue DEF Item

LEMMA EmptyIsGood ==
  /\ Good(EmptyQueue) /\ Contents(EmptyQueue) = {}
  /\ EmptyQueue.size = 0
<1>1. EmptyQueue.size = 0 /\ EmptyQueue.rear = -1 /\ EmptyQueue.front = 0
  BY DEF EmptyQueue
<1>2. 0 \in Slots /\ -1 \in -1 .. MaxQueueSize - 1 /\ 0 \in 0 .. MaxQueueSize
  BY Sizes DEF Slots
<1>3. Shape(EmptyQueue)
  <2>1. EmptyQueue.items \in [Slots -> Procs \cup {None}]
    BY DEF EmptyQueue, Slots
  <2>2. (EmptyQueue.rear + 1) % MaxQueueSize = (EmptyQueue.front + EmptyQueue.size) % MaxQueueSize
    BY <1>1
  <2>3. EmptyQueue \in [items : [Slots -> Procs \cup {None}], front : Slots,
                        rear : -1 .. MaxQueueSize - 1, size : 0 .. MaxQueueSize]
    BY <1>2, <2>1 DEF EmptyQueue
  <2> QED
    BY <2>2, <2>3 DEF Shape
<1>4. 0 .. EmptyQueue.size - 1 = {}
  BY <1>1
<1> QED
  BY <1>1, <1>3, <1>4 DEF Good, Before, Contents

(* What enqueue and dequeue do to the list of items. *)
LEMMA EnqueueItems ==
  ASSUME NEW q, Shape(q), q.size < MaxQueueSize, NEW v \in Procs
  PROVE  LET r == enqueue(q, v) IN
         /\ Shape(r) /\ r.size = q.size + 1
         /\ \A k \in 0 .. q.size - 1 : Item(r, k) = Item(q, k)
         /\ Item(r, q.size) = v
<1> DEFINE rear == (q.rear + 1) % MaxQueueSize
           r == [items |-> [q.items EXCEPT ![rear] = v], front |-> q.front,
                 rear |-> rear, size |-> q.size + 1]
<1>1. /\ q.front \in Slots /\ q.size \in 0 .. MaxQueueSize /\ q.size # MaxQueueSize
      /\ q.items \in [Slots -> Procs \cup {None}] /\ q.rear \in -1 .. MaxQueueSize - 1
      /\ q = [items |-> q.items, front |-> q.front, rear |-> q.rear, size |-> q.size]
  BY Sizes DEF Shape
<1>2. enqueue(q, v) = r
  BY <1>1 DEF enqueue
<1>3. rear = After(q.front, q.size) /\ rear \in Slots
  BY <1>1, AfterValue DEF Shape
<1>4. r.items = [q.items EXCEPT ![rear] = v] /\ r.front = q.front /\ r.rear = rear /\ r.size = q.size + 1
  OBVIOUS
<1>5. Shape(r)
  <2>1. /\ r.items \in [Slots -> Procs \cup {None}] /\ r.front \in Slots
        /\ r.rear \in -1 .. MaxQueueSize - 1 /\ r.size \in 0 .. MaxQueueSize
    BY <1>1, <1>3, <1>4, Sizes DEF Slots
  <2>2. (After(q.front, q.size) + 1) % MaxQueueSize = (q.front + (q.size + 1)) % MaxQueueSize
    <3>1. /\ (After(q.front, q.size) + 1) % MaxQueueSize = After(After(q.front, q.size), 1)
      BY <1>1, <1>3, AfterValue, Sizes
    <3>2. (q.front + (q.size + 1)) % MaxQueueSize = After(q.front, q.size + 1)
      <4>1. q.size + 1 \in 0 .. MaxQueueSize
        BY <1>1, Sizes
      <4> QED
        BY <1>1, <4>1, AfterValue
    <3>3. After(After(q.front, q.size), 1) = After(q.front, q.size + 1)
      BY <1>1, Sizes DEF After, Slots
    <3> QED
      BY <3>1, <3>2, <3>3
  <2> HIDE DEF r, rear
  <2>3. (r.rear + 1) % MaxQueueSize = (r.front + r.size) % MaxQueueSize
    BY <1>3, <1>4, <2>2
  <2>4. r \in [items : [Slots -> Procs \cup {None}], front : Slots,
               rear : -1 .. MaxQueueSize - 1, size : 0 .. MaxQueueSize]
    BY <2>1 DEF r
  <2> QED
    BY <2>3, <2>4 DEF Shape
<1>6. \A k \in 0 .. q.size : Item(r, k) = r.items[After(q.front, k)] /\ After(q.front, k) \in Slots
  <2> SUFFICES ASSUME NEW k \in 0 .. q.size
               PROVE  Item(r, k) = r.items[After(q.front, k)] /\ After(q.front, k) \in Slots
    OBVIOUS
  <2>1. k \in 0 .. r.size - 1 /\ r.front = q.front
    BY <1>1, <1>4
  <2> HIDE DEF r
  <2> QED
    BY <1>5, <2>1, ItemIs
<1>7. Item(r, q.size) = v
  BY <1>1, <1>3, <1>4, <1>6
<1>8. ASSUME NEW k \in 0 .. q.size - 1 PROVE Item(r, k) = Item(q, k)
  <2>1. Item(q, k) = q.items[After(q.front, k)]
    BY ItemIs
  <2>2. k \in 0 .. q.size /\ After(q.front, k) # After(q.front, q.size)
    BY <1>1, Sizes DEF After, Slots
  <2>3. Item(r, k) = r.items[After(q.front, k)] /\ After(q.front, k) \in Slots
    BY <1>6, <2>2
  <2>4. r.items[After(q.front, k)] = q.items[After(q.front, k)]
    BY <1>1, <1>3, <1>4, <2>2, <2>3
  <2> QED
    BY <2>1, <2>3, <2>4
<1> HIDE DEF r
<1> QED
  BY <1>2, <1>4, <1>5, <1>7, <1>8

LEMMA DequeuedItems ==
  ASSUME NEW q, Shape(q), NEW n \in 0 .. q.size
  PROVE  LET r == Dequeued(q, n) IN
         /\ Shape(r) /\ r.size = q.size - n
         /\ \A k \in 0 .. r.size - 1 : Item(r, k) = Item(q, n + k)
<1> DEFINE r == Dequeued(q, n)
<1>1. /\ q.front \in Slots /\ q.size \in 0 .. MaxQueueSize /\ n \in 0 .. MaxQueueSize
      /\ q \in [items : [Slots -> Procs \cup {None}], front : Slots,
                rear : -1 .. MaxQueueSize - 1, size : 0 .. MaxQueueSize]
  BY Sizes DEF Shape
<1>3. (q.front + n) % MaxQueueSize = After(q.front, n) /\ After(q.front, n) \in Slots
  BY <1>1, AfterValue
<1>4. /\ r.items = q.items /\ r.front = After(q.front, n) /\ r.rear = q.rear /\ r.size = q.size - n
      /\ r \in [items : [Slots -> Procs \cup {None}], front : Slots,
                rear : -1 .. MaxQueueSize - 1, size : 0 .. MaxQueueSize]
  <2>1. q.size - n \in 0 .. MaxQueueSize
    BY <1>1, Sizes
  <2>2. r = [q EXCEPT !.front = After(q.front, n), !.size = q.size - n]
    BY <1>3 DEF Dequeued
  <2> HIDE DEF r
  <2> QED
    BY <1>1, <1>3, <2>1, <2>2
<1>5. r.size \in 0 .. MaxQueueSize
  BY <1>1, <1>4, Sizes
<1>6. \A k \in 0 .. q.size - n : After(After(q.front, n), k) = After(q.front, n + k)
  BY <1>1, Sizes DEF After, Slots
<1>7. Shape(r)
  <2>1. (r.front + r.size) % MaxQueueSize = After(After(q.front, n), q.size - n)
    BY <1>3, <1>4, <1>5, AfterValue
  <2>2. (q.front + q.size) % MaxQueueSize = After(q.front, n + (q.size - n))
    BY <1>1, AfterValue
  <2>3. (q.rear + 1) % MaxQueueSize = (q.front + q.size) % MaxQueueSize
    BY DEF Shape
  <2>4. q.size - n \in 0 .. q.size - n
    BY <1>1
  <2>5. After(After(q.front, n), q.size - n) = After(q.front, n + (q.size - n))
    BY <1>6, <2>4
  <2> HIDE DEF r
  <2> QED
    BY <1>4, <2>1, <2>2, <2>3, <2>5 DEF Shape
<1>8. ASSUME NEW k \in 0 .. r.size - 1 PROVE Item(r, k) = Item(q, n + k)
  <2>1. k \in 0 .. q.size - n /\ n + k \in 0 .. q.size - 1
    BY <1>1, <1>4
  <2>2. Item(q, n + k) = q.items[After(q.front, n + k)]
    BY <2>1, ItemIs
  <2> HIDE DEF r
  <2>3. Item(r, k) = r.items[After(r.front, k)]
    BY <1>7, ItemIs
  <2> QED
    BY <1>4, <1>6, <2>1, <2>2, <2>3
<1> HIDE DEF r
<1> QED
  BY <1>4, <1>7, <1>8 DEF r

LEMMA ProcsFinite == IsFiniteSet(Procs) /\ Cardinality(Procs) = NumProcesses
<1>1. NumProcesses \in Nat \ {0}
  BY Sizes
<1>2. 0 \in Int /\ NumProcesses - 1 \in Int /\ ~(0 > NumProcesses - 1)
      /\ (NumProcesses - 1) - 0 + 1 = NumProcesses
  BY <1>1
<1> QED
  BY <1>2, FS_Interval DEF Procs

(* The items of a good queue are as many as its members. *)
LEMMA SizeIs ==
  ASSUME NEW q, Good(q)
  PROVE  /\ q.size \in 0 .. MaxQueueSize /\ q.size \in Nat
         /\ Contents(q) \subseteq Procs /\ IsFiniteSet(Contents(q))
         /\ q.size = Cardinality(Contents(q)) /\ q.size <= NumProcesses
         /\ q.size = 0 <=> Contents(q) = {}
         /\ \A j, k \in 0 .. q.size - 1 : Item(q, j) = Item(q, k) => j = k
<1>1. q.size \in 0 .. MaxQueueSize /\ q.size \in Nat
  BY Sizes DEF Good, Shape
<1>2. Contents(q) \subseteq Procs
  BY DEF Good, Contents
<1>3. ASSUME NEW j \in 0 .. q.size - 1, NEW k \in 0 .. q.size - 1, Item(q, j) = Item(q, k)
      PROVE  j = k
  <2>1. Item(q, j) \in Procs /\ j \in Int /\ k \in Int
    BY <1>1 DEF Good
  <2>2. ~(j < k) /\ ~(k < j)
    BY <1>3, <2>1 DEF Good, Before
  <2> QED
    BY <2>1, <2>2
<1>4. IsFiniteSet(Contents(q)) /\ Cardinality(Contents(q)) <= NumProcesses
  BY <1>2, ProcsFinite, FS_Subset
<1>5. q.size = Cardinality(Contents(q))
  <2> DEFINE f == [k \in 0 .. q.size - 1 |-> Item(q, k)]
  <2>1. f \in Injection(0 .. q.size - 1, Contents(q))
    BY <1>3 DEF Injection, IsInjective, Contents
  <2>2. f \in Surjection(0 .. q.size - 1, Contents(q))
    BY DEF Surjection, Contents
  <2>3. Cardinality(0 .. q.size - 1) = q.size
    <3>1. 0 \in Int /\ q.size - 1 \in Int
          /\ q.size = IF 0 > q.size - 1 THEN 0 ELSE (q.size - 1) - 0 + 1
      BY <1>1
    <3> QED
      BY <3>1, FS_Interval
  <2> HIDE DEF f
  <2>4. Cardinality(0 .. q.size - 1) = Cardinality(Contents(q))
    BY <1>4, <2>1, <2>2, FS_Injection
  <2> QED
    BY <2>3, <2>4
<1>6. q.size = 0 <=> Contents(q) = {}
  BY <1>4, <1>5, FS_EmptySet
<1> QED
  BY <1>1, <1>2, <1>3, <1>4, <1>5, <1>6

LEMMA EnqueueGood ==
  ASSUME NEW q, Good(q), NEW v \in Procs, v \notin Contents(q)
  PROVE  LET r == enqueue(q, v) IN
         /\ Good(r) /\ Contents(r) = Contents(q) \cup {v}
         /\ r.size = q.size + 1 /\ Item(r, q.size) = v
         /\ \A k \in 0 .. q.size - 1 : Item(r, k) = Item(q, k)
         /\ \A a, b : Before(r, a, b) => Before(q, a, b) \/ (a \in Contents(q) /\ b = v)
<1> DEFINE r == enqueue(q, v)
<1>1. /\ q.size \in 0 .. MaxQueueSize /\ q.size \in Nat /\ Contents(q) \subseteq Procs
      /\ q.size = Cardinality(Contents(q)) /\ IsFiniteSet(Contents(q))
  BY SizeIs
<1>2. q.size < MaxQueueSize
  <2>1. Contents(q) \cup {v} \subseteq Procs
    BY <1>1
  <2>2. Cardinality(Contents(q) \cup {v}) = q.size + 1
    BY <1>1, FS_AddElement
  <2>3. Cardinality(Contents(q) \cup {v}) <= NumProcesses
    BY <2>1, ProcsFinite, FS_Subset
  <2> QED
    BY <1>1, <2>2, <2>3, Sizes
<1>3. /\ Shape(r) /\ r.size = q.size + 1
      /\ \A k \in 0 .. q.size - 1 : Item(r, k) = Item(q, k)
      /\ Item(r, q.size) = v
  BY <1>2, EnqueueItems DEF Good
<1> HIDE DEF r
<1>4. 0 .. r.size - 1 = (0 .. q.size - 1) \cup {q.size} /\ q.size \notin 0 .. q.size - 1
  BY <1>1, <1>3
<1>5. Contents(r) = Contents(q) \cup {v}
  BY <1>3, <1>4 DEF Contents
<1>6. \A k \in 0 .. r.size - 1 : Item(r, k) \in Procs
  BY <1>3, <1>4 DEF Good
<1>7. ASSUME NEW a, NEW b, Before(r, a, b)
      PROVE  Before(q, a, b) \/ (a \in Contents(q) /\ b = v)
  <2>1. PICK j \in 0 .. r.size - 1, k \in 0 .. r.size - 1 : j < k /\ Item(r, j) = a /\ Item(r, k) = b
    BY <1>7 DEF Before
  <2>2. j \in 0 .. q.size - 1 /\ Item(q, j) = a
    BY <1>1, <1>3, <2>1
  <2>3. CASE k = q.size
    BY <1>3, <2>1, <2>2, <2>3 DEF Contents
  <2>4. CASE k \in 0 .. q.size - 1
    BY <1>3, <2>1, <2>2, <2>4 DEF Before
  <2> QED
    BY <1>4, <2>3, <2>4
<1>8. \A p \in Procs : ~Before(r, p, p)
  BY <1>7 DEF Good
<1> QED
  BY <1>3, <1>5, <1>6, <1>7, <1>8 DEF Good, r

LEMMA DequeuedGood ==
  ASSUME NEW q, Good(q), NEW n \in 0 .. q.size
  PROVE  LET r == Dequeued(q, n) IN
         /\ Good(r) /\ r.size = q.size - n
         /\ \A k \in 0 .. r.size - 1 : Item(r, k) = Item(q, n + k)
         /\ Contents(r) = Contents(q) \ {Item(q, k) : k \in 0 .. n - 1}
         /\ \A a, b : Before(r, a, b) => Before(q, a, b)
         /\ \A k \in 0 .. n - 1 : \A b \in Contents(r) : Before(q, Item(q, k), b)
<1> DEFINE r == Dequeued(q, n)
<1>1. /\ q.size \in 0 .. MaxQueueSize /\ q.size \in Nat
      /\ \A j, k \in 0 .. q.size - 1 : Item(q, j) = Item(q, k) => j = k
  BY SizeIs
<1>2. /\ Shape(r) /\ r.size = q.size - n
      /\ \A k \in 0 .. r.size - 1 : Item(r, k) = Item(q, n + k)
  BY DequeuedItems DEF Good
<1> HIDE DEF r
<1>3. \A k \in 0 .. r.size - 1 : n + k \in 0 .. q.size - 1 /\ k \in Int /\ n \in Int
  BY <1>1, <1>2
<1>4. ASSUME NEW a, NEW b, Before(r, a, b) PROVE Before(q, a, b)
  <2>1. PICK j \in 0 .. r.size - 1, k \in 0 .. r.size - 1 : j < k /\ Item(r, j) = a /\ Item(r, k) = b
    BY <1>4 DEF Before
  <2>2. n + j < n + k
    BY <1>3, <2>1
  <2> QED
    BY <1>2, <1>3, <2>1, <2>2 DEF Before
<1>5. Contents(r) = Contents(q) \ {Item(q, k) : k \in 0 .. n - 1}
  <2>1. ASSUME NEW a \in Contents(r) PROVE a \in Contents(q) \ {Item(q, k) : k \in 0 .. n - 1}
    <3>1. PICK k \in 0 .. r.size - 1 : a = Item(r, k)
      BY DEF Contents
    <3>2. a = Item(q, n + k) /\ n + k \in 0 .. q.size - 1 /\ n + k \notin 0 .. n - 1
      BY <1>2, <1>3, <3>1
    <3>3. 0 .. n - 1 \subseteq 0 .. q.size - 1
      BY <1>1
    <3>4. a \notin {Item(q, m) : m \in 0 .. n - 1}
      BY <1>1, <3>2, <3>3
    <3> QED
      BY <3>2, <3>4 DEF Contents
  <2>2. ASSUME NEW a \in Contents(q) \ {Item(q, k) : k \in 0 .. n - 1} PROVE a \in Contents(r)
    <3>1. PICK m \in 0 .. q.size - 1 : a = Item(q, m)
      BY DEF Contents
    <3>2. m \notin 0 .. n - 1
      BY <3>1
    <3>3. m - n \in 0 .. r.size - 1 /\ n + (m - n) = m
      BY <1>1, <1>2, <3>2
    <3> QED
      BY <1>2, <3>1, <3>3 DEF Contents
  <2> QED
    BY <2>1, <2>2
<1>6. ASSUME NEW k \in 0 .. n - 1, NEW b \in Contents(r) PROVE Before(q, Item(q, k), b)
  <2>1. PICK j \in 0 .. r.size - 1 : b = Item(r, j)
    BY DEF Contents
  <2>2. b = Item(q, n + j) /\ n + j \in 0 .. q.size - 1 /\ k \in 0 .. q.size - 1 /\ k < n + j
    BY <1>1, <1>2, <1>3, <2>1
  <2> QED
    BY <2>2 DEF Before
<1>7. \A k \in 0 .. r.size - 1 : Item(r, k) \in Procs
  BY <1>2, <1>3 DEF Good
<1>8. \A p \in Procs : ~Before(r, p, p)
  BY <1>4 DEF Good
<1> QED
  BY <1>2, <1>4, <1>5, <1>6, <1>7, <1>8 DEF Good, r

(* The loop of EnqueueAll, up to process m. *)
Loop(q, pids, m, f) ==
  f = [n \in 0 .. m |-> IF n = 0 THEN q
                        ELSE IF n - 1 \in pids THEN enqueue(f[n - 1], n - 1)
                        ELSE f[n - 1]]

LEMMA LoopsExist ==
  ASSUME NEW q, NEW pids, NEW m \in Nat PROVE \E f : Loop(q, pids, m, f)
<1> DEFINE Ok == {l \in Nat : \E f : Loop(q, pids, l, f)}
<1>1. 0 \in Ok
  <2> DEFINE f == [n \in 0 .. 0 |-> q]
  <2>1. f = [n \in 0 .. 0 |-> IF n = 0 THEN q
                              ELSE IF n - 1 \in pids THEN enqueue(f[n - 1], n - 1)
                              ELSE f[n - 1]]
    OBVIOUS
  <2> HIDE DEF f
  <2>2. Loop(q, pids, 0, f)
    BY <2>1 DEF Loop
  <2> QED
    BY <2>2
<1>2. ASSUME NEW l \in Nat, l \in Ok PROVE l + 1 \in Ok
  <2>1. PICK f : Loop(q, pids, l, f)
    BY <1>2
  <2> DEFINE last == IF l \in pids THEN enqueue(f[l], l) ELSE f[l]
             g == [n \in 0 .. l + 1 |-> IF n = l + 1 THEN last ELSE f[n]]
  <2>2. ASSUME NEW n \in 0 .. l + 1
        PROVE  g[n] = IF n = 0 THEN q
                      ELSE IF n - 1 \in pids THEN enqueue(g[n - 1], n - 1)
                      ELSE g[n - 1]
    <3>1. CASE n = l + 1
      <4>1. g[n] = last /\ g[l] = f[l] /\ n - 1 = l /\ n # 0
        BY <3>1
      <4> HIDE DEF g
      <4> QED
        BY <4>1
    <3>2. CASE n # l + 1
      <4>1. n \in 0 .. l /\ g[n] = f[n] /\ (n # 0 => n - 1 \in 0 .. l /\ g[n - 1] = f[n - 1])
        BY <3>2
      <4> HIDE DEF g
      <4>2. f[n] = IF n = 0 THEN q
                   ELSE IF n - 1 \in pids THEN enqueue(f[n - 1], n - 1)
                   ELSE f[n - 1]
        BY <2>1, <4>1 DEF Loop
      <4> QED
        BY <4>1, <4>2
    <3> QED
      BY <3>1, <3>2
  <2>3. g = [n \in 0 .. l + 1 |-> g[n]]
    OBVIOUS
  <2> HIDE DEF g
  <2>4. Loop(q, pids, l + 1, g)
    BY <2>2, <2>3 DEF Loop
  <2> QED
    BY <2>4
<1> HIDE DEF Ok
<1>3. Nat \subseteq Ok
  BY <1>1, <1>2, NatInduct
<1> QED
  BY <1>3 DEF Ok

(* Queueing the processes of S behind those of q, in the order of pids. *)
Queued(r, q, S) ==
  /\ Good(r) /\ Contents(r) = Contents(q) \cup S
  /\ \A a, b : Before(r, a, b) =>
       \/ Before(q, a, b)
       \/ a \in Contents(q) /\ b \in S
       \/ a \in S /\ b \in S /\ a < b

LEMMA EnqueueAllGood ==
  ASSUME NEW q, Good(q), NEW S \in SUBSET Procs, S \cap Contents(q) = {}
  PROVE  Queued(EnqueueAll(q, S), q, S)
<1> DEFINE f == CHOOSE f : Loop(q, S, NumProcesses, f)
           Lower(n) == {p \in S : p < n}
           Ok == {n \in Nat : n <= NumProcesses => Queued(f[n], q, Lower(n))}
<1>1. Loop(q, S, NumProcesses, f)
  BY LoopsExist, Sizes
<1>2. EnqueueAll(q, S) = f[NumProcesses]
  BY DEF EnqueueAll, Loop
<1>3. \A p \in S : p \in Int /\ 0 <= p /\ p < NumProcesses
  <2>1. \A p \in Procs : p \in Int /\ 0 <= p /\ p < NumProcesses
    BY Sizes DEF Procs
  <2> QED
    BY <2>1, Zenon
<1>a. \A n \in Nat, p \in S : p < n + 1 <=> p < n \/ p = n
  BY <1>3
<1>b. \A p \in S : ~(p < 0) /\ ~(p < p)
  BY <1>3
<1> HIDE DEF f
<1>4. 0 \in Ok
  <2>1. f[0] = q
    BY <1>1, Sizes DEF Loop
  <2>2. Lower(0) = {}
    BY <1>b, Zenon
  <2> HIDE DEF Lower
  <2> QED
    BY <2>1, <2>2 DEF Queued
<1>5. ASSUME NEW n \in Nat, n \in Ok PROVE n + 1 \in Ok
  <2> SUFFICES ASSUME n + 1 <= NumProcesses PROVE Queued(f[n + 1], q, Lower(n + 1))
    OBVIOUS
  <2>1. Queued(f[n], q, Lower(n)) /\ n \in Procs
    BY <1>5, Sizes DEF Procs
  <2>2. f[n + 1] = IF n \in S THEN enqueue(f[n], n) ELSE f[n]
    <3>1. n + 1 \in 0 .. NumProcesses /\ (n + 1) - 1 = n /\ n + 1 # 0
      BY Sizes
    <3> QED
      BY <1>1, <3>1 DEF Loop
  <2>3. CASE n \notin S
    <3>1. Lower(n + 1) = Lower(n)
      BY <1>a, <2>3
    <3> HIDE DEF Lower
    <3> QED
      BY <2>1, <2>2, <2>3, <3>1
  <2>4. CASE n \in S
    <3>1. Lower(n + 1) = Lower(n) \cup {n} /\ n \notin Lower(n) /\ \A a \in Lower(n) : a < n
      <4>1. Lower(n + 1) \subseteq Lower(n) \cup {n}
        BY <1>a
      <4>2. Lower(n) \cup {n} \subseteq Lower(n + 1)
        BY <1>a, <2>4
      <4>3. n \notin Lower(n) /\ \A a \in Lower(n) : a < n
        BY <1>b, <2>4
      <4> QED
        BY <4>1, <4>2, <4>3, Zenon
    <3> HIDE DEF Lower
    <3> DEFINE p == f[n]
               r == enqueue(f[n], n)
    <3>2. /\ Good(p) /\ Contents(p) = Contents(q) \cup Lower(n)
          /\ \A a, b : Before(p, a, b) =>
               \/ Before(q, a, b)
               \/ a \in Contents(q) /\ b \in Lower(n)
               \/ a \in Lower(n) /\ b \in Lower(n) /\ a < b
      BY <2>1 DEF Queued
    <3>3. n \notin Contents(p)
      BY <2>4, <3>1, <3>2
    <3>4. /\ Good(r) /\ Contents(r) = Contents(p) \cup {n}
          /\ \A a, b : Before(r, a, b) => Before(p, a, b) \/ (a \in Contents(p) /\ b = n)
      <4> HIDE DEF p
      <4>1. r = enqueue(p, n)
        BY DEF p
      <4> HIDE DEF r
      <4> QED
        BY <2>1, <3>2, <3>3, <4>1, EnqueueGood
    <3> HIDE DEF p, r
    <3>5. f[n + 1] = r
      BY <2>2, <2>4 DEF r
    <3>6. ASSUME NEW a, NEW b, Before(r, a, b)
          PROVE  \/ Before(q, a, b)
                 \/ a \in Contents(q) /\ b \in Lower(n + 1)
                 \/ a \in Lower(n + 1) /\ b \in Lower(n + 1) /\ a < b
      <4>1. CASE Before(p, a, b)
        BY <3>1, <3>2, <4>1
      <4>2. CASE a \in Contents(p) /\ b = n
        BY <3>1, <3>2, <4>2
      <4> QED
        BY <3>4, <3>6, <4>1, <4>2
    <3>7. Contents(r) = Contents(q) \cup Lower(n + 1)
      BY <3>1, <3>2, <3>4
    <3>8. Queued(r, q, Lower(n + 1))
      BY <3>4, <3>6, <3>7 DEF Queued
    <3> QED
      BY <3>5, <3>8
  <2> QED
    BY <2>3, <2>4
<1>6. Lower(NumProcesses) = S
  BY <1>3, Zenon
<1> HIDE DEF Ok
<1>7. NumProcesses \in Ok
  BY <1>4, <1>5, NatInduct, Sizes
<1>8. Queued(f[NumProcesses], q, Lower(NumProcesses))
  BY <1>7, Sizes DEF Ok
<1> QED
  BY <1>2, <1>6, <1>8

(* What is left of a queue when finished processes are taken off its front. *)
LEMMA PrunedGood ==
  ASSUME NEW q, Good(q)
  PROVE  LET r == Pruned(q) IN
         /\ Good(r) /\ Contents(r) \subseteq Contents(q)
         /\ \A p \in Contents(q) : ~Finished(p) => p \in Contents(r)
         /\ \A a, b : Before(r, a, b) => Before(q, a, b)
         /\ r.size # 0 => ~Finished(Item(r, 0))
<1> DEFINE S == {k \in 0 .. q.size : k = q.size \/ ~Finished(Item(q, k))}
           n == Min(S)
           r == Dequeued(q, n)
<1>1. q.size \in Nat
  BY SizeIs
<1>2. n \in S /\ \A k \in S : n <= k
  <2>1. S \in SUBSET Int /\ S # {} /\ 0 \in Int /\ \A k \in S : 0 <= k
    BY <1>1
  <2> HIDE DEF S
  <2> QED
    BY <2>1, LeastOf
<1>3. n \in 0 .. q.size
  BY <1>2
<1>4. ASSUME NEW k \in 0 .. n - 1 PROVE Finished(Item(q, k))
  <2>1. k \in 0 .. q.size /\ k # q.size /\ ~(n <= k)
    BY <1>1, <1>3
  <2> QED
    BY <1>2, <2>1
<1>5. r = Pruned(q)
  BY DEF Pruned
<1> HIDE DEF n
<1>6. /\ Good(r) /\ r.size = q.size - n
      /\ \A k \in 0 .. r.size - 1 : Item(r, k) = Item(q, n + k)
      /\ Contents(r) = Contents(q) \ {Item(q, k) : k \in 0 .. n - 1}
      /\ \A a, b : Before(r, a, b) => Before(q, a, b)
  BY <1>3, DequeuedGood
<1> HIDE DEF r
<1>7. \A p \in Contents(q) : ~Finished(p) => p \in Contents(r)
  BY <1>4, <1>6
<1>8. r.size # 0 => ~Finished(Item(r, 0))
  <2> SUFFICES ASSUME r.size # 0 PROVE ~Finished(Item(r, 0))
    OBVIOUS
  <2>1. n # q.size /\ 0 \in 0 .. r.size - 1 /\ n + 0 = n
    BY <1>1, <1>3, <1>6
  <2> QED
    BY <1>2, <1>6, <2>1
<1> QED
  BY <1>5, <1>6, <1>7, <1>8

(* The first item of a good queue goes to its end. *)
LEMMA RotatedGood ==
  ASSUME NEW q, Good(q), q.size # 0
  PROVE  LET r == Rotated(q) IN
         /\ Good(r) /\ Contents(r) = Contents(q) /\ Item(q, 0) \in Contents(q)
         /\ \A a, b : Before(r, a, b) => (Before(q, a, b) \/ b = Item(q, 0)) /\ a # Item(q, 0)
<1> DEFINE d == Dequeued(q, 1)
           v == Item(q, 0)
           r == enqueue(d, v)
<1>1. q.size \in Nat /\ Contents(q) \subseteq Procs
  BY SizeIs
<1>2. 1 \in 0 .. q.size /\ 0 .. 1 - 1 = {0} /\ 0 \in 0 .. q.size - 1
  BY <1>1
<1>3. v \in Contents(q) /\ v \in Procs
  BY <1>1, <1>2 DEF Contents
<1>4. /\ Good(d) /\ Contents(d) = Contents(q) \ {v}
      /\ \A a, b : Before(d, a, b) => Before(q, a, b)
  <2>1. /\ Good(d) /\ Contents(d) = Contents(q) \ {Item(q, k) : k \in 0 .. 1 - 1}
        /\ \A a, b : Before(d, a, b) => Before(q, a, b)
    BY <1>2, DequeuedGood
  <2>2. {Item(q, k) : k \in 0 .. 1 - 1} = {v}
    BY <1>2
  <2> QED
    BY <2>1, <2>2
<1> HIDE DEF d, v
<1>5. /\ Good(r) /\ Contents(r) = Contents(d) \cup {v}
      /\ \A a, b : Before(r, a, b) => Before(d, a, b) \/ (a \in Contents(d) /\ b = v)
  BY <1>3, <1>4, EnqueueGood
<1>6. \A a, b : Before(d, a, b) => a \in Contents(d)
  BY DEF Before, Contents
<1> HIDE DEF r
<1>7. r = Rotated(q)
  BY DEF Rotated, r, d, v
<1>8. \A a, b : Before(r, a, b) => (Before(q, a, b) \/ b = v) /\ a # v
  BY <1>4, <1>5, <1>6
<1>9. Contents(r) = Contents(q)
  BY <1>3, <1>4, <1>5
<1> QED
  BY <1>3, <1>5, <1>7, <1>8, <1>9 DEF v

-----------------------------------------------------------------------------
(* What main keeps of the processes. *)

Inputs ==
  /\ arrivaltime \in [Procs -> Nat] /\ runtime \in [Procs -> RunTimes]
  /\ priority \in [Procs -> Priorities] /\ quantum \in Nat \ {0}

Started(p) == starttime[p] # None

Accounts ==
  /\ scheduler \in {FCFS, SRT, RR, RRP, Over}
  /\ current_time \in Nat
  /\ starttime \in [Procs -> Nat \cup {None}] /\ endtime \in [Procs -> Nat \cup {None}]
  /\ remainingtime \in [Procs -> Nat]
  /\ \A p \in Procs :
       /\ remainingtime[p] <= runtime[p]
       /\ Finished(p) <=> remainingtime[p] = 0
       /\ Finished(p) => arrivaltime[p] < endtime[p] /\ endtime[p] <= current_time
       /\ Started(p) <=> remainingtime[p] < runtime[p]
       /\ Started(p) => arrivaltime[p] <= starttime[p] /\ starttime[p] < current_time
  /\ num_finished = Cardinality({p \in Procs : Finished(p)})
  /\ timeline \in Seq(Procs \cup {None}) /\ Len(timeline) = current_time
  /\ \A k \in 1 .. Len(timeline) : timeline[k] # None => arrivaltime[timeline[k]] < k

LEMMA RunTimeType == \A r \in RunTimes : r \in Nat /\ r > 0
BY SchedulingAssumption

LEMMA ProcFacts ==
  ASSUME Inputs, NEW p \in Procs
  PROVE  /\ p \in Nat /\ p # None /\ arrivaltime[p] \in Nat
         /\ runtime[p] \in Nat /\ runtime[p] > 0 /\ runtime[p] \in RunTimes
         /\ priority[p] \in Priorities
<1>1. p \in Nat /\ p # None
  BY Sizes DEF Procs, None
<1>2. runtime[p] \in RunTimes /\ arrivaltime[p] \in Nat /\ priority[p] \in Priorities
  BY DEF Inputs
<1> QED
  BY <1>1, <1>2, RunTimeType

LEMMA FirstLeastIs ==
  ASSUME NEW pids \in SUBSET Procs, NEW key \in [Procs -> Nat]
  PROVE  /\ pids = {} => FirstLeast(pids, key) = None
         /\ pids # {} =>
              /\ FirstLeast(pids, key) \in pids
              /\ \A q \in pids : \/ key[FirstLeast(pids, key)] < key[q]
                                 \/ key[FirstLeast(pids, key)] = key[q] /\ FirstLeast(pids, key) <= q
<1>1. pids = {} => FirstLeast(pids, key) = None
  BY DEF FirstLeast
<1>2. ASSUME pids # {}
      PROVE  /\ FirstLeast(pids, key) \in pids
             /\ \A q \in pids : \/ key[FirstLeast(pids, key)] < key[q]
                                \/ key[FirstLeast(pids, key)] = key[q] /\ FirstLeast(pids, key) <= q
  <2> DEFINE S == {p \in pids : \A q \in pids : key[p] <= key[q]}
             V == {key[p] : p \in pids}
  <2>1. V \in SUBSET Int /\ V # {} /\ 0 \in Int /\ \A v \in V : 0 <= v
    BY <1>2
  <2>2. Min(V) \in V /\ \A v \in V : Min(V) <= v
    <3> HIDE DEF V
    <3> QED
      BY <2>1, LeastOf
  <2>3. S # {}
    <3>1. PICK p \in pids : Min(V) = key[p]
      BY <2>2
    <3>2. \A q \in pids : key[q] \in V
      OBVIOUS
    <3> HIDE DEF V
    <3>3. \A q \in pids : key[p] <= key[q]
      BY <2>2, <3>1, <3>2
    <3> QED
      BY <3>3
  <2>4. \A p \in Procs : p \in Int /\ 0 <= p
    BY Sizes DEF Procs
  <2>5. Min(S) \in S /\ \A p \in S : Min(S) <= p
    <3>1. S \in SUBSET Int /\ 0 \in Int /\ \A p \in S : 0 <= p
      BY <2>4
    <3> HIDE DEF S
    <3> QED
      BY <2>3, <3>1, LeastOf
  <2>6. FirstLeast(pids, key) = Min(S)
    BY <1>2 DEF FirstLeast
  <2>7. PICK m : m = Min(S)
    OBVIOUS
  <2>8. m \in pids /\ \A q \in pids : key[m] <= key[q]
    BY <2>5, <2>7
  <2>9. ASSUME NEW q \in pids PROVE key[m] < key[q] \/ (key[m] = key[q] /\ m <= q)
    <3>1. key[m] \in Nat /\ key[q] \in Nat /\ key[m] <= key[q]
      BY <2>8
    <3>2. key[m] = key[q] => q \in S
      BY <2>8
    <3> QED
      BY <2>5, <2>7, <3>1, <3>2
  <2> QED
    BY <2>6, <2>7, <2>8, <2>9
<1> QED
  BY <1>1, <1>2

LEMMA AccountsInit == Init => Inputs /\ Accounts
<1> SUFFICES ASSUME Init PROVE Inputs /\ Accounts
  OBVIOUS
<1>1. Inputs
  BY SchedulingAssumption DEF Init, Inputs
<1>2. \A p \in Procs : ~Finished(p) /\ ~Started(p) /\ remainingtime[p] = runtime[p]
  BY DEF Init, Finished, Started
<1>3. \A p \in Procs : runtime[p] \in Nat /\ runtime[p] > 0
  BY <1>1, ProcFacts
<1>4. {p \in Procs : Finished(p)} = {}
  BY <1>2
<1>5. num_finished = Cardinality({p \in Procs : Finished(p)})
  BY <1>4, FS_EmptySet DEF Init
<1>6. /\ starttime \in [Procs -> Nat \cup {None}] /\ endtime \in [Procs -> Nat \cup {None}]
      /\ remainingtime \in [Procs -> Nat]
      /\ scheduler \in {FCFS, SRT, RR, RRP, Over} /\ current_time \in Nat
  BY <1>1, <1>3 DEF Init, Inputs
<1>7. /\ timeline \in Seq(Procs \cup {None}) /\ Len(timeline) = current_time
      /\ \A k \in 1 .. Len(timeline) : timeline[k] # None => arrivaltime[timeline[k]] < k
  BY DEF Init
<1>8. \A p \in Procs :
       /\ remainingtime[p] <= runtime[p]
       /\ Finished(p) <=> remainingtime[p] = 0
       /\ Finished(p) => arrivaltime[p] < endtime[p] /\ endtime[p] <= current_time
       /\ Started(p) <=> remainingtime[p] < runtime[p]
       /\ Started(p) => arrivaltime[p] <= starttime[p] /\ starttime[p] < current_time
  BY <1>2, <1>3
<1> QED
  BY <1>1, <1>5, <1>6, <1>7, <1>8 DEF Accounts

(* What one tick that runs x does. *)
LEMMA TickFacts ==
  ASSUME Inputs, Accounts, NEW x \in Candidates \cup {None}, Tick(x)
  PROVE  /\ Inputs' /\ Accounts'
         /\ current_time' = current_time + 1 /\ scheduler' = scheduler /\ printed' = printed
         /\ arrivaltime' = arrivaltime /\ runtime' = runtime /\ priority' = priority /\ quantum' = quantum
         /\ \A p \in Procs : Finished(p)' <=> (Finished(p) \/ (p = x /\ remainingtime[p] = 1))
         /\ \A p \in Procs : Started(p)' <=> (Started(p) \/ p = x)
         /\ \A p \in Procs : starttime'[p] = IF p = x /\ ~Started(p) THEN current_time ELSE starttime[p]
         /\ \A p \in Procs : endtime'[p] = IF p = x /\ remainingtime[p] = 1
                                           THEN current_time + 1 ELSE endtime[p]
         /\ \A p \in Procs : remainingtime'[p] = IF p = x THEN remainingtime[p] - 1 ELSE remainingtime[p]
         /\ Unfinished' = {p \in Candidates : ~Finished(p)'}
         /\ timeline' = Append(timeline, x)
         /\ x # None => x \in Procs /\ ~Finished(x) /\ arrivaltime[x] <= current_time
                        /\ remainingtime[x] \in Nat /\ remainingtime[x] > 0
<1>1. /\ current_time' = current_time + 1 /\ scheduler' = scheduler /\ printed' = printed
      /\ arrivaltime' = arrivaltime /\ runtime' = runtime /\ priority' = priority /\ quantum' = quantum
      /\ timeline' = Append(timeline, x)
  BY DEF Tick, inputs
<1>2. x # None => x \in Procs /\ ~Finished(x) /\ arrivaltime[x] <= current_time
  BY DEF Candidates
<1>3. x # None => remainingtime[x] \in Nat /\ remainingtime[x] > 0
  BY <1>2 DEF Accounts
<1>4. Inputs'
  BY <1>1 DEF Inputs
<1>5. \A p \in Procs : p # None
  BY ProcFacts
<1>6. \A p \in Procs : starttime'[p] = IF p = x /\ ~Started(p) THEN current_time ELSE starttime[p]
  <2>1. CASE x = None
    BY <1>5, <2>1 DEF Tick
  <2>2. CASE x # None
    <3>1. starttime' = [starttime EXCEPT ![x] = IF @ = None THEN current_time ELSE @]
      BY <2>2 DEF Tick
    <3> QED
      BY <1>2, <2>2, <3>1 DEF Accounts, Started
  <2> QED
    BY <2>1, <2>2
<1>7. \A p \in Procs : remainingtime'[p] = IF p = x THEN remainingtime[p] - 1 ELSE remainingtime[p]
  <2>1. CASE x = None
    BY <1>5, <2>1 DEF Tick
  <2>2. CASE x # None
    <3>1. remainingtime' = [remainingtime EXCEPT ![x] = @ - 1]
      BY <2>2 DEF Tick
    <3> QED
      BY <1>2, <2>2, <3>1 DEF Accounts
  <2> QED
    BY <2>1, <2>2
<1>8. \A p \in Procs : endtime'[p] = IF p = x /\ remainingtime[p] = 1
                                     THEN current_time + 1 ELSE endtime[p]
  <2>1. CASE x = None
    BY <1>5, <2>1 DEF Tick
  <2>2. CASE x # None /\ remainingtime[x] = 1
    <3>1. endtime' = [endtime EXCEPT ![x] = current_time + 1]
      BY <2>2 DEF Tick
    <3> QED
      BY <1>2, <2>2, <3>1 DEF Accounts
  <2>3. CASE x # None /\ remainingtime[x] # 1
    BY <2>3 DEF Tick
  <2> QED
    BY <2>1, <2>2, <2>3
<1>9. current_time \in Nat
  BY DEF Accounts
<1>10. \A p \in Procs : Finished(p)' <=> (Finished(p) \/ (p = x /\ remainingtime[p] = 1))
  BY <1>8, <1>9 DEF Finished, None
<1>11. \A p \in Procs : Started(p)' <=> (Started(p) \/ p = x)
  BY <1>6, <1>9 DEF Started, None
<1>12. /\ starttime' \in [Procs -> Nat \cup {None}] /\ endtime' \in [Procs -> Nat \cup {None}]
       /\ remainingtime' \in [Procs -> Nat]
  <2>1. CASE x = None
    BY <2>1 DEF Tick, Accounts
  <2>2. CASE x # None
    <3>1. starttime' = [starttime EXCEPT ![x] = IF @ = None THEN current_time ELSE @]
      BY <2>2 DEF Tick
    <3>2. starttime' \in [Procs -> Nat \cup {None}]
      BY <1>2, <1>9, <2>2, <3>1 DEF Accounts
    <3>3. remainingtime' = [remainingtime EXCEPT ![x] = @ - 1] /\ remainingtime[x] - 1 \in Nat
      BY <1>3, <2>2 DEF Tick
    <3>4. remainingtime' \in [Procs -> Nat]
      BY <1>2, <2>2, <3>3 DEF Accounts
    <3>5. endtime' = endtime \/ endtime' = [endtime EXCEPT ![x] = current_time + 1]
      BY <2>2 DEF Tick
    <3>6. endtime' \in [Procs -> Nat \cup {None}]
      BY <1>2, <1>9, <2>2, <3>5 DEF Accounts
    <3> QED
      BY <3>2, <3>4, <3>6
  <2> QED
    BY <2>1, <2>2
<1>13. num_finished' = Cardinality({p \in Procs : Finished(p)'})
  <2>1. num_finished = Cardinality({p \in Procs : Finished(p)})
    BY DEF Accounts
  <2>2. CASE x = None \/ remainingtime[x] # 1
    <3>1. {p \in Procs : Finished(p)'} = {p \in Procs : Finished(p)}
      BY <1>5, <1>10, <2>2
    <3>2. num_finished' = num_finished
      BY <2>2 DEF Tick
    <3> QED
      BY <2>1, <3>1, <3>2
  <2>3. CASE x # None /\ remainingtime[x] = 1
    <3>1. {p \in Procs : Finished(p)'} = {p \in Procs : Finished(p)} \cup {x}
      BY <1>2, <1>10, <2>3
    <3>2. x \notin {p \in Procs : Finished(p)} /\ IsFiniteSet({p \in Procs : Finished(p)})
      BY <1>2, <2>3, ProcsFinite, FS_Subset
    <3>3. num_finished' = num_finished + 1
      BY <2>3 DEF Tick
    <3> QED
      BY <2>1, <3>1, <3>2, <3>3, FS_AddElement
  <2> QED
    BY <2>2, <2>3
<1>14. ASSUME NEW p \in Procs
       PROVE  /\ remainingtime'[p] <= runtime'[p]
              /\ Finished(p)' <=> remainingtime'[p] = 0
              /\ Finished(p)' => arrivaltime'[p] < endtime'[p] /\ endtime'[p] <= current_time'
              /\ Started(p)' <=> remainingtime'[p] < runtime'[p]
              /\ Started(p)' => arrivaltime'[p] <= starttime'[p] /\ starttime'[p] < current_time'
  <2>1. /\ remainingtime[p] \in Nat /\ runtime[p] \in Nat /\ arrivaltime[p] \in Nat
        /\ starttime[p] \in Nat \cup {None} /\ endtime[p] \in Nat \cup {None}
    BY ProcFacts DEF Accounts
  <2>2. /\ remainingtime[p] <= runtime[p]
        /\ Finished(p) <=> remainingtime[p] = 0
        /\ Finished(p) => arrivaltime[p] < endtime[p] /\ endtime[p] <= current_time
        /\ Started(p) <=> remainingtime[p] < runtime[p]
        /\ Started(p) => arrivaltime[p] <= starttime[p] /\ starttime[p] < current_time
    BY DEF Accounts
  <2>a. /\ Finished(p) => endtime[p] \in Nat
        /\ Started(p) => starttime[p] \in Nat
    BY <2>1 DEF Finished, Started
  <2>3. CASE p = x
    <3>1. arrivaltime[p] <= current_time /\ ~Finished(p) /\ remainingtime[p] > 0
      BY <1>2, <1>3, <1>5, <2>3
    <3>2. remainingtime'[p] = remainingtime[p] - 1 /\ (Finished(p)' <=> remainingtime[p] = 1) /\ Started(p)'
      BY <1>7, <1>10, <1>11, <2>3, <3>1
    <3>3. remainingtime'[p] <= runtime'[p] /\ remainingtime'[p] < runtime'[p]
          /\ (Finished(p)' <=> remainingtime'[p] = 0)
      BY <1>1, <2>1, <2>2, <3>2
    <3>4. Finished(p)' => endtime'[p] = current_time + 1
      BY <1>8, <2>3, <3>2
    <3>5. starttime'[p] = current_time \/ (Started(p) /\ starttime'[p] = starttime[p])
      BY <1>6, <2>3
    <3>6. arrivaltime'[p] <= starttime'[p] /\ starttime'[p] < current_time'
      BY <1>1, <1>9, <2>1, <2>2, <2>a, <3>1, <3>5
    <3> QED
      BY <1>1, <1>9, <2>1, <3>1, <3>2, <3>3, <3>4, <3>6
  <2>4. CASE p # x
    <3>1. /\ remainingtime'[p] = remainingtime[p] /\ endtime'[p] = endtime[p]
          /\ starttime'[p] = starttime[p] /\ (Finished(p)' <=> Finished(p)) /\ (Started(p)' <=> Started(p))
      BY <1>6, <1>7, <1>8, <1>10, <1>11, <2>4
    <3> QED
      BY <1>1, <1>9, <2>1, <2>2, <2>a, <3>1
  <2> QED
    BY <2>3, <2>4
<1>15. /\ timeline' \in Seq(Procs \cup {None}) /\ Len(timeline') = current_time'
       /\ \A k \in 1 .. Len(timeline') : timeline'[k] # None => arrivaltime'[timeline'[k]] < k
  <2>1. timeline \in Seq(Procs \cup {None}) /\ Len(timeline) = current_time /\ x \in Procs \cup {None}
    BY <1>2 DEF Accounts
  <2>2. /\ timeline' \in Seq(Procs \cup {None}) /\ Len(timeline') = Len(timeline) + 1
        /\ \A k \in 1 .. Len(timeline') : timeline'[k] = IF k = Len(timeline) + 1 THEN x ELSE timeline[k]
    BY <1>1, <2>1
  <2>3. ASSUME NEW k \in 1 .. Len(timeline'), timeline'[k] # None PROVE arrivaltime[timeline'[k]] < k
    <3>1. CASE k = Len(timeline) + 1
      <4>1. x # None /\ timeline'[k] = x
        BY <2>2, <2>3, <3>1
      <4> QED
        BY <1>2, <1>9, <2>1, <3>1, <4>1, ProcFacts
    <3>2. CASE k # Len(timeline) + 1
      <4>1. k \in 1 .. Len(timeline)
        BY <2>1, <2>2, <3>2
      <4> QED
        BY <2>2, <2>3, <3>2, <4>1 DEF Accounts
    <3> QED
      BY <3>1, <3>2
  <2> QED
    BY <1>1, <2>1, <2>2, <2>3
<1>16. Unfinished' = {p \in Candidates : ~Finished(p)'}
  <2>1. \A p \in Procs : arrivaltime[p] < current_time + 1 <=> arrivaltime[p] <= current_time
    BY <1>9, ProcFacts
  <2>2. \A p \in Procs : ~Finished(p)' => ~Finished(p)
    BY <1>10
  <2>3. Unfinished' = {p \in Procs : arrivaltime[p] < current_time + 1 /\ ~Finished(p)'}
    BY <1>1 DEF Unfinished
  <2> QED
    BY <2>1, <2>2, <2>3 DEF Candidates
<1>17. Accounts'
  <2>1. scheduler' \in {FCFS, SRT, RR, RRP, Over} /\ current_time' \in Nat
    BY <1>1, <1>9 DEF Accounts
  <2> QED
    BY <1>12, <1>13, <1>14, <1>15, <2>1 DEF Accounts
<1> QED
  BY <1>1, <1>2, <1>3, <1>4, <1>6, <1>7, <1>8, <1>10, <1>11, <1>16, <1>17

LEMMA NextFacts ==
  ASSUME Inputs, Accounts, NextScheduler
  PROVE  /\ Inputs' /\ Accounts' /\ Unfinished' = {} /\ timeline' = <<>>
         /\ scheduler' = scheduler + 1 /\ scheduler # Over
         /\ \A p \in Procs : Finished(p) /\ ~Finished(p)' /\ ~Started(p)'
<1>1. /\ arrivaltime' = arrivaltime /\ runtime' = runtime /\ priority' = priority /\ quantum' = quantum
      /\ scheduler' = scheduler + 1 /\ scheduler # Over /\ current_time' = 0 /\ num_finished' = 0
      /\ starttime' = [p \in Procs |-> None] /\ endtime' = [p \in Procs |-> None]
      /\ remainingtime' = runtime /\ timeline' = <<>> /\ num_finished = NumProcesses
  BY DEF NextScheduler, inputs
<1>2. Inputs'
  BY <1>1 DEF Inputs
<1>3. \A p \in Procs : ~Finished(p)' /\ ~Started(p)' /\ remainingtime'[p] = runtime'[p]
  BY <1>1 DEF Finished, Started
<1>4. \A p \in Procs : runtime[p] \in Nat /\ runtime[p] > 0
  BY ProcFacts
<1>5. {p \in Procs : Finished(p)'} = {}
  BY <1>3
<1>6. num_finished' = Cardinality({p \in Procs : Finished(p)'})
  BY <1>1, <1>5, FS_EmptySet
<1>7. /\ starttime' \in [Procs -> Nat \cup {None}] /\ endtime' \in [Procs -> Nat \cup {None}]
      /\ remainingtime' \in [Procs -> Nat]
  BY <1>1, <1>4 DEF Inputs
<1>8. scheduler' \in {FCFS, SRT, RR, RRP, Over} /\ current_time' \in Nat
  <2>1. scheduler \in {0, 1, 2, 3}
    BY <1>1 DEF Accounts, FCFS, SRT, RR, RRP, Over
  <2> QED
    BY <1>1, <2>1 DEF FCFS, SRT, RR, RRP, Over
<1>9. /\ timeline' \in Seq(Procs \cup {None}) /\ Len(timeline') = current_time'
      /\ \A k \in 1 .. Len(timeline') : timeline'[k] # None => arrivaltime'[timeline'[k]] < k
  BY <1>1
<1>10. \A p \in Procs :
       /\ remainingtime'[p] <= runtime'[p]
       /\ Finished(p)' <=> remainingtime'[p] = 0
       /\ Finished(p)' => arrivaltime'[p] < endtime'[p] /\ endtime'[p] <= current_time'
       /\ Started(p)' <=> remainingtime'[p] < runtime'[p]
       /\ Started(p)' => arrivaltime'[p] <= starttime'[p] /\ starttime'[p] < current_time'
  BY <1>1, <1>3, <1>4
<1>11. Accounts'
  BY <1>6, <1>7, <1>8, <1>9, <1>10 DEF Accounts
<1>12. \A p \in Procs : Finished(p)
  <2>1. {p \in Procs : Finished(p)} \in SUBSET Procs
    OBVIOUS
  <2>2. Cardinality(Procs) = Cardinality({p \in Procs : Finished(p)})
    BY <1>1, ProcsFinite DEF Accounts
  <2>3. Procs = {p \in Procs : Finished(p)}
    BY <2>1, <2>2, ProcsFinite, FS_Subset
  <2> QED
    BY <2>3
<1>13. Unfinished' = {}
  <2>1. \A p \in Procs : ~(arrivaltime[p] < 0)
    BY ProcFacts
  <2> QED
    BY <1>1, <2>1 DEF Unfinished
<1> QED
  BY <1>1, <1>2, <1>3, <1>11, <1>12, <1>13

(* While the loop runs some process is unfinished. *)
LEMMA NotAllDone ==
  ASSUME Accounts PROVE (\A p \in Procs : Finished(p)) <=> num_finished = NumProcesses
<1>1. {p \in Procs : Finished(p)} \in SUBSET Procs
  OBVIOUS
<1>2. (\A p \in Procs : Finished(p)) <=> {p \in Procs : Finished(p)} = Procs
  OBVIOUS
<1>3. num_finished = Cardinality({p \in Procs : Finished(p)})
  BY DEF Accounts
<1> HIDE DEF Finished
<1>4. {p \in Procs : Finished(p)} = Procs <=> Cardinality({p \in Procs : Finished(p)}) = NumProcesses
  BY <1>1, ProcsFinite, FS_Subset
<1> QED
  BY <1>2, <1>3, <1>4

LEMMA CandidatesAre ==
  ASSUME Inputs, Accounts
  PROVE  /\ Candidates = Unfinished \cup Arriving /\ Unfinished \cap Arriving = {}
         /\ Candidates \subseteq Procs /\ Arriving \subseteq Procs
         /\ \A p \in Arriving : ~Finished(p)
<1>1. \A p \in Procs : /\ arrivaltime[p] \in Nat /\ current_time \in Nat
                       /\ Finished(p) => endtime[p] \in Nat /\ arrivaltime[p] < endtime[p]
                                         /\ endtime[p] <= current_time
  BY ProcFacts DEF Accounts, Finished
<1>2. \A p \in Procs : /\ arrivaltime[p] <= current_time <=>
                            arrivaltime[p] < current_time \/ arrivaltime[p] = current_time
                       /\ ~(arrivaltime[p] < current_time /\ arrivaltime[p] = current_time)
                       /\ Finished(p) => arrivaltime[p] # current_time
  BY <1>1
<1> QED
  BY <1>2 DEF Candidates, Unfinished, Arriving

-----------------------------------------------------------------------------
(* Round robin. *)

RoundRobinOK ==
  /\ Good(rrQueue)
  /\ current_pid \in Procs \cup {None} /\ time_on_cpu \in 0 .. quantum - 1
  /\ scheduler # RR => rrQueue = EmptyQueue
  /\ scheduler \in {FCFS, SRT} => current_pid = None
  /\ scheduler = RR =>
       /\ Contents(rrQueue) = Unfinished \ {current_pid}
       /\ current_pid # None => timeline # <<>> /\ Last(timeline) = current_pid

TurnOver == current_pid # None /\ (Finished(current_pid) \/ QuantumOver)
Stays == current_pid # None /\ ~TurnOver

(* a comes before b in the queue from which round_robin takes the next. *)
InFront(a, b) ==
  \/ Before(rrQueue, a, b)
  \/ a \in Contents(rrQueue) /\ b \in Arriving
  \/ a \in Arriving /\ b \in Arriving /\ a < b
  \/ a # current_pid /\ b = current_pid /\ TurnOver

LEMMA CurrentArrived ==
  ASSUME Inputs, Accounts, RoundRobinOK, scheduler = RR, current_pid # None
  PROVE  current_pid \in Procs /\ arrivaltime[current_pid] < current_time
<1>1. /\ timeline \in Seq(Procs \cup {None}) /\ Len(timeline) = current_time /\ timeline # <<>>
      /\ Last(timeline) = current_pid /\ current_time \in Nat
  BY DEF RoundRobinOK, Accounts
<1>2. current_time \in 1 .. Len(timeline) /\ timeline[current_time] = current_pid
  BY <1>1 DEF Last
<1> QED
  BY <1>1, <1>2 DEF Accounts, RoundRobinOK

LEMMA QueueOfTurn ==
  ASSUME Inputs, Accounts, RoundRobinOK, scheduler = RR
  PROVE  LET arrived == EnqueueAll(rrQueue, Arriving)
             queue == IF TurnOver THEN Requeue(arrived, current_pid) ELSE arrived
         IN  /\ Good(queue)
             /\ Contents(queue) = IF Stays THEN Candidates \ {current_pid} ELSE Candidates
             /\ \A a, b : Before(queue, a, b) => InFront(a, b)
<1> DEFINE arrived == EnqueueAll(rrQueue, Arriving)
           queue == IF TurnOver THEN Requeue(arrived, current_pid) ELSE arrived
<1>1. /\ Candidates = Unfinished \cup Arriving /\ Unfinished \cap Arriving = {}
      /\ Candidates \subseteq Procs /\ Arriving \subseteq Procs
  BY CandidatesAre
<1>2. Good(rrQueue) /\ Contents(rrQueue) = Unfinished \ {current_pid}
  BY DEF RoundRobinOK
<1>3. Arriving \in SUBSET Procs /\ Arriving \cap Contents(rrQueue) = {}
  BY <1>1, <1>2
<1>4. Queued(arrived, rrQueue, Arriving)
  BY <1>2, <1>3, EnqueueAllGood
<1>5. current_pid # None => current_pid \in Procs /\ current_pid \notin Arriving
  BY CurrentArrived, ProcFacts DEF Arriving, Accounts
<1>6. None \notin Candidates
  BY <1>1, ProcFacts
<1> HIDE DEF arrived
<1>7. Contents(arrived) = Candidates \ {current_pid}
  <2>1. current_pid \notin Arriving
    BY <1>1, <1>5, <1>6
  <2> QED
    BY <1>1, <1>2, <1>4, <2>1 DEF Queued
<1>8. \A a, b : Before(arrived, a, b) => InFront(a, b)
  BY <1>4 DEF Queued, InFront
<1>9. CASE TurnOver /\ ~Finished(current_pid)
  <2>1. queue = enqueue(arrived, current_pid) /\ current_pid \in Procs /\ ~Stays
    BY <1>5, <1>9 DEF TurnOver, Stays, Requeue
  <2>2. current_pid \in Candidates
    <3>1. arrivaltime[current_pid] < current_time
      BY <1>9, CurrentArrived DEF TurnOver
    <3>2. arrivaltime[current_pid] <= current_time
      BY <2>1, <3>1, ProcFacts DEF Accounts
    <3> QED
      BY <1>9, <2>1, <3>2 DEF Candidates
  <2> HIDE DEF queue
  <2>3. /\ Good(queue) /\ Contents(queue) = Contents(arrived) \cup {current_pid}
        /\ \A a, b : Before(queue, a, b) => Before(arrived, a, b) \/ (a \in Contents(arrived) /\ b = current_pid)
    BY <1>4, <1>7, <2>1, EnqueueGood DEF Queued
  <2>4. \A a, b : Before(queue, a, b) => InFront(a, b)
    BY <1>7, <1>8, <1>9, <2>3 DEF InFront
  <2>5. Contents(queue) = Candidates
    BY <1>7, <2>2, <2>3
  <2> QED
    BY <2>1, <2>3, <2>4, <2>5 DEF queue, arrived
<1>10. CASE ~(TurnOver /\ ~Finished(current_pid))
  <2>1. queue = arrived
    BY <1>10 DEF Requeue
  <2>2. Good(arrived)
    BY <1>4 DEF Queued
  <2>3. Contents(arrived) = IF Stays THEN Candidates \ {current_pid} ELSE Candidates
    <3>1. CASE Stays
      BY <1>7, <3>1
    <3>2. CASE current_pid = None
      BY <1>6, <1>7, <3>2 DEF Stays
    <3>3. CASE TurnOver /\ Finished(current_pid)
      BY <1>7, <3>3 DEF Stays, Candidates
    <3> QED
      BY <1>10, <3>1, <3>2, <3>3 DEF Stays
  <2> HIDE DEF queue
  <2>4. queue = IF TurnOver THEN Requeue(EnqueueAll(rrQueue, Arriving), current_pid)
                ELSE EnqueueAll(rrQueue, Arriving)
    BY DEF queue, arrived
  <2> QED
    BY <1>8, <2>1, <2>2, <2>3, <2>4
<1> QED
  BY <1>9, <1>10

(* The choice of round_robin: whoever stays, or the first in the queue. *)
LEMMA RoundRobinChoice ==
  ASSUME Inputs, Accounts, RoundRobinOK, scheduler = RR
  PROVE  LET x == round_robin.pid
             queue == round_robin.queue
         IN  /\ x \in Candidates \cup {None} /\ (x = None => Candidates = {})
             /\ Good(queue) /\ Contents(queue) = Candidates \ {x}
             /\ round_robin.time \in 0 .. quantum - 1
             /\ \A a, b : Before(queue, a, b) => InFront(a, b)
             /\ Stays => x = current_pid /\ round_robin.time = time_on_cpu + 1
             /\ ~Stays => round_robin.time = 0 /\ \A b \in Contents(queue) : InFront(x, b)
<1> DEFINE arrived == EnqueueAll(rrQueue, Arriving)
           queue == IF TurnOver THEN Requeue(arrived, current_pid) ELSE arrived
           c == IF current_pid # None /\ ~TurnOver
                THEN [queue |-> queue, pid |-> current_pid, time |-> time_on_cpu + 1]
                ELSE IF queue.size = 0 THEN [queue |-> queue, pid |-> None, time |-> 0]
                ELSE [queue |-> Dequeued(queue, 1), pid |-> Item(queue, 0), time |-> 0]
<1>1. round_robin = c
  BY DEF round_robin, TurnOver
<1>2. /\ Good(queue)
      /\ Contents(queue) = IF Stays THEN Candidates \ {current_pid} ELSE Candidates
      /\ \A a, b : Before(queue, a, b) => InFront(a, b)
  BY QueueOfTurn
<1>3. None \notin Candidates /\ quantum \in Nat \ {0} /\ time_on_cpu \in 0 .. quantum - 1
      /\ Candidates \subseteq Procs
  BY CandidatesAre, ProcFacts DEF Inputs, RoundRobinOK
<1> HIDE DEF queue
<1>4. CASE Stays
  <2>1. c = [queue |-> queue, pid |-> current_pid, time |-> time_on_cpu + 1]
    BY <1>4 DEF Stays
  <2>2. time_on_cpu + 1 \in 0 .. quantum - 1
    BY <1>3, <1>4 DEF Stays, TurnOver, QuantumOver
  <2>3. current_pid \in Candidates
    <3>1. current_pid \in Procs /\ arrivaltime[current_pid] < current_time /\ ~Finished(current_pid)
      BY <1>4, CurrentArrived DEF Stays, TurnOver
    <3>2. arrivaltime[current_pid] <= current_time
      BY <3>1, ProcFacts DEF Accounts
    <3> QED
      BY <3>1, <3>2 DEF Candidates
  <2> HIDE DEF c
  <2>4. round_robin.pid = current_pid /\ round_robin.queue = queue /\ round_robin.time = time_on_cpu + 1
    BY <1>1, <2>1
  <2> QED
    BY <1>2, <1>3, <1>4, <2>2, <2>3, <2>4
<1>5. CASE ~Stays /\ queue.size = 0
  <2>1. c = [queue |-> queue, pid |-> None, time |-> 0]
    BY <1>5 DEF Stays
  <2>2. Contents(queue) = {}
    BY <1>2, <1>5, SizeIs
  <2>3. 0 \in 0 .. quantum - 1
    BY <1>3
  <2> HIDE DEF c
  <2>4. round_robin.pid = None /\ round_robin.queue = queue /\ round_robin.time = 0
    BY <1>1, <2>1
  <2> QED
    BY <1>2, <1>3, <1>5, <2>2, <2>3, <2>4
<1>6. CASE ~Stays /\ queue.size # 0
  <2>1. c = [queue |-> Dequeued(queue, 1), pid |-> Item(queue, 0), time |-> 0]
    BY <1>6 DEF Stays
  <2>3. 0 \in 0 .. quantum - 1
    BY <1>3
  <2> HIDE DEF c
  <2>4. round_robin.pid = Item(queue, 0) /\ round_robin.queue = Dequeued(queue, 1) /\ round_robin.time = 0
    BY <1>1, <2>1
  <2>5. queue.size \in Nat
    BY <1>2, SizeIs
  <2>6. 1 \in 0 .. queue.size /\ 0 .. 1 - 1 = {0} /\ 0 \in 0 .. queue.size - 1
    BY <1>6, <2>5
  <2>7. LET r == Dequeued(queue, 1) IN
        /\ Good(r) /\ Contents(r) = Contents(queue) \ {Item(queue, k) : k \in 0 .. 1 - 1}
        /\ \A a, b : Before(r, a, b) => Before(queue, a, b)
        /\ \A k \in 0 .. 1 - 1 : \A b \in Contents(r) : Before(queue, Item(queue, k), b)
    BY <1>2, <2>6, DequeuedGood
  <2>8. LET r == Dequeued(queue, 1) IN
        /\ Good(r) /\ Contents(r) = Contents(queue) \ {Item(queue, 0)}
        /\ \A a, b : Before(r, a, b) => Before(queue, a, b)
        /\ \A b \in Contents(r) : Before(queue, Item(queue, 0), b)
    BY <2>6, <2>7
  <2>9. Item(queue, 0) \in Contents(queue)
    BY <2>6 DEF Contents
  <2> QED
    BY <1>2, <1>3, <1>6, <2>3, <2>4, <2>8, <2>9
<1> QED
  BY <1>4, <1>5, <1>6

LEMMA LastOfTimeline ==
  ASSUME Accounts, NEW x \in Procs \cup {None}, timeline' = Append(timeline, x)
  PROVE  timeline' # <<>> /\ Last(timeline)' = x
<1>1. timeline \in Seq(Procs \cup {None})
  BY DEF Accounts
<1>2. Len(timeline') = Len(timeline) + 1 /\ Len(timeline) \in Nat /\ timeline'[Len(timeline) + 1] = x
  BY <1>1
<1>3. Len(<<>>) = 0
  OBVIOUS
<1> QED
  BY <1>2, <1>3 DEF Last

LEMMA RoundRobinStep ==
  Inputs /\ Accounts /\ RoundRobinOK /\ [Next]_vars => RoundRobinOK'
<1> SUFFICES ASSUME Inputs, Accounts, RoundRobinOK, [Next]_vars PROVE RoundRobinOK'
  OBVIOUS
<1>0. /\ Good(rrQueue) /\ current_pid \in Procs \cup {None} /\ time_on_cpu \in 0 .. quantum - 1
      /\ scheduler # RR => rrQueue = EmptyQueue
      /\ scheduler \in {FCFS, SRT} => current_pid = None
  BY DEF RoundRobinOK
<1>1. CASE scheduler # RR /\ scheduler' = scheduler /\ UNCHANGED <<rrQueue, current_pid, time_on_cpu, quantum>>
  BY <1>0, <1>1 DEF RoundRobinOK
<1>2. CASE TickFcfs \/ TickSrt \/ TickPriority
  <2>1. scheduler # RR
    BY <1>2 DEF TickFcfs, TickSrt, TickPriority, FCFS, SRT, RR, RRP
  <2>2. scheduler' = scheduler /\ UNCHANGED <<rrQueue, current_pid, time_on_cpu, quantum>>
    BY <1>2 DEF TickFcfs, TickSrt, TickPriority, Tick, inputs, queues
  <2> QED
    BY <1>1, <2>1, <2>2
<1>3. CASE TickRoundRobin
  <2> DEFINE x == round_robin.pid
  <2>1. /\ scheduler = RR /\ Tick(x) /\ rrQueue' = round_robin.queue /\ current_pid' = x
        /\ time_on_cpu' = round_robin.time
    BY <1>3 DEF TickRoundRobin
  <2>2. /\ x \in Candidates \cup {None} /\ Good(rrQueue') /\ Contents(rrQueue') = Candidates \ {x}
        /\ time_on_cpu' \in 0 .. quantum - 1
    BY <2>1, RoundRobinChoice
  <2> HIDE DEF x
  <2>3. PICK y : y = x
    OBVIOUS
  <2>4. y \in Candidates \cup {None} /\ Tick(y) /\ Candidates \subseteq Procs
    BY <2>1, <2>2, <2>3, CandidatesAre
  <2>5. /\ scheduler' = scheduler /\ quantum' = quantum
        /\ \A p \in Procs : Finished(p)' <=> (Finished(p) \/ (p = y /\ remainingtime[p] = 1))
        /\ Unfinished' = {p \in Candidates : ~Finished(p)'}
        /\ timeline' = Append(timeline, y)
    BY <2>4, TickFacts
  <2>6. \A p \in Candidates : p # y => ~Finished(p)'
    BY <2>4, <2>5 DEF Candidates
  <2>7. Candidates \ {y} = Unfinished' \ {y}
    BY <2>5, <2>6
  <2>8. timeline' # <<>> /\ Last(timeline)' = y
    BY <2>4, <2>5, LastOfTimeline
  <2>9. Contents(rrQueue)' = Contents(rrQueue')
    BY DEF Contents, Item
  <2>10. scheduler' = RR /\ RR \notin {FCFS, SRT}
    BY <2>1, <2>5 DEF FCFS, SRT, RR
  <2>11. Good(rrQueue)' /\ current_pid' \in Procs \cup {None} /\ (time_on_cpu \in 0 .. quantum - 1)'
    BY <2>1, <2>2, <2>3, <2>4, <2>5 DEF Good, Before, Shape, Item
  <2> QED
    BY <2>1, <2>2, <2>3, <2>7, <2>8, <2>9, <2>10, <2>11 DEF RoundRobinOK
<1>4. CASE NextScheduler
  <2>1. /\ rrQueue' = EmptyQueue /\ UNCHANGED <<current_pid, time_on_cpu, quantum>>
        /\ scheduler' = scheduler + 1
    BY <1>4 DEF NextScheduler, inputs
  <2>2. Unfinished' = {}
    BY <1>4, NextFacts
  <2>3. scheduler \in 0 .. 4
    BY DEF Accounts, FCFS, SRT, RR, RRP, Over
  <2>4. scheduler' \in {FCFS, SRT, RR} => scheduler \in {FCFS, SRT}
    BY <2>1, <2>3 DEF FCFS, SRT, RR
  <2>5. scheduler' = RR => current_pid' = None /\ Contents(rrQueue)' = Unfinished' \ {current_pid'}
    BY <1>0, <2>1, <2>2, <2>4, EmptyIsGood
  <2>6. scheduler' \in {FCFS, SRT} => current_pid' = None
    BY <1>0, <2>1, <2>4
  <2>7. Good(rrQueue)'
    BY <2>1, EmptyIsGood
  <2> QED
    BY <1>0, <2>1, <2>5, <2>6, <2>7 DEF RoundRobinOK
<1>5. CASE UNCHANGED vars
  <2>1. UNCHANGED <<rrQueue, current_pid, time_on_cpu, quantum, scheduler, timeline>>
    BY <1>5 DEF vars, inputs, queues
  <2>2. Unfinished' = Unfinished
    BY <1>5 DEF vars, inputs, Unfinished, Finished
  <2> QED
    BY <2>1, <2>2 DEF RoundRobinOK
<1> QED
  BY <1>2, <1>3, <1>4, <1>5 DEF Next

-----------------------------------------------------------------------------
(* Round robin with priorities. *)

PriorityOK ==
  /\ \A c \in Priorities : Good(priorityQueue[c])
  /\ scheduler # RRP => priorityQueue = [c \in Priorities |-> EmptyQueue]
  /\ scheduler = RRP => \A c \in Priorities :
       /\ {p \in Contents(priorityQueue[c]) : ~Finished(p)} = {p \in Unfinished : priority[p] = c}
       /\ \A p \in Contents(priorityQueue[c]) : priority[p] = c /\ arrivaltime[p] < current_time

(* a comes before b in the queue of c once the arrivals are in. *)
InLine(c, a, b) == Before(priorityQueue[c], a, b) \/ b \in Arriving

(* The queue of c with the arrivals and without the finished at its front. *)
Line(c) == Pruned(EnqueueAll(priorityQueue[c], {p \in Arriving : priority[p] = c}))

LEMMA LineIs ==
  ASSUME Inputs, Accounts, PriorityOK, scheduler = RRP, NEW c \in Priorities
  PROVE  LET arrived == EnqueueAll(priorityQueue[c], {p \in Arriving : priority[p] = c}) IN
         /\ \A q \in {arrived, Line(c)} :
              /\ Good(q)
              /\ {p \in Contents(q) : ~Finished(p)} = {p \in Candidates : priority[p] = c}
              /\ \A p \in Contents(q) : p \in Procs /\ priority[p] = c /\ arrivaltime[p] <= current_time
              /\ \A a, b : Before(q, a, b) => InLine(c, a, b)
         /\ Line(c).size # 0 => ~Finished(Item(Line(c), 0))
<1> DEFINE q == priorityQueue[c]
           S == {p \in Arriving : priority[p] = c}
           arrived == EnqueueAll(q, S)
<1>1. /\ Candidates = Unfinished \cup Arriving /\ Unfinished \cap Arriving = {}
      /\ Candidates \subseteq Procs /\ Arriving \subseteq Procs
      /\ \A p \in Arriving : ~Finished(p)
  BY CandidatesAre
<1>2. /\ Good(q)
      /\ {p \in Contents(q) : ~Finished(p)} = {p \in Unfinished : priority[p] = c}
      /\ \A p \in Contents(q) : priority[p] = c /\ arrivaltime[p] < current_time
      /\ Contents(q) \subseteq Procs
  BY SizeIs DEF PriorityOK
<1>3. \A p \in Procs : /\ arrivaltime[p] < current_time => arrivaltime[p] # current_time
                       /\ arrivaltime[p] < current_time => arrivaltime[p] <= current_time
                       /\ arrivaltime[p] = current_time => arrivaltime[p] <= current_time
  BY ProcFacts DEF Accounts
<1>4. S \in SUBSET Procs /\ S \cap Contents(q) = {} /\ \A p \in S : arrivaltime[p] = current_time
  BY <1>1, <1>2, <1>3 DEF Arriving
<1>5. /\ Good(arrived) /\ Contents(arrived) = Contents(q) \cup S
      /\ \A a, b : Before(arrived, a, b) =>
           Before(q, a, b) \/ (a \in Contents(q) /\ b \in S) \/ (a \in S /\ b \in S /\ a < b)
  <2> HIDE DEF q, S
  <2> QED
    BY <1>2, <1>4, EnqueueAllGood DEF Queued
<1>6. \A a, b : Before(arrived, a, b) => InLine(c, a, b)
  BY <1>5 DEF InLine
<1>7. {p \in Contents(arrived) : ~Finished(p)} = {p \in Candidates : priority[p] = c}
  <2>1. {p \in Contents(arrived) : ~Finished(p)} = {p \in Contents(q) : ~Finished(p)} \cup S
    BY <1>1, <1>5
  <2>2. {p \in Candidates : priority[p] = c} = {p \in Unfinished : priority[p] = c} \cup S
    BY <1>1
  <2> QED
    BY <1>2, <2>1, <2>2
<1>8. \A p \in Contents(arrived) : p \in Procs /\ priority[p] = c /\ arrivaltime[p] <= current_time
  BY <1>2, <1>3, <1>4, <1>5
<1> HIDE DEF arrived
<1>9. PICK l : l = Pruned(arrived)
  OBVIOUS
<1>10. /\ Good(l) /\ Contents(l) \subseteq Contents(arrived)
       /\ \A p \in Contents(arrived) : ~Finished(p) => p \in Contents(l)
       /\ \A a, b : Before(l, a, b) => Before(arrived, a, b)
       /\ l.size # 0 => ~Finished(Item(l, 0))
  BY <1>5, <1>9, PrunedGood
<1>11. {p \in Contents(l) : ~Finished(p)} = {p \in Candidates : priority[p] = c}
  BY <1>7, <1>10
<1>12. /\ \A p \in Contents(l) : p \in Procs /\ priority[p] = c /\ arrivaltime[p] <= current_time
       /\ \A a, b : Before(l, a, b) => InLine(c, a, b)
  BY <1>6, <1>8, <1>10
<1>13. l = Line(c)
  BY <1>9 DEF Line, arrived
<1>14. \A s \in {arrived, l} :
         /\ Good(s)
         /\ {p \in Contents(s) : ~Finished(p)} = {p \in Candidates : priority[p] = c}
         /\ \A p \in Contents(s) : p \in Procs /\ priority[p] = c /\ arrivaltime[p] <= current_time
         /\ \A a, b : Before(s, a, b) => InLine(c, a, b)
  BY <1>5, <1>6, <1>7, <1>8, <1>10, <1>11, <1>12
<1> QED
  BY <1>10, <1>13, <1>14 DEF arrived

(* The choice of round_robin_priority. *)
PriorityChoice(x, new) ==
  /\ x \in Candidates \cup {None} /\ (x = None => Candidates = {})
  /\ \A c \in Priorities :
       /\ Good(new[c])
       /\ {p \in Contents(new[c]) : ~Finished(p)} = {p \in Candidates : priority[p] = c}
       /\ \A p \in Contents(new[c]) : p \in Procs /\ priority[p] = c /\ arrivaltime[p] <= current_time
       /\ \A a, b : Before(new[c], a, b) => a # x /\ (b = x \/ InLine(c, a, b))
  /\ x # None => \A p \in Candidates :
       /\ priority[p] <= priority[x]
       /\ priority[p] = priority[x] /\ p # x => InLine(priority[x], x, p)

LEMMA PriorityChosen ==
  ASSUME Inputs, Accounts, PriorityOK, scheduler = RRP
  PROVE  PriorityChoice(round_robin_priority.pid, round_robin_priority.queue)
<1> DEFINE arrived == [c \in Priorities |-> EnqueueAll(priorityQueue[c], {p \in Arriving : priority[p] = c})]
           classes == {c \in Priorities : Pruned(arrived[c]).size > 0}
           best == IF classes = {} THEN None ELSE HighestFirst(classes)
           pid == IF classes = {} THEN None ELSE Item(Pruned(arrived[best]), 0)
           new == [c \in Priorities |-> IF c > best THEN Pruned(arrived[c])
                                        ELSE IF c = best THEN Rotated(Pruned(arrived[c]))
                                        ELSE arrived[c]]
<1>1. round_robin_priority = [pid |-> pid, queue |-> new]
  BY DEF round_robin_priority
<1>2. round_robin_priority.pid = pid /\ round_robin_priority.queue = new
  <2> HIDE DEF pid, new
  <2> QED
    BY <1>1
<1>3. \A c \in Priorities : c \in Int /\ 0 <= c /\ c <= NumPriorities
  BY SchedulingAssumption DEF Priorities
<1>4. \A c \in Priorities : arrived[c] = EnqueueAll(priorityQueue[c], {p \in Arriving : priority[p] = c})
                            /\ Pruned(arrived[c]) = Line(c)
  BY DEF Line
<1>5. classes = {c \in Priorities : Line(c).size > 0}
  BY <1>4
<1>6. \A p \in Candidates : p \in Procs /\ priority[p] \in Priorities /\ ~Finished(p)
  BY ProcFacts DEF Candidates
<1>7. \A c \in Priorities : \A q \in {arrived[c], Line(c)} :
              /\ Good(q)
              /\ {p \in Contents(q) : ~Finished(p)} = {p \in Candidates : priority[p] = c}
              /\ \A p \in Contents(q) : p \in Procs /\ priority[p] = c /\ arrivaltime[p] <= current_time
              /\ \A a, b : Before(q, a, b) => InLine(c, a, b)
  BY <1>4, LineIs
<1>8. \A c \in Priorities : Line(c).size # 0 => ~Finished(Item(Line(c), 0))
  BY LineIs
<1>9. \A c \in Priorities : Line(c).size \in Nat /\ (Line(c).size = 0 <=> Contents(Line(c)) = {})
  BY <1>7, SizeIs
<1> HIDE DEF arrived
<1>10. CASE classes = {}
  <2>1. Candidates = {}
    <3> SUFFICES ASSUME NEW p \in Candidates PROVE FALSE
      OBVIOUS
    <3>1. p \in Contents(Line(priority[p]))
      BY <1>6, <1>7
    <3>2. Line(priority[p]).size > 0
      BY <1>6, <1>9, <3>1
    <3> QED
      BY <1>5, <1>6, <1>10, <3>2
  <2>2. pid = None /\ best = None
    BY <1>10
  <2>3. \A c \in Priorities : new[c] = Line(c)
    <3>1. \A c \in Priorities : c > best
      BY <1>3, <2>2 DEF None
    <3> HIDE DEF best
    <3> QED
      BY <1>4, <3>1
  <2>4. \A c \in Priorities : \A a, b : Before(Line(c), a, b) => a # None
    <3>1. \A c \in Priorities : \A a, b : Before(Line(c), a, b) => a \in Contents(Line(c))
      BY DEF Before, Contents
    <3> QED
      BY <1>7, <3>1, ProcFacts
  <2> HIDE DEF pid, best, new, classes
  <2> QED
    BY <1>2, <1>7, <2>1, <2>2, <2>3, <2>4 DEF PriorityChoice
<1>11. CASE classes # {}
  <2>1. best \in classes /\ \A c \in classes : c <= best
    <3>1. classes \in SUBSET Int /\ \A c \in classes : c <= NumPriorities
      BY <1>3
    <3>2. NumPriorities \in Int
      BY SchedulingAssumption
    <3> HIDE DEF classes
    <3> QED
      BY <1>11, <3>1, <3>2, GreatestOf DEF HighestFirst
  <2>2. pid = Item(Line(best), 0) /\ best \in Priorities /\ Line(best).size > 0
    BY <1>4, <1>5, <1>11, <2>1
  <2> HIDE DEF best
  <2>3. /\ Good(Line(best)) /\ Line(best).size \in Nat /\ Line(best).size # 0
        /\ \A p \in Contents(Line(best)) : p \in Procs /\ priority[p] = best
    BY <1>7, <1>9, <2>2
  <2>4. 0 \in 0 .. Line(best).size - 1
    BY <2>2, <2>3
  <2>5. pid \in Contents(Line(best)) /\ ~Finished(pid)
    BY <1>8, <2>2, <2>3, <2>4 DEF Contents
  <2>6. pid \in Candidates /\ priority[pid] = best /\ pid \in Procs /\ pid # None
    BY <1>6, <1>7, <2>2, <2>3, <2>5, ProcFacts
  <2>7. PICK r : r = Rotated(Line(best))
    OBVIOUS
  <2>8. /\ Good(r) /\ Contents(r) = Contents(Line(best))
        /\ \A a, b : Before(r, a, b) => (Before(Line(best), a, b) \/ b = pid) /\ a # pid
    BY <2>2, <2>3, <2>7, RotatedGood
  <2>9. \A c \in Priorities : \/ c > best /\ new[c] = Line(c)
                              \/ c = best /\ new[c] = r
                              \/ c < best /\ new[c] = arrived[c]
    <3> SUFFICES ASSUME NEW c \in Priorities
                 PROVE  \/ c > best /\ new[c] = Line(c)
                        \/ c = best /\ new[c] = r
                        \/ c < best /\ new[c] = arrived[c]
      OBVIOUS
    <3>1. c \in Int /\ best \in Int
      BY <1>3, <2>2
    <3>2. Pruned(arrived[c]) = Line(c)
      BY <1>4
    <3>3. CASE c > best
      BY <3>2, <3>3
    <3>4. CASE c = best
      BY <2>7, <3>1, <3>2, <3>4
    <3>5. CASE c < best
      BY <3>1, <3>5
    <3> QED
      BY <3>1, <3>3, <3>4, <3>5
  <2>10. ASSUME NEW c \in Priorities
         PROVE  /\ Good(new[c])
                /\ {p \in Contents(new[c]) : ~Finished(p)} = {p \in Candidates : priority[p] = c}
                /\ \A p \in Contents(new[c]) : p \in Procs /\ priority[p] = c /\ arrivaltime[p] <= current_time
                /\ \A a, b : Before(new[c], a, b) => a # pid /\ (b = pid \/ InLine(c, a, b))
    <3>1. CASE c = best /\ new[c] = r
      BY <1>7, <2>8, <3>1
    <3>2. CASE c # best /\ new[c] \in {arrived[c], Line(c)}
      <4>1. /\ Good(new[c])
            /\ {p \in Contents(new[c]) : ~Finished(p)} = {p \in Candidates : priority[p] = c}
            /\ \A p \in Contents(new[c]) : p \in Procs /\ priority[p] = c /\ arrivaltime[p] <= current_time
            /\ \A a, b : Before(new[c], a, b) => InLine(c, a, b)
        <5> HIDE DEF new
        <5> QED
          BY <1>7, <3>2
      <4>2. \A a, b : Before(new[c], a, b) => a \in Contents(new[c])
        BY DEF Before, Contents
      <4>3. pid \notin Contents(new[c])
        BY <2>6, <3>2, <4>1
      <4> HIDE DEF new, pid
      <4> QED
        BY <4>1, <4>2, <4>3
    <3>3. c \in Int /\ best \in Int
      BY <1>3, <2>2
    <3>4. (c = best /\ new[c] = r) \/ (c # best /\ new[c] \in {arrived[c], Line(c)})
      <4> HIDE DEF new
      <4> QED
        BY <2>9, <3>3
    <3> QED
      BY <3>1, <3>2, <3>4
  <2>11. ASSUME NEW p \in Candidates
         PROVE  /\ priority[p] <= priority[pid]
                /\ priority[p] = priority[pid] /\ p # pid => InLine(priority[pid], pid, p)
    <3>1. p \in Contents(Line(priority[p])) /\ priority[p] \in Priorities
      BY <1>6, <1>7
    <3>2. Line(priority[p]).size > 0
      BY <1>9, <3>1
    <3>3. priority[p] <= priority[pid]
      BY <1>5, <2>1, <2>6, <3>1, <3>2
    <3>4. ASSUME priority[p] = best, p # pid PROVE InLine(best, pid, p)
      <4>1. PICK k \in 0 .. Line(best).size - 1 : p = Item(Line(best), k)
        BY <3>1, <3>4 DEF Contents
      <4>2. k # 0
        BY <2>2, <3>4, <4>1
      <4>3. 0 < k
        BY <2>3, <4>2
      <4>4. Before(Line(best), pid, p)
        BY <2>2, <2>4, <4>1, <4>3 DEF Before
      <4> QED
        BY <1>7, <2>2, <4>4
    <3> QED
      BY <2>6, <3>3, <3>4
  <2> HIDE DEF pid, new
  <2> QED
    BY <1>2, <2>6, <2>10, <2>11 DEF PriorityChoice
<1> QED
  BY <1>10, <1>11

LEMMA PriorityStep ==
  Inputs /\ Accounts /\ PriorityOK /\ [Next]_vars => PriorityOK'
<1> SUFFICES ASSUME Inputs, Accounts, PriorityOK, [Next]_vars PROVE PriorityOK'
  OBVIOUS
<1>1. CASE TickFcfs \/ TickSrt \/ TickRoundRobin
  <2>1. scheduler # RRP
    BY <1>1 DEF TickFcfs, TickSrt, TickRoundRobin, FCFS, SRT, RR, RRP
  <2>2. scheduler' = scheduler /\ UNCHANGED priorityQueue
    BY <1>1 DEF TickFcfs, TickSrt, TickRoundRobin, Tick, queues
  <2> QED
    BY <2>1, <2>2 DEF PriorityOK
<1>2. CASE TickPriority
  <2>1. PICK x : x = round_robin_priority.pid
    OBVIOUS
  <2>2. /\ scheduler = RRP /\ Tick(x) /\ priorityQueue' = round_robin_priority.queue
    BY <1>2, <2>1 DEF TickPriority
  <2>3. PriorityChoice(x, priorityQueue')
    BY <2>1, <2>2, PriorityChosen
  <2>4. x \in Candidates \cup {None}
    BY <2>3 DEF PriorityChoice
  <2>5. /\ scheduler' = scheduler /\ current_time' = current_time + 1 /\ current_time \in Nat
        /\ arrivaltime' = arrivaltime /\ priority' = priority
        /\ \A p \in Procs : Finished(p)' <=> (Finished(p) \/ (p = x /\ remainingtime[p] = 1))
        /\ Unfinished' = {p \in Candidates : ~Finished(p)'}
    BY <2>2, <2>4, TickFacts DEF Accounts
  <2>6. ASSUME NEW c \in Priorities
        PROVE  /\ Good(priorityQueue[c])'
               /\ {p \in Contents(priorityQueue'[c]) : ~Finished(p)'} = {p \in Unfinished' : priority'[p] = c}
               /\ \A p \in Contents(priorityQueue'[c]) : priority'[p] = c /\ arrivaltime'[p] < current_time'
    <3>1. PICK q : q = priorityQueue'[c]
      OBVIOUS
    <3>2. /\ Good(q)
          /\ {p \in Contents(q) : ~Finished(p)} = {p \in Candidates : priority[p] = c}
          /\ \A p \in Contents(q) : p \in Procs /\ priority[p] = c /\ arrivaltime[p] <= current_time
      BY <2>3, <3>1 DEF PriorityChoice
    <3>3. \A p \in Contents(q) : arrivaltime[p] < current_time + 1
      BY <2>5, <3>2, ProcFacts
    <3>4. {p \in Contents(q) : ~Finished(p)'} = {p \in Unfinished' : priority'[p] = c}
      <4>1. \A p \in Contents(q) : ~Finished(p)' => ~Finished(p)
        BY <2>5, <3>2
      <4>2. {p \in Contents(q) : ~Finished(p)'} = {p \in Candidates : priority[p] = c /\ ~Finished(p)'}
        BY <3>2, <4>1
      <4> QED
        BY <2>5, <4>2
    <3>5. Good(priorityQueue[c])'
      BY <3>1, <3>2 DEF Good, Before, Shape, Item
    <3> QED
      BY <2>5, <3>1, <3>2, <3>3, <3>4, <3>5
  <2>7. \A c \in Priorities : Contents(priorityQueue[c])' = Contents(priorityQueue'[c])
    BY DEF Contents, Item
  <2> QED
    BY <2>2, <2>5, <2>6, <2>7 DEF PriorityOK
<1>3. CASE NextScheduler
  <2>1. priorityQueue' = [c \in Priorities |-> EmptyQueue] /\ Unfinished' = {}
    BY <1>3, NextFacts DEF NextScheduler
  <2>2. \A c \in Priorities : Good(priorityQueue[c])' /\ Contents(priorityQueue[c])' = {}
    BY <2>1, EmptyIsGood
  <2> QED
    BY <2>1, <2>2 DEF PriorityOK
<1>4. CASE UNCHANGED vars
  <2>1. UNCHANGED <<priorityQueue, scheduler, priority, arrivaltime, current_time>>
    BY <1>4 DEF vars, inputs, queues
  <2>2. Unfinished' = Unfinished /\ \A p : Finished(p)' <=> Finished(p)
    BY <1>4 DEF vars, inputs, Unfinished, Finished
  <2> QED
    BY <2>1, <2>2 DEF PriorityOK
<1> QED
  BY <1>1, <1>2, <1>3, <1>4 DEF Next

-----------------------------------------------------------------------------
(* The core of the invariant. *)

Core == Inputs /\ Accounts /\ RoundRobinOK /\ PriorityOK

LEMMA CoreInit == Init => Core
<1> SUFFICES ASSUME Init PROVE Core
  OBVIOUS
<1>1. Inputs /\ Accounts
  BY AccountsInit
<1>2. /\ rrQueue = EmptyQueue /\ current_pid = None /\ time_on_cpu = 0 /\ scheduler = FCFS
      /\ priorityQueue = [c \in Priorities |-> EmptyQueue]
  BY DEF Init
<1>3. 0 \in 0 .. quantum - 1
  BY <1>1 DEF Inputs
<1>4. RoundRobinOK
  BY <1>2, <1>3, EmptyIsGood DEF RoundRobinOK, FCFS, RR
<1>5. PriorityOK
  BY <1>2, EmptyIsGood DEF PriorityOK, FCFS, RRP
<1> QED
  BY <1>1, <1>4, <1>5 DEF Core

(* The process a tick runs, if any, under whichever scheduler. *)
Chosen ==
  IF scheduler = FCFS THEN first_come_first_served
  ELSE IF scheduler = SRT THEN shortest_remaining_time
  ELSE IF scheduler = RR THEN round_robin.pid
  ELSE round_robin_priority.pid

LEMMA ChosenIs ==
  ASSUME Core, scheduler # Over
  PROVE  Chosen \in Candidates \cup {None} /\ (Chosen = None => Candidates = {})
<1>1. scheduler \in {FCFS, SRT, RR, RRP} /\ Candidates \in SUBSET Procs /\ None \notin Candidates
  BY CandidatesAre, ProcFacts DEF Core, Accounts
<1>2. CASE scheduler = FCFS
  <2>1. Chosen = FirstLeast(Candidates, arrivaltime) /\ arrivaltime \in [Procs -> Nat]
    BY <1>2 DEF Chosen, first_come_first_served, Core, Inputs
  <2> QED
    BY <1>1, <2>1, FirstLeastIs
<1>3. CASE scheduler = SRT
  <2>1. Chosen = FirstLeast(Candidates, remainingtime) /\ remainingtime \in [Procs -> Nat]
    BY <1>3 DEF Chosen, shortest_remaining_time, Core, Accounts, SRT, FCFS
  <2> QED
    BY <1>1, <2>1, FirstLeastIs
<1>4. CASE scheduler = RR
  <2>1. Chosen = round_robin.pid
    BY <1>4 DEF Chosen, RR, SRT, FCFS
  <2> QED
    BY <1>4, <2>1, RoundRobinChoice DEF Core
<1>5. CASE scheduler = RRP
  <2>1. Chosen = round_robin_priority.pid
    BY <1>5 DEF Chosen, RRP, RR, SRT, FCFS
  <2> QED
    BY <1>5, <2>1, PriorityChosen DEF Core, PriorityChoice
<1> QED
  BY <1>1, <1>2, <1>3, <1>4, <1>5

(* Every step is a tick that runs the chosen process, the next scheduler   *)
(* or a stutter.                                                           *)
LEMMA Steps ==
  ASSUME Core, [Next]_vars
  PROVE  \/ scheduler # Over /\ Tick(Chosen)
         \/ NextScheduler
         \/ UNCHANGED vars
<1>1. CASE TickFcfs
  BY <1>1 DEF TickFcfs, Chosen, FCFS, Over
<1>2. CASE TickSrt
  BY <1>2 DEF TickSrt, Chosen, FCFS, SRT, Over
<1>3. CASE TickRoundRobin
  BY <1>3 DEF TickRoundRobin, Chosen, FCFS, SRT, RR, Over
<1>4. CASE TickPriority
  BY <1>4 DEF TickPriority, Chosen, FCFS, SRT, RR, RRP, Over
<1> QED
  BY <1>1, <1>2, <1>3, <1>4 DEF Next

LEMMA CoreStep == Core /\ [Next]_vars => Core'
<1> SUFFICES ASSUME Core, [Next]_vars PROVE Core'
  OBVIOUS
<1>1. RoundRobinOK' /\ PriorityOK'
  BY RoundRobinStep, PriorityStep DEF Core
<1>2. CASE scheduler # Over /\ Tick(Chosen)
  <2>1. PICK x : x = Chosen
    OBVIOUS
  <2>2. x \in Candidates \cup {None} /\ Tick(x)
    BY <1>2, <2>1, ChosenIs
  <2>3. Inputs' /\ Accounts'
    BY <2>2, TickFacts DEF Core
  <2> QED
    BY <1>1, <2>3 DEF Core
<1>3. CASE NextScheduler
  BY <1>1, <1>3, NextFacts DEF Core
<1>4. CASE UNCHANGED vars
  <2>1. Inputs'
    BY <1>4 DEF vars, inputs, Core, Inputs
  <2>2. \A p : (Finished(p)' <=> Finished(p)) /\ (Started(p)' <=> Started(p))
    BY <1>4 DEF vars, Finished, Started
  <2>3. Accounts'
    BY <1>4, <2>2 DEF vars, inputs, Core, Accounts
  <2> QED
    BY <1>1, <2>1, <2>3 DEF Core
<1> QED
  BY <1>2, <1>3, <1>4, Steps

LEMMA CoreInvariant == Spec => []Core
<1>1. Init => Core
  BY CoreInit
<1>2. Core /\ [Next]_vars => Core'
  BY CoreStep
<1> QED
  BY <1>1, <1>2, PTL DEF Spec

(* Between two ticks the queue of round robin holds each process that has  *)
(* arrived, is unfinished and not on the processor once; the queue of a    *)
(* priority holds each unfinished process of it once (scheduling.c:238-256, *)
(* 276-297).                                                               *)
THEOREM QueuesHoldWhoWaits == Spec => []QueuesComplete
<1>1. ASSUME Core PROVE QueuesComplete
  <2>1. scheduler = RR => /\ Contents(rrQueue) = Unfinished \ {current_pid}
                          /\ rrQueue.size = Cardinality(Contents(rrQueue))
    BY <1>1, SizeIs DEF Core, RoundRobinOK
  <2>2. scheduler = RRP => \A c \in Priorities :
          /\ {p \in Contents(priorityQueue[c]) : ~Finished(p)} = {p \in Unfinished : priority[p] = c}
          /\ priorityQueue[c].size = Cardinality(Contents(priorityQueue[c]))
    BY <1>1, SizeIs DEF Core, PriorityOK
  <2> QED
    BY <2>1, <2>2 DEF QueuesComplete
<1> QED
  BY <1>1, CoreInvariant, PTL

LEMMA ReadyAre ==
  ASSUME Inputs, Accounts
  PROVE  /\ Share!Ready = Candidates
         /\ Share!AllDone <=> \A p \in Procs : Finished(p)
<1>1. \A p \in Procs : remainingtime[p] \in Nat /\ (Finished(p) <=> remainingtime[p] = 0)
  BY DEF Accounts
<1>2. \A p \in Procs : ~Finished(p) <=> remainingtime[p] > 0
  BY <1>1
<1> QED
  BY <1>1, <1>2 DEF Share!Ready, Share!AllDone, Candidates

(* Each of the four schedulers shares the processor: it runs an arrived    *)
(* and unfinished process whenever there is one and gives each exactly its *)
(* run time (scheduling.c:116-170, 180-301).                               *)
THEOREM SchedulersShare == Spec => ShareSpec
<1>1. Init => Share!ShareInit
  BY DEF Init, Share!ShareInit, FCFS
<1>2. ASSUME Core, [Next]_vars
      PROVE  [Share!Idle \/ Share!NextRound \/ \E p \in Procs : Share!Run(p)]_Share!shareVars
  <2>1. Inputs /\ Accounts
    BY <1>2 DEF Core
  <2>2. Share!Ready = Candidates /\ (Share!AllDone <=> num_finished = NumProcesses)
    BY <2>1, ReadyAre, NotAllDone
  <2>3. CASE scheduler # Over /\ Tick(Chosen)
    <3>1. PICK x : x = Chosen
      OBVIOUS
    <3>2. x \in Candidates \cup {None} /\ (x = None => Candidates = {}) /\ Tick(x)
      BY <1>2, <2>3, <3>1, ChosenIs
    <3>3. /\ UNCHANGED <<arrivaltime, runtime, scheduler>> /\ current_time' = current_time + 1
          /\ num_finished < NumProcesses
      BY <3>2 DEF Tick, inputs
    <3>4. num_finished # NumProcesses
      BY <3>3, Sizes
    <3>5. CASE x = None
      <4>1. UNCHANGED remainingtime
        BY <3>2, <3>5 DEF Tick
      <4> QED
        BY <2>2, <3>2, <3>3, <3>4, <3>5, <4>1 DEF Share!Idle
    <3>6. CASE x # None
      <4>1. remainingtime' = [remainingtime EXCEPT ![x] = @ - 1]
        BY <3>2, <3>6 DEF Tick
      <4>2. Share!Run(x) /\ x \in Procs
        BY <2>1, <2>2, <3>2, <3>3, <3>6, <4>1, CandidatesAre DEF Share!Run
      <4> QED
        BY <4>2
    <3> QED
      BY <3>5, <3>6
  <2>4. CASE NextScheduler
    <3>1. /\ UNCHANGED <<arrivaltime, runtime>> /\ current_time' = 0 /\ remainingtime' = runtime
          /\ num_finished = NumProcesses /\ scheduler' = scheduler + 1 /\ scheduler # Over
      BY <2>4 DEF NextScheduler, inputs
    <3>2. scheduler < Over
      BY <2>1, <3>1 DEF Accounts, FCFS, SRT, RR, RRP, Over
    <3> QED
      BY <2>2, <3>1, <3>2 DEF Share!NextRound
  <2>5. CASE UNCHANGED vars
    BY <2>5 DEF vars, inputs, Share!shareVars
  <2> QED
    BY <1>2, <2>3, <2>4, <2>5, Steps
<1> QED
  BY <1>1, <1>2, CoreInvariant, PTL DEF Spec, ShareSpec, Share!ShareSpec

(* With priorities, no process runs in a tick in which one of a higher     *)
(* priority has arrived and is unfinished (scheduling.c:287-298).          *)
THEOREM HighestRuns == Spec => []PriorityFirst
<1>1. Init => PriorityFirst
  BY DEF Init, PriorityFirst, FCFS, RRP
<1>2. ASSUME Core, PriorityFirst, [Next]_vars PROVE PriorityFirst'
  <2>1. Inputs /\ Accounts /\ PriorityOK
    BY <1>2 DEF Core
  <2>2. CASE scheduler # Over /\ Tick(Chosen)
    <3>1. PICK x : x = Chosen
      OBVIOUS
    <3>2. x \in Candidates \cup {None} /\ Tick(x) /\ Candidates \subseteq Procs
      BY <1>2, <2>1, <2>2, <3>1, ChosenIs, CandidatesAre
    <3>3. /\ scheduler' = scheduler /\ priority' = priority /\ timeline' = Append(timeline, x)
          /\ Unfinished' = {p \in Candidates : ~Finished(p)'}
      BY <2>1, <3>2, TickFacts
    <3>4. Last(timeline)' = x
      BY <2>1, <3>2, <3>3, LastOfTimeline
    <3>5. SUFFICES ASSUME scheduler = RRP, x # None PROVE \A p \in Candidates : priority[p] <= priority[x]
      BY <3>3, <3>4 DEF PriorityFirst
    <3>6. x = round_robin_priority.pid
      BY <3>1, <3>5 DEF Chosen, FCFS, SRT, RR, RRP
    <3> QED
      BY <2>1, <3>5, <3>6, PriorityChosen DEF PriorityChoice
  <2>3. CASE NextScheduler
    BY <2>1, <2>3, NextFacts DEF PriorityFirst
  <2>4. CASE UNCHANGED vars
    BY <1>2, <2>4 DEF vars, inputs, PriorityFirst, Unfinished, Finished
  <2> QED
    BY <1>2, <2>2, <2>3, <2>4, Steps
<1> QED
  BY <1>1, <1>2, CoreInvariant, PTL DEF Spec

-----------------------------------------------------------------------------
(* The total turnaround time, as the number of pairs of a process and a    *)
(* second between its arrival and its end.                                 *)

Turnarounds(end) ==
  {y \in Procs \X Nat : end[y[1]] # None /\ arrivaltime[y[1]] <= y[2] /\ y[2] < end[y[1]]}

TotalOK ==
  /\ IsFiniteSet(Turnarounds(endtime))
  /\ total_turnaround_time = Cardinality(Turnarounds(endtime))

(* The seconds from a to before b, of process p. *)
Seconds(p, a, b) == {<<p, t>> : t \in a .. b - 1}

LEMMA RowSize ==
  ASSUME NEW p, NEW a \in Nat, NEW b \in Nat, a < b
  PROVE  IsFiniteSet(Seconds(p, a, b)) /\ Cardinality(Seconds(p, a, b)) = b - a
<1> DEFINE I == a .. b - 1
           S == {<<p, t>> : t \in I}
           f == [t \in I |-> <<p, t>>]
<1>1. IsFiniteSet(I) /\ Cardinality(I) = b - a
  <2>1. a \in Int /\ b - 1 \in Int /\ ~(a > b - 1) /\ (b - 1) - a + 1 = b - a
    OBVIOUS
  <2> QED
    BY <2>1, FS_Interval
<1>2. f \in Bijection(I, S)
  <2>1. f \in [I -> S]
    OBVIOUS
  <2>2. \A s, t \in I : f[s] = f[t] => s = t
    OBVIOUS
  <2>3. \A y \in S : \E t \in I : f[t] = y
    OBVIOUS
  <2> QED
    BY <2>1, <2>2, <2>3 DEF Bijection, Injection, Surjection, IsInjective
<1> HIDE DEF f, I, S
<1>3. IsFiniteSet(S) /\ Cardinality(S) = Cardinality(I)
  BY <1>1, <1>2, FS_Bijection DEF ExistsBijection
<1> QED
  BY <1>1, <1>3 DEF Seconds, S, I

LEMMA TotalInit == Init => TotalOK
<1> SUFFICES ASSUME Init PROVE TotalOK
  OBVIOUS
<1>1. Turnarounds(endtime) = {}
  BY DEF Init, Turnarounds
<1> QED
  BY <1>1, FS_EmptySet DEF Init, TotalOK

LEMMA TotalStep == Core /\ TotalOK /\ [Next]_vars => TotalOK'
<1> SUFFICES ASSUME Core, TotalOK, [Next]_vars PROVE TotalOK'
  OBVIOUS
<1>0. Inputs /\ Accounts
  BY DEF Core
<1>1. CASE scheduler # Over /\ Tick(Chosen)
  <2>1. PICK x : x = Chosen
    OBVIOUS
  <2>2. x \in Candidates \cup {None} /\ Tick(x)
    BY <1>1, <2>1, ChosenIs
  <2>3. /\ arrivaltime' = arrivaltime
        /\ \A p \in Procs : endtime'[p] = IF p = x /\ remainingtime[p] = 1
                                          THEN current_time + 1 ELSE endtime[p]
        /\ x # None => x \in Procs /\ ~Finished(x) /\ arrivaltime[x] <= current_time
    BY <1>0, <2>2, TickFacts
  <2>a. \A p \in Procs : p # None
    BY <1>0, ProcFacts
  <2>4. CASE x = None \/ remainingtime[x] # 1
    <3>1. \A p \in Procs : endtime'[p] = endtime[p]
      BY <2>3, <2>4, <2>a
    <3>2. Turnarounds(endtime)' = Turnarounds(endtime)
      BY <2>3, <3>1 DEF Turnarounds
    <3>3. total_turnaround_time' = total_turnaround_time
      BY <2>2, <2>4 DEF Tick
    <3> QED
      BY <3>2, <3>3 DEF TotalOK
  <2>5. CASE x # None /\ remainingtime[x] = 1
    <3> DEFINE Row == {<<x, t>> : t \in arrivaltime[x] .. (current_time + 1) - 1}
    <3>1. x \in Procs /\ endtime[x] = None /\ arrivaltime[x] \in Nat /\ current_time + 1 \in Nat
          /\ arrivaltime[x] < current_time + 1 /\ current_time \in Nat
      BY <1>0, <2>3, <2>5, ProcFacts DEF Accounts, Finished
    <3>2. IsFiniteSet(Row) /\ Cardinality(Row) = (current_time + 1) - arrivaltime[x]
      <4>1. PICK a, b : a = arrivaltime[x] /\ b = current_time + 1
        OBVIOUS
      <4>2. a \in Nat /\ b \in Nat /\ a < b
        BY <3>1, <4>1
      <4>3. IsFiniteSet(Seconds(x, a, b)) /\ Cardinality(Seconds(x, a, b)) = b - a
        BY <4>2, RowSize
      <4> QED
        BY <4>1, <4>3 DEF Seconds
    <3>3. Turnarounds(endtime)' = Turnarounds(endtime) \cup Row
      <4>1. Turnarounds(endtime)' =
              {y \in Procs \X Nat : /\ endtime'[y[1]] # None
                                     /\ arrivaltime[y[1]] <= y[2] /\ y[2] < endtime'[y[1]]}
        BY <2>3 DEF Turnarounds
      <4>2. ASSUME NEW p \in Procs, NEW t \in Nat
            PROVE  (endtime'[p] # None /\ arrivaltime[p] <= t /\ t < endtime'[p])
                     <=> (<<p, t>> \in Turnarounds(endtime) \/ <<p, t>> \in Row)
        <5>1. CASE p = x
          <6>1. endtime'[p] = current_time + 1 /\ endtime'[p] # None
            BY <2>3, <2>5, <3>1, <5>1 DEF None
          <6>2. <<p, t>> \notin Turnarounds(endtime)
            BY <3>1, <5>1 DEF Turnarounds
          <6>3. <<p, t>> \in Row <=> t \in arrivaltime[x] .. (current_time + 1) - 1
            BY <5>1
          <6> HIDE DEF Row
          <6>4. t \in arrivaltime[x] .. (current_time + 1) - 1 <=> arrivaltime[x] <= t /\ t < current_time + 1
            BY <3>1
          <6> QED
            BY <5>1, <6>1, <6>2, <6>3, <6>4
        <5>2. CASE p # x
          <6>1. endtime'[p] = endtime[p] /\ <<p, t>> \notin Row
            BY <2>3, <5>2
          <6> QED
            BY <6>1 DEF Turnarounds
        <5> QED
          BY <5>1, <5>2
      <4>3. \A y \in Row : y \in Procs \X Nat
        BY <3>1
      <4>4. \A y \in Turnarounds(endtime) : y \in Procs \X Nat
        BY DEF Turnarounds
      <4>5. \A y \in Procs \X Nat : \E p \in Procs, t \in Nat : y = <<p, t>>
        OBVIOUS
      <4> HIDE DEF Row
      <4>6. \A p \in Procs, t \in Nat :
              <<p, t>> \in Turnarounds(endtime)' <=> (<<p, t>> \in Turnarounds(endtime) \/ <<p, t>> \in Row)
        <5>1. \A p \in Procs, t \in Nat : <<p, t>> \in Turnarounds(endtime)' <=>
                (endtime'[p] # None /\ arrivaltime[p] <= t /\ t < endtime'[p])
          BY <4>1
        <5> QED
          BY <4>2, <5>1
      <4>7. Turnarounds(endtime)' \subseteq Procs \X Nat
        BY <4>1
      <4> QED
        BY <4>3, <4>4, <4>5, <4>6, <4>7
    <3>4. Turnarounds(endtime) \cap Row = {}
      BY <3>1 DEF Turnarounds
    <3> HIDE DEF Row
    <3>5. IsFiniteSet(Turnarounds(endtime) \cup Row)
          /\ Cardinality(Turnarounds(endtime) \cup Row)
               = Cardinality(Turnarounds(endtime)) + Cardinality(Row) - Cardinality(Turnarounds(endtime) \cap Row)
      BY <3>2, FS_Union DEF TotalOK
    <3>6. Cardinality(Turnarounds(endtime)) \in Nat /\ Cardinality(Turnarounds(endtime) \cap Row) = 0
      BY <3>4, FS_EmptySet, FS_CardinalityType DEF TotalOK
    <3>7. total_turnaround_time' = total_turnaround_time + current_time + 1 - arrivaltime[x]
      BY <2>2, <2>5 DEF Tick
    <3>8. total_turnaround_time' = Cardinality(Turnarounds(endtime) \cup Row)
      BY <3>1, <3>2, <3>5, <3>6, <3>7 DEF TotalOK
    <3> QED
      BY <3>3, <3>5, <3>8 DEF TotalOK
  <2> QED
    BY <2>4, <2>5
<1>2. CASE NextScheduler
  <2>1. endtime' = [p \in Procs |-> None] /\ total_turnaround_time' = 0
    BY <1>2 DEF NextScheduler
  <2>2. Turnarounds(endtime)' = {}
    BY <2>1 DEF Turnarounds
  <2> QED
    BY <2>1, <2>2, FS_EmptySet DEF TotalOK
<1>3. CASE UNCHANGED vars
  <2>1. UNCHANGED <<arrivaltime, endtime, total_turnaround_time>>
    BY <1>3 DEF vars, inputs
  <2>2. Turnarounds(endtime)' = Turnarounds(endtime)
    BY <2>1 DEF Turnarounds
  <2> QED
    BY <2>1, <2>2 DEF TotalOK
<1> QED
  BY <1>1, <1>2, <1>3, Steps

LEMMA TotalInvariant == Spec => [](Core /\ TotalOK)
<1>1. Init => Core /\ TotalOK
  BY CoreInit, TotalInit
<1>2. Core /\ TotalOK /\ [Next]_vars => Core' /\ TotalOK'
  BY CoreStep, TotalStep
<1> QED
  BY <1>1, <1>2, PTL DEF Spec

LEMMA GoodIsOK == ASSUME NEW q, Good(q) PROVE QueueOK(q)
<1>1. /\ q.front \in 0 .. MaxQueueSize - 1 /\ q.rear \in -1 .. MaxQueueSize - 1
      /\ q.items \in [0 .. MaxQueueSize - 1 -> Procs \cup {None}]
      /\ \A k \in 0 .. q.size - 1 : Item(q, k) \in Procs
  BY DEF Good, Shape, Slots
<1>2. q.size \in 0 .. NumProcesses
  BY SizeIs, Sizes
<1> QED
  BY <1>1, <1>2 DEF QueueOK

LEMMA LongestRun == \A r \in RunTimes : Max(RunTimes) \in Nat /\ r <= Max(RunTimes)
<1> DEFINE Ok == {T \in SUBSET RunTimes : \E b \in Nat : \A r \in T : r <= b}
<1>1. {} \in Ok
  BY Sizes
<1>2. ASSUME NEW T \in SUBSET RunTimes, NEW x \in RunTimes \ T, T \in Ok
      PROVE  T \cup {x} \in Ok
  <2>1. PICK b \in Nat : \A r \in T : r <= b
    BY <1>2
  <2>2. x \in Nat
    BY RunTimeType
  <2>3. \A r \in T : r \in Nat
    BY RunTimeType
  <2>4. \A r \in T \cup {x} : r <= b + x
    BY <2>1, <2>2, <2>3
  <2>5. b + x \in Nat
    BY <2>2
  <2> QED
    BY <2>4, <2>5
<1>3. RunTimes \in Ok
  <2> HIDE DEF Ok
  <2> QED
    BY <1>1, <1>2, SchedulingAssumption, SetInduct
<1>4. PICK b \in Nat : \A r \in RunTimes : r <= b
  BY <1>3
<1> SUFFICES ASSUME NEW r \in RunTimes PROVE Max(RunTimes) \in Nat /\ r <= Max(RunTimes)
  OBVIOUS
<1>5. RunTimes \in SUBSET Int /\ RunTimes # {} /\ b \in Int
  BY RunTimeType
<1> QED
  BY <1>4, <1>5, GreatestOf, RunTimeType

LEMMA LeftType ==
  ASSUME Inputs, Accounts
  PROVE  /\ Max(RunTimes) \in Nat /\ remainingtime \in [Procs -> 0 .. Max(RunTimes)]
         /\ runtime \in [Procs -> 0 .. Max(RunTimes)]
<1>1. ASSUME NEW p \in Procs
      PROVE  /\ Max(RunTimes) \in Nat /\ remainingtime[p] \in 0 .. Max(RunTimes)
             /\ runtime[p] \in 0 .. Max(RunTimes)
  <2>1. remainingtime[p] \in Nat /\ remainingtime[p] <= runtime[p]
    BY DEF Accounts
  <2>2. runtime[p] \in Nat /\ runtime[p] <= Max(RunTimes) /\ Max(RunTimes) \in Nat
    BY ProcFacts, LongestRun
  <2> QED
    BY <2>1, <2>2
<1>2. 0 \in Procs
  BY Sizes DEF Procs
<1> QED
  BY <1>1, <1>2 DEF Inputs, Accounts

-----------------------------------------------------------------------------
(* First come, first served. *)

(* p comes first: it arrives earlier or has the smaller number. *)
First(p, q) == arrivaltime[p] < arrivaltime[q] \/ (arrivaltime[p] = arrivaltime[q] /\ p < q)

(* So far every process has run in its turn, as soon as those before it    *)
(* had ended, and to its end.                                              *)
InOrder ==
  \A p \in Procs :
    /\ Started(p) =>
         /\ \A q \in Procs : First(q, p) => Finished(q) /\ endtime[q] <= starttime[p]
         /\ \/ starttime[p] = arrivaltime[p]
            \/ \E q \in Procs : First(q, p) /\ Finished(q) /\ endtime[q] = starttime[p]
    /\ Started(p) /\ ~Finished(p) => starttime[p] + (runtime[p] - remainingtime[p]) = current_time
    /\ Finished(p) => endtime[p] = starttime[p] + runtime[p]
    /\ ~Started(p) /\ arrivaltime[p] < current_time =>
         \E q \in Procs : First(q, p) /\ Started(q) /\ (Finished(q) => endtime[q] = current_time)

LEMMA FirstFacts ==
  ASSUME Inputs
  PROVE  /\ \A p, q \in Procs : First(p, q) => ~First(q, p) /\ arrivaltime[p] <= arrivaltime[q]
         /\ \A p, q \in Procs : First(p, q) \/ p = q \/ First(q, p)
         /\ \A p, q, r \in Procs : First(p, q) /\ First(q, r) => First(p, r)
         /\ \A p \in Procs : ~First(p, p)
<1>1. \A p \in Procs : p \in Nat /\ arrivaltime[p] \in Nat
  BY ProcFacts
<1> QED
  BY <1>1 DEF First

(* A tick that runs the first of the candidates keeps the order. *)
LEMMA InOrderTick ==
  ASSUME Inputs, Accounts, InOrder, NEW x \in Candidates \cup {None}, Tick(x),
         x = None => Candidates = {},
         x # None => \A q \in Candidates : q = x \/ First(x, q)
  PROVE  InOrder'
<1>1. /\ current_time' = current_time + 1 /\ arrivaltime' = arrivaltime /\ runtime' = runtime
      /\ \A p \in Procs : Finished(p)' <=> (Finished(p) \/ (p = x /\ remainingtime[p] = 1))
      /\ \A p \in Procs : Started(p)' <=> (Started(p) \/ p = x)
      /\ \A p \in Procs : starttime'[p] = IF p = x /\ ~Started(p) THEN current_time ELSE starttime[p]
      /\ \A p \in Procs : endtime'[p] = IF p = x /\ remainingtime[p] = 1
                                        THEN current_time + 1 ELSE endtime[p]
      /\ \A p \in Procs : remainingtime'[p] = IF p = x THEN remainingtime[p] - 1 ELSE remainingtime[p]
      /\ x # None => x \in Procs /\ ~Finished(x) /\ arrivaltime[x] <= current_time
                     /\ remainingtime[x] \in Nat /\ remainingtime[x] > 0
  BY TickFacts
<1>2. current_time \in Nat
  BY DEF Accounts
<1>3. \A p \in Procs :
        /\ p # None /\ p \in Nat /\ arrivaltime[p] \in Nat /\ runtime[p] \in Nat /\ runtime[p] > 0
        /\ remainingtime[p] \in Nat /\ remainingtime[p] <= runtime[p]
        /\ Finished(p) <=> remainingtime[p] = 0
        /\ Finished(p) => endtime[p] \in Nat /\ arrivaltime[p] < endtime[p] /\ endtime[p] <= current_time
        /\ Started(p) <=> remainingtime[p] < runtime[p]
        /\ Started(p) => starttime[p] \in Nat /\ arrivaltime[p] <= starttime[p] /\ starttime[p] < current_time
  BY ProcFacts DEF Accounts, Finished, Started
<1>4. \A p, q \in Procs : First(p, q)' <=> First(p, q)
  BY <1>1 DEF First
<1>5. \A p \in Procs : p \in Candidates <=> arrivaltime[p] <= current_time /\ ~Finished(p)
  BY DEF Candidates
(* Those before x have ended, and no other has been started and not ended. *)
<1>6. ASSUME x # None, NEW q \in Procs, First(q, x) PROVE Finished(q)
  <2>1. arrivaltime[q] <= current_time
    <3>1. arrivaltime[q] <= arrivaltime[x] /\ arrivaltime[x] <= current_time /\ x \in Procs
      BY <1>1, <1>6, FirstFacts
    <3> QED
      BY <1>2, <1>3, <3>1
  <2>2. ~(q = x \/ First(x, q))
    BY <1>1, <1>6, FirstFacts
  <2> QED
    BY <1>5, <1>6, <2>1, <2>2
<1>7. ASSUME NEW q \in Procs, Started(q), ~Finished(q) PROVE q = x
  <2>1. arrivaltime[q] <= current_time
    BY <1>2, <1>3, <1>7
  <2>2. q \in Candidates /\ x # None
    BY <1>5, <1>7, <2>1
  <2>3. CASE First(x, q)
    BY <1>1, <1>7, <2>2, <2>3 DEF InOrder
  <2> QED
    BY <2>2, <2>3
<1> SUFFICES ASSUME NEW p \in Procs
             PROVE  /\ Started(p)' =>
                         /\ \A q \in Procs : First(q, p) => Finished(q)' /\ endtime'[q] <= starttime'[p]
                         /\ \/ starttime'[p] = arrivaltime[p]
                            \/ \E q \in Procs : First(q, p) /\ Finished(q)' /\ endtime'[q] = starttime'[p]
                    /\ Started(p)' /\ ~Finished(p)' =>
                         starttime'[p] + (runtime[p] - remainingtime'[p]) = current_time + 1
                    /\ Finished(p)' => endtime'[p] = starttime'[p] + runtime[p]
                    /\ ~Started(p)' /\ arrivaltime[p] < current_time + 1 =>
                         \E q \in Procs : First(q, p) /\ Started(q)'
                                          /\ (Finished(q)' => endtime'[q] = current_time + 1)
  BY <1>1, <1>4 DEF InOrder
<1>8. /\ Started(p) =>
           /\ \A q \in Procs : First(q, p) => Finished(q) /\ endtime[q] <= starttime[p]
           /\ \/ starttime[p] = arrivaltime[p]
              \/ \E q \in Procs : First(q, p) /\ Finished(q) /\ endtime[q] = starttime[p]
      /\ Started(p) /\ ~Finished(p) => starttime[p] + (runtime[p] - remainingtime[p]) = current_time
      /\ Finished(p) => endtime[p] = starttime[p] + runtime[p]
      /\ ~Started(p) /\ arrivaltime[p] < current_time =>
           \E q \in Procs : First(q, p) /\ Started(q) /\ (Finished(q) => endtime[q] = current_time)
  BY DEF InOrder
(* Whoever had ended before keeps its end. *)
<1>9. \A q \in Procs : Finished(q) => Finished(q)' /\ endtime'[q] = endtime[q] /\ q # x
  BY <1>1, <1>3
<1>10. CASE Started(p)
  <2>1. starttime'[p] = starttime[p] /\ Started(p)'
    BY <1>1, <1>10
  <2>2. \A q \in Procs : First(q, p) => Finished(q)' /\ endtime'[q] <= starttime'[p]
    BY <1>8, <1>9, <1>10, <2>1
  <2>3. \/ starttime'[p] = arrivaltime[p]
        \/ \E q \in Procs : First(q, p) /\ Finished(q)' /\ endtime'[q] = starttime'[p]
    BY <1>8, <1>9, <1>10, <2>1
  <2>4. CASE Finished(p)
    BY <1>8, <1>9, <2>1, <2>2, <2>3, <2>4
  <2>5. CASE ~Finished(p)
    <3>1. p = x /\ remainingtime'[p] = remainingtime[p] - 1
      BY <1>1, <1>7, <1>10, <2>5
    <3>2. starttime[p] + (runtime[p] - remainingtime[p]) = current_time
      BY <1>8, <1>10, <2>5
    <3>3. starttime[p] \in Nat /\ runtime[p] \in Nat /\ remainingtime[p] \in Nat
      BY <1>3, <1>10
    <3>4. starttime'[p] + (runtime[p] - remainingtime'[p]) = current_time + 1
      BY <1>2, <2>1, <3>1, <3>2, <3>3
    <3>5. Finished(p)' => remainingtime[p] = 1 /\ endtime'[p] = current_time + 1
      BY <1>1, <2>5, <3>1
    <3>6. Finished(p)' => endtime'[p] = starttime'[p] + runtime[p]
      BY <1>2, <2>1, <3>2, <3>3, <3>5
    <3> QED
      BY <2>1, <2>2, <2>3, <3>4, <3>6
  <2> QED
    BY <2>4, <2>5
<1>11. CASE ~Started(p) /\ p = x
  <2>1. /\ starttime'[p] = current_time /\ Started(p)' /\ x # None /\ remainingtime[p] = runtime[p]
        /\ remainingtime'[p] = remainingtime[p] - 1
    BY <1>1, <1>3, <1>11
  <2>2. \A q \in Procs : First(q, p) => Finished(q)' /\ endtime'[q] <= starttime'[p]
    <3>1. \A q \in Procs : First(q, p) => Finished(q) /\ endtime[q] <= current_time
      BY <1>3, <1>6, <1>11, <2>1
    <3> QED
      BY <1>9, <2>1, <3>1
  <2>3. \/ starttime'[p] = arrivaltime[p]
        \/ \E q \in Procs : First(q, p) /\ Finished(q)' /\ endtime'[q] = starttime'[p]
    <3>1. CASE arrivaltime[p] = current_time
      BY <2>1, <3>1
    <3>2. CASE arrivaltime[p] # current_time
      <4>1. arrivaltime[p] < current_time
        BY <1>1, <1>2, <1>3, <1>11, <2>1, <3>2
      <4>2. PICK q \in Procs : First(q, p) /\ Started(q) /\ (Finished(q) => endtime[q] = current_time)
        BY <1>8, <1>11, <4>1
      <4>3. Finished(q)
        BY <1>6, <1>11, <2>1, <4>2
      <4> QED
        BY <1>9, <2>1, <4>2, <4>3
    <3> QED
      BY <3>1, <3>2
  <2>4. starttime'[p] + (runtime[p] - remainingtime'[p]) = current_time + 1
    BY <1>2, <1>3, <2>1
  <2>5. Finished(p)' => endtime'[p] = starttime'[p] + runtime[p]
    <3>1. Finished(p)' => remainingtime[p] = 1 /\ endtime'[p] = current_time + 1
      BY <1>1, <1>3, <1>11, <2>1
    <3> QED
      BY <2>1, <3>1
  <2> QED
    BY <2>1, <2>2, <2>3, <2>4, <2>5
<1>12. CASE ~Started(p) /\ p # x
  <2>1. ~Started(p)' /\ ~Finished(p) /\ ~Finished(p)'
    BY <1>1, <1>3, <1>12
  <2>2. ASSUME arrivaltime[p] < current_time + 1
        PROVE  \E q \in Procs : First(q, p) /\ Started(q)' /\ (Finished(q)' => endtime'[q] = current_time + 1)
    <3>1. p \in Candidates
      <4>1. arrivaltime[p] <= current_time
        BY <1>2, <1>3, <2>2
      <4> QED
        BY <1>5, <2>1, <4>1
    <3>2. x # None /\ x \in Procs /\ First(x, p)
      BY <1>1, <1>12, <3>1
    <3>3. Started(x)' /\ (Finished(x)' => endtime'[x] = current_time + 1)
      BY <1>1, <3>2
    <3> QED
      BY <3>2, <3>3
  <2> QED
    BY <2>1, <2>2
<1> QED
  BY <1>10, <1>11, <1>12

LEMMA InOrderStart ==
  ASSUME Inputs, current_time = 0, \A p \in Procs : ~Started(p) /\ ~Finished(p)
  PROVE  InOrder
<1>1. \A p \in Procs : ~(arrivaltime[p] < current_time)
  BY ProcFacts
<1> QED
  BY <1>1 DEF InOrder

(* A round in which every process ran in its turn, as printed. *)
InTurn(run) ==
  /\ run \in [starttime : [Procs -> Nat], endtime : [Procs -> Nat], total : Nat]
  /\ \A p \in Procs :
       /\ run.endtime[p] = run.starttime[p] + runtime[p] /\ arrivaltime[p] <= run.starttime[p]
       /\ \A q \in Procs : First(q, p) => run.endtime[q] <= run.starttime[p]
       /\ \/ run.starttime[p] = arrivaltime[p]
          \/ \E q \in Procs : First(q, p) /\ run.endtime[q] = run.starttime[p]
  /\ run.total = Cardinality(Turnarounds(run.endtime))

LEMMA InOrderEnds ==
  ASSUME Inputs, Accounts, TotalOK, InOrder, \A p \in Procs : Finished(p)
  PROVE  InTurn([starttime |-> starttime, endtime |-> endtime, total |-> total_turnaround_time])
<1> DEFINE run == [starttime |-> starttime, endtime |-> endtime, total |-> total_turnaround_time]
<1>1. \A p \in Procs : /\ endtime[p] \in Nat /\ starttime[p] \in Nat /\ Started(p)
                       /\ arrivaltime[p] <= starttime[p]
  <2> SUFFICES ASSUME NEW p \in Procs
               PROVE  /\ endtime[p] \in Nat /\ starttime[p] \in Nat /\ Started(p)
                      /\ arrivaltime[p] <= starttime[p]
    OBVIOUS
  <2>1. endtime[p] \in Nat
    BY DEF Finished, Accounts
  <2>2. remainingtime[p] = 0 /\ runtime[p] > 0
    BY ProcFacts DEF Accounts
  <2>3. Started(p)
    BY <2>2, ProcFacts DEF Accounts
  <2> QED
    BY <2>1, <2>3 DEF Accounts, Started
<1>2. total_turnaround_time \in Nat
  BY FS_CardinalityType DEF TotalOK
<1>3. starttime \in [Procs -> Nat] /\ endtime \in [Procs -> Nat]
  BY <1>1 DEF Accounts
<1>4. run \in [starttime : [Procs -> Nat], endtime : [Procs -> Nat], total : Nat]
  BY <1>2, <1>3
<1>5. run.starttime = starttime /\ run.endtime = endtime /\ run.total = total_turnaround_time
  OBVIOUS
<1>6. \A p \in Procs :
       /\ endtime[p] = starttime[p] + runtime[p] /\ arrivaltime[p] <= starttime[p]
       /\ \A q \in Procs : First(q, p) => endtime[q] <= starttime[p]
       /\ \/ starttime[p] = arrivaltime[p]
          \/ \E q \in Procs : First(q, p) /\ endtime[q] = starttime[p]
  BY <1>1 DEF InOrder
<1> HIDE DEF run
<1>7. InTurn(run)
  BY <1>4, <1>5, <1>6 DEF InTurn, TotalOK
<1> QED
  BY <1>7 DEF run

(* There is only one such round. *)
LEMMA OneOrder ==
  ASSUME Inputs, NEW r, NEW s, InTurn(r), InTurn(s)
  PROVE  r = s
<1>1. /\ r.starttime \in [Procs -> Nat] /\ s.starttime \in [Procs -> Nat]
      /\ r.endtime \in [Procs -> Nat] /\ s.endtime \in [Procs -> Nat]
  BY DEF InTurn
<1> DEFINE Differ == {p \in Procs : r.starttime[p] # s.starttime[p]}
<1>2. ASSUME NEW a, NEW b, InTurn(a), InTurn(b), NEW p \in Procs,
             \A q \in Procs : First(q, p) => a.starttime[q] = b.starttime[q]
      PROVE  ~(a.starttime[p] < b.starttime[p])
  <2> SUFFICES ASSUME a.starttime[p] < b.starttime[p] PROVE FALSE
    OBVIOUS
  <2>1. /\ a.starttime \in [Procs -> Nat] /\ b.starttime \in [Procs -> Nat]
        /\ a.endtime \in [Procs -> Nat] /\ b.endtime \in [Procs -> Nat]
    BY <1>2 DEF InTurn
  <2>2. arrivaltime[p] <= a.starttime[p] /\ arrivaltime[p] \in Nat
    BY <1>2, ProcFacts DEF InTurn
  <2>3. b.starttime[p] # arrivaltime[p]
    BY <2>1, <2>2
  <2>4. PICK q \in Procs : First(q, p) /\ b.endtime[q] = b.starttime[p]
    BY <1>2, <2>3 DEF InTurn
  <2>5. a.endtime[q] <= a.starttime[p] /\ a.endtime[q] = a.starttime[q] + runtime[q]
        /\ b.endtime[q] = b.starttime[q] + runtime[q]
    BY <1>2, <2>4 DEF InTurn
  <2>6. a.endtime[q] = b.endtime[q]
    BY <1>2, <2>4, <2>5
  <2> QED
    BY <2>1, <2>4, <2>5, <2>6
<1>3. Differ = {}
  <2> SUFFICES ASSUME Differ # {} PROVE FALSE
    OBVIOUS
  <2>1. PICK p \in Differ : \A q \in Differ : \/ arrivaltime[p] < arrivaltime[q]
                                              \/ arrivaltime[p] = arrivaltime[q] /\ p <= q
    <3>1. Differ \in SUBSET Procs /\ arrivaltime \in [Procs -> Nat]
      BY DEF Inputs
    <3> HIDE DEF Differ
    <3> QED
      BY <3>1, FirstLeastIs
  <2>2. \A q \in Differ : ~First(q, p)
    <3> SUFFICES ASSUME NEW q \in Differ PROVE ~First(q, p)
      OBVIOUS
    <3>1. p \in Nat /\ q \in Nat /\ arrivaltime[p] \in Nat /\ arrivaltime[q] \in Nat
      BY ProcFacts
    <3> QED
      BY <2>1, <3>1 DEF First
  <2>3. \A q \in Procs : First(q, p) => r.starttime[q] = s.starttime[q]
    BY <2>2
  <2>4. ~(r.starttime[p] < s.starttime[p]) /\ ~(s.starttime[p] < r.starttime[p])
    BY <1>2, <2>3
  <2>5. r.starttime[p] \in Nat /\ s.starttime[p] \in Nat
    BY <1>1
  <2> QED
    BY <2>4, <2>5
<1>4. r.starttime = s.starttime
  BY <1>1, <1>3
<1>5. \A p \in Procs : r.endtime[p] = s.endtime[p]
  BY <1>4 DEF InTurn
<1>6. r.endtime = s.endtime
  BY <1>1, <1>5
<1>7. r.total = s.total
  BY <1>6 DEF InTurn
<1>8. r = [starttime |-> r.starttime, endtime |-> r.endtime, total |-> r.total]
      /\ s = [starttime |-> s.starttime, endtime |-> s.endtime, total |-> s.total]
  BY DEF InTurn
<1> QED
  BY <1>4, <1>6, <1>7, <1>8

-----------------------------------------------------------------------------
(* Round robin with a quantum that no run time reaches. *)

Short == \A p \in Procs : runtime[p] < quantum

(* Nobody is preempted, so the queue stays in the order of arrival behind  *)
(* the process that runs.                                                  *)
Sorted ==
  scheduler = RR /\ Short =>
    /\ \A a, b \in Procs : Before(rrQueue, a, b) => First(a, b)
    /\ \A p \in Contents(rrQueue) : ~Started(p)
    /\ current_pid # None =>
         /\ \A b \in Contents(rrQueue) : First(current_pid, b)
         /\ ~Finished(current_pid) =>
              time_on_cpu + 1 = runtime[current_pid] - remainingtime[current_pid]

LEMMA BeforeIsIn ==
  ASSUME NEW q, NEW a, NEW b, Before(q, a, b) PROVE a \in Contents(q) /\ b \in Contents(q)
BY DEF Before, Contents

LEMMA SortedChoice ==
  ASSUME Inputs, Accounts, RoundRobinOK, scheduler = RR, Sorted, Short
  PROVE  LET x == round_robin.pid
             queue == round_robin.queue
         IN  /\ \A a, b \in Candidates : Before(queue, a, b) => First(a, b)
             /\ x # None => \A q \in Candidates : q = x \/ First(x, q)
             /\ \A q \in Candidates : q # x => ~Started(q)
             /\ x # None => round_robin.time = runtime[x] - remainingtime[x]
<1> DEFINE queue == round_robin.queue
<1>1. PICK x : x = round_robin.pid
  OBVIOUS
<1>2. /\ x \in Candidates \cup {None} /\ Contents(queue) = Candidates \ {x}
      /\ \A a, b : Before(queue, a, b) => InFront(a, b)
      /\ Stays => x = current_pid /\ round_robin.time = time_on_cpu + 1
      /\ ~Stays => round_robin.time = 0 /\ \A b \in Contents(queue) : InFront(x, b)
  BY <1>1, RoundRobinChoice
<1> HIDE DEF queue
<1>3. /\ Contents(rrQueue) = Unfinished \ {current_pid} /\ current_pid \in Procs \cup {None}
      /\ time_on_cpu \in 0 .. quantum - 1
  BY DEF RoundRobinOK
<1>4. /\ Candidates = Unfinished \cup Arriving /\ Candidates \subseteq Procs
      /\ \A p \in Procs : p # None
  BY CandidatesAre, ProcFacts
<1>5. /\ \A a, b \in Procs : Before(rrQueue, a, b) => First(a, b)
      /\ \A p \in Contents(rrQueue) : ~Started(p)
      /\ current_pid # None =>
           /\ \A b \in Contents(rrQueue) : First(current_pid, b)
           /\ ~Finished(current_pid) =>
                time_on_cpu + 1 = runtime[current_pid] - remainingtime[current_pid]
  BY DEF Sorted
<1>6. TurnOver => Finished(current_pid)
  <2> SUFFICES ASSUME TurnOver, ~Finished(current_pid) PROVE FALSE
    OBVIOUS
  <2>1. current_pid \in Procs /\ time_on_cpu + 1 >= quantum
    BY <1>3 DEF TurnOver, QuantumOver
  <2>2. time_on_cpu + 1 = runtime[current_pid] - remainingtime[current_pid]
    BY <1>5 DEF TurnOver
  <2>3. /\ runtime[current_pid] \in Nat /\ remainingtime[current_pid] \in Nat /\ quantum \in Nat
        /\ runtime[current_pid] < quantum
    BY <2>1, ProcFacts DEF Short, Accounts, Inputs
  <2> QED
    BY <1>3, <2>1, <2>2, <2>3
<1>7. \A p \in Arriving : p \in Procs /\ arrivaltime[p] = current_time /\ ~Started(p) /\ p \in Nat
  <2> SUFFICES ASSUME NEW p \in Arriving
               PROVE  p \in Procs /\ arrivaltime[p] = current_time /\ ~Started(p) /\ p \in Nat
    OBVIOUS
  <2>1. p \in Procs /\ arrivaltime[p] = current_time
    BY DEF Arriving
  <2>2. Started(p) => starttime[p] \in Nat /\ arrivaltime[p] <= starttime[p] /\ starttime[p] < current_time
    BY <2>1 DEF Accounts, Started
  <2> QED
    BY <2>1, <2>2, ProcFacts DEF Accounts
<1>8. \A p \in Unfinished : p \in Procs /\ arrivaltime[p] < current_time /\ ~Finished(p)
  BY DEF Unfinished
<1>9. ASSUME NEW a \in Candidates, NEW b \in Candidates, InFront(a, b) PROVE First(a, b)
  <2>1. CASE Before(rrQueue, a, b)
    BY <1>4, <1>5, <2>1
  <2>2. CASE a \in Contents(rrQueue) /\ b \in Arriving
    BY <1>3, <1>7, <1>8, <2>2 DEF First
  <2>3. CASE a \in Arriving /\ b \in Arriving /\ a < b
    BY <1>7, <2>3 DEF First
  <2>4. ~(b = current_pid /\ TurnOver)
    BY <1>6 DEF Candidates
  <2> QED
    BY <1>9, <2>1, <2>2, <2>3, <2>4 DEF InFront
<1>10. \A a, b \in Candidates : Before(queue, a, b) => First(a, b)
  BY <1>2, <1>9
<1>11. ASSUME x # None, NEW q \in Candidates, q # x PROVE First(x, q)
  <2>1. q \in Contents(queue) /\ x \in Candidates
    BY <1>2, <1>11
  <2>2. CASE ~Stays
    BY <1>2, <1>9, <2>1, <2>2
  <2>3. CASE Stays
    <3>1. x = current_pid /\ current_pid # None /\ arrivaltime[current_pid] < current_time
      BY <1>2, <2>3, CurrentArrived DEF Stays
    <3>2. CASE q \in Unfinished
      BY <1>3, <1>5, <1>11, <3>1, <3>2
    <3>3. CASE q \in Arriving
      BY <1>7, <3>1, <3>3 DEF First
    <3> QED
      BY <1>4, <3>2, <3>3
  <2> QED
    BY <2>2, <2>3
<1>12. ASSUME NEW q \in Candidates, q # current_pid \/ ~Stays PROVE ~Started(q)
  <2>1. q # current_pid
    BY <1>4, <1>6, <1>12 DEF Stays, Candidates
  <2> QED
    BY <1>3, <1>4, <1>5, <1>7, <2>1
<1>13. \A q \in Candidates : q # x => ~Started(q)
  BY <1>2, <1>12
<1>14. ASSUME x # None PROVE round_robin.time = runtime[x] - remainingtime[x]
  <2>1. x \in Candidates /\ x \in Procs /\ ~Finished(x)
    BY <1>2, <1>4, <1>14 DEF Candidates
  <2>2. runtime[x] \in Nat /\ remainingtime[x] \in Nat /\ remainingtime[x] <= runtime[x]
    BY <2>1, ProcFacts DEF Accounts
  <2>3. CASE Stays
    BY <1>2, <1>5, <2>1, <2>3 DEF Stays
  <2>4. CASE ~Stays
    <3>1. ~Started(x)
      BY <1>12, <2>1, <2>4
    <3>2. ~(remainingtime[x] < runtime[x])
      BY <2>1, <3>1 DEF Accounts
    <3> QED
      BY <1>2, <2>2, <2>4, <3>2
  <2> QED
    BY <2>3, <2>4
<1> QED
  BY <1>1, <1>10, <1>11, <1>13, <1>14 DEF queue

LEMMA SortedTick ==
  ASSUME Inputs, Accounts, RoundRobinOK, Sorted, TickRoundRobin
  PROVE  Sorted'
<1>1. PICK x : x = round_robin.pid
  OBVIOUS
<1>2. /\ scheduler = RR /\ Tick(x) /\ rrQueue' = round_robin.queue /\ current_pid' = x
      /\ time_on_cpu' = round_robin.time
  BY <1>1 DEF TickRoundRobin
<1>3. /\ x \in Candidates \cup {None} /\ Good(rrQueue') /\ Contents(rrQueue') = Candidates \ {x}
  BY <1>1, <1>2, RoundRobinChoice
<1>4. /\ arrivaltime' = arrivaltime /\ runtime' = runtime /\ quantum' = quantum
      /\ \A p \in Procs : Finished(p)' <=> (Finished(p) \/ (p = x /\ remainingtime[p] = 1))
      /\ \A p \in Procs : Started(p)' <=> (Started(p) \/ p = x)
      /\ \A p \in Procs : remainingtime'[p] = IF p = x THEN remainingtime[p] - 1 ELSE remainingtime[p]
      /\ x # None => x \in Procs /\ remainingtime[x] \in Nat
  BY <1>2, <1>3, TickFacts
<1> SUFFICES ASSUME Short' PROVE Sorted'
  BY DEF Sorted
<1>5. Short
  BY <1>4 DEF Short
<1>6. /\ \A a, b \in Candidates : Before(rrQueue', a, b) => First(a, b)
      /\ x # None => \A q \in Candidates : q = x \/ First(x, q)
      /\ \A q \in Candidates : q # x => ~Started(q)
      /\ x # None => time_on_cpu' = runtime[x] - remainingtime[x]
  BY <1>1, <1>2, <1>5, SortedChoice
<1>7. /\ Contents(rrQueue)' = Contents(rrQueue')
      /\ \A a, b : Before(rrQueue, a, b)' <=> Before(rrQueue', a, b)
      /\ \A a, b : First(a, b)' <=> First(a, b)
  BY <1>4 DEF Contents, Before, Item, First
<1>8. \A a, b : Before(rrQueue, a, b)' => First(a, b)'
  BY <1>3, <1>6, <1>7, BeforeIsIn
<1>9. \A p \in Contents(rrQueue)' : ~Started(p)' /\ (x # None => First(x, p)')
  BY <1>3, <1>4, <1>6, <1>7, CandidatesAre
<1>10. ASSUME x # None PROVE time_on_cpu' + 1 = runtime'[x] - remainingtime'[x]
  <2>1. runtime[x] \in Nat /\ remainingtime'[x] = remainingtime[x] - 1
    BY <1>4, <1>10, ProcFacts
  <2> QED
    BY <1>4, <1>6, <1>10, <2>1
<1> QED
  BY <1>2, <1>8, <1>9, <1>10 DEF Sorted

-----------------------------------------------------------------------------
(* What is printed. *)

Orderly == scheduler = FCFS \/ (scheduler = RR /\ Short) => InOrder

PrintedOK ==
  /\ printed \in Seq(Lines) /\ Len(printed) = scheduler
  /\ scheduler > FCFS => InTurn(printed[FCFS + 1])
  /\ scheduler > RR /\ Short => InTurn(printed[RR + 1])

OrderInv == Core /\ TotalOK /\ Sorted /\ Orderly /\ PrintedOK

LEMMA OrderInit == Init => OrderInv
<1> SUFFICES ASSUME Init PROVE OrderInv
  OBVIOUS
<1>1. Core /\ TotalOK
  BY CoreInit, TotalInit
<1>2. scheduler = 0 /\ printed = <<>> /\ current_time = 0
  BY DEF Init, FCFS
<1>3. \A p \in Procs : ~Started(p) /\ ~Finished(p)
  BY DEF Init, Started, Finished
<1>4. InOrder
  BY <1>1, <1>2, <1>3, InOrderStart DEF Core
<1>5. PrintedOK
  BY <1>2 DEF PrintedOK, FCFS, RR
<1> QED
  BY <1>1, <1>2, <1>4, <1>5 DEF OrderInv, Sorted, Orderly, RR

(* The inputs stay, and with them whatever speaks of them only. *)
LEMMA InputsStay ==
  ASSUME UNCHANGED inputs
  PROVE  (Short' <=> Short) /\ (\A r : InTurn(r)' <=> InTurn(r))
<1>1. arrivaltime' = arrivaltime /\ runtime' = runtime /\ quantum' = quantum
  BY DEF inputs
<1>2. \A p, q : First(p, q)' <=> First(p, q)
  BY <1>1 DEF First
<1>3. \A e : Turnarounds(e)' = Turnarounds(e)
  BY <1>1 DEF Turnarounds
<1> QED
  BY <1>1, <1>2, <1>3 DEF Short, InTurn

(* A tick under any scheduler, and the stutter. *)
LEMMA OrderTick ==
  ASSUME OrderInv, \/ TickFcfs \/ TickSrt \/ TickRoundRobin \/ TickPriority
  PROVE  Sorted' /\ Orderly' /\ PrintedOK'
<1>1. Inputs /\ Accounts /\ RoundRobinOK /\ Sorted /\ Orderly /\ PrintedOK
  BY DEF OrderInv, Core
<1>2. scheduler' = scheduler /\ printed' = printed /\ UNCHANGED inputs
  BY DEF TickFcfs, TickSrt, TickRoundRobin, TickPriority, Tick
<1>3. (Short' <=> Short) /\ (\A r : InTurn(r)' <=> InTurn(r))
  BY <1>2, InputsStay
<1>4. PrintedOK'
  <2>1. InTurn(printed[FCFS + 1])' <=> InTurn(printed[FCFS + 1])
    BY <1>2 DEF InTurn, First, Turnarounds, inputs
  <2>2. InTurn(printed[RR + 1])' <=> InTurn(printed[RR + 1])
    BY <1>2 DEF InTurn, First, Turnarounds, inputs
  <2> QED
    BY <1>1, <1>2, <1>3, <2>1, <2>2 DEF PrintedOK
<1>5. CASE TickFcfs
  <2>1. PICK x : x = first_come_first_served
    OBVIOUS
  <2>2. scheduler = FCFS /\ Tick(x)
    BY <1>5, <2>1 DEF TickFcfs
  <2>3. /\ x \in Candidates \cup {None} /\ (x = None => Candidates = {})
        /\ x # None => \A q \in Candidates : q = x \/ First(x, q)
    <3>1. Candidates \in SUBSET Procs /\ arrivaltime \in [Procs -> Nat]
      BY <1>1, CandidatesAre DEF Inputs
    <3>2. /\ Candidates = {} => x = None
          /\ Candidates # {} =>
               /\ x \in Candidates
               /\ \A q \in Candidates : \/ arrivaltime[x] < arrivaltime[q]
                                        \/ arrivaltime[x] = arrivaltime[q] /\ x <= q
      BY <2>1, <3>1, FirstLeastIs DEF first_come_first_served
    <3>3. \A q \in Candidates : q \in Nat /\ q # None
      BY <1>1, <3>1, ProcFacts
    <3> QED
      BY <3>2, <3>3 DEF First
  <2>4. InOrder'
    BY <1>1, <2>2, <2>3, InOrderTick DEF Orderly
  <2>5. scheduler' # RR
    BY <1>2, <2>2 DEF FCFS, RR
  <2> QED
    BY <1>4, <2>4, <2>5 DEF Sorted, Orderly
<1>6. CASE TickRoundRobin
  <2>1. PICK x : x = round_robin.pid
    OBVIOUS
  <2>2. scheduler = RR /\ Tick(x)
    BY <1>6, <2>1 DEF TickRoundRobin
  <2>3. Sorted'
    BY <1>1, <1>6, SortedTick
  <2>4. ASSUME Short PROVE InOrder'
    <3>1. x \in Candidates \cup {None} /\ (x = None => Candidates = {})
      BY <1>1, <2>1, <2>2, RoundRobinChoice
    <3>2. x # None => \A q \in Candidates : q = x \/ First(x, q)
      BY <1>1, <2>1, <2>2, <2>4, SortedChoice
    <3> QED
      BY <1>1, <2>2, <2>4, <3>1, <3>2, InOrderTick DEF Orderly
  <2>5. scheduler' # FCFS
    BY <1>2, <2>2 DEF FCFS, RR
  <2> QED
    BY <1>3, <1>4, <2>3, <2>4, <2>5 DEF Orderly
<1>7. CASE TickSrt \/ TickPriority
  <2>1. scheduler' \notin {FCFS, RR}
    BY <1>2, <1>7 DEF TickSrt, TickPriority, FCFS, SRT, RR, RRP
  <2> QED
    BY <1>4, <2>1 DEF Sorted, Orderly
<1> QED
  BY <1>5, <1>6, <1>7

LEMMA OrderNext ==
  ASSUME OrderInv, NextScheduler
  PROVE  Sorted' /\ Orderly' /\ PrintedOK'
<1>1. Inputs /\ Accounts /\ RoundRobinOK /\ TotalOK /\ Orderly /\ PrintedOK
  BY DEF OrderInv, Core
<1>2. /\ scheduler' = scheduler + 1 /\ scheduler # Over
      /\ \A p \in Procs : Finished(p) /\ ~Finished(p)' /\ ~Started(p)'
      /\ Inputs'
  BY <1>1, NextFacts
<1>3. /\ rrQueue' = EmptyQueue /\ current_time' = 0 /\ UNCHANGED inputs
      /\ UNCHANGED <<current_pid, time_on_cpu>>
  BY DEF NextScheduler
<1>4. scheduler \in {0, 1, 2, 3}
  BY <1>1, <1>2 DEF Accounts, FCFS, SRT, RR, RRP, Over
<1>5. Sorted'
  <2>1. scheduler' = RR => current_pid' = None
    BY <1>1, <1>2, <1>3, <1>4 DEF RoundRobinOK, FCFS, SRT, RR
  <2>2. Contents(rrQueue)' = {} /\ \A a, b : ~Before(rrQueue, a, b)'
    BY <1>3, EmptyIsGood, BeforeIsIn
  <2> QED
    BY <2>1, <2>2 DEF Sorted
<1>6. InOrder'
  <2>1. \A p \in Procs : ~(arrivaltime'[p] < current_time')
    BY <1>2, <1>3 DEF Inputs
  <2> QED
    BY <1>2, <2>1 DEF InOrder
<1> DEFINE run == [starttime |-> starttime, endtime |-> endtime, total |-> total_turnaround_time]
<1>7. PICK r : r = run
  OBVIOUS
<1>8. /\ printed \in Seq(Lines) /\ Len(printed) = scheduler /\ r \in Lines
      /\ printed' = Append(printed, r)
  <2>1. total_turnaround_time \in Nat
    BY <1>1, FS_CardinalityType DEF TotalOK
  <2> QED
    BY <1>1, <1>7, <2>1 DEF PrintedOK, Accounts, Lines, NextScheduler
<1>9. /\ printed' \in Seq(Lines) /\ Len(printed') = scheduler'
      /\ printed'[scheduler + 1] = r
      /\ \A k \in 1 .. scheduler : printed'[k] = printed[k]
  BY <1>2, <1>4, <1>8
<1>10. (Short' <=> Short) /\ (\A s : InTurn(s)' <=> InTurn(s))
  BY <1>3, InputsStay
<1>11. scheduler = FCFS \/ (scheduler = RR /\ Short) => InTurn(r)
  BY <1>1, <1>2, <1>7, InOrderEnds DEF Orderly
<1>12. PICK f : f = printed'
  OBVIOUS
<1>13. InTurn(f[1])
  <2>1. CASE scheduler = 0
    BY <1>9, <1>11, <1>12, <2>1 DEF FCFS
  <2>2. CASE scheduler # 0
    <3>1. 1 \in 1 .. scheduler /\ scheduler > 0
      BY <1>4, <2>2
    <3> QED
      BY <1>1, <1>9, <1>12, <3>1 DEF PrintedOK, FCFS
  <2> QED
    BY <2>1, <2>2
<1>14. scheduler' > 2 /\ Short => InTurn(f[3])
  <2>1. CASE scheduler = 2
    BY <1>9, <1>11, <1>12, <2>1 DEF RR
  <2>2. CASE scheduler = 3
    <3>1. 3 \in 1 .. scheduler /\ scheduler > 2
      BY <2>2
    <3> QED
      BY <1>1, <1>9, <1>12, <3>1 DEF PrintedOK, RR
  <2>3. CASE scheduler \in {0, 1}
    BY <1>2, <2>3
  <2> QED
    BY <1>4, <2>1, <2>2, <2>3
<1>15. InTurn(f[1])' /\ (scheduler' > 2 /\ Short' => InTurn(f[3])')
  <2>1. InTurn(f[1])' <=> InTurn(f[1])
    BY <1>10
  <2>2. InTurn(f[3])' <=> InTurn(f[3])
    BY <1>10
  <2> QED
    BY <1>10, <1>13, <1>14, <2>1, <2>2
<1>16. InTurn(printed[1])' /\ (scheduler' > 2 /\ Short' => InTurn(printed[3])')
  BY <1>12, <1>15 DEF InTurn, First, Turnarounds
<1>17. PrintedOK'
  BY <1>9, <1>16 DEF PrintedOK, FCFS, RR, Lines
<1> QED
  BY <1>5, <1>6, <1>17 DEF Orderly

LEMMA OrderInvariant == Spec => []OrderInv
<1>1. Init => OrderInv
  BY OrderInit
<1>2. OrderInv /\ [Next]_vars => OrderInv'
  <2> SUFFICES ASSUME OrderInv, [Next]_vars PROVE OrderInv'
    OBVIOUS
  <2>1. Core' /\ TotalOK'
    BY CoreStep, TotalStep DEF OrderInv
  <2>2. CASE UNCHANGED vars
    <3>1. UNCHANGED <<arrivaltime, runtime, priority, quantum, scheduler, starttime, remainingtime,
                      endtime, current_time, rrQueue, current_pid, time_on_cpu, printed>>
      BY <2>2 DEF vars, inputs, queues
    <3>2. (Short' <=> Short) /\ (\A r : InTurn(r)' <=> InTurn(r))
      BY <2>2, InputsStay DEF vars
    <3>3. Sorted'
      BY <3>1, <3>2 DEF OrderInv, Sorted, First, Started, Finished, Before, Contents, Item
    <3>4. InOrder' <=> InOrder
      BY <3>1 DEF InOrder, First, Started, Finished
    <3>5. Orderly'
      BY <3>1, <3>2, <3>4 DEF OrderInv, Orderly
    <3>6. PrintedOK'
      BY <3>1, <3>2 DEF OrderInv, PrintedOK, Lines
    <3> QED
      BY <2>1, <3>3, <3>5, <3>6 DEF OrderInv
  <2>3. CASE TickFcfs \/ TickSrt \/ TickRoundRobin \/ TickPriority
    BY <2>1, <2>3, OrderTick DEF OrderInv
  <2>4. CASE NextScheduler
    BY <2>1, <2>4, OrderNext DEF OrderInv
  <2> QED
    BY <2>2, <2>3, <2>4 DEF Next
<1> QED
  BY <1>1, <1>2, PTL DEF Spec

(* Every variable of the simulator keeps its type: the queues never hold   *)
(* more than there are processes, so enqueue never drops one               *)
(* (queue.c:29-33), nothing runs longer than it should                     *)
(* (scheduling.c:152-157), and each scheduler has its line in the output.  *)
THEOREM SchedulerTypeCorrect == Spec => []TypeOK
<1>1. ASSUME OrderInv PROVE TypeOK
  <2>1. Inputs /\ Accounts /\ RoundRobinOK /\ PriorityOK
    BY <1>1 DEF OrderInv, Core
  <2>2. remainingtime \in [Procs -> 0 .. Max(RunTimes)]
    BY <2>1, LeftType
  <2>3. total_turnaround_time \in Nat
    BY <1>1, FS_CardinalityType DEF OrderInv, TotalOK
  <2>4. QueueOK(rrQueue) /\ \A c \in Priorities : QueueOK(priorityQueue[c])
    BY <2>1, GoodIsOK DEF RoundRobinOK, PriorityOK
  <2>5. /\ starttime \in [Procs -> 0 .. current_time - 1 \cup {None}]
        /\ endtime \in [Procs -> 1 .. current_time \cup {None}]
    <3>1. /\ starttime \in [Procs -> Nat \cup {None}] /\ endtime \in [Procs -> Nat \cup {None}]
          /\ current_time \in Nat
      BY <2>1 DEF Accounts
    <3>2. ASSUME NEW p \in Procs
          PROVE  /\ starttime[p] \in 0 .. current_time - 1 \cup {None}
                 /\ endtime[p] \in 1 .. current_time \cup {None}
      <4>1. /\ starttime[p] \in Nat \cup {None} /\ endtime[p] \in Nat \cup {None}
            /\ arrivaltime[p] \in Nat
        BY <2>1, <3>1, ProcFacts
      <4>2. /\ starttime[p] # None => starttime[p] < current_time
            /\ endtime[p] # None => arrivaltime[p] < endtime[p] /\ endtime[p] <= current_time
        BY <2>1 DEF Accounts, Started, Finished
      <4>3. starttime[p] \in 0 .. current_time - 1 \cup {None}
        BY <3>1, <4>1, <4>2
      <4>4. endtime[p] \in 1 .. current_time \cup {None}
        BY <3>1, <4>1, <4>2
      <4> QED
        BY <4>3, <4>4
    <3> QED
      BY <3>1, <3>2
  <2>6. printed \in Seq(Lines) /\ Len(printed) = scheduler
    BY <1>1 DEF OrderInv, PrintedOK
  <2>7. /\ arrivaltime \in [Procs -> Nat] /\ runtime \in [Procs -> RunTimes]
        /\ priority \in [Procs -> Priorities] /\ quantum \in Nat \ {0}
    BY <2>1 DEF Inputs
  <2>8. /\ scheduler \in {FCFS, SRT, RR, RRP, Over} /\ current_time \in Nat
        /\ num_finished = Cardinality({p \in Procs : Finished(p)})
        /\ timeline \in Seq(Procs \cup {None}) /\ Len(timeline) = current_time
    BY <2>1 DEF Accounts
  <2>9. current_pid \in Procs \cup {None} /\ time_on_cpu \in 0 .. quantum - 1
    BY <2>1 DEF RoundRobinOK
  <2> QED
    BY <2>2, <2>3, <2>4, <2>5, <2>6, <2>7, <2>8, <2>9 DEF TypeOK
<1> QED
  BY <1>1, OrderInvariant, PTL

(* First come first served looks for the earliest arrival anew in every    *)
(* tick, and yet each process runs from its first tick to its last, in the *)
(* order of arrival (scheduling.c:195-204).                                *)
THEOREM FirstComeIsServed == Spec => []FcfsNeverPreempts
<1>1. ASSUME OrderInv PROVE FcfsNeverPreempts
  <2> SUFFICES ASSUME scheduler > FCFS, NEW p \in Procs, NEW q \in Procs
               PROVE  LET run == printed[FCFS + 1] IN
                      /\ run.endtime[p] - run.starttime[p] = runtime[p]
                      /\ arrivaltime[p] < arrivaltime[q] => run.endtime[p] <= run.starttime[q]
    BY DEF FcfsNeverPreempts
  <2>1. PICK run : run = printed[FCFS + 1]
    OBVIOUS
  <2>2. InTurn(run)
    BY <1>1, <2>1 DEF OrderInv, PrintedOK
  <2>3. /\ run.starttime[p] \in Nat /\ runtime[p] \in Nat
        /\ run.endtime[p] = run.starttime[p] + runtime[p]
        /\ First(p, q) => run.endtime[p] <= run.starttime[q]
    BY <1>1, <2>2, ProcFacts DEF InTurn, OrderInv, Core
  <2> QED
    BY <2>1, <2>3 DEF First
<1> QED
  BY <1>1, OrderInvariant, PTL

(* With a quantum that no run time reaches, as the 50 of the source,       *)
(* round_robin prints what first_come_first_served did                     *)
(* (scheduling.c:76, 195-204, 233-270).                                    *)
THEOREM LongQuantumIsFcfs == Spec => []RoundRobinIsFcfs
<1>1. ASSUME OrderInv PROVE RoundRobinIsFcfs
  <2> SUFFICES ASSUME scheduler > RR, \A p \in Procs : runtime[p] < quantum
               PROVE  printed[RR + 1] = printed[FCFS + 1]
    BY DEF RoundRobinIsFcfs
  <2>1. Inputs /\ Short /\ scheduler > FCFS
    BY <1>1 DEF OrderInv, Core, Short, Accounts, FCFS, SRT, RR, RRP, Over
  <2>2. PICK r, s : r = printed[RR + 1] /\ s = printed[FCFS + 1]
    OBVIOUS
  <2>3. InTurn(r) /\ InTurn(s)
    BY <1>1, <2>1, <2>2 DEF OrderInv, PrintedOK
  <2> QED
    BY <2>1, <2>2, <2>3, OneOrder
<1> QED
  BY <1>1, OrderInvariant, PTL

-----------------------------------------------------------------------------
(* Turns. *)

(* The ticks in which q ran while p waited. *)
TurnsOf(p, q) ==
  {t \in 1 .. Len(timeline) :
     /\ timeline[t] = q /\ arrivaltime[p] < t
     /\ \A s \in 1 .. Len(timeline) : timeline[s] = p => s < t}
Turns(p, q) == Cardinality(TurnsOf(p, q))

LEMMA TurnsAre ==
  ASSUME Inputs, Accounts, NEW p \in Procs, NEW q
  PROVE  {t \in Waited(p) : timeline[t] = q} = TurnsOf(p, q)
<1> DEFINE ran == {t \in 1 .. Len(timeline) : timeline[t] = p}
<1>1. /\ p # None /\ arrivaltime[p] \in Nat /\ Len(timeline) \in Nat
      /\ \A k \in 1 .. Len(timeline) : timeline[k] = p => arrivaltime[p] < k
  BY ProcFacts DEF Accounts
<1>2. CASE ran = {}
  <2>1. Waited(p) = arrivaltime[p] + 1 .. Len(timeline)
    BY <1>2 DEF Waited
  <2>2. \A s \in 1 .. Len(timeline) : timeline[s] # p
    BY <1>2
  <2>3. \A t : t \in arrivaltime[p] + 1 .. Len(timeline) <=> t \in 1 .. Len(timeline) /\ arrivaltime[p] < t
    BY <1>1
  <2> QED
    BY <2>1, <2>2, <2>3 DEF TurnsOf
<1>3. CASE ran # {}
  <2>1. ran \in SUBSET Int /\ Len(timeline) \in Int /\ \A s \in ran : s <= Len(timeline)
    BY <1>1
  <2>2. PICK m \in ran : m = Max(ran) /\ \A s \in ran : s <= m
    <3> HIDE DEF ran
    <3>1. Max(ran) \in ran /\ \A s \in ran : s <= Max(ran)
      BY <1>3, <2>1, GreatestOf
    <3> QED
      BY <3>1
  <2>3. Waited(p) = m + 1 .. Len(timeline)
    BY <1>3, <2>2 DEF Waited
  <2>4. m \in 1 .. Len(timeline) /\ timeline[m] = p /\ arrivaltime[p] < m
    BY <1>1, <2>2
  <2>5. ASSUME NEW t
        PROVE  t \in m + 1 .. Len(timeline) <=>
                 /\ t \in 1 .. Len(timeline) /\ arrivaltime[p] < t
                 /\ \A s \in 1 .. Len(timeline) : timeline[s] = p => s < t
    <3>1. ASSUME t \in m + 1 .. Len(timeline)
          PROVE  /\ t \in 1 .. Len(timeline) /\ arrivaltime[p] < t
                 /\ \A s \in 1 .. Len(timeline) : timeline[s] = p => s < t
      <4>1. \A s \in 1 .. Len(timeline) : timeline[s] = p => s <= m
        BY <2>2
      <4> QED
        BY <1>1, <2>4, <3>1, <4>1
    <3>2. ASSUME t \in 1 .. Len(timeline), \A s \in 1 .. Len(timeline) : timeline[s] = p => s < t
          PROVE  t \in m + 1 .. Len(timeline)
      <4>1. m < t
        BY <2>4, <3>2
      <4> QED
        BY <1>1, <2>4, <3>2, <4>1
    <3> QED
      BY <3>1, <3>2
  <2> QED
    BY <2>3, <2>5 DEF TurnsOf
<1> QED
  BY <1>2, <1>3

LEMMA TurnsFinite ==
  ASSUME Accounts, NEW p, NEW q
  PROVE  IsFiniteSet(TurnsOf(p, q)) /\ Turns(p, q) \in Nat
<1>1. Len(timeline) \in Nat
  BY DEF Accounts
<1>2. IsFiniteSet(1 .. Len(timeline)) /\ TurnsOf(p, q) \subseteq 1 .. Len(timeline)
  BY <1>1, FS_Interval DEF TurnsOf
<1>3. IsFiniteSet(TurnsOf(p, q))
  BY <1>2, FS_Subset
<1> QED
  BY <1>3, FS_CardinalityType DEF Turns

(* Nobody has had a turn since p arrived or ran. *)
LEMMA NoTurns ==
  ASSUME Accounts, NEW p \in Procs, NEW q,
         p \in Arriving \/ (timeline # <<>> /\ Last(timeline) = p)
  PROVE  Turns(p, q) = 0
<1>1. timeline \in Seq(Procs \cup {None}) /\ Len(timeline) = current_time /\ current_time \in Nat
  BY DEF Accounts
<1>2. TurnsOf(p, q) = {}
  <2> SUFFICES ASSUME NEW t \in TurnsOf(p, q) PROVE FALSE
    OBVIOUS
  <2>1. /\ t \in 1 .. Len(timeline) /\ arrivaltime[p] < t
        /\ \A s \in 1 .. Len(timeline) : timeline[s] = p => s < t
    BY DEF TurnsOf
  <2>2. CASE p \in Arriving
    BY <1>1, <2>1, <2>2 DEF Arriving
  <2>3. CASE timeline # <<>> /\ Last(timeline) = p
    <3>1. Len(timeline) \in 1 .. Len(timeline) /\ timeline[Len(timeline)] = p
      BY <1>1, <2>1, <2>3 DEF Last
    <3>2. Len(timeline) < t
      BY <2>1, <3>1
    <3> QED
      BY <1>1, <2>1, <3>2
  <2> QED
    BY <2>2, <2>3
<1> QED
  BY <1>2, FS_EmptySet DEF Turns

(* A tick that runs x is a turn of x for all who wait, and the end of its own wait. *)
LEMMA TurnsTick ==
  ASSUME Inputs, Accounts, NEW x \in Candidates \cup {None}, Tick(x), NEW p \in Candidates, NEW q \in Procs
  PROVE  /\ p = x => Turns(p, q)' = 0
         /\ p # x => Turns(p, q)' = Turns(p, q) + (IF q = x THEN 1 ELSE 0)
<1>1. /\ timeline' = Append(timeline, x) /\ arrivaltime' = arrivaltime
  BY TickFacts
<1>2. /\ timeline \in Seq(Procs \cup {None}) /\ Len(timeline) = current_time /\ current_time \in Nat
      /\ x \in Procs \cup {None} /\ p \in Procs /\ arrivaltime[p] <= current_time
      /\ arrivaltime[p] \in Nat
  BY CandidatesAre, ProcFacts DEF Accounts, Candidates
<1> DEFINE n == Len(timeline) + 1
<1>3. /\ Len(timeline') = n /\ timeline'[n] = x /\ n \in Nat /\ n \notin 1 .. Len(timeline)
      /\ \A k \in 1 .. Len(timeline) : timeline'[k] = timeline[k]
      /\ 1 .. n = (1 .. Len(timeline)) \cup {n} /\ \A k \in 1 .. Len(timeline) : k < n
      /\ arrivaltime[p] < n
  BY <1>1, <1>2
<1>4. PICK m : m = n
  OBVIOUS
<1> HIDE DEF n
<1>5. TurnsOf(p, q)' = {t \in 1 .. m : /\ timeline'[t] = q /\ arrivaltime[p] < t
                                       /\ \A s \in 1 .. m : timeline'[s] = p => s < t}
  BY <1>1, <1>3, <1>4 DEF TurnsOf
<1>6. CASE p = x
  <2>1. TurnsOf(p, q)' = {}
    <3> SUFFICES ASSUME NEW t \in TurnsOf(p, q)' PROVE FALSE
      OBVIOUS
    <3>1. t \in 1 .. m /\ m < t
      BY <1>3, <1>4, <1>5, <1>6
    <3> QED
      BY <1>3, <1>4, <3>1
  <2> QED
    BY <1>6, <2>1, FS_EmptySet DEF Turns
<1>7. CASE p # x
  <2>1. \A t \in 1 .. Len(timeline) : t \in TurnsOf(p, q)' <=> t \in TurnsOf(p, q)
    <3> SUFFICES ASSUME NEW t \in 1 .. Len(timeline)
                 PROVE  t \in TurnsOf(p, q)' <=> t \in TurnsOf(p, q)
      OBVIOUS
    <3>1. t \in 1 .. m /\ timeline'[t] = timeline[t]
      BY <1>3, <1>4
    <3>2. (\A s \in 1 .. m : timeline'[s] = p => s < t)
            <=> (\A s \in 1 .. Len(timeline) : timeline[s] = p => s < t)
      BY <1>3, <1>4, <1>7
    <3> QED
      BY <1>5, <3>1, <3>2 DEF TurnsOf
  <2>2. m \in TurnsOf(p, q)' <=> q = x
    <3>1. \A s \in 1 .. m : timeline'[s] = p => s < m
      BY <1>3, <1>4, <1>7
    <3> QED
      BY <1>3, <1>4, <1>5, <3>1
  <2>3. TurnsOf(p, q)' \subseteq (1 .. Len(timeline)) \cup {m}
    BY <1>3, <1>4, <1>5
  <2>4. TurnsOf(p, q) \subseteq 1 .. Len(timeline) /\ m \notin 1 .. Len(timeline)
    BY <1>3, <1>4 DEF TurnsOf
  <2>5. TurnsOf(p, q)' = IF q = x THEN TurnsOf(p, q) \cup {m} ELSE TurnsOf(p, q)
    <3>1. PICK A : A = TurnsOf(p, q)
      OBVIOUS
    <3>2. PICK B : B = TurnsOf(p, q)'
      OBVIOUS
    <3>3. PICK L : L = 1 .. Len(timeline)
      OBVIOUS
    <3>4. /\ \A t \in L : t \in B <=> t \in A
          /\ m \in B <=> q = x
          /\ B \subseteq L \cup {m} /\ A \subseteq L /\ m \notin L
      BY <2>1, <2>2, <2>3, <2>4, <3>1, <3>2, <3>3, Zenon
    <3>5. CASE q = x
      <4>1. B = A \cup {m}
        BY <3>4, <3>5
      <4> QED
        BY <3>1, <3>2, <3>5, <4>1
    <3>6. CASE q # x
      <4>1. B = A
        BY <3>4, <3>6
      <4> QED
        BY <3>1, <3>2, <3>6, <4>1
    <3> QED
      BY <3>5, <3>6
  <2>6. IsFiniteSet(TurnsOf(p, q)) /\ Turns(p, q) \in Nat
    BY TurnsFinite
  <2>7. Cardinality(TurnsOf(p, q) \cup {m}) = Cardinality(TurnsOf(p, q)) + 1
    BY <2>4, <2>6, FS_AddElement
  <2> QED
    BY <1>7, <2>5, <2>6, <2>7 DEF Turns
<1> QED
  BY <1>6, <1>7

(* While b waits for its turn, those in front of it have none. *)
RoundRobinTurns ==
  scheduler = RR => \A p \in Unfinished, q \in Procs :
    /\ Turns(p, q) <= quantum
    /\ q = current_pid => Turns(p, q) <= time_on_cpu + 1
    /\ Before(rrQueue, q, p) => Turns(p, q) = 0

PriorityTurns ==
  scheduler = RRP => \A p \in Unfinished, q \in Procs : priority[p] = priority[q] =>
    /\ Turns(p, q) <= 1
    /\ Before(priorityQueue[priority[p]], q, p) => Turns(p, q) = 0

LEMMA RoundRobinTurnsTick ==
  ASSUME Inputs, Accounts, RoundRobinOK, RoundRobinTurns, TickRoundRobin
  PROVE  RoundRobinTurns'
<1>1. PICK x : x = round_robin.pid
  OBVIOUS
<1>2. /\ scheduler = RR /\ Tick(x) /\ rrQueue' = round_robin.queue /\ current_pid' = x
      /\ time_on_cpu' = round_robin.time
  BY <1>1 DEF TickRoundRobin
<1>3. /\ x \in Candidates \cup {None} /\ (x = None => Candidates = {})
      /\ Contents(rrQueue') = Candidates \ {x} /\ time_on_cpu' \in 0 .. quantum - 1
      /\ \A a, b : Before(rrQueue', a, b) => InFront(a, b)
      /\ Stays => x = current_pid /\ time_on_cpu' = time_on_cpu + 1
      /\ ~Stays => time_on_cpu' = 0 /\ \A b \in Contents(rrQueue') : InFront(x, b)
  BY <1>1, <1>2, RoundRobinChoice
<1>4. /\ Unfinished' = {p \in Candidates : ~Finished(p)'} /\ quantum' = quantum
      /\ x # None => x \in Procs
  BY <1>2, <1>3, TickFacts
<1>5. /\ Candidates = Unfinished \cup Arriving /\ Candidates \subseteq Procs
      /\ quantum \in Nat \ {0} /\ time_on_cpu \in 0 .. quantum - 1
      /\ \A p, q \in Procs : Turns(p, q) \in Nat
      /\ Contents(rrQueue) = Unfinished \ {current_pid}
      /\ current_pid # None => timeline # <<>> /\ Last(timeline) = current_pid
  BY <1>2, CandidatesAre, TurnsFinite DEF Inputs, RoundRobinOK
<1>6. ASSUME NEW b \in Candidates, NEW a \in Procs, InFront(a, b) PROVE Turns(b, a) = 0
  <2>1. CASE Before(rrQueue, a, b)
    <3>1. b \in Unfinished
      BY <1>5, <2>1, BeforeIsIn
    <3> QED
      BY <1>2, <2>1, <3>1 DEF RoundRobinTurns
  <2>2. CASE b \in Arriving
    BY <1>5, <2>2, NoTurns
  <2>3. CASE b = current_pid /\ TurnOver
    BY <1>5, <2>3, NoTurns DEF TurnOver
  <2> QED
    BY <1>6, <2>1, <2>2, <2>3 DEF InFront
<1>7. ASSUME NEW p \in Candidates, NEW q \in Procs
      PROVE  /\ Turns(p, q) <= quantum
             /\ q = current_pid => Turns(p, q) <= time_on_cpu + 1
  <2>1. CASE p \in Unfinished
    BY <1>2, <2>1 DEF RoundRobinTurns
  <2>2. CASE p \in Arriving
    <3>1. Turns(p, q) = 0
      BY <1>5, <2>2, NoTurns
    <3> QED
      BY <1>5, <3>1
  <2> QED
    BY <1>5, <2>1, <2>2
<1>8. 0 <= quantum /\ 0 <= time_on_cpu' + 1
  <2>1. PICK u, n : u = time_on_cpu' /\ n = quantum
    OBVIOUS
  <2>2. n \in Nat \ {0} /\ u \in 0 .. n - 1
    BY <1>3, <1>5, <2>1
  <2>3. 0 <= n /\ 0 <= u + 1
    BY <2>2
  <2> QED
    BY <2>1, <2>3
<1>9. ASSUME NEW p \in Candidates, NEW q \in Procs
      PROVE  /\ Turns(p, q)' <= quantum
             /\ q = x => Turns(p, q)' <= time_on_cpu' + 1
             /\ Before(rrQueue', q, p) => Turns(p, q)' = 0
  <2>1. /\ p = x => Turns(p, q)' = 0
        /\ p # x => Turns(p, q)' = Turns(p, q) + (IF q = x THEN 1 ELSE 0)
    BY <1>2, <1>3, TurnsTick
  <2>2. Turns(p, q) \in Nat /\ x \in Procs
    <3>1. x # None /\ p \in Procs
      BY <1>3, <1>5
    <3> QED
      BY <1>4, <1>5, <3>1
  <2>3. CASE p = x
    <3>1. Turns(p, q)' = 0
      BY <2>1, <2>3
    <3> QED
      BY <1>8, <3>1
  <2>4. CASE p # x /\ q # x
    <3>1. Turns(p, q)' = Turns(p, q)
      BY <2>1, <2>2, <2>4
    <3>2. Before(rrQueue', q, p) => Turns(p, q) = 0
      BY <1>3, <1>6
    <3> QED
      BY <1>7, <2>4, <3>1, <3>2
  <2>5. CASE p # x /\ q = x
    <3>1. Turns(p, q)' = Turns(p, q) + 1
      BY <2>1, <2>5
    <3>2. ~Before(rrQueue', q, p)
      BY <1>3, <2>5, BeforeIsIn
    <3>3. CASE Stays
      <4>1. Turns(p, q) <= time_on_cpu + 1
        BY <1>3, <1>7, <2>5, <3>3
      <4> QED
        BY <1>3, <1>5, <2>2, <3>1, <3>2, <3>3, <4>1
    <3>4. CASE ~Stays
      <4>1. Turns(p, q) = 0
        BY <1>3, <1>6, <2>5, <3>4
      <4> QED
        BY <1>3, <1>5, <3>1, <3>2, <3>4, <4>1
    <3> QED
      BY <3>3, <3>4
  <2> QED
    BY <2>3, <2>4, <2>5
<1>10. \A a, b : Before(rrQueue, a, b)' <=> Before(rrQueue', a, b)
  BY DEF Before, Item
<1> QED
  BY <1>2, <1>4, <1>9, <1>10 DEF RoundRobinTurns

LEMMA PriorityTurnsTick ==
  ASSUME Inputs, Accounts, PriorityOK, PriorityTurns, TickPriority
  PROVE  PriorityTurns'
<1>1. PICK x : x = round_robin_priority.pid
  OBVIOUS
<1>2. scheduler = RRP /\ Tick(x) /\ priorityQueue' = round_robin_priority.queue
  BY <1>1 DEF TickPriority
<1>3. PriorityChoice(x, priorityQueue')
  BY <1>1, <1>2, PriorityChosen
<1>4. /\ x \in Candidates \cup {None} /\ (x = None => Candidates = {})
      /\ \A c \in Priorities : \A a, b : Before(priorityQueue'[c], a, b) =>
           a # x /\ (b = x \/ InLine(c, a, b))
      /\ x # None => \A p \in Candidates :
           priority[p] = priority[x] /\ p # x => InLine(priority[x], x, p)
  BY <1>3 DEF PriorityChoice
<1>5. Unfinished' = {p \in Candidates : ~Finished(p)'} /\ priority' = priority
  BY <1>2, <1>4, TickFacts
<1>6. /\ Candidates = Unfinished \cup Arriving /\ Candidates \subseteq Procs
      /\ \A p, q \in Procs : Turns(p, q) \in Nat /\ priority[p] \in Priorities /\ p # None
      /\ \A c \in Priorities :
           {p \in Contents(priorityQueue[c]) : ~Finished(p)} = {p \in Unfinished : priority[p] = c}
  BY <1>2, CandidatesAre, TurnsFinite, ProcFacts DEF PriorityOK
<1>7. ASSUME NEW b \in Candidates, NEW a \in Procs, priority[a] = priority[b],
             InLine(priority[b], a, b)
      PROVE  Turns(b, a) = 0
  <2>1. CASE b \in Arriving
    BY <1>6, <2>1, NoTurns
  <2>2. CASE b \in Unfinished /\ Before(priorityQueue[priority[b]], a, b)
    BY <1>2, <1>7, <2>2 DEF PriorityTurns
  <2> QED
    BY <1>6, <1>7, <2>1, <2>2 DEF InLine
<1>8. ASSUME NEW p \in Candidates, NEW q \in Procs, priority[p] = priority[q]
      PROVE  Turns(p, q) <= 1
  <2>1. CASE p \in Unfinished
    BY <1>2, <1>8, <2>1 DEF PriorityTurns
  <2>2. CASE p \in Arriving
    <3>1. Turns(p, q) = 0
      BY <1>6, <2>2, NoTurns
    <3> QED
      BY <3>1
  <2> QED
    BY <1>6, <2>1, <2>2
<1>9. ASSUME NEW p \in Candidates, NEW q \in Procs, priority[p] = priority[q]
      PROVE  /\ Turns(p, q)' <= 1
             /\ Before(priorityQueue'[priority[p]], q, p) => Turns(p, q)' = 0
  <2>1. /\ p = x => Turns(p, q)' = 0
        /\ p # x => Turns(p, q)' = Turns(p, q) + (IF q = x THEN 1 ELSE 0)
    BY <1>2, <1>4, TurnsTick
  <2>2. Turns(p, q) \in Nat /\ x # None /\ p \in Procs /\ priority[p] \in Priorities
    BY <1>4, <1>6
  <2>3. CASE p = x
    BY <2>1, <2>3
  <2>4. CASE p # x /\ q # x
    <3>1. Turns(p, q)' = Turns(p, q)
      BY <2>1, <2>2, <2>4
    <3>2. Before(priorityQueue'[priority[p]], q, p) => InLine(priority[p], q, p)
      BY <1>4, <2>2, <2>4
    <3>3. Before(priorityQueue'[priority[p]], q, p) => Turns(p, q) = 0
      BY <1>7, <1>9, <3>2
    <3> QED
      BY <1>8, <1>9, <3>1, <3>3
  <2>5. CASE p # x /\ q = x
    <3>1. InLine(priority[p], q, p)
      BY <1>4, <1>9, <2>2, <2>5
    <3>2. Turns(p, q) = 0
      BY <1>7, <1>9, <3>1
    <3>3. ~Before(priorityQueue'[priority[p]], q, p)
      BY <1>4, <2>2, <2>5
    <3> QED
      BY <2>1, <2>5, <3>2, <3>3
  <2> QED
    BY <2>3, <2>4, <2>5
<1>10. \A c, a, b : Before(priorityQueue[c], a, b)' <=> Before(priorityQueue'[c], a, b)
  BY DEF Before, Item
<1>11. \A p \in Unfinished' : p \in Candidates
  BY <1>5
<1>12. scheduler' = RRP => \A p \in Unfinished', q \in Procs : priority'[p] = priority'[q] =>
         /\ Turns(p, q)' <= 1
         /\ Before(priorityQueue'[priority'[p]], q, p) => Turns(p, q)' = 0
  BY <1>5, <1>9, <1>11
<1> QED
  BY <1>12 DEF PriorityTurns, Before, Item

LEMMA TurnsStep ==
  ASSUME Core, RoundRobinTurns, PriorityTurns, [Next]_vars
  PROVE  RoundRobinTurns' /\ PriorityTurns'
<1>1. CASE TickFcfs \/ TickSrt
  <2>1. scheduler' \notin {RR, RRP}
    BY <1>1 DEF TickFcfs, TickSrt, Tick, FCFS, SRT, RR, RRP
  <2> QED
    BY <2>1 DEF RoundRobinTurns, PriorityTurns
<1>2. CASE TickRoundRobin
  <2>1. scheduler' # RRP
    BY <1>2 DEF TickRoundRobin, Tick, RR, RRP
  <2> QED
    BY <1>2, <2>1, RoundRobinTurnsTick DEF Core, PriorityTurns
<1>3. CASE TickPriority
  <2>1. scheduler' # RR
    BY <1>3 DEF TickPriority, Tick, RR, RRP
  <2> QED
    BY <1>3, <2>1, PriorityTurnsTick DEF Core, RoundRobinTurns
<1>4. CASE NextScheduler
  <2>1. Unfinished' = {}
    BY <1>4, NextFacts DEF Core
  <2> QED
    BY <2>1 DEF RoundRobinTurns, PriorityTurns
<1>5. CASE UNCHANGED vars
  <2>1. UNCHANGED <<scheduler, arrivaltime, priority, quantum, endtime, current_time, rrQueue,
                    priorityQueue, current_pid, time_on_cpu, remainingtime, starttime, timeline>>
    BY <1>5 DEF vars, inputs, queues
  <2>2. Unfinished' = Unfinished
    BY <2>1 DEF Unfinished, Finished
  <2>3. \A p, q : Turns(p, q)' = Turns(p, q)
    BY <2>1 DEF Turns, TurnsOf
  <2>4. RoundRobinTurns'
    BY <2>1, <2>2, <2>3 DEF RoundRobinTurns, Before, Item
  <2>5. PriorityTurns'
    BY <2>1, <2>2, <2>3 DEF PriorityTurns, Before, Item
  <2> QED
    BY <2>4, <2>5
<1> QED
  BY <1>1, <1>2, <1>3, <1>4, <1>5 DEF Next

(* While an unfinished process waits for its turn no other gets two:       *)
(* round_robin lets none run for more than a quantum, and                  *)
(* round_robin_priority none of the same priority for more than a tick     *)
(* (scheduling.c:233-301).                                                 *)
THEOREM EveryoneHasATurn == Spec => []TurnsAlternate
<1>1. Init => Core /\ RoundRobinTurns /\ PriorityTurns
  <2> SUFFICES ASSUME Init PROVE Core /\ RoundRobinTurns /\ PriorityTurns
    OBVIOUS
  <2>1. scheduler = FCFS
    BY DEF Init
  <2> QED
    BY <2>1, CoreInit DEF RoundRobinTurns, PriorityTurns, FCFS, RR, RRP
<1>2. Core /\ RoundRobinTurns /\ PriorityTurns /\ [Next]_vars =>
        Core' /\ RoundRobinTurns' /\ PriorityTurns'
  BY CoreStep, TurnsStep
<1>3. ASSUME Core, RoundRobinTurns, PriorityTurns PROVE TurnsAlternate
  <2> SUFFICES ASSUME NEW p \in Unfinished, NEW q \in Procs
               PROVE  LET turns == Cardinality({t \in Waited(p) : timeline[t] = q}) IN
                      /\ scheduler = RR => turns <= quantum
                      /\ scheduler = RRP /\ priority[p] = priority[q] => turns <= 1
    BY DEF TurnsAlternate
  <2>1. p \in Procs /\ Inputs /\ Accounts
    BY <1>3 DEF Unfinished, Core
  <2>2. Cardinality({t \in Waited(p) : timeline[t] = q}) = Turns(p, q)
    BY <2>1, TurnsAre DEF Turns
  <2> QED
    BY <1>3, <2>2 DEF RoundRobinTurns, PriorityTurns
<1> QED
  BY <1>1, <1>2, <1>3, PTL DEF Spec

-----------------------------------------------------------------------------
(* The rival of shortest remaining time.  What is left of the run times is *)
(* a staircase: process p has f[p] of the cells <<p, 1>>, <<p, 2>>, ...    *)
(* The rival has as many cells in all, and above every level at most as    *)
(* many: what it has left is less in large pieces and more in small ones.  *)

Above(f, b, c) == {y \in Procs \X (c + 1 .. b) : y[2] <= f[y[1]]}

LEMMA AboveFinite ==
  ASSUME NEW f, NEW b \in Nat, NEW c \in Nat
  PROVE  IsFiniteSet(Above(f, b, c)) /\ Cardinality(Above(f, b, c)) \in Nat
<1>1. IsFiniteSet(c + 1 .. b)
  BY FS_Interval
<1>2. IsFiniteSet(Procs \X (c + 1 .. b))
  BY <1>1, ProcsFinite, FS_Product
<1>3. Above(f, b, c) \subseteq Procs \X (c + 1 .. b)
  BY DEF Above
<1>4. IsFiniteSet(Above(f, b, c))
  BY <1>2, <1>3, FS_Subset
<1> QED
  BY <1>4, FS_CardinalityType

LEMMA ColumnSize ==
  ASSUME NEW S, IsFiniteSet(S), NEW k
  PROVE  LET C == {<<p, k>> : p \in S} IN IsFiniteSet(C) /\ Cardinality(C) = Cardinality(S)
<1> DEFINE C == {<<p, k>> : p \in S}
           f == [p \in S |-> <<p, k>>]
<1>1. f \in [S -> C]
  OBVIOUS
<1>2. \A p, q \in S : f[p] = f[q] => p = q
  OBVIOUS
<1>3. \A y \in C : \E p \in S : f[p] = y
  OBVIOUS
<1>4. f \in Bijection(S, C)
  BY <1>1, <1>2, <1>3 DEF Bijection, Injection, Surjection, IsInjective
<1> HIDE DEF f, C
<1>5. IsFiniteSet(C) /\ Cardinality(C) = Cardinality(S)
  BY <1>4, FS_Bijection DEF ExistsBijection
<1> QED
  BY <1>5 DEF C

(* Two sets with nothing in common. *)
LEMMA Disjoint ==
  ASSUME NEW S, NEW T, IsFiniteSet(S), IsFiniteSet(T), S \cap T = {}
  PROVE  /\ IsFiniteSet(S \cup T) /\ Cardinality(S \cup T) = Cardinality(S) + Cardinality(T)
         /\ Cardinality(S) \in Nat /\ Cardinality(T) \in Nat
<1>1. /\ IsFiniteSet(S \cup T)
      /\ Cardinality(S \cup T) = Cardinality(S) + Cardinality(T) - Cardinality(S \cap T)
  BY FS_Union
<1>2. Cardinality(S \cap T) = 0
  BY FS_EmptySet
<1>3. Cardinality(S) \in Nat /\ Cardinality(T) \in Nat
  BY FS_CardinalityType
<1> QED
  BY <1>1, <1>2, <1>3

(* The cells above a level are those above the next and one for each       *)
(* process that reaches it.                                                *)
LEMMA OneLevel ==
  ASSUME NEW b \in Nat, NEW f \in [Procs -> 0 .. b], NEW c \in Nat
  PROVE  LET S == {p \in Procs : f[p] > c} IN
         /\ Cardinality(Above(f, b, c)) = Cardinality(Above(f, b, c + 1)) + Cardinality(S)
         /\ Cardinality(S) \in Nat
<1> DEFINE S == {p \in Procs : f[p] > c}
           C == {<<p, c + 1>> : p \in S}
<1>1. IsFiniteSet(S)
  BY ProcsFinite, FS_Subset
<1>2. IsFiniteSet(C) /\ Cardinality(C) = Cardinality(S)
  <2> HIDE DEF S
  <2> QED
    BY <1>1, ColumnSize
<1>3. IsFiniteSet(Above(f, b, c + 1))
  BY AboveFinite
<1>4. Above(f, b, c) = Above(f, b, c + 1) \cup C
  <2>1. ASSUME NEW p \in Procs, NEW k \in Nat
        PROVE  k \in c + 1 .. b /\ k <= f[p]
                 <=> (k \in (c + 1) + 1 .. b /\ k <= f[p]) \/ (k = c + 1 /\ f[p] > c)
    <3>1. PICK n \in 0 .. b : n = f[p]
      OBVIOUS
    <3>2. k \in c + 1 .. b /\ k <= n
             <=> (k \in (c + 1) + 1 .. b /\ k <= n) \/ (k = c + 1 /\ n > c)
      OBVIOUS
    <3> QED
      BY <3>1, <3>2
  <2>2. ASSUME NEW y \in Above(f, b, c) PROVE y \in Above(f, b, c + 1) \cup C
    <3>1. PICK p \in Procs, k \in c + 1 .. b : y = <<p, k>> /\ k <= f[p]
      BY DEF Above
    <3>2. k \in Nat
      BY <3>1
    <3>3. (k \in (c + 1) + 1 .. b /\ k <= f[p]) \/ (k = c + 1 /\ f[p] > c)
      BY <2>1, <3>1, <3>2
    <3> QED
      BY <3>1, <3>3 DEF Above
  <2>3. ASSUME NEW y \in Above(f, b, c + 1) PROVE y \in Above(f, b, c)
    <3>1. PICK p \in Procs, k \in (c + 1) + 1 .. b : y = <<p, k>> /\ k <= f[p]
      BY DEF Above
    <3>2. k \in Nat /\ k \in c + 1 .. b
      BY <3>1
    <3> QED
      BY <3>1, <3>2 DEF Above
  <2>4. ASSUME NEW y \in C PROVE y \in Above(f, b, c)
    <3>1. PICK p \in S : y = <<p, c + 1>>
      OBVIOUS
    <3>2. p \in Procs /\ f[p] > c /\ c + 1 \in Nat
      BY <3>1
    <3>3. c + 1 \in c + 1 .. b /\ c + 1 <= f[p]
      BY <2>1, <3>2
    <3> QED
      BY <3>1, <3>2, <3>3 DEF Above
  <2> QED
    BY <2>2, <2>3, <2>4, Zenon
<1>5. Above(f, b, c + 1) \cap C = {}
  <2>1. ASSUME NEW y \in Above(f, b, c + 1), NEW p \in S, y = <<p, c + 1>> PROVE FALSE
    <3>1. c + 1 \in (c + 1) + 1 .. b
      BY <2>1 DEF Above
    <3> QED
      BY <3>1
  <2> QED
    BY <2>1
<1> HIDE DEF S, C
<1>6. /\ Cardinality(Above(f, b, c + 1) \cup C) = Cardinality(Above(f, b, c + 1)) + Cardinality(C)
      /\ Cardinality(C) \in Nat
  BY <1>2, <1>3, <1>5, Disjoint
<1> QED
  BY <1>2, <1>4, <1>6 DEF S

Run(f, x) == [f EXCEPT ![x] = @ - 1]

(* A tick takes the last cell of the process it runs. *)
LEMMA OneCell ==
  ASSUME NEW b \in Nat, NEW f \in [Procs -> 0 .. b], NEW x \in Procs, f[x] > 0, NEW c \in Nat
  PROVE  /\ Run(f, x) \in [Procs -> 0 .. b]
         /\ f[x] > c => Cardinality(Above(f, b, c)) = Cardinality(Above(Run(f, x), b, c)) + 1
         /\ f[x] <= c => Cardinality(Above(f, b, c)) = Cardinality(Above(Run(f, x), b, c))
<1> DEFINE g == [f EXCEPT ![x] = @ - 1]
<1>0. PICK n \in 0 .. b : n = f[x]
  OBVIOUS
<1>1. \A p \in Procs : g[p] = IF p = x THEN n - 1 ELSE f[p]
  BY <1>0
<1>2. g \in [Procs -> 0 .. b]
  <2>1. n - 1 \in 0 .. b
    BY <1>0
  <2> QED
    BY <1>0, <2>1
<1> HIDE DEF g
<1>3. ASSUME n > c PROVE Above(f, b, c) = Above(g, b, c) \cup {<<x, n>>} /\ <<x, n>> \notin Above(g, b, c)
  <2>1. n \in c + 1 .. b /\ n \in Nat
    BY <1>3
  <2>2. <<x, n>> \in Above(f, b, c)
    BY <1>0, <2>1 DEF Above
  <2>3. <<x, n>> \notin Above(g, b, c)
    <3>1. ~(n <= n - 1)
      BY <2>1
    <3> QED
      BY <1>1, <3>1 DEF Above
  <2>4. ASSUME NEW p \in Procs, NEW k \in c + 1 .. b, <<p, k>> # <<x, n>>
        PROVE  k <= f[p] <=> k <= g[p]
    <3>1. CASE p = x
      <4>1. k # n /\ k \in Nat
        BY <2>4, <3>1
      <4>2. k <= n <=> k <= n - 1
        BY <2>1, <4>1
      <4> QED
        BY <1>0, <1>1, <3>1, <4>2
    <3>2. CASE p # x
      BY <1>1, <3>2
    <3> QED
      BY <3>1, <3>2
  <2>5. ASSUME NEW y, y # <<x, n>> PROVE y \in Above(f, b, c) <=> y \in Above(g, b, c)
    BY <2>4, <2>5 DEF Above
  <2> QED
    BY <2>2, <2>3, <2>5
<1>4. ASSUME n <= c PROVE Above(f, b, c) = Above(g, b, c)
  <2>1. ASSUME NEW p \in Procs, NEW k \in c + 1 .. b PROVE k <= f[p] <=> k <= g[p]
    <3>1. CASE p = x
      <4>1. ~(k <= n) /\ ~(k <= n - 1)
        BY <1>4
      <4> QED
        BY <1>0, <1>1, <3>1, <4>1
    <3>2. CASE p # x
      BY <1>1, <3>2
    <3> QED
      BY <3>1, <3>2
  <2> QED
    BY <2>1 DEF Above
<1>5. ASSUME n > c PROVE Cardinality(Above(f, b, c)) = Cardinality(Above(g, b, c)) + 1
  <2>1. IsFiniteSet(Above(g, b, c))
    BY AboveFinite
  <2> QED
    BY <1>3, <1>5, <2>1, FS_AddElement
<1> QED
  BY <1>0, <1>2, <1>4, <1>5 DEF g, Run

(* l is m or has its cells further down. *)
Lower(l, m, b) ==
  /\ \A c \in Nat : Cardinality(Above(l, b, c)) <= Cardinality(Above(m, b, c))
  /\ Cardinality(Above(l, b, 0)) = Cardinality(Above(m, b, 0))

Reach(f, R, c) == Cardinality({p \in R : f[p] > c})
Gap(l, m, b, c) == Cardinality(Above(m, b, c)) - Cardinality(Above(l, b, c))

LEMMA ReachType ==
  ASSUME NEW f, NEW R \in SUBSET Procs, NEW c
  PROVE  IsFiniteSet({p \in R : f[p] > c}) /\ Reach(f, R, c) \in Nat
<1>1. {p \in R : f[p] > c} \subseteq Procs
  OBVIOUS
<1>2. IsFiniteSet({p \in R : f[p] > c})
  BY <1>1, ProcsFinite, FS_Subset
<1> QED
  BY <1>2, FS_CardinalityType DEF Reach

LEMMA ReachNone ==
  ASSUME NEW f, NEW R \in SUBSET Procs, NEW c
  PROVE  Reach(f, R, c) = 0 <=> \A p \in R : ~(f[p] > c)
<1>1. PICK S : S = {p \in R : f[p] > c}
  OBVIOUS
<1>2. IsFiniteSet(S)
  BY <1>1, ReachType
<1>3. Cardinality(S) = 0 <=> S = {}
  BY <1>2, FS_EmptySet
<1> QED
  BY <1>1, <1>3 DEF Reach

(* The processes outside R have the same left in both and do not count. *)
LEMMA GapGrows ==
  ASSUME NEW b \in Nat, NEW l \in [Procs -> 0 .. b], NEW m \in [Procs -> 0 .. b],
         NEW R \in SUBSET Procs, \A p \in Procs \ R : l[p] = m[p], NEW c \in Nat
  PROVE  /\ Gap(l, m, b, c + 1) = Gap(l, m, b, c) + Reach(l, R, c) - Reach(m, R, c)
         /\ Gap(l, m, b, c + 1) \in Int /\ Gap(l, m, b, c) \in Int
         /\ Reach(l, R, c) \in Nat /\ Reach(m, R, c) \in Nat
<1>1. ASSUME NEW f \in [Procs -> 0 .. b]
      PROVE  /\ Cardinality(Above(f, b, c)) = Cardinality(Above(f, b, c + 1)) + Reach(f, Procs, c)
             /\ Reach(f, Procs, c) = Reach(f, R, c) + Reach(f, Procs \ R, c)
  <2>1. Cardinality(Above(f, b, c)) = Cardinality(Above(f, b, c + 1)) + Cardinality({p \in Procs : f[p] > c})
    BY OneLevel
  <2>2. PICK S, T : S = {p \in R : f[p] > c} /\ T = {p \in Procs \ R : f[p] > c}
    OBVIOUS
  <2>3. IsFiniteSet(S) /\ IsFiniteSet(T)
    <3>1. IsFiniteSet(Procs)
      BY ProcsFinite
    <3> QED
      BY <2>2, <3>1, FS_Subset
  <2>4. S \cap T = {} /\ {p \in Procs : f[p] > c} = S \cup T
    BY <2>2
  <2>5. Cardinality(S \cup T) = Cardinality(S) + Cardinality(T)
    BY <2>3, <2>4, Disjoint
  <2> QED
    BY <2>1, <2>2, <2>4, <2>5 DEF Reach
<1>2. Reach(l, Procs \ R, c) = Reach(m, Procs \ R, c)
  <2>1. {p \in Procs \ R : l[p] > c} = {p \in Procs \ R : m[p] > c}
    OBVIOUS
  <2> QED
    BY <2>1 DEF Reach
<1>3. /\ Reach(l, R, c) \in Nat /\ Reach(m, R, c) \in Nat /\ Reach(m, Procs \ R, c) \in Nat
  BY ReachType
<1>4. /\ Cardinality(Above(l, b, c)) \in Nat /\ Cardinality(Above(l, b, c + 1)) \in Nat
      /\ Cardinality(Above(m, b, c)) \in Nat /\ Cardinality(Above(m, b, c + 1)) \in Nat
  BY AboveFinite
<1>5. /\ Cardinality(Above(l, b, c)) =
           Cardinality(Above(l, b, c + 1)) + (Reach(l, R, c) + Reach(l, Procs \ R, c))
      /\ Cardinality(Above(m, b, c)) =
           Cardinality(Above(m, b, c + 1)) + (Reach(m, R, c) + Reach(m, Procs \ R, c))
  BY <1>1
<1> QED
  BY <1>2, <1>3, <1>4, <1>5 DEF Gap

(* The one whose cells are lower has as many processes to run, or more. *)
LEMMA NoFewer ==
  ASSUME NEW b \in Nat, NEW l \in [Procs -> 0 .. b], NEW m \in [Procs -> 0 .. b],
         NEW R \in SUBSET Procs, \A p \in Procs \ R : l[p] = m[p], Lower(l, m, b)
  PROVE  /\ Reach(m, R, 0) <= Reach(l, R, 0)
         /\ Reach(m, R, 0) = 0 => Reach(l, R, 0) = 0
<1>1. Cardinality(Above(l, b, 0 + 1)) \in Nat /\ Cardinality(Above(m, b, 0 + 1)) \in Nat
      /\ Cardinality(Above(l, b, 0)) \in Nat /\ Cardinality(Above(m, b, 0)) \in Nat
  BY AboveFinite
<1>2. Gap(l, m, b, 0) = 0 /\ Gap(l, m, b, 0 + 1) >= 0
  BY <1>1 DEF Lower, Gap
<1>3. /\ Gap(l, m, b, 0 + 1) = Gap(l, m, b, 0) + Reach(l, R, 0) - Reach(m, R, 0)
      /\ Reach(l, R, 0) \in Nat /\ Reach(m, R, 0) \in Nat
  BY GapGrows
<1>4. Reach(m, R, 0) <= Reach(l, R, 0)
  BY <1>2, <1>3
<1>5. ASSUME Reach(m, R, 0) = 0 PROVE Reach(l, R, 0) = 0
  <2>0. \A p \in R : ~(m[p] > 0)
    BY <1>5, ReachNone
  <2>1. Above(m, b, 0) \subseteq Above(l, b, 0)
    <3>1. ASSUME NEW p \in Procs, NEW k \in 0 + 1 .. b, k <= m[p] PROVE k <= l[p]
      <4>1. m[p] > 0
        BY <3>1
      <4>2. p \notin R
        BY <2>0, <4>1, Zenon
      <4> QED
        BY <3>1, <4>2
    <3> QED
      BY <3>1 DEF Above
  <2>2. Above(m, b, 0) = Above(l, b, 0)
    <3>1. IsFiniteSet(Above(l, b, 0))
      BY AboveFinite
    <3>2. Cardinality(Above(l, b, 0)) = Cardinality(Above(m, b, 0))
      BY DEF Lower
    <3> QED
      BY <2>1, <3>1, <3>2, FS_Subset
  <2>3. ASSUME NEW p \in R, l[p] > 0 PROVE FALSE
    <3>1. p \in Procs /\ 1 \in 0 + 1 .. b /\ 1 <= l[p] /\ ~(1 <= m[p])
      <4>1. l[p] \in 0 .. b /\ m[p] \in 0 .. b /\ ~(m[p] > 0)
        BY <2>0
      <4> QED
        BY <2>3, <4>1
    <3>2. <<p, 1>> \in Above(l, b, 0) /\ <<p, 1>> \notin Above(m, b, 0)
      BY <3>1 DEF Above
    <3> QED
      BY <2>2, <3>2
  <2> QED
    BY <2>3, ReachNone
<1> QED
  BY <1>4, <1>5

(* Running the one with the least left keeps it so, whatever the other runs. *)
LEMMA StaysLower ==
  ASSUME NEW b \in Nat, NEW l \in [Procs -> 0 .. b], NEW m \in [Procs -> 0 .. b],
         NEW R \in SUBSET Procs, \A p \in Procs \ R : l[p] = m[p], Lower(l, m, b),
         NEW x \in R, m[x] > 0, \A q \in R : m[q] > 0 => m[x] <= m[q],
         NEW p \in R, l[p] > 0
  PROVE  Lower(Run(l, p), Run(m, x), b)
<1> DEFINE l1 == Run(l, p)
           m1 == Run(m, x)
           U(f, c) == Cardinality(Above(f, b, c))
<1>0. x \in Procs /\ p \in Procs
  OBVIOUS
<1>1. \A f, c : c \in Nat => U(f, c) \in Nat
  BY AboveFinite
<1>2. ASSUME NEW c \in Nat
      PROVE  /\ l[p] > c => U(l, c) = U(l1, c) + 1
             /\ l[p] <= c => U(l, c) = U(l1, c)
  BY <1>0, OneCell DEF U
<1>3. ASSUME NEW c \in Nat
      PROVE  /\ m[x] > c => U(m, c) = U(m1, c) + 1
             /\ m[x] <= c => U(m, c) = U(m1, c)
  BY <1>0, OneCell DEF U
<1>4. \A c \in Nat : U(l, c) <= U(m, c)
  BY DEF Lower
<1>5. U(l, 0) = U(m, 0)
  BY DEF Lower
<1>6. l[p] \in 0 .. b /\ m[x] \in 0 .. b
  BY <1>0
<1> HIDE DEF l1, m1, U
<1>7. U(l1, 0) = U(m1, 0)
  <2>1. U(l, 0) = U(l1, 0) + 1 /\ U(m, 0) = U(m1, 0) + 1
    BY <1>2, <1>3
  <2>2. U(l1, 0) \in Nat /\ U(m1, 0) \in Nat
    BY <1>1
  <2> QED
    BY <1>5, <2>1, <2>2
<1>8. ASSUME NEW c \in Nat, m[x] > c, l[p] <= c PROVE U(l, c) < U(m, c)
  <2> SUFFICES ASSUME U(l, c) = U(m, c) PROVE FALSE
    <3>1. U(l, c) \in Nat /\ U(m, c) \in Nat /\ U(l, c) <= U(m, c)
      BY <1>1, <1>4
    <3> QED
      BY <3>1
  <2> DEFINE n == Reach(m, R, c)
             G(j) == Gap(l, m, b, j)
  <2>1. ASSUME NEW j \in Nat
        PROVE  /\ G(j + 1) = G(j) + Reach(l, R, j) - Reach(m, R, j)
               /\ G(j) \in Int /\ G(j + 1) \in Int /\ G(j) >= 0 /\ G(j + 1) >= 0
               /\ Reach(l, R, j) \in Nat /\ Reach(m, R, j) \in Nat
    <3>1. /\ G(j + 1) = G(j) + Reach(l, R, j) - Reach(m, R, j)
          /\ G(j) \in Int /\ G(j + 1) \in Int
          /\ Reach(l, R, j) \in Nat /\ Reach(m, R, j) \in Nat
      BY GapGrows
    <3>2. /\ U(l, j) \in Nat /\ U(m, j) \in Nat /\ U(l, j) <= U(m, j)
          /\ U(l, j + 1) \in Nat /\ U(m, j + 1) \in Nat /\ U(l, j + 1) <= U(m, j + 1)
      BY <1>1, <1>4
    <3>3. G(j) >= 0 /\ G(j + 1) >= 0
      BY <3>2 DEF Gap, U
    <3> QED
      BY <3>1, <3>3
  <2>2. G(0) = 0 /\ G(c) = 0
    <3>1. U(l, 0) \in Nat /\ U(l, c) \in Nat
      BY <1>1
    <3> QED
      BY <1>5, <3>1 DEF Gap, U
  <2>3. ASSUME NEW j \in Nat, j <= c PROVE Reach(m, R, j) = n
    <3>1. ASSUME NEW q \in R PROVE m[q] > j <=> m[q] > c
      <4>1. m[q] \in 0 .. b /\ (m[q] > 0 => m[x] <= m[q])
        OBVIOUS
      <4> QED
        BY <1>6, <1>8, <2>3, <4>1
    <3>2. {q \in R : m[q] > j} = {q \in R : m[q] > c}
      BY <3>1
    <3> QED
      BY <3>2 DEF Reach
  <2>4. ASSUME NEW j \in Nat, j <= c PROVE Reach(l, R, c) <= Reach(l, R, j)
    <3>1. PICK S, T : S = {q \in R : l[q] > c} /\ T = {q \in R : l[q] > j}
      OBVIOUS
    <3>2. \A q \in R : l[q] > c => l[q] > j
      <4>1. \A q \in R : l[q] \in 0 .. b
        OBVIOUS
      <4> QED
        BY <2>4, <4>1
    <3>3. S \subseteq T
      BY <3>1, <3>2
    <3>4. IsFiniteSet(T)
      BY <3>1, ReachType
    <3> QED
      BY <3>1, <3>3, <3>4, FS_Subset DEF Reach
  <2>5. n <= Reach(l, R, c)
    <3>1. G(c + 1) = G(c) + Reach(l, R, c) - Reach(m, R, c)
      BY <2>1
    <3>2. G(c + 1) \in Int /\ G(c + 1) >= 0 /\ Reach(l, R, c) \in Nat /\ Reach(m, R, c) \in Nat
      BY <2>1
    <3> HIDE DEF G
    <3> QED
      BY <2>2, <3>1, <3>2
  <2>6. Reach(l, R, c) + 1 <= Reach(l, R, 0)
    <3>1. PICK S, T : S = {q \in R : l[q] > c} /\ T = {q \in R : l[q] > 0}
      OBVIOUS
    <3>2. IsFiniteSet(S) /\ IsFiniteSet(T)
      BY <3>1, ReachType
    <3>3. p \in T /\ p \notin S
      BY <1>6, <1>8, <3>1
    <3>4. \A q \in R : l[q] > c => l[q] > 0
      <4>1. \A q \in R : l[q] \in 0 .. b
        OBVIOUS
      <4> QED
        BY <4>1
    <3>5. S \cup {p} \subseteq T
      BY <3>1, <3>3, <3>4
    <3>6. Cardinality(S \cup {p}) = Cardinality(S) + 1
      BY <3>2, <3>3, FS_AddElement
    <3>7. Cardinality(S \cup {p}) <= Cardinality(T)
      BY <3>2, <3>5, FS_Subset
    <3> QED
      BY <3>1, <3>6, <3>7 DEF Reach
  <2> HIDE DEF G, n
  <2>7. n \in Nat
    BY ReachType DEF n
  <2>8. G(1) >= 1
    <3>1. G(0 + 1) = G(0) + Reach(l, R, 0) - Reach(m, R, 0)
      BY <2>1
    <3>2. Reach(m, R, 0) = n
      BY <2>3
    <3>3. Reach(l, R, 0) \in Nat /\ Reach(l, R, c) \in Nat
      BY ReachType
    <3> QED
      BY <2>2, <2>5, <2>6, <2>7, <3>1, <3>2, <3>3
  <2> DEFINE Ok == {j \in Nat : j + 1 <= c => G(j + 1) >= 1}
  <2>9. 0 \in Ok
    BY <2>8
  <2>10. ASSUME NEW j \in Nat, j \in Ok PROVE j + 1 \in Ok
    <3> SUFFICES ASSUME (j + 1) + 1 <= c PROVE G((j + 1) + 1) >= 1
      OBVIOUS
    <3>1. PICK i \in Nat : i = j + 1
      OBVIOUS
    <3>2. i <= c /\ i + 1 <= c /\ G(i) >= 1
      BY <2>10, <3>1
    <3>3. G(i + 1) = G(i) + Reach(l, R, i) - Reach(m, R, i) /\ G(i) \in Int
      BY <2>1
    <3>4. Reach(m, R, i) = n /\ Reach(l, R, c) <= Reach(l, R, i)
      BY <2>3, <2>4, <3>2
    <3>5. Reach(l, R, i) \in Nat /\ Reach(l, R, c) \in Nat
      BY ReachType
    <3>6. G(i + 1) >= 1
      BY <2>5, <2>7, <3>2, <3>3, <3>4, <3>5
    <3> QED
      BY <3>1, <3>6
  <2>11. Nat \subseteq Ok
    <3> HIDE DEF Ok
    <3> QED
      BY <2>9, <2>10, NatInduct
  <2>12. c - 1 \in Nat /\ (c - 1) + 1 = c
    BY <1>6, <1>8
  <2> QED
    BY <2>2, <2>11, <2>12
<1>9. ASSUME NEW c \in Nat PROVE U(l1, c) <= U(m1, c)
  <2>1. U(l, c) \in Nat /\ U(m, c) \in Nat /\ U(l1, c) \in Nat /\ U(m1, c) \in Nat /\ U(l, c) <= U(m, c)
    BY <1>1, <1>4
  <2>2. (l[p] > c \/ l[p] <= c) /\ (m[x] > c \/ m[x] <= c)
    BY <1>6
  <2> QED
    BY <1>2, <1>3, <1>8, <2>1, <2>2
<1> QED
  BY <1>7, <1>9 DEF Lower, U, l1, m1

(* The seconds up to t in which a process was there and is not yet done:   *)
(* with the turnaround times of those that are, the total if all were to   *)
(* end at t.                                                               *)
Waits(a, f, t) == {y \in Procs \X (1 .. t) : a[y[1]] < y[2] /\ f[y[1]] > 0}
Arrived(a, t) == {p \in Procs : a[p] <= t}

LEMMA WaitsFinite ==
  ASSUME NEW a, NEW f, NEW t \in Nat
  PROVE  IsFiniteSet(Waits(a, f, t)) /\ Cardinality(Waits(a, f, t)) \in Nat
<1>1. IsFiniteSet(1 .. t)
  BY FS_Interval
<1>2. IsFiniteSet(Procs \X (1 .. t))
  BY <1>1, ProcsFinite, FS_Product
<1>3. Waits(a, f, t) \subseteq Procs \X (1 .. t)
  BY DEF Waits
<1>4. IsFiniteSet(Waits(a, f, t))
  BY <1>2, <1>3, FS_Subset
<1> QED
  BY <1>4, FS_CardinalityType

(* One second more counts for each process that is there and not done. *)
LEMMA OneSecond ==
  ASSUME NEW a \in [Procs -> Nat], NEW f \in [Procs -> Nat], NEW t \in Nat
  PROVE  Cardinality(Waits(a, f, t + 1)) = Cardinality(Waits(a, f, t)) + Reach(f, Arrived(a, t), 0)
<1> DEFINE S == {p \in Arrived(a, t) : f[p] > 0}
           C == {<<p, t + 1>> : p \in S}
<1>1. IsFiniteSet(S)
  BY ReachType DEF Arrived
<1>2. IsFiniteSet(C) /\ Cardinality(C) = Cardinality(S)
  <2> HIDE DEF S
  <2> QED
    BY <1>1, ColumnSize
<1>3. IsFiniteSet(Waits(a, f, t))
  BY WaitsFinite
<1>4. Waits(a, f, t + 1) = Waits(a, f, t) \cup C
  <2>1. ASSUME NEW p \in Procs, NEW k \in 1 .. t + 1, a[p] < k, f[p] > 0
        PROVE  k \in 1 .. t \/ (k = t + 1 /\ p \in S)
    <3>1. CASE k = t + 1
      BY <2>1, <3>1 DEF Arrived
    <3>2. CASE k # t + 1
      BY <3>2
    <3> QED
      BY <3>1, <3>2
  <2>2. ASSUME NEW y \in Waits(a, f, t + 1) PROVE y \in Waits(a, f, t) \cup C
    <3>1. PICK p \in Procs, k \in 1 .. t + 1 : y = <<p, k>> /\ a[p] < k /\ f[p] > 0
      BY DEF Waits
    <3>2. k \in 1 .. t \/ (k = t + 1 /\ p \in S)
      BY <2>1, <3>1
    <3> QED
      BY <3>1, <3>2 DEF Waits
  <2>3. ASSUME NEW y \in Waits(a, f, t) PROVE y \in Waits(a, f, t + 1)
    <3>1. 1 .. t \subseteq 1 .. t + 1
      OBVIOUS
    <3> QED
      BY <3>1 DEF Waits
  <2>4. ASSUME NEW y \in C PROVE y \in Waits(a, f, t + 1)
    <3>1. PICK p \in S : y = <<p, t + 1>>
      OBVIOUS
    <3>2. p \in Procs /\ a[p] <= t /\ f[p] > 0
      BY <3>1 DEF Arrived
    <3>3. a[p] < t + 1 /\ t + 1 \in 1 .. t + 1
      BY <3>2
    <3> QED
      BY <3>1, <3>2, <3>3 DEF Waits
  <2> QED
    BY <2>2, <2>3, <2>4, Zenon
<1>5. Waits(a, f, t) \cap C = {}
  <2>1. ASSUME NEW y \in Waits(a, f, t), NEW p \in S, y = <<p, t + 1>> PROVE FALSE
    <3>1. t + 1 \in 1 .. t
      BY <2>1 DEF Waits
    <3> QED
      BY <3>1
  <2> QED
    BY <2>1
<1> HIDE DEF S, C
<1>6. Cardinality(Waits(a, f, t) \cup C) = Cardinality(Waits(a, f, t)) + Cardinality(C)
  BY <1>2, <1>3, <1>5, Disjoint
<1> QED
  BY <1>2, <1>4, <1>6 DEF S, Reach

(* A process that ends gives its seconds back; they are its turnaround.    *)
LEMMA LastCell ==
  ASSUME NEW a \in [Procs -> Nat], NEW f \in [Procs -> Nat], NEW u \in Nat,
         NEW x \in Procs, a[x] < u, f[x] > 0
  PROVE  /\ f[x] = 1 => Cardinality(Waits(a, f, u)) = Cardinality(Waits(a, Run(f, x), u)) + (u - a[x])
         /\ f[x] # 1 => Cardinality(Waits(a, f, u)) = Cardinality(Waits(a, Run(f, x), u))
<1> DEFINE g == Run(f, x)
<1>1. \A p \in Procs : g[p] = IF p = x THEN f[x] - 1 ELSE f[p]
  BY DEF Run
<1>2. f[x] \in Nat /\ a[x] \in Nat
  OBVIOUS
<1> HIDE DEF g
<1>3. ASSUME f[x] # 1 PROVE Waits(a, f, u) = Waits(a, g, u)
  <2>1. \A p \in Procs : f[p] > 0 <=> g[p] > 0
    BY <1>1, <1>2, <1>3
  <2> QED
    BY <2>1 DEF Waits
<1>4. ASSUME f[x] = 1 PROVE Cardinality(Waits(a, f, u)) = Cardinality(Waits(a, g, u)) + (u - a[x])
  <2> DEFINE Row == {<<x, k>> : k \in a[x] + 1 .. (u + 1) - 1}
  <2>1. IsFiniteSet(Row) /\ Cardinality(Row) = (u + 1) - (a[x] + 1)
    <3>1. PICK i \in Nat, j \in Nat : i = a[x] + 1 /\ j = u + 1
      BY <1>2
    <3>2. i < j
      BY <1>2, <3>1
    <3>3. IsFiniteSet(Seconds(x, i, j)) /\ Cardinality(Seconds(x, i, j)) = j - i
      BY <3>2, RowSize
    <3> QED
      BY <3>1, <3>3 DEF Seconds
  <2>2. g[x] = 0 /\ \A p \in Procs : p # x => g[p] = f[p]
    BY <1>1, <1>4
  <2>3. Waits(a, f, u) = Waits(a, g, u) \cup Row
    <3>1. ASSUME NEW y \in Waits(a, f, u) PROVE y \in Waits(a, g, u) \cup Row
      <4>1. PICK p \in Procs, k \in 1 .. u : y = <<p, k>> /\ a[p] < k /\ f[p] > 0
        BY DEF Waits
      <4>2. CASE p = x
        <5>1. k \in a[x] + 1 .. (u + 1) - 1
          BY <1>2, <4>1, <4>2
        <5> QED
          BY <4>1, <4>2, <5>1
      <4>3. CASE p # x
        <5>1. g[p] > 0
          BY <2>2, <4>1, <4>3
        <5> QED
          BY <4>1, <5>1 DEF Waits
      <4> QED
        BY <4>2, <4>3
    <3>2. ASSUME NEW y \in Waits(a, g, u) PROVE y \in Waits(a, f, u)
      <4>1. PICK p \in Procs, k \in 1 .. u : y = <<p, k>> /\ a[p] < k /\ g[p] > 0
        BY DEF Waits
      <4>2. p # x
        BY <2>2, <4>1
      <4>3. f[p] > 0
        BY <2>2, <4>1, <4>2
      <4> QED
        BY <4>1, <4>3 DEF Waits
    <3>3. ASSUME NEW y \in Row PROVE y \in Waits(a, f, u)
      <4>1. PICK k \in a[x] + 1 .. (u + 1) - 1 : y = <<x, k>>
        OBVIOUS
      <4>2. k \in 1 .. u /\ a[x] < k
        BY <1>2, <4>1
      <4> QED
        BY <4>1, <4>2 DEF Waits
    <3> QED
      BY <3>1, <3>2, <3>3, Zenon
  <2>4. Waits(a, g, u) \cap Row = {}
    <3>1. ASSUME NEW y \in Waits(a, g, u), NEW k, y = <<x, k>> PROVE FALSE
      <4>1. g[x] > 0
        BY <3>1 DEF Waits
      <4> QED
        BY <2>2, <4>1
    <3> QED
      BY <3>1
  <2> HIDE DEF Row
  <2>5. IsFiniteSet(Waits(a, g, u)) /\ Cardinality(Waits(a, g, u)) \in Nat
    BY WaitsFinite
  <2>6. Cardinality(Waits(a, g, u) \cup Row) = Cardinality(Waits(a, g, u)) + Cardinality(Row)
    BY <2>1, <2>4, <2>5, Disjoint
  <2>7. (u + 1) - (a[x] + 1) = u - a[x]
    BY <1>2
  <2> QED
    BY <2>1, <2>3, <2>6, <2>7
<1> QED
  BY <1>3, <1>4 DEF g

(* Both together, for a tick that runs x. *)
LEMMA TickCosts ==
  ASSUME NEW a \in [Procs -> Nat], NEW f \in [Procs -> Nat], NEW t \in Nat,
         NEW x \in Arrived(a, t), f[x] > 0
  PROVE  LET u == t + 1 IN
         Cardinality(Waits(a, Run(f, x), u)) + (IF f[x] = 1 THEN u - a[x] ELSE 0)
           = Cardinality(Waits(a, f, t)) + Reach(f, Arrived(a, t), 0)
<1>1. PICK u : u = t + 1
  OBVIOUS
<1>2. x \in Procs /\ a[x] \in Nat /\ a[x] < u /\ u \in Nat
  BY <1>1 DEF Arrived
<1>3. Cardinality(Waits(a, f, u)) = Cardinality(Waits(a, f, t)) + Reach(f, Arrived(a, t), 0)
  BY <1>1, OneSecond
<1>4. /\ f[x] = 1 => Cardinality(Waits(a, f, u)) = Cardinality(Waits(a, Run(f, x), u)) + (u - a[x])
      /\ f[x] # 1 => Cardinality(Waits(a, f, u)) = Cardinality(Waits(a, Run(f, x), u))
  BY <1>2, LastCell
<1>5. Cardinality(Waits(a, Run(f, x), u)) \in Nat
  BY <1>2, WaitsFinite
<1> QED
  BY <1>1, <1>2, <1>3, <1>4, <1>5

(* At time t, with m left and the turnarounds adding up to total under the *)
(* simulator, l and w under the rival: the rival's cells are the lower     *)
(* ones and its total, were all to end now, is no less.                    *)
Behind(a, t, m, total, l, w, b) ==
  /\ l \in [Procs -> 0 .. b] /\ w \in Nat
  /\ \A p \in Procs \ Arrived(a, t) : l[p] = m[p]
  /\ Lower(l, m, b)
  /\ total + Cardinality(Waits(a, m, t)) <= w + Cardinality(Waits(a, l, t))

Turnaround(a, f, x, u) == IF f[x] = 1 THEN u - a[x] ELSE 0

LEMMA BehindTick ==
  ASSUME NEW b \in Nat, NEW a \in [Procs -> Nat], NEW t \in Nat, NEW m \in [Procs -> 0 .. b],
         NEW total \in Nat, NEW l, NEW w, Behind(a, t, m, total, l, w, b),
         NEW x \in Arrived(a, t), m[x] > 0, \A q \in Arrived(a, t) : m[q] > 0 => m[x] <= m[q],
         NEW p \in Arrived(a, t), l[p] > 0,
         NEW total1, total1 = total + Turnaround(a, m, x, t + 1),
         NEW w1, w1 = w + Turnaround(a, l, p, t + 1)
  PROVE  Behind(a, t + 1, Run(m, x), total1, Run(l, p), w1, b)
<1>0. PICK R \in SUBSET Procs : R = Arrived(a, t)
  BY DEF Arrived
<1>1. /\ l \in [Procs -> 0 .. b] /\ w \in Nat /\ \A q \in Procs \ R : l[q] = m[q]
      /\ Lower(l, m, b)
      /\ total + Cardinality(Waits(a, m, t)) <= w + Cardinality(Waits(a, l, t))
  BY <1>0 DEF Behind
<1>2. x \in R /\ p \in R /\ x \in Procs /\ p \in Procs /\ \A q \in R : m[q] > 0 => m[x] <= m[q]
  BY <1>0
<1>3. Run(l, p) \in [Procs -> 0 .. b]
  BY <1>1, <1>2, OneCell
<1>4. Lower(Run(l, p), Run(m, x), b)
  BY <1>1, <1>2, StaysLower
<1>5. ASSUME NEW q \in Procs \ Arrived(a, t + 1) PROVE Run(l, p)[q] = Run(m, x)[q]
  <2>1. a[q] \in Nat /\ ~(a[q] <= t + 1)
    BY DEF Arrived
  <2>2. q \notin R
    BY <1>0, <2>1 DEF Arrived
  <2>3. q # x /\ q # p /\ l[q] = m[q]
    BY <1>1, <1>2, <2>2
  <2> QED
    BY <1>1, <2>3 DEF Run
<1>6. l \in [Procs -> Nat] /\ m \in [Procs -> Nat]
  <2>1. 0 .. b \subseteq Nat
    OBVIOUS
  <2> QED
    BY <1>1, <2>1
<1>7. a[x] \in Nat /\ a[x] <= t /\ a[p] \in Nat /\ a[p] <= t
  BY DEF Arrived
<1>8. /\ Cardinality(Waits(a, Run(m, x), t + 1)) + Turnaround(a, m, x, t + 1)
           = Cardinality(Waits(a, m, t)) + Reach(m, R, 0)
      /\ Cardinality(Waits(a, Run(l, p), t + 1)) + Turnaround(a, l, p, t + 1)
           = Cardinality(Waits(a, l, t)) + Reach(l, R, 0)
  BY <1>0, <1>6, TickCosts DEF Turnaround
<1>9. Turnaround(a, m, x, t + 1) \in Nat /\ Turnaround(a, l, p, t + 1) \in Nat
  BY <1>7 DEF Turnaround
<1>10. /\ Cardinality(Waits(a, m, t)) \in Nat /\ Cardinality(Waits(a, l, t)) \in Nat
       /\ Cardinality(Waits(a, Run(m, x), t + 1)) \in Nat /\ Cardinality(Waits(a, Run(l, p), t + 1)) \in Nat
       /\ Reach(m, R, 0) \in Nat /\ Reach(l, R, 0) \in Nat
  <2>1. t + 1 \in Nat
    OBVIOUS
  <2> QED
    BY <2>1, WaitsFinite, ReachType
<1>11. Reach(m, R, 0) <= Reach(l, R, 0)
  BY <1>1, NoFewer
<1>12. /\ total1 + Cardinality(Waits(a, Run(m, x), t + 1)) <= w1 + Cardinality(Waits(a, Run(l, p), t + 1))
       /\ w1 \in Nat
  BY <1>1, <1>8, <1>9, <1>10, <1>11
<1> QED
  BY <1>3, <1>4, <1>5, <1>12 DEF Behind

LEMMA BehindIdle ==
  ASSUME NEW b \in Nat, NEW a \in [Procs -> Nat], NEW t \in Nat, NEW m \in [Procs -> 0 .. b],
         NEW total \in Nat, NEW l, NEW w, Behind(a, t, m, total, l, w, b),
         \A q \in Arrived(a, t) : ~(m[q] > 0)
  PROVE  Behind(a, t + 1, m, total, l, w, b)
<1>0. PICK R \in SUBSET Procs : R = Arrived(a, t)
  BY DEF Arrived
<1>1. /\ l \in [Procs -> 0 .. b] /\ w \in Nat /\ \A q \in Procs \ R : l[q] = m[q]
      /\ Lower(l, m, b)
      /\ total + Cardinality(Waits(a, m, t)) <= w + Cardinality(Waits(a, l, t))
  BY <1>0 DEF Behind
<1>2. ASSUME NEW q \in Procs \ Arrived(a, t + 1) PROVE l[q] = m[q]
  <2>1. a[q] \in Nat /\ ~(a[q] <= t + 1)
    BY DEF Arrived
  <2>2. q \notin R
    BY <1>0, <2>1 DEF Arrived
  <2> QED
    BY <1>1, <2>2
<1>3. l \in [Procs -> Nat] /\ m \in [Procs -> Nat]
  <2>1. 0 .. b \subseteq Nat
    OBVIOUS
  <2> QED
    BY <1>1, <2>1
<1>4. Reach(m, R, 0) = 0
  BY <1>0, ReachNone
<1>5. Reach(l, R, 0) = 0
  BY <1>1, <1>4, NoFewer
<1>6. /\ Cardinality(Waits(a, m, t + 1)) = Cardinality(Waits(a, m, t)) + Reach(m, R, 0)
      /\ Cardinality(Waits(a, l, t + 1)) = Cardinality(Waits(a, l, t)) + Reach(l, R, 0)
  BY <1>0, <1>3, OneSecond
<1>7. Cardinality(Waits(a, m, t)) \in Nat /\ Cardinality(Waits(a, l, t)) \in Nat
  BY WaitsFinite
<1>8. total + Cardinality(Waits(a, m, t + 1)) <= w + Cardinality(Waits(a, l, t + 1))
  BY <1>1, <1>4, <1>5, <1>6, <1>7
<1> QED
  BY <1>1, <1>2, <1>8 DEF Behind

(* All start even. *)
LEMMA BehindStart ==
  ASSUME NEW b \in Nat, NEW a, NEW m \in [Procs -> 0 .. b]
  PROVE  Behind(a, 0, m, 0, m, 0, b)
<1>1. Cardinality(Waits(a, m, 0)) \in Nat
  BY WaitsFinite
<1>2. \A c \in Nat : Cardinality(Above(m, b, c)) \in Nat
  BY AboveFinite
<1>3. Lower(m, m, b)
  BY <1>2 DEF Lower
<1> QED
  BY <1>1, <1>3 DEF Behind

(* When the simulator is done, so is the rival, and it took no less. *)
LEMMA BehindEnd ==
  ASSUME NEW b \in Nat, NEW a, NEW t \in Nat, NEW m \in [Procs -> 0 .. b],
         NEW total \in Nat, NEW l, NEW w, Behind(a, t, m, total, l, w, b),
         \A p \in Procs : m[p] = 0
  PROVE  total <= w /\ l = [p \in Procs |-> 0]
<1>1. l \in [Procs -> 0 .. b] /\ w \in Nat /\ Lower(l, m, b)
  BY DEF Behind
<1>2. \A p \in Procs : ~(m[p] > 0)
  OBVIOUS
<1>3. Reach(l, Procs, 0) = 0
  <2>1. Procs \in SUBSET Procs /\ \A p \in Procs \ Procs : l[p] = m[p]
    OBVIOUS
  <2>2. Reach(m, Procs, 0) = 0
    BY <1>2, <2>1, ReachNone
  <2> QED
    BY <1>1, <2>1, <2>2, NoFewer
<1>4. \A p \in Procs : ~(l[p] > 0) /\ ~(m[p] > 0)
  BY <1>2, <1>3, ReachNone
<1>5. Waits(a, m, t) = {} /\ Waits(a, l, t) = {}
  BY <1>4 DEF Waits
<1>6. total + Cardinality(Waits(a, m, t)) <= w + Cardinality(Waits(a, l, t))
  BY DEF Behind
<1>7. total <= w
  BY <1>1, <1>5, <1>6, FS_EmptySet
<1>8. l = [p \in Procs |-> 0]
  BY <1>1, <1>4
<1> QED
  BY <1>7, <1>8

RivalBehind ==
  scheduler = SRT => Behind(arrivaltime, current_time, remainingtime, total_turnaround_time,
                            rival.left, rival.total, Max(RunTimes))

LEMMA RivalStep ==
  ASSUME Core, TotalOK, RivalBehind, Next, RivalTick PROVE RivalBehind'
<1>0. Inputs /\ Accounts
  BY DEF Core
<1> SUFFICES ASSUME scheduler' = SRT
             PROVE  Behind(arrivaltime', current_time', remainingtime', total_turnaround_time',
                           rival'.left, rival'.total, Max(RunTimes))
  BY DEF RivalBehind
<1>1. PICK b : b = Max(RunTimes)
  OBVIOUS
<1>2. b \in Nat /\ remainingtime \in [Procs -> 0 .. b] /\ runtime \in [Procs -> 0 .. b]
  BY <1>0, <1>1, LeftType
<1>3. CASE NextScheduler
  <2>1. /\ scheduler' = scheduler + 1 /\ current_time' = 0 /\ total_turnaround_time' = 0
        /\ remainingtime' = runtime
    BY <1>3 DEF NextScheduler
  <2>2. scheduler # SRT
    BY <2>1 DEF SRT
  <2>3. rival' = [left |-> runtime, total |-> 0]
    BY <2>2 DEF RivalTick, RivalStart
  <2>4. rival'.left = runtime /\ rival'.total = 0
    BY <2>3
  <2>5. Behind(arrivaltime', 0, runtime, 0, runtime, 0, b)
    BY <1>2, BehindStart
  <2> QED
    BY <1>1, <2>1, <2>4, <2>5
<1>4. CASE scheduler # Over /\ Tick(Chosen)
  <2>1. PICK x : x = Chosen
    OBVIOUS
  <2>2. x \in Candidates \cup {None} /\ (x = None => Candidates = {}) /\ Tick(x)
    BY <1>4, <2>1, ChosenIs
  <2>3. /\ scheduler = SRT /\ arrivaltime' = arrivaltime /\ current_time' = current_time + 1
        /\ num_finished < NumProcesses
    BY <2>2 DEF Tick, inputs
  <2>a. PICK l, w : l = rival.left /\ w = rival.total
    OBVIOUS
  <2>4. PICK a \in [Procs -> Nat], t \in Nat, m \in [Procs -> 0 .. b], total \in Nat :
          /\ a = arrivaltime /\ t = current_time /\ m = remainingtime /\ total = total_turnaround_time
          /\ l = rival.left /\ w = rival.total
    BY <2>a, <1>0, <1>2, FS_CardinalityType DEF Inputs, Accounts, TotalOK
  <2>5. Behind(a, t, m, total, l, w, b)
    BY <1>1, <2>3, <2>4 DEF RivalBehind
  <2>6. PICK R \in SUBSET Procs : R = Arrived(a, t)
    BY DEF Arrived
  <2>7. \A q \in Procs : m[q] \in Nat /\ (Finished(q) <=> m[q] = 0)
    BY <1>0, <2>4 DEF Accounts
  <2>8. \A q \in Procs : q \in Candidates <=> q \in R /\ m[q] > 0
    <3>1. \A q \in Procs : ~Finished(q) <=> m[q] > 0
      BY <2>7
    <3> QED
      BY <2>4, <2>6, <3>1 DEF Candidates, Arrived
  <2>9. /\ l \in [Procs -> 0 .. b] /\ w \in Nat /\ Lower(l, m, b)
        /\ \A q \in Procs \ R : l[q] = m[q]
    BY <2>5, <2>6 DEF Behind
  <2>10. RivalReady = {q \in R : l[q] > 0}
    BY <2>4, <2>6 DEF RivalReady, Arrived
  <2>11. /\ Reach(m, R, 0) <= Reach(l, R, 0) /\ Reach(m, R, 0) \in Nat /\ Reach(l, R, 0) \in Nat
         /\ Reach(m, R, 0) = 0 => Reach(l, R, 0) = 0
    BY <1>2, <2>9, NoFewer, ReachType
  <2>12. num_finished # NumProcesses
    BY <2>3, Sizes
  <2>13. CASE x = None
    <3>1. \A q \in R : ~(m[q] > 0)
      BY <2>2, <2>8, <2>13
    <3>2. Reach(l, R, 0) = 0
      BY <2>11, <3>1, ReachNone
    <3>3. RivalReady = {}
      BY <2>10, <3>2, ReachNone
    <3>4. rival' = rival
      BY <2>3, <2>12, <3>3 DEF RivalTick
    <3>5. remainingtime' = remainingtime /\ total_turnaround_time' = total_turnaround_time
      BY <2>2, <2>13 DEF Tick
    <3>6. Behind(a, t + 1, m, total, l, w, b)
      BY <1>2, <2>5, <2>6, <3>1, BehindIdle
    <3> QED
      BY <1>1, <2>3, <2>4, <3>4, <3>5, <3>6
  <2>14. CASE x # None
    <3>1. x \in R /\ m[x] > 0 /\ x \in Procs /\ x \in Candidates
      BY <2>2, <2>8, <2>14 DEF Candidates
    <3>2. \A q \in R : m[q] > 0 => m[x] <= m[q]
      <4>1. x = FirstLeast(Candidates, remainingtime) /\ remainingtime \in [Procs -> Nat]
            /\ Candidates \in SUBSET Procs
        BY <1>0, <2>1, <2>3, CandidatesAre
           DEF Chosen, shortest_remaining_time, Accounts, SRT, FCFS
      <4>2. \A q \in Candidates : \/ remainingtime[x] < remainingtime[q]
                                  \/ remainingtime[x] = remainingtime[q] /\ x <= q
        BY <3>1, <4>1, FirstLeastIs
      <4>3. ASSUME NEW q \in R, m[q] > 0 PROVE m[x] <= m[q]
        <5>1. q \in Candidates /\ m[x] \in Nat /\ m[q] \in Nat
          BY <2>7, <2>8, <3>1, <4>3
        <5>2. m[x] < m[q] \/ m[x] = m[q]
          BY <2>4, <4>2, <5>1
        <5> QED
          BY <5>1, <5>2
      <4> QED
        BY <4>3
    <3>3. RivalReady # {}
      <4>1. Reach(m, R, 0) # 0
        BY <3>1, ReachNone
      <4>2. Reach(l, R, 0) # 0
        BY <2>11, <4>1
      <4> QED
        BY <2>10, <4>2, ReachNone
    <3>4. PICK p \in RivalReady :
            rival' = [left |-> [rival.left EXCEPT ![p] = @ - 1],
                      total |-> rival.total + IF rival.left[p] = 1
                                              THEN current_time + 1 - arrivaltime[p] ELSE 0]
      BY <2>3, <2>12, <3>3 DEF RivalTick
    <3>5. p \in R /\ l[p] > 0 /\ p \in Procs
      BY <2>10, <3>4
    <3>6. PICK w1 : w1 = w + Turnaround(a, l, p, t + 1)
      OBVIOUS
    <3>7. rival'.left = Run(l, p) /\ rival'.total = w1
      <4>1. rival'.left = [rival.left EXCEPT ![p] = @ - 1]
        BY <3>4
      <4>2. rival'.total = rival.total + IF rival.left[p] = 1
                                         THEN current_time + 1 - arrivaltime[p] ELSE 0
        BY <3>4
      <4>3. w1 = w + IF l[p] = 1 THEN t + 1 - a[p] ELSE 0
        <5>1. a[p] \in Nat /\ t \in Nat /\ w \in Nat
          BY <2>4, <2>9, <3>5
        <5> QED
          BY <3>6, <5>1 DEF Turnaround
      <4> QED
        BY <2>4, <4>1, <4>2, <4>3 DEF Run
    <3>8. remainingtime' = Run(m, x)
      BY <2>2, <2>4, <2>14 DEF Tick, Run
    <3>9. PICK total1 : total1 = total + Turnaround(a, m, x, t + 1)
      OBVIOUS
    <3>10. total_turnaround_time' = total1
      <4>1. a[x] \in Nat /\ total \in Nat /\ t \in Nat
        BY <3>1
      <4>2. total_turnaround_time' =
              IF m[x] = 1 THEN total + t + 1 - a[x] ELSE total
        BY <2>2, <2>4, <2>14 DEF Tick
      <4> QED
        BY <3>9, <4>1, <4>2 DEF Turnaround
    <3>11. Behind(a, t + 1, Run(m, x), total1, Run(l, p), w1, b)
      BY <1>2, <2>5, <2>6, <3>1, <3>2, <3>5, <3>6, <3>9, BehindTick
    <3> QED
      BY <1>1, <2>3, <2>4, <3>7, <3>8, <3>10, <3>11
  <2> QED
    BY <2>13, <2>14
<1>5. CASE UNCHANGED vars
  <2>1. current_time' = current_time /\ scheduler' = scheduler
    BY <1>5 DEF vars
  <2>2. current_time' = current_time + 1 \/ scheduler' = scheduler + 1
    BY DEF Next, TickFcfs, TickSrt, TickRoundRobin, TickPriority, Tick, NextScheduler
  <2>3. current_time \in Nat /\ scheduler \in Nat
    BY <1>0 DEF Accounts, FCFS, SRT, RR, RRP, Over
  <2> QED
    BY <2>1, <2>2, <2>3
<1> QED
  BY <1>3, <1>4, <1>5, Steps

(* Shortest remaining time, looking for the least anew in every tick       *)
(* (scheduling.c:209-228), ends all processes with a total turnaround time *)
(* no other way to share the processor among them beats.                   *)
THEOREM ShortestIsLeast == RivalSpec => []SrtIsLeast
<1> DEFINE Inv == Core /\ TotalOK /\ RivalBehind
<1>1. RivalInit => Inv
  <2> SUFFICES ASSUME RivalInit PROVE Inv
    OBVIOUS
  <2>1. RivalBehind
    BY DEF RivalInit, Init, RivalBehind, FCFS, SRT
  <2> QED
    BY <2>1, CoreInit, TotalInit DEF RivalInit
<1>2. Inv /\ [Next /\ RivalTick]_<<vars, rival>> => Inv'
  <2> SUFFICES ASSUME Inv, [Next /\ RivalTick]_<<vars, rival>> PROVE Inv'
    OBVIOUS
  <2>1. [Next]_vars
    OBVIOUS
  <2>2. Core' /\ TotalOK'
    BY <2>1, CoreStep, TotalStep
  <2>3. CASE Next /\ RivalTick
    BY <2>2, <2>3, RivalStep
  <2>4. CASE UNCHANGED <<vars, rival>>
    <3>1. UNCHANGED <<scheduler, arrivaltime, current_time, remainingtime, total_turnaround_time, rival>>
      BY <2>4 DEF vars, inputs
    <3>2. RivalBehind'
      BY <3>1 DEF RivalBehind
    <3> QED
      BY <2>2, <3>2
  <2> QED
    BY <2>3, <2>4
<1>3. Inv => SrtIsLeast
  <2> SUFFICES ASSUME Core, TotalOK, RivalBehind, scheduler = SRT, num_finished = NumProcesses
               PROVE  total_turnaround_time <= rival.total /\ \A p \in Procs : rival.left[p] = 0
    BY DEF SrtIsLeast
  <2>1. Inputs /\ Accounts
    BY DEF Core
  <2>2. \A p \in Procs : remainingtime[p] = 0
    BY <2>1, NotAllDone DEF Accounts
  <2>a. PICK b \in Nat : b = Max(RunTimes)
    BY <2>1, LeftType
  <2>b. PICK l, w : l = rival.left /\ w = rival.total
    OBVIOUS
  <2>3. PICK a \in [Procs -> Nat], t \in Nat, m \in [Procs -> 0 .. b], total \in Nat :
          /\ a = arrivaltime /\ t = current_time /\ m = remainingtime
          /\ total = total_turnaround_time /\ l = rival.left /\ w = rival.total
    BY <2>1, <2>a, <2>b, LeftType, FS_CardinalityType DEF Inputs, Accounts, TotalOK
  <2>4. Behind(a, t, m, total, l, w, b)
    BY <2>a, <2>3 DEF RivalBehind
  <2>5. \A p \in Procs : m[p] = 0
    BY <2>2, <2>3
  <2>6. total <= w /\ l = [p \in Procs |-> 0]
    BY <2>a, <2>3, <2>4, <2>5, BehindEnd
  <2> QED
    BY <2>3, <2>6
<1> QED
  BY <1>1, <1>2, <1>3, PTL DEF RivalSpec

=============================================================================
