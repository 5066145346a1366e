---------------------------- MODULE PageSimProofs ----------------------------
(***************************************************************************)
(* Theorems about the page replacement simulator, for any number of        *)
(* frames, any pages and any reference string: what FIFO keeps is a queue, *)
(* what LRU keeps is what was used last, OPT has the fewest faults there   *)
(* can be, and no policy holds a page twice.                               *)
(***************************************************************************)
EXTENDS PageSim, SetInduction

-----------------------------------------------------------------------------
(* Some index of a nonempty interval has the least, and one the greatest,  *)
(* value of a bounded function.                                            *)
LEMMA LeastAt ==
  ASSUME NEW n \in Nat \ {0}, NEW f, NEW b \in Int, \A j \in Frames(n) : f[j] \in Int /\ b <= f[j]
  PROVE  \E j \in Frames(n) : \A k \in Frames(n) : f[j] <= f[k]
<1> DEFINE T == {f[j] : j \in Frames(n)}
<1>1. 0 \in Frames(n)
  BY DEF Frames
<1>2. T \in SUBSET Int /\ T # {} /\ \A x \in T : b <= x
  BY <1>1
<1>3. Min(T) \in T /\ \A y \in T : Min(T) <= y
  <2> HIDE DEF T
  <2> QED
    BY <1>2, LeastOf
<1> QED
  BY <1>3

LEMMA GreatestAt ==
  ASSUME NEW n \in Nat \ {0}, NEW f, NEW b \in Int, \A j \in Frames(n) : f[j] \in Int /\ f[j] <= b
  PROVE  \E j \in Frames(n) : \A k \in Frames(n) : f[k] <= f[j]
<1> DEFINE T == {f[j] : j \in Frames(n)}
<1>1. 0 \in Frames(n)
  BY DEF Frames
<1>2. T \in SUBSET Int /\ T # {} /\ \A x \in T : x <= b
  BY <1>1
<1>3. Max(T) \in T /\ \A y \in T : y <= Max(T)
  <2> HIDE DEF T
  <2> QED
    BY <1>2, GreatestOf
<1> QED
  BY <1>3

LEMMA LeastFrame ==
  ASSUME NEW n \in Nat \ {0}, NEW S \in SUBSET Frames(n), S # {}
  PROVE  Min(S) \in S /\ \A j \in S : Min(S) <= j
<1>1. S \in SUBSET Int /\ \A x \in S : 0 <= x
  BY DEF Frames
<1> QED
  BY <1>1, LeastOf

-----------------------------------------------------------------------------
(* The references. *)

RefsOK ==
  /\ \E len \in 1 .. MaxRefs : ref_string \in [0 .. len - 1 -> Pages]
  /\ i \in 0 .. ref_len

LEMMA RefLength ==
  ASSUME NEW len \in 1 .. MaxRefs, ref_string \in [0 .. len - 1 -> Pages]
  PROVE  ref_len = len
<1>1. len \in Nat /\ len - 1 \in Int /\ 0 \in Int /\ len >= 1
  BY PageAssumption
<1>2. Cardinality(0 .. len - 1) = len
  BY <1>1, FS_Interval
<1> QED
  BY <1>2 DEF ref_len

LEMMA RefFacts ==
  RefsOK => ref_len \in Nat \ {0} /\ ref_string \in [0 .. ref_len - 1 -> Pages] /\ i \in Nat
<1> SUFFICES ASSUME RefsOK
             PROVE  ref_len \in Nat \ {0} /\ ref_string \in [0 .. ref_len - 1 -> Pages] /\ i \in Nat
  OBVIOUS
<1>1. PICK len \in 1 .. MaxRefs : ref_string \in [0 .. len - 1 -> Pages]
  BY DEF RefsOK
<1>2. ref_len = len
  BY <1>1, RefLength
<1> QED
  BY <1>1, <1>2, PageAssumption DEF RefsOK

LEMMA RefsInit == Init => RefsOK
<1> SUFFICES ASSUME Init PROVE RefsOK
  OBVIOUS
<1>1. PICK len \in 1 .. MaxRefs : ref_string \in [0 .. len - 1 -> Pages]
  BY DEF Init
<1>2. ref_len = len
  BY <1>1, RefLength
<1> QED
  BY <1>1, <1>2, PageAssumption DEF Init, RefsOK

(* What one turn of the loop finds and does. *)
LEMMA Turn ==
  ASSUME RefsOK, Reference
  PROVE  /\ RefsOK' /\ ref_len' = ref_len /\ ref_string' = ref_string /\ i' = i + 1
         /\ ref_string[i] \in Pages /\ ref_string[i] # Empty /\ i \in 0 .. ref_len - 1
<1>1. ref_len \in Nat \ {0} /\ ref_string \in [0 .. ref_len - 1 -> Pages] /\ i \in Nat
  BY RefFacts
<1>2. i < ref_len /\ i' = i + 1 /\ ref_string' = ref_string
  BY DEF Reference
<1>3. ref_len' = ref_len
  BY <1>2 DEF ref_len
<1>4. RefsOK'
  BY <1>1, <1>2, <1>3 DEF RefsOK
<1> QED
  BY <1>1, <1>2, <1>3, <1>4, PageAssumption

-----------------------------------------------------------------------------
(* The queue of loaded pages.  It is defined by recursion over the         *)
(* references so far; here it is shown to grow by one step with each.      *)

Queues(r, n, m, f) ==
  f = [k \in 0 .. m |-> IF k = 0 THEN <<>> ELSE Load(f[k - 1], r[k - 1], n)]

LEMMA QueuesExist ==
  ASSUME NEW r, NEW n, NEW m \in Nat PROVE \E f : Queues(r, n, m, f)
<1> DEFINE Good == {l \in Nat : \E f : Queues(r, n, l, f)}
<1>1. 0 \in Good
  <2> DEFINE f == [k \in 0 .. 0 |-> <<>>]
  <2>1. f = [k \in 0 .. 0 |-> IF k = 0 THEN <<>> ELSE Load(f[k - 1], r[k - 1], n)]
    OBVIOUS
  <2> HIDE DEF f
  <2>2. Queues(r, n, 0, f)
    BY <2>1 DEF Queues
  <2> QED
    BY <2>2
<1>2. ASSUME NEW l \in Nat, l \in Good PROVE l + 1 \in Good
  <2>1. PICK f : Queues(r, n, l, f)
    BY <1>2
  <2> DEFINE g == [k \in 0 .. l + 1 |-> IF k = l + 1 THEN Load(f[l], r[l], n) ELSE f[k]]
  <2>2. ASSUME NEW k \in 0 .. l + 1
        PROVE  g[k] = IF k = 0 THEN <<>> ELSE Load(g[k - 1], r[k - 1], n)
    <3>1. CASE k = l + 1
      <4>1. g[k] = Load(f[l], r[l], n) /\ g[l] = f[l] /\ k - 1 = l /\ k # 0
        BY <3>1
      <4> HIDE DEF g
      <4> QED
        BY <4>1
    <3>2. CASE k # l + 1
      <4>1. k \in 0 .. l /\ g[k] = f[k] /\ (k # 0 => k - 1 \in 0 .. l /\ g[k - 1] = f[k - 1])
        BY <3>2
      <4> HIDE DEF g
      <4>2. f[k] = IF k = 0 THEN <<>> ELSE Load(f[k - 1], r[k - 1], n)
        BY <2>1, <4>1 DEF Queues
      <4> QED
        BY <4>1, <4>2
    <3> QED
      BY <3>1, <3>2
  <2>3. g = [k \in 0 .. l + 1 |-> g[k]]
    OBVIOUS
  <2> HIDE DEF g
  <2>4. Queues(r, n, l + 1, g)
    BY <2>2, <2>3 DEF Queues
  <2> QED
    BY <2>4
<1> HIDE DEF Good
<1>3. Nat \subseteq Good
  BY <1>1, <1>2, NatInduct
<1> QED
  BY <1>3 DEF Good

LEMMA QueuesAgree ==
  ASSUME NEW r, NEW n, NEW m \in Nat, NEW f, NEW g,
         Queues(r, n, m, f), Queues(r, n, m + 1, g)
  PROVE  f[m] = g[m]
<1> DEFINE Good == {k \in Nat : k <= m => f[k] = g[k]}
<1>0. /\ \A k \in 0 .. m : f[k] = IF k = 0 THEN <<>> ELSE Load(f[k - 1], r[k - 1], n)
      /\ \A k \in 0 .. m + 1 : g[k] = IF k = 0 THEN <<>> ELSE Load(g[k - 1], r[k - 1], n)
  BY DEF Queues
<1>1. 0 \in Good
  BY <1>0
<1>2. ASSUME NEW k \in Nat, k \in Good PROVE k + 1 \in Good
  <2> SUFFICES ASSUME k + 1 <= m PROVE f[k + 1] = g[k + 1]
    OBVIOUS
  <2>1. f[k] = g[k] /\ k + 1 \in 0 .. m /\ k + 1 \in 0 .. m + 1 /\ (k + 1) - 1 = k /\ k + 1 # 0
    BY <1>2
  <2>2. f[k + 1] = Load(f[k], r[k], n) /\ g[k + 1] = Load(g[k], r[k], n)
    BY <1>0, <2>1
  <2> QED
    BY <2>1, <2>2
<1> HIDE DEF Good
<1>3. Nat \subseteq Good
  BY <1>1, <1>2, NatInduct
<1> QED
  BY <1>3 DEF Good

LEMMA LoadedIs ==
  ASSUME i \in Nat, NEW n PROVE \E f : Queues(ref_string, n, i, f) /\ Loaded(n) = f[i]
<1> DEFINE f == CHOOSE f : Queues(ref_string, n, i, f)
<1>1. Queues(ref_string, n, i, f)
  BY QueuesExist
<1>2. Loaded(n) = f[i]
  BY DEF Loaded, Queues
<1> QED
  BY <1>1, <1>2

LEMMA LoadedIsNext ==
  ASSUME i' \in Nat, NEW n PROVE \E f : Queues(ref_string', n, i', f) /\ Loaded(n)' = f[i']
<1> DEFINE f == CHOOSE f : Queues(ref_string', n, i', f)
<1>1. Queues(ref_string', n, i', f)
  BY QueuesExist
<1>2. Loaded(n)' = f[i']
  BY DEF Loaded, Queues
<1> QED
  BY <1>1, <1>2

LEMMA LoadedInit == ASSUME i = 0, NEW n PROVE Loaded(n) = <<>>
<1>1. PICK f : Queues(ref_string, n, i, f) /\ Loaded(n) = f[i]
  BY LoadedIs
<1> QED
  BY <1>1 DEF Queues

LEMMA LoadedStep ==
  ASSUME RefsOK, Reference, NEW n PROVE Loaded(n)' = Load(Loaded(n), ref_string[i], n)
<1>1. i \in Nat /\ i' = i + 1 /\ ref_string' = ref_string
  BY RefFacts, Turn
<1>2. PICK f : Queues(ref_string, n, i, f) /\ Loaded(n) = f[i]
  BY <1>1, LoadedIs
<1>3. PICK g : Queues(ref_string, n, i + 1, g) /\ Loaded(n)' = g[i + 1]
  BY <1>1, LoadedIsNext
<1>4. g[i] = f[i]
  BY <1>1, <1>2, <1>3, QueuesAgree
<1>5. g[i + 1] = Load(g[i], ref_string[i], n)
  <2>1. i + 1 \in 0 .. i + 1 /\ (i + 1) - 1 = i /\ i + 1 # 0
    BY <1>1
  <2> QED
    BY <1>3, <2>1 DEF Queues
<1> QED
  BY <1>2, <1>3, <1>4, <1>5

-----------------------------------------------------------------------------
(* FIFO. *)

Once(F) == \A j, k \in DOMAIN F : F[j] = F[k] /\ F[j] # Empty => j = k

(* The ring F, read from frame x on, is the queue L. *)
Ring(F, x, L, n) ==
  /\ L \in Seq(Pages) /\ Len(L) <= n
  /\ \A m \in 1 .. n : F[(x + (m - 1)) % n] = IF m <= n - Len(L) THEN Empty ELSE L[m - (n - Len(L))]

(* d frames after frame x, without the remainder. *)
At(x, d, n) == IF x + d < n THEN x + d ELSE (x + d) - n

LEMMA AtValue ==
  ASSUME NEW n \in Nat \ {0}, NEW x \in Frames(n), NEW d \in 0 .. n
  PROVE  (x + d) % n = At(x, d, n) /\ At(x, d, n) \in Frames(n)
<1>0. x \in Int /\ 0 <= x /\ x < n /\ d \in Int /\ 0 <= d /\ d <= n
  BY DEF Frames
<1>1. /\ \A y \in 0 .. n - 1 : y % n = y
      /\ \A y \in n .. 2 * n - 1 : y % n = y - n
  OBVIOUS
<1>2. CASE x + d < n
  <2>1. x + d \in 0 .. n - 1
    BY <1>0, <1>2
  <2>2. (x + d) % n = x + d
    BY <1>1, <2>1, Zenon
  <2> QED
    BY <1>2, <2>1, <2>2 DEF At, Frames
<1>3. CASE ~(x + d < n)
  <2>1. x + d \in n .. 2 * n - 1 /\ (x + d) - n \in 0 .. n - 1
    BY <1>0, <1>3
  <2>2. (x + d) % n = (x + d) - n
    BY <1>1, <2>1, Zenon
  <2> QED
    BY <1>3, <2>1, <2>2 DEF At, Frames
<1> QED
  BY <1>2, <1>3

(* A fault puts the page in the frame the ring is read from last. *)
LEMMA RingLoad ==
  ASSUME NEW n \in Nat \ {0}, NEW F \in [Frames(n) -> Pages \cup {Empty}], NEW x \in Frames(n),
         NEW L, Ring(F, x, L, n), NEW page \in Pages
  PROVE  IF Where(F, page) # {} THEN Load(L, page, n) = L
         ELSE Ring([F EXCEPT ![x] = page], Advance(x, n), Load(L, page, n), n)
<1>0. x \in Int /\ 0 <= x /\ x < n /\ L \in Seq(Pages) /\ Len(L) \in Nat /\ Len(L) <= n
  BY DEF Frames, Ring
<1> DEFINE e == n - Len(L)
<1>1. e \in 0 .. n /\ Len(L) = n - e
  BY <1>0
<1>2. \A m \in 1 .. n : F[At(x, m - 1, n)] = IF m <= e THEN Empty ELSE L[m - e]
  <2> SUFFICES ASSUME NEW m \in 1 .. n PROVE F[At(x, m - 1, n)] = IF m <= e THEN Empty ELSE L[m - e]
    OBVIOUS
  <2>1. m - 1 \in 0 .. n
    OBVIOUS
  <2>2. (x + (m - 1)) % n = At(x, m - 1, n)
    BY <2>1, AtValue
  <2> QED
    BY <2>2 DEF Ring
<1> HIDE DEF e
<1>3. (\E m \in 1 .. Len(L) : L[m] = page) <=> Where(F, page) # {}
  <2>1. ASSUME NEW m \in 1 .. Len(L), L[m] = page PROVE Where(F, page) # {}
    <3>1. m + e \in 1 .. n /\ ~(m + e <= e) /\ (m + e) - e = m /\ (m + e) - 1 \in 0 .. n
      BY <1>0, <1>1
    <3>2. F[At(x, (m + e) - 1, n)] = page /\ At(x, (m + e) - 1, n) \in Frames(n)
      BY <1>2, <2>1, <3>1, AtValue
    <3> QED
      BY <3>2 DEF Where
  <2>2. ASSUME NEW j \in Frames(n), F[j] = page PROVE \E m \in 1 .. Len(L) : L[m] = page
    <3>1. PICK m \in 1 .. n : At(x, m - 1, n) = j
      <4>0. j \in Int /\ 0 <= j /\ j < n
        BY DEF Frames
      <4>1. CASE x <= j
        <5>1. (j - x) + 1 \in 1 .. n /\ At(x, ((j - x) + 1) - 1, n) = j
          BY <1>0, <4>0, <4>1 DEF At
        <5> QED
          BY <5>1
      <4>2. CASE ~(x <= j)
        <5>1. (j - x) + n + 1 \in 1 .. n /\ At(x, ((j - x) + n + 1) - 1, n) = j
          BY <1>0, <4>0, <4>2 DEF At
        <5> QED
          BY <5>1
      <4> QED
        BY <4>1, <4>2
    <3>2. F[j] = IF m <= e THEN Empty ELSE L[m - e]
      BY <1>2, <3>1
    <3>3. ~(m <= e) /\ L[m - e] = page
      BY <2>2, <3>2, PageAssumption
    <3>4. m - e \in 1 .. Len(L)
      BY <1>1, <3>3
    <3> QED
      BY <3>3, <3>4
  <2>3. Where(F, page) # {} => \E j \in Frames(n) : F[j] = page
    BY DEF Where
  <2> QED
    BY <2>1, <2>2, <2>3
<1>4. CASE Where(F, page) # {}
  BY <1>3, <1>4 DEF Load
<1>5. CASE Where(F, page) = {}
  <2> DEFINE G == [F EXCEPT ![x] = page]
             y == Advance(x, n)
             M == Load(L, page, n)
             d == n - Len(M)
  <2>1. y = At(x, 1, n) /\ y \in Frames(n)
    <3>1. 1 \in 0 .. n
      OBVIOUS
    <3> QED
      BY <3>1, AtValue DEF Advance
  <2>2. M = IF Len(L) = n THEN Append(Tail(L), page) ELSE Append(L, page)
    BY <1>3, <1>5 DEF Load
  <2>3. /\ M \in Seq(Pages) /\ Len(M) <= n /\ Len(M) \in Nat /\ Len(M) >= 1
        /\ M[Len(M)] = page /\ d = (IF e = 0 THEN 0 ELSE e - 1)
        /\ \A m \in 1 .. Len(M) - 1 : M[m] = IF e = 0 THEN L[m + 1] ELSE L[m]
    <3>1. CASE Len(L) = n
      <4>1. Tail(L) \in Seq(Pages) /\ Len(Tail(L)) = n - 1 /\ \A m \in 1 .. n - 1 : Tail(L)[m] = L[m + 1]
        BY <1>0, <3>1
      <4> DEFINE T == Tail(L)
      <4> HIDE DEF T
      <4>2. T \in Seq(Pages) /\ Len(T) = n - 1 /\ \A m \in 1 .. n - 1 : T[m] = L[m + 1]
        BY <4>1 DEF T
      <4>3. M = Append(T, page)
        BY <2>2, <3>1 DEF T
      <4> QED
        BY <1>1, <3>1, <4>2, <4>3
    <3>2. CASE Len(L) # n
      BY <1>0, <1>1, <2>2, <3>2
    <3> QED
      BY <3>1, <3>2
  <2> HIDE DEF M, y
  <2>4. ASSUME NEW m \in 1 .. n PROVE G[(y + (m - 1)) % n] = IF m <= d THEN Empty ELSE M[m - d]
    <3>1. (y + (m - 1)) % n = At(y, m - 1, n)
      <4>1. m - 1 \in 0 .. n
        OBVIOUS
      <4> QED
        BY <2>1, <4>1, AtValue
    <3>2. At(y, m - 1, n) = At(x, m, n)
      BY <1>0, <2>1 DEF At
    <3>3. CASE m = n
      <4>1. At(x, m, n) = x
        BY <1>0, <3>3 DEF At
      <4>2. ~(m <= d) /\ m - d = Len(M)
        BY <2>3, <3>3
      <4> QED
        BY <2>3, <3>1, <3>2, <4>1, <4>2
    <3>4. CASE m # n
      <4>1. m + 1 \in 1 .. n /\ (m + 1) - 1 = m /\ m \in 0 .. n
        BY <3>4
      <4>2. At(x, m, n) # x /\ At(x, m, n) \in Frames(n)
        BY <1>0, <3>4, <4>1, AtValue DEF At
      <4>3. G[At(x, m, n)] = F[At(x, m, n)]
        BY <4>2
      <4>4. F[At(x, m, n)] = IF m + 1 <= e THEN Empty ELSE L[(m + 1) - e]
        BY <1>2, <4>1
      <4>5. CASE m + 1 <= e
        BY <1>1, <2>3, <3>1, <3>2, <4>3, <4>4, <4>5
      <4>6. CASE ~(m + 1 <= e)
        <5>1. ~(m <= d)
          BY <1>1, <2>3, <4>6
        <5>2. m - d \in 1 .. Len(M) - 1
          BY <1>1, <2>3, <3>4, <4>6
        <5>3. M[m - d] = L[(m + 1) - e]
          <6>1. CASE e = 0
            BY <2>3, <5>2, <6>1
          <6>2. CASE e # 0
            <7>1. M[m - d] = L[m - d]
              BY <2>3, <5>2, <6>2
            <7>2. d = e - 1
              BY <2>3, <6>2
            <7>3. e \in Int /\ m \in Int
              BY <1>1
            <7> HIDE DEF d
            <7> QED
              BY <7>1, <7>2, <7>3
          <6> QED
            BY <6>1, <6>2
        <5> QED
          BY <3>1, <3>2, <4>3, <4>4, <4>6, <5>1, <5>3
      <4> QED
        BY <4>5, <4>6
    <3> QED
      BY <3>3, <3>4
  <2>5. Ring(G, y, M, n)
    BY <2>3, <2>4 DEF Ring
  <2> QED
    BY <1>5, <2>5 DEF M, y
<1> QED
  BY <1>4, <1>5

FifoOK(n) ==
  /\ fifo[n].frames \in [Frames(n) -> Pages \cup {Empty}] /\ Once(fifo[n].frames)
  /\ fifo[n].faults \in 0 .. i /\ fifo[n].next_replace \in Frames(n)
  /\ Ring(fifo[n].frames, fifo[n].next_replace, Loaded(n), n)

(* A page that is nowhere can be put anywhere. *)
LEMMA OnceMore ==
  ASSUME NEW n \in Nat \ {0}, NEW F \in [Frames(n) -> Pages \cup {Empty}], Once(F),
         NEW j \in Frames(n), NEW page \in Pages, Where(F, page) = {}
  PROVE  /\ [F EXCEPT ![j] = page] \in [Frames(n) -> Pages \cup {Empty}]
         /\ Once([F EXCEPT ![j] = page])
BY DEF Once, Where

LEMMA FifoInit == ASSUME Init, NEW n \in NumFrames PROVE FifoOK(n)
<1>1. n \in Nat \ {0}
  BY PageAssumption DEF NumFrames
<1>2. Loaded(n) = <<>>
  BY LoadedInit DEF Init
<1>3. /\ fifo[n].frames = [j \in Frames(n) |-> Empty] /\ fifo[n].faults = 0 /\ fifo[n].next_replace = 0
      /\ i = 0
  BY DEF Init
<1>4. 0 \in Frames(n)
  BY <1>1 DEF Frames
<1>5. ASSUME NEW m \in 1 .. n PROVE (0 + (m - 1)) % n \in Frames(n)
  <2>1. m - 1 \in 0 .. n
    BY <1>1
  <2> QED
    BY <1>1, <1>4, <2>1, AtValue
<1>6. Ring(fifo[n].frames, 0, <<>>, n)
  <2>1. <<>> \in Seq(Pages) /\ Len(<<>>) = 0 /\ \A m \in 1 .. n : m <= n - Len(<<>>)
    BY <1>1
  <2>2. \A m \in 1 .. n : fifo[n].frames[(0 + (m - 1)) % n] = Empty
    BY <1>3, <1>5
  <2> QED
    BY <1>1, <2>1, <2>2 DEF Ring
<1> QED
  BY <1>2, <1>3, <1>4, <1>6 DEF FifoOK, Once

LEMMA FifoStep ==
  ASSUME RefsOK, Reference, NEW n \in NumFrames, FifoOK(n) PROVE FifoOK(n)'
<1> DEFINE F == fifo[n].frames
           x == fifo[n].next_replace
           page == ref_string[i]
<1>0. /\ n \in Nat \ {0} /\ i' = i + 1 /\ i \in Nat /\ page \in Pages
      /\ fifo'[n] = simulate_fifo(fifo[n], n, page)
      /\ Loaded(n)' = Load(Loaded(n), page, n)
  BY Turn, RefFacts, LoadedStep, PageAssumption DEF NumFrames, Reference
<1>1. /\ F \in [Frames(n) -> Pages \cup {Empty}] /\ Once(F) /\ x \in Frames(n)
      /\ fifo[n].faults \in 0 .. i /\ Ring(F, x, Loaded(n), n)
  BY DEF FifoOK
<1>2. IF Where(F, page) # {} THEN Load(Loaded(n), page, n) = Loaded(n)
      ELSE Ring([F EXCEPT ![x] = page], Advance(x, n), Load(Loaded(n), page, n), n)
  <2> HIDE DEF F, x, page
  <2> QED
    BY <1>0, <1>1, RingLoad
<1>3. CASE Where(F, page) # {}
  <2>1. fifo'[n] = fifo[n] /\ Loaded(n)' = Loaded(n)
    BY <1>0, <1>2, <1>3 DEF simulate_fifo
  <2> QED
    BY <1>0, <1>1, <2>1 DEF FifoOK
<1>4. CASE Where(F, page) = {}
  <2>1. fifo'[n] = [frames |-> [F EXCEPT ![x] = page], faults |-> fifo[n].faults + 1,
                    next_replace |-> Advance(x, n)]
    BY <1>0, <1>4 DEF simulate_fifo
  <2>2. [F EXCEPT ![x] = page] \in [Frames(n) -> Pages \cup {Empty}] /\ Once([F EXCEPT ![x] = page])
    <3> HIDE DEF F, x, page
    <3> QED
      BY <1>0, <1>1, <1>4, OnceMore
  <2>3. Advance(x, n) \in Frames(n)
    <3>1. 1 \in 0 .. n
      BY <1>0
    <3> QED
      BY <1>0, <1>1, <3>1, AtValue DEF Advance
  <2>4. Ring([F EXCEPT ![x] = page], Advance(x, n), Loaded(n)', n)
    BY <1>0, <1>2, <1>4
  <2>5. fifo[n].faults + 1 \in 0 .. i'
    BY <1>0, <1>1
  <2>6. /\ fifo'[n].frames = [F EXCEPT ![x] = page] /\ fifo'[n].faults = fifo[n].faults + 1
        /\ fifo'[n].next_replace = Advance(x, n)
    BY <2>1
  <2> HIDE DEF F, x, page
  <2> QED
    BY <2>2, <2>3, <2>4, <2>5, <2>6 DEF FifoOK
<1> QED
  BY <1>3, <1>4

-----------------------------------------------------------------------------
(* OPT. *)

OptOK(n) ==
  /\ opt[n] \in [frames : [Frames(n) -> Pages \cup {Empty}], faults : 0 .. i]
  /\ Once(opt[n].frames)

LEMMA NextUseIs ==
  ASSUME RefsOK, i < ref_len, NEW p PROVE NextUse(p) \in Int /\ NextUse(p) <= Infinity + ref_len
<1>1. ref_len \in Nat \ {0} /\ i \in Nat
  BY RefFacts
<1>2. UsesAhead(p) \in SUBSET Int /\ \A k \in UsesAhead(p) : 0 <= k /\ k <= ref_len
  BY <1>1 DEF UsesAhead
<1>3. UsesAhead(p) # {} => Min(UsesAhead(p)) \in UsesAhead(p)
  BY <1>2, LeastOf
<1> QED
  BY <1>1, <1>2, <1>3 DEF NextUse, Infinity

LEMMA OptVictimIs ==
  ASSUME RefsOK, i < ref_len, NEW n \in Nat \ {0}, NEW F, DOMAIN F = Frames(n)
  PROVE  OptVictim(F) \in Frames(n)
<1>1. CASE Where(F, Empty) # {}
  <2>1. Where(F, Empty) \in SUBSET Frames(n)
    BY DEF Where
  <2> QED
    BY <1>1, <2>1, LeastFrame DEF OptVictim
<1>2. CASE Where(F, Empty) = {}
  <2> DEFINE V == {j \in Frames(n) : \A k \in Frames(n) : NextUse(F[k]) <= NextUse(F[j])}
             f == [j \in Frames(n) |-> NextUse(F[j])]
  <2>1. \A j \in Frames(n) : f[j] \in Int /\ f[j] <= Infinity + ref_len
    BY NextUseIs
  <2>2. Infinity + ref_len \in Int
    BY RefFacts DEF Infinity
  <2>3. \E j \in Frames(n) : \A k \in Frames(n) : f[k] <= f[j]
    <3> HIDE DEF f
    <3> QED
      BY <2>1, <2>2, GreatestAt
  <2>4. V # {} /\ V \in SUBSET Frames(n)
    BY <2>3
  <2>5. OptVictim(F) = Min(V)
    BY <1>2 DEF OptVictim
  <2> HIDE DEF V
  <2>6. Min(V) \in V
    BY <2>4, LeastFrame
  <2> QED
    BY <2>4, <2>5, <2>6
<1> QED
  BY <1>1, <1>2

LEMMA OptInit == ASSUME Init, NEW n \in NumFrames PROVE OptOK(n)
BY DEF Init, OptOK, Once

LEMMA OptStep ==
  ASSUME RefsOK, Reference, NEW n \in NumFrames, OptOK(n) PROVE OptOK(n)'
<1> DEFINE F == opt[n].frames
           v == OptVictim(F)
           page == ref_string[i]
<1>0. /\ n \in Nat \ {0} /\ i' = i + 1 /\ i \in Nat /\ page \in Pages /\ i < ref_len
      /\ opt'[n] = simulate_opt(opt[n], page)
  BY Turn, RefFacts, PageAssumption DEF NumFrames, Reference
<1>1. /\ F \in [Frames(n) -> Pages \cup {Empty}] /\ Once(F) /\ opt[n].faults \in 0 .. i
      /\ opt[n] \in [frames : [Frames(n) -> Pages \cup {Empty}], faults : 0 .. i]
  BY DEF OptOK
<1>2. CASE Where(F, page) # {}
  <2>1. opt'[n] = opt[n]
    BY <1>0, <1>2 DEF simulate_opt
  <2>2. opt[n] \in [frames : [Frames(n) -> Pages \cup {Empty}], faults : 0 .. i']
    BY <1>0, <1>1
  <2> QED
    BY <1>1, <2>1, <2>2 DEF OptOK
<1>3. CASE Where(F, page) = {}
  <2>1. v \in Frames(n)
    BY <1>0, <1>1, OptVictimIs
  <2>2. opt'[n] = [opt[n] EXCEPT !.frames[v] = page, !.faults = @ + 1]
    BY <1>0, <1>3 DEF simulate_opt
  <2>3. opt'[n] = [frames |-> [F EXCEPT ![v] = page], faults |-> opt[n].faults + 1]
    BY <1>1, <2>2
  <2>4. [F EXCEPT ![v] = page] \in [Frames(n) -> Pages \cup {Empty}] /\ Once([F EXCEPT ![v] = page])
    <3> HIDE DEF F, v, page
    <3> QED
      BY <1>0, <1>1, <1>3, <2>1, OnceMore
  <2>5. opt[n].faults + 1 \in 0 .. i'
    BY <1>0, <1>1
  <2> HIDE DEF F, v, page
  <2> QED
    BY <2>3, <2>4, <2>5 DEF OptOK
<1> QED
  BY <1>2, <1>3

-----------------------------------------------------------------------------
(* LRU. *)

LEMMA LastUseIs ==
  ASSUME i \in Nat, NEW p
  PROVE  /\ LastUse(p) \in -1 .. i - 1
         /\ LastUse(p) >= 0 <=> UsesBehind(p) # {}
         /\ UsesBehind(p) # {} =>
              LastUse(p) \in UsesBehind(p) /\ \A k \in UsesBehind(p) : k <= LastUse(p)
<1>1. UsesBehind(p) \in SUBSET Int /\ \A k \in UsesBehind(p) : 0 <= k /\ k <= i - 1
  BY DEF UsesBehind
<1>2. UsesBehind(p) # {} => /\ Max(UsesBehind(p)) \in UsesBehind(p)
                            /\ \A k \in UsesBehind(p) : k <= Max(UsesBehind(p))
  <2>1. i - 1 \in Int
    OBVIOUS
  <2> QED
    BY <1>1, <2>1, GreatestOf
<1> QED
  BY <1>1, <1>2 DEF LastUse

(* No two pages were last used at the same time. *)
LEMMA LastUsesDiffer ==
  ASSUME i \in Nat, NEW p, NEW q, LastUse(p) >= 0, LastUse(p) = LastUse(q) PROVE p = q
<1>1. LastUse(p) \in UsesBehind(p) /\ LastUse(q) \in UsesBehind(q)
  BY LastUseIs
<1> QED
  BY <1>1 DEF UsesBehind

(* A reference makes its page the last one used. *)
LEMMA LastUseStep ==
  ASSUME RefsOK, Reference, NEW p
  PROVE  LastUse(p)' = IF p = ref_string[i] THEN i ELSE LastUse(p)
<1>1. i \in Nat /\ i' = i + 1 /\ ref_string' = ref_string
  BY RefFacts, Turn
<1>2. UsesBehind(p)' = IF p = ref_string[i] THEN UsesBehind(p) \cup {i} ELSE UsesBehind(p)
  BY <1>1 DEF UsesBehind
<1>3. CASE p = ref_string[i]
  <2>1. UsesBehind(p)' \in SUBSET Int /\ UsesBehind(p)' # {} /\ i \in UsesBehind(p)'
        /\ \A k \in UsesBehind(p)' : k <= i
    BY <1>1, <1>2, <1>3 DEF UsesBehind
  <2>2. Max(UsesBehind(p)') \in UsesBehind(p)' /\ \A k \in UsesBehind(p)' : k <= Max(UsesBehind(p)')
    BY <1>1, <2>1, GreatestOf
  <2>3. Max(UsesBehind(p)') = i
    BY <1>1, <2>1, <2>2
  <2> QED
    BY <1>3, <2>1, <2>3 DEF LastUse
<1>4. CASE p # ref_string[i]
  BY <1>2, <1>4 DEF LastUse
<1> QED
  BY <1>3, <1>4

LruTypes(n) ==
  lru[n] \in [frames : [Frames(n) -> Pages \cup {Empty}], faults : 0 .. i,
              last_used : [Frames(n) -> -1 .. i - 1]]

LruOK(n) ==
  LET F == lru[n].frames
      U == lru[n].last_used
  IN /\ LruTypes(n) /\ Once(F)
     (* last_used is what its name says. *)
     /\ \A j \in Frames(n) : F[j] # Empty => U[j] = LastUse(F[j]) /\ U[j] >= 0
     /\ \A j \in Frames(n) : F[j] = Empty => U[j] = -1
     (* Frame 0 is filled last. *)
     /\ F[0] # Empty => \A j \in Frames(n) : F[j] # Empty
     (* What is not resident any more was used before all that is. *)
     /\ \A p \in Pages : LastUse(p) >= 0 /\ Where(F, p) = {} =>
          \A j \in Frames(n) : F[j] # Empty /\ LastUse(F[j]) > LastUse(p)

(* The search for the victim finds an empty frame, or else the frame used  *)
(* least recently; and frame 0 only when the others are taken.             *)
LEMMA LruVictimIs ==
  ASSUME i \in Nat, NEW n \in Nat \ {0}, LruOK(n), NEW v, v = LruVictim(lru[n])
  PROVE  LET F == lru[n].frames
             U == lru[n].last_used
         IN /\ v \in Frames(n)
            /\ F[v] # Empty => \A k \in Frames(n) : F[k] # Empty /\ U[v] <= U[k]
            /\ v = 0 => \A k \in Frames(n) \ {0} : F[k] # Empty
<1> DEFINE F == lru[n].frames
           U == lru[n].last_used
           E == Where(F, Empty) \ {0}
<1>1. /\ F \in [Frames(n) -> Pages \cup {Empty}] /\ U \in [Frames(n) -> -1 .. i - 1]
      /\ 0 \in Frames(n)
      /\ \A j \in Frames(n) : F[j] # Empty => U[j] >= 0
      /\ \A j \in Frames(n) : F[j] = Empty => U[j] = -1
      /\ F[0] # Empty => \A j \in Frames(n) : F[j] # Empty
  BY DEF LruOK, LruTypes, Frames
<1>2. CASE E # {}
  <2>1. v = Min(E) /\ E \in SUBSET Frames(n)
    BY <1>1, <1>2 DEF LruVictim, Where
  <2>2. v \in E
    <3> HIDE DEF E
    <3> QED
      BY <1>2, <2>1, LeastFrame
  <2>3. v \in Frames(n) /\ F[v] = Empty /\ v # 0
    BY <1>1, <2>2 DEF Where
  <2> QED
    BY <2>3
<1>3. CASE E = {}
  <2> DEFINE V == {j \in Frames(n) : \A k \in Frames(n) : U[j] <= U[k]}
  <2>1. v = Min(V)
    BY <1>1, <1>3 DEF LruVictim
  <2>2. V # {} /\ V \in SUBSET Frames(n)
    <3>1. \A j \in Frames(n) : U[j] \in Int /\ -1 <= U[j]
      BY <1>1
    <3>2. \E j \in Frames(n) : \A k \in Frames(n) : U[j] <= U[k]
      <4> HIDE DEF U
      <4> QED
        BY <3>1, LeastAt
    <3> QED
      BY <3>2
  <2>3. v \in V
    <3> HIDE DEF V
    <3> QED
      BY <2>1, <2>2, LeastFrame
  <2>4. \A k \in Frames(n) \ {0} : F[k] # Empty
    BY <1>1, <1>3 DEF Where
  <2>5. ASSUME F[v] # Empty PROVE \A k \in Frames(n) : F[k] # Empty /\ U[v] <= U[k]
    <3>1. U[v] >= 0 /\ U[v] <= U[0] /\ v \in Frames(n)
      BY <1>1, <2>3, <2>5
    <3>2. F[0] # Empty
      BY <1>1, <3>1
    <3> QED
      BY <1>1, <2>3, <3>2
  <2> QED
    BY <2>3, <2>4, <2>5
<1> QED
  BY <1>2, <1>3

LEMMA LruInit == ASSUME Init, NEW n \in NumFrames PROVE LruOK(n)
<1>1. /\ lru[n] = [frames |-> [j \in Frames(n) |-> Empty], faults |-> 0,
                   last_used |-> [j \in Frames(n) |-> -1]]
      /\ i = 0 /\ n \in Nat \ {0} /\ 0 \in Frames(n)
  BY PageAssumption DEF Init, NumFrames, Frames
<1>2. \A p : ~(LastUse(p) >= 0)
  BY <1>1, LastUseIs
<1>3. LruTypes(n)
  BY <1>1 DEF LruTypes
<1> QED
  BY <1>1, <1>2, <1>3 DEF LruOK, Once

LEMMA LruStep ==
  ASSUME RefsOK, Reference, NEW n \in NumFrames, LruOK(n) PROVE LruOK(n)'
<1>f. PICK F : F = lru[n].frames
  OBVIOUS
<1>u. PICK U : U = lru[n].last_used
  OBVIOUS
<1>p. PICK page : page = ref_string[i]
  OBVIOUS
<1>0. /\ n \in Nat \ {0} /\ i' = i + 1 /\ i \in Nat /\ page \in Pages /\ page # Empty
      /\ lru'[n] = simulate_lru(lru[n], page)
      /\ \A p : LastUse(p)' = IF p = page THEN i ELSE LastUse(p)
  BY <1>p, Turn, RefFacts, LastUseStep, PageAssumption DEF NumFrames, Reference
<1>1. /\ F \in [Frames(n) -> Pages \cup {Empty}] /\ U \in [Frames(n) -> -1 .. i - 1] /\ Once(F)
      /\ lru[n].faults \in 0 .. i
      /\ lru[n] = [frames |-> F, faults |-> lru[n].faults, last_used |-> U]
      /\ 0 \in Frames(n)
  BY <1>0, <1>f, <1>u DEF LruOK, LruTypes, Frames
<1>2. /\ \A j \in Frames(n) : F[j] # Empty => U[j] = LastUse(F[j]) /\ U[j] >= 0
      /\ \A j \in Frames(n) : F[j] = Empty => U[j] = -1
      /\ F[0] # Empty => \A j \in Frames(n) : F[j] # Empty
      /\ \A p \in Pages : LastUse(p) >= 0 /\ Where(F, p) = {} =>
           \A j \in Frames(n) : F[j] # Empty /\ LastUse(F[j]) > LastUse(p)
  BY <1>f, <1>u DEF LruOK
<1>3. \A p : LastUse(p) \in -1 .. i - 1
  BY <1>0, LastUseIs
<1>4. CASE Where(F, page) # {}
  <2>1. PICK v : v = Min(Where(F, page))
    OBVIOUS
  <2>2. v \in Frames(n) /\ F[v] = page
    <3>1. Where(F, page) \in SUBSET Frames(n)
      BY <1>1 DEF Where
    <3>2. v \in Where(F, page)
      BY <1>0, <1>4, <2>1, <3>1, LeastFrame
    <3> QED
      BY <1>1, <3>2 DEF Where
  <2>3. lru'[n] = [frames |-> F, faults |-> lru[n].faults, last_used |-> [U EXCEPT ![v] = i]]
    <3>1. lru'[n] = [lru[n] EXCEPT !.last_used[v] = i]
      BY <1>0, <1>4, <1>f, <2>1 DEF simulate_lru, NoteUse
    <3> QED
      BY <1>1, <3>1
  <2>4. PICK W : W = [U EXCEPT ![v] = i]
    OBVIOUS
  <2>5. W \in [Frames(n) -> -1 .. i' - 1] /\ W[v] = i /\ \A j \in Frames(n) \ {v} : W[j] = U[j]
    BY <1>0, <1>1, <2>2, <2>4
  <2>6. lru'[n].frames = F /\ lru'[n].last_used = W /\ LruTypes(n)'
    BY <1>0, <1>1, <2>3, <2>4, <2>5 DEF LruTypes
  <2>7. \A j \in Frames(n) : F[j] # Empty => W[j] = LastUse(F[j])' /\ W[j] >= 0
    <3> SUFFICES ASSUME NEW j \in Frames(n), F[j] # Empty PROVE W[j] = LastUse(F[j])' /\ W[j] >= 0
      OBVIOUS
    <3> QED
      BY <1>0, <1>1, <1>2, <2>2, <2>5 DEF Once
  <2>8. \A j \in Frames(n) : F[j] = Empty => W[j] = -1
    BY <1>0, <1>2, <2>2, <2>5
  <2> QED
    BY <1>0, <1>1, <1>2, <1>3, <2>2, <2>6, <2>7, <2>8 DEF LruOK
<1>5. CASE Where(F, page) = {}
  <2>1. PICK v : v = LruVictim(lru[n])
    OBVIOUS
  <2>2. /\ v \in Frames(n)
        /\ F[v] # Empty => \A k \in Frames(n) : F[k] # Empty /\ U[v] <= U[k]
        /\ v = 0 => \A k \in Frames(n) \ {0} : F[k] # Empty
    BY <1>0, <1>f, <1>u, <2>1, LruVictimIs
  <2>3. PICK G : G = [F EXCEPT ![v] = page]
    OBVIOUS
  <2>4. PICK W : W = [U EXCEPT ![v] = i]
    OBVIOUS
  <2>5. lru'[n] = [frames |-> G, faults |-> lru[n].faults + 1, last_used |-> W]
    <3>1. lru'[n] = [lru[n] EXCEPT !.frames[v] = page, !.last_used[v] = i, !.faults = @ + 1]
      BY <1>0, <1>5, <1>f, <2>1 DEF simulate_lru
    <3>2. PICK c : c = lru[n].faults
      OBVIOUS
    <3>3. lru'[n] = [[frames |-> F, faults |-> c, last_used |-> U]
                       EXCEPT !.frames[v] = page, !.last_used[v] = i, !.faults = @ + 1]
      BY <1>1, <3>1, <3>2
    <3>4. lru'[n] = [frames |-> [F EXCEPT ![v] = page], faults |-> c + 1,
                     last_used |-> [U EXCEPT ![v] = i]]
      BY <3>3
    <3> QED
      BY <2>3, <2>4, <3>2, <3>4
  <2>6. /\ G \in [Frames(n) -> Pages \cup {Empty}] /\ Once(G)
        /\ G[v] = page /\ \A j \in Frames(n) \ {v} : G[j] = F[j]
    BY <1>0, <1>1, <1>5, <2>2, <2>3, OnceMore
  <2>7. W \in [Frames(n) -> -1 .. i' - 1] /\ W[v] = i /\ \A j \in Frames(n) \ {v} : W[j] = U[j]
    BY <1>0, <1>1, <2>2, <2>4
  <2>8. lru'[n].frames = G /\ lru'[n].last_used = W /\ LruTypes(n)'
    <3>1. lru[n].faults + 1 \in 0 .. i'
      BY <1>0, <1>1
    <3> QED
      BY <2>5, <2>6, <2>7, <3>1 DEF LruTypes
  <2>9. \A j \in Frames(n) : F[j] # page
    BY <1>1, <1>5 DEF Where
  <2>10. \A j \in Frames(n) : G[j] # Empty => W[j] = LastUse(G[j])' /\ W[j] >= 0
    <3> SUFFICES ASSUME NEW j \in Frames(n), G[j] # Empty PROVE W[j] = LastUse(G[j])' /\ W[j] >= 0
      OBVIOUS
    <3>1. CASE j = v
      BY <1>0, <2>6, <2>7, <3>1
    <3>2. CASE j # v
      BY <1>0, <1>2, <2>6, <2>7, <2>9, <3>2
    <3> QED
      BY <3>1, <3>2
  <2>11. \A j \in Frames(n) : G[j] = Empty => W[j] = -1
    BY <1>0, <1>2, <2>2, <2>6, <2>7
  <2>12. G[0] # Empty => \A j \in Frames(n) : G[j] # Empty
    BY <1>0, <1>1, <1>2, <2>2, <2>6
  <2>13. ASSUME NEW p \in Pages, LastUse(p)' >= 0, Where(G, p) = {}, NEW j \in Frames(n)
         PROVE  G[j] # Empty /\ LastUse(G[j])' > LastUse(p)'
    <3>1. p # page /\ p # Empty /\ \A k \in Frames(n) : G[k] # p
      BY <2>2, <2>6, <2>13, PageAssumption DEF Where
    <3>2. LastUse(p)' = LastUse(p) /\ LastUse(p) >= 0 /\ LastUse(p) \in -1 .. i - 1
      BY <1>0, <1>3, <2>13, <3>1
    <3>3. \A k \in Frames(n) \ {v} : F[k] # Empty /\ LastUse(F[k]) > LastUse(p)
      <4>1. CASE Where(F, p) = {}
        BY <1>2, <3>2, <4>1
      <4>2. CASE Where(F, p) # {}
        <5>1. F[v] = p
          BY <1>1, <2>6, <3>1, <4>2 DEF Where
        <5> SUFFICES ASSUME NEW k \in Frames(n) \ {v}
                     PROVE  F[k] # Empty /\ LastUse(F[k]) > LastUse(p)
          OBVIOUS
        <5>2. F[k] # Empty /\ U[v] <= U[k] /\ F[k] # F[v]
          BY <1>1, <2>2, <3>1, <5>1 DEF Once
        <5>3. U[v] = LastUse(p) /\ U[k] = LastUse(F[k])
          BY <1>2, <2>2, <3>1, <5>1, <5>2
        <5>4. LastUse(F[k]) # LastUse(p)
          BY <1>0, <3>2, <5>1, <5>2, LastUsesDiffer
        <5> QED
          BY <1>3, <5>2, <5>3, <5>4
      <4> QED
        BY <4>1, <4>2
    <3>4. CASE j = v
      BY <1>0, <2>6, <3>2, <3>4
    <3>5. CASE j # v
      BY <1>0, <2>6, <2>9, <3>2, <3>3, <3>5
    <3> QED
      BY <3>4, <3>5
  <2> QED
    BY <1>0, <2>6, <2>8, <2>10, <2>11, <2>12, <2>13 DEF LruOK
<1> QED
  BY <1>4, <1>5

-----------------------------------------------------------------------------
(* The invariant and what follows from it. *)

PagesInv == RefsOK /\ \A n \in NumFrames : FifoOK(n) /\ LruOK(n) /\ OptOK(n)

LEMMA PagesInvariant == Spec => []PagesInv
<1>1. Init => PagesInv
  BY RefsInit, FifoInit, LruInit, OptInit DEF PagesInv
<1>2. PagesInv /\ [Next]_vars => PagesInv'
  <2> SUFFICES ASSUME PagesInv, [Next]_vars PROVE PagesInv'
    OBVIOUS
  <2>1. CASE Reference
    <3>1. NumFrames' = NumFrames
      BY DEF NumFrames
    <3> QED
      BY <2>1, <3>1, Turn, FifoStep, LruStep, OptStep DEF PagesInv
  <2>2. CASE UNCHANGED vars
    <3>1. UNCHANGED <<ref_string, i, fifo, lru, opt>>
      BY <2>2 DEF vars
    <3>2. RefsOK'
      BY <3>1 DEF PagesInv, RefsOK, ref_len
    <3>3. ASSUME NEW n \in NumFrames PROVE FifoOK(n)'
      <4>1. Loaded(n)' = Loaded(n)
        BY <3>1 DEF Loaded
      <4> QED
        BY <3>1, <4>1 DEF PagesInv, FifoOK
    <3>4. ASSUME NEW n \in NumFrames PROVE LruOK(n)'
      <4>1. \A p : LastUse(p)' = LastUse(p)
        BY <3>1 DEF LastUse, UsesBehind
      <4> QED
        BY <3>1, <4>1 DEF PagesInv, LruOK, LruTypes
    <3>5. ASSUME NEW n \in NumFrames PROVE OptOK(n)'
      BY <3>1 DEF PagesInv, OptOK
    <3> QED
      BY <3>2, <3>3, <3>4, <3>5 DEF PagesInv, NumFrames
  <2> QED
    BY <2>1, <2>2 DEF Next
<1> QED
  BY <1>1, <1>2, PTL DEF Spec

(* The type invariant: in particular no page is in two frames and          *)
(* next_replace stays within the frames.                                   *)
THEOREM PagesTypeCorrect == Spec => []TypeOK
<1>1. PagesInv => TypeOK
  <2> SUFFICES ASSUME PagesInv, NEW n \in NumFrames, NEW s \in {fifo[n], lru[n], opt[n]} PROVE
        /\ s.frames \in [Frames(n) -> Pages \cup {Empty}] /\ s.faults \in 0 .. i
        /\ \A p \in Pages : Cardinality(Where(s.frames, p)) <= 1
        /\ fifo[n].next_replace \in Frames(n)
        /\ lru[n].last_used \in [Frames(n) -> -1 .. i - 1]
    BY DEF TypeOK
  <2>1. /\ s.frames \in [Frames(n) -> Pages \cup {Empty}] /\ s.faults \in 0 .. i /\ Once(s.frames)
        /\ fifo[n].next_replace \in Frames(n)
        /\ lru[n].last_used \in [Frames(n) -> -1 .. i - 1]
    BY DEF PagesInv, FifoOK, LruOK, LruTypes, OptOK
  <2>2. ASSUME NEW p \in Pages PROVE Cardinality(Where(s.frames, p)) <= 1
    <3>1. CASE Where(s.frames, p) = {}
      BY <3>1, FS_EmptySet
    <3>2. CASE Where(s.frames, p) # {}
      <4>1. PICK j : j \in Where(s.frames, p)
        BY <3>2
      <4>2. Where(s.frames, p) = {j}
        BY <2>1, <4>1, PageAssumption DEF Where, Once
      <4>3. Cardinality(Where(s.frames, p)) = 1
        BY <4>2, FS_Singleton
      <4> QED
        BY <4>3
    <3> QED
      BY <3>1, <3>2
  <2> QED
    BY <2>1, <2>2
<1> QED
  BY <1>1, PagesInvariant, PTL

(* FIFO's ring of frames is a queue (pagesim.c:54-83): its next victim is  *)
(* the page that was loaded first.                                         *)
THEOREM FifoReplacesOldest == Spec => []FifoIsQueue
<1>1. PagesInv => FifoIsQueue
  BY DEF PagesInv, FifoOK, Ring, FifoIsQueue
<1> QED
  BY <1>1, PagesInvariant, PTL

(* The resident pages are as many as the frames that hold one.             *)
LEMMA ResidentSize ==
  ASSUME NEW n \in Nat \ {0}, NEW F \in [Frames(n) -> Pages \cup {Empty}], Once(F),
         NEW R, R = {F[j] : j \in DOMAIN F} \ {Empty}
  PROVE  /\ IsFiniteSet(R) /\ Cardinality(R) \in Nat /\ Cardinality(R) <= n
         /\ (\A j \in Frames(n) : F[j] # Empty) => Cardinality(R) = n
<1>1. IsFiniteSet(Frames(n)) /\ Cardinality(Frames(n)) = n
  BY FS_Interval DEF Frames
<1> DEFINE T == {F[j] : j \in Frames(n)}
<1>2. IsFiniteSet(T) /\ Cardinality(T) \in Nat /\ Cardinality(T) <= n
  BY <1>1, ImageSmall
<1>3. R \subseteq T
  OBVIOUS
<1>4. IsFiniteSet(R) /\ Cardinality(R) <= Cardinality(T) /\ Cardinality(R) \in Nat
  <2> HIDE DEF T
  <2> QED
    BY <1>2, <1>3, FS_Subset, FS_CardinalityType
<1>5. ASSUME \A j \in Frames(n) : F[j] # Empty PROVE Cardinality(R) = n
  <2>1. F \in [Frames(n) -> R] /\ \A x \in R : \E j \in Frames(n) : F[j] = x
    BY <1>5
  <2>2. \A j, k \in Frames(n) : F[j] = F[k] => j = k
    BY <1>5 DEF Once
  <2>3. F \in Bijection(Frames(n), R)
    BY <2>1, <2>2 DEF Bijection, Injection, Surjection, IsInjective
  <2>4. ExistsBijection(Frames(n), R)
    BY <2>3 DEF ExistsBijection
  <2> QED
    BY <1>1, <2>4, FS_Bijection
<1> QED
  BY <1>2, <1>4, <1>5

(* LRU holds the pages used last, as many as it has frames: its search for *)
(* a victim, which starts at frame 1, never evicts another one             *)
(* (pagesim.c:89-134).                                                     *)
THEOREM LruHoldsMostRecent == Spec => []LruIsMostRecent
<1>1. PagesInv => LruIsMostRecent
  <2> SUFFICES ASSUME PagesInv, NEW n \in NumFrames PROVE
        Resident(lru[n]) =
          {p \in Pages : LastUse(p) >= 0 /\ Cardinality({q \in Pages : LastUse(q) > LastUse(p)}) < n}
    BY DEF LruIsMostRecent
  <2>f. PICK F : F = lru[n].frames
    OBVIOUS
  <2>r. PICK R : R = Resident(lru[n])
    OBVIOUS
  <2>0. n \in Nat \ {0} /\ i \in Nat
    BY RefFacts, PageAssumption DEF PagesInv, NumFrames
  <2>1. /\ F \in [Frames(n) -> Pages \cup {Empty}] /\ Once(F)
        /\ \A j \in Frames(n) : F[j] # Empty => LastUse(F[j]) >= 0
        /\ \A p \in Pages : LastUse(p) >= 0 /\ Where(F, p) = {} =>
             \A j \in Frames(n) : F[j] # Empty /\ LastUse(F[j]) > LastUse(p)
    BY <2>f DEF PagesInv, LruOK, LruTypes
  <2>2. R = {F[j] : j \in DOMAIN F} \ {Empty}
    BY <2>f, <2>r DEF Resident
  <2>3. /\ IsFiniteSet(R) /\ Cardinality(R) \in Nat /\ Cardinality(R) <= n
        /\ (\A j \in Frames(n) : F[j] # Empty) => Cardinality(R) = n
    BY <2>0, <2>1, <2>2, ResidentSize
  <2>4. /\ \A p \in R : p \in Pages /\ LastUse(p) >= 0
        /\ \A p \in Pages \ R : Where(F, p) = {}
        /\ \A p : LastUse(p) \in -1 .. i - 1
    BY <2>0, <2>1, <2>2, LastUseIs, PageAssumption DEF Where
  <2>5. ASSUME NEW p \in R PROVE Cardinality({q \in Pages : LastUse(q) > LastUse(p)}) < n
    <3> DEFINE Q == {q \in Pages : LastUse(q) > LastUse(p)}
    <3>1. Q \subseteq R \ {p}
      <4> SUFFICES ASSUME NEW q \in Q, q \notin R PROVE FALSE
        BY <2>4
      <4>1. LastUse(q) >= 0 /\ LastUse(q) > LastUse(p) /\ Where(F, q) = {}
        BY <2>4
      <4>2. LastUse(p) > LastUse(q)
        BY <2>1, <2>2, <4>1
      <4> QED
        BY <2>4, <4>1, <4>2
    <3>2. IsFiniteSet(R \ {p}) /\ Cardinality(R \ {p}) = Cardinality(R) - 1
      BY <2>3, FS_RemoveElement
    <3> HIDE DEF Q
    <3>3. IsFiniteSet(Q) /\ Cardinality(Q) <= Cardinality(R) - 1
      BY <3>1, <3>2, FS_Subset
    <3>4. Cardinality(Q) \in Nat
      BY <3>3, FS_CardinalityType
    <3>5. Cardinality(Q) < n
      BY <2>0, <2>3, <3>3, <3>4
    <3> QED
      BY <3>5 DEF Q
  <2>6. ASSUME NEW p \in Pages \ R, LastUse(p) >= 0
        PROVE  ~(Cardinality({q \in Pages : LastUse(q) > LastUse(p)}) < n)
    <3> DEFINE Q == {q \in Pages : LastUse(q) > LastUse(p)}
               T == {ref_string[k] : k \in 0 .. i - 1}
    <3>1. R \subseteq Q /\ Cardinality(R) = n
      <4>1. \A j \in Frames(n) : F[j] # Empty /\ LastUse(F[j]) > LastUse(p)
        BY <2>1, <2>4, <2>6
      <4> QED
        BY <2>1, <2>2, <2>3, <2>4, <4>1
    <3>2. Q \subseteq T
      <4> SUFFICES ASSUME NEW q \in Q PROVE q \in T
        OBVIOUS
      <4>1. LastUse(q) >= 0
        BY <2>4, <2>6
      <4>2. LastUse(q) \in UsesBehind(q)
        BY <2>0, <4>1, LastUseIs
      <4> QED
        BY <4>2 DEF UsesBehind
    <3>3. IsFiniteSet(T)
      <4>1. IsFiniteSet(0 .. i - 1)
        BY <2>0, FS_Interval
      <4> QED
        BY <4>1, ImageSmall
    <3> HIDE DEF Q, T
    <3>4. IsFiniteSet(Q)
      BY <3>2, <3>3, FS_Subset
    <3>5. Cardinality(R) <= Cardinality(Q) /\ Cardinality(Q) \in Nat
      BY <3>1, <3>4, FS_Subset, FS_CardinalityType
    <3>6. ~(Cardinality(Q) < n)
      BY <2>0, <3>1, <3>5
    <3> QED
      BY <3>6 DEF Q
  <2> QED
    BY <2>4, <2>5, <2>6, <2>r
<1> QED
  BY <1>1, PagesInvariant, PTL

-----------------------------------------------------------------------------
(* OPT is the best: whatever other choices of victims have saved so far,   *)
(* they have paid for with faults before.                                  *)

(* p is used at one of a, ..., b. *)
Used(r, p, a, b) == \E k \in a .. b : r[k] = p

(* The pages of S that are. *)
Due(r, S, a, b) == {p \in S : Used(r, p, a, b)}

Uses(r, p, a, b) == IF Used(r, p, a, b) THEN 1 ELSE 0
Has(S, p) == IF p \in S THEN 1 ELSE 0

LEMMA DueSize ==
  ASSUME NEW r, NEW S, IsFiniteSet(S), NEW a, NEW b
  PROVE  /\ IsFiniteSet(Due(r, S, a, b)) /\ Cardinality(Due(r, S, a, b)) \in Nat
         /\ Cardinality(Due(r, S, a, b)) <= Cardinality(S)
<1>1. Due(r, S, a, b) \subseteq S
  BY DEF Due
<1> QED
  BY <1>1, FS_Subset, FS_CardinalityType

(* One page more. *)
LEMMA DueOneMore ==
  ASSUME NEW r, NEW S, IsFiniteSet(S), NEW a, NEW b, NEW x, x \notin S
  PROVE  Cardinality(Due(r, S \cup {x}, a, b))
           = Cardinality(Due(r, S, a, b)) + Uses(r, x, a, b)
<1>1. IsFiniteSet(Due(r, S, a, b)) /\ Cardinality(Due(r, S, a, b)) \in Nat
  BY DueSize
<1>2. CASE Used(r, x, a, b)
  <2>1. Due(r, S \cup {x}, a, b) = Due(r, S, a, b) \cup {x} /\ x \notin Due(r, S, a, b)
    BY <1>2 DEF Due
  <2> QED
    BY <1>1, <1>2, <2>1, FS_AddElement DEF Uses
<1>3. CASE ~Used(r, x, a, b)
  <2>1. Due(r, S \cup {x}, a, b) = Due(r, S, a, b)
    BY <1>3 DEF Due
  <2> QED
    BY <1>1, <1>3, <2>1 DEF Uses
<1> QED
  BY <1>2, <1>3

(* Those but r[a] that are used after a. *)
Later(r, S, a, b) == Cardinality(Due(r, S \ {r[a]}, a + 1, b))

LEMMA LaterIs ==
  ASSUME NEW r, NEW S, IsFiniteSet(S), NEW a \in Nat, NEW b \in Int, a <= b
  PROVE  /\ Later(r, S, a, b) \in Nat
         /\ Cardinality(Due(r, S, a, b)) = Later(r, S, a, b) + Has(S, r[a])
         /\ Cardinality(Due(r, S, a, a)) = Has(S, r[a])
<1> DEFINE x == r[a]
           T == S \ {x}
<1>1. IsFiniteSet(T) /\ x \notin T /\ (x \in S => T \cup {x} = S) /\ (x \notin S => T = S)
  BY FS_RemoveElement
<1>2. a .. b = {a} \cup (a + 1 .. b) /\ a .. a = {a}
  OBVIOUS
<1>3. Due(r, T, a, b) = Due(r, T, a + 1, b) /\ Due(r, T, a, a) = {}
  BY <1>2 DEF Due, Used
<1>4. Used(r, x, a, b) /\ Used(r, x, a, a)
  BY <1>2 DEF Used
<1>5. /\ Cardinality(Due(r, T, a, b)) = Later(r, S, a, b)
      /\ Cardinality(Due(r, T, a, a)) = 0
      /\ Later(r, S, a, b) \in Nat
  BY <1>1, <1>3, DueSize, FS_EmptySet DEF Later
<1> HIDE DEF T, x
<1>6. /\ Cardinality(Due(r, T \cup {x}, a, b)) = Later(r, S, a, b) + 1
      /\ Cardinality(Due(r, T \cup {x}, a, a)) = 1
  <2>1. \A c, d : Cardinality(Due(r, T \cup {x}, c, d))
          = Cardinality(Due(r, T, c, d)) + Uses(r, x, c, d)
    BY <1>1, DueOneMore
  <2>2. /\ Cardinality(Due(r, T \cup {x}, a, b)) = Cardinality(Due(r, T, a, b)) + 1
        /\ Cardinality(Due(r, T \cup {x}, a, a)) = Cardinality(Due(r, T, a, a)) + 1
    BY <1>4, <2>1 DEF Uses
  <2> QED
    BY <1>5, <2>1, <2>2
<1>7. CASE x \in S
  <2>1. T \cup {x} = S /\ Has(S, x) = 1
    BY <1>1, <1>7 DEF Has
  <2>2. /\ Cardinality(Due(r, S, a, b)) = Later(r, S, a, b) + Has(S, x)
        /\ Cardinality(Due(r, S, a, a)) = Has(S, x)
    BY <1>6, <2>1
  <2> QED
    BY <1>5, <2>2 DEF x
<1>8. CASE x \notin S
  BY <1>1, <1>5, <1>8 DEF x, Has
<1> QED
  BY <1>7, <1>8

LEMMA LaterThen ==
  ASSUME NEW r, NEW S, IsFiniteSet(S), NEW a \in Nat, NEW b \in Int, r[a] \in S
  PROVE  Cardinality(Due(r, S, a + 1, b)) = Later(r, S, a, b) + Uses(r, r[a], a + 1, b)
<1> DEFINE x == r[a]
           T == S \ {x}
<1>1. IsFiniteSet(T) /\ x \notin T /\ T \cup {x} = S
  BY FS_RemoveElement
<1> HIDE DEF T, x
<1>2. Cardinality(Due(r, T \cup {x}, a + 1, b)) = Cardinality(Due(r, T, a + 1, b)) + Uses(r, x, a + 1, b)
  BY <1>1, DueOneMore
<1> QED
  BY <1>1, <1>2 DEF T, x, Later

(* A reference served from o by OPT, and from s in some other way: the     *)
(* lead of OPT in faults still makes up for its lag in pages due.          *)
LEMMA LeadKept ==
  ASSUME NEW n \in Nat \ {0}, NEW r, NEW a \in Nat, NEW b \in Int, a <= b,
         NEW o, IsFiniteSet(o), Cardinality(o) <= n,
         NEW s, IsFiniteSet(s),
         NEW o2, IsFiniteSet(o2), r[a] \in o2,
         NEW s2, IsFiniteSet(s2), Cardinality(s2) <= n, r[a] \in s2, s2 \ {r[a]} \subseteq s,
         \/ o \ {r[a]} = o2 \ {r[a]}
         \/ /\ r[a] \notin o /\ Cardinality(o) = n
            /\ \E v \in o : /\ o2 = (o \ {v}) \cup {r[a]}
                            /\ Used(r, v, a + 1, b) =>
                                 \A p \in o : Used(r, p, a + 1, b),
         NEW lead \in Int,
         Cardinality(Due(r, s, a, b)) - Cardinality(Due(r, o, a, b)) <= lead,
         Cardinality(Due(r, s, a, a)) - Cardinality(Due(r, o, a, a)) <= lead
  PROVE  Cardinality(Due(r, s2, a + 1, b)) - Cardinality(Due(r, o2, a + 1, b))
           <= lead - Has(s, r[a]) + Has(o, r[a])
<1> DEFINE x == r[a]
           once == Uses(r, r[a], a + 1, b)
           inS == Has(s, r[a])
           inO == Has(o, r[a])
<1>1. /\ Later(r, s, a, b) \in Nat /\ Later(r, o, a, b) \in Nat
      /\ Later(r, s2, a, b) \in Nat /\ Later(r, o2, a, b) \in Nat
      /\ Cardinality(Due(r, s, a, b)) = Later(r, s, a, b) + inS
      /\ Cardinality(Due(r, o, a, b)) = Later(r, o, a, b) + inO
      /\ Cardinality(Due(r, s, a, a)) = inS /\ Cardinality(Due(r, o, a, a)) = inO
      /\ Cardinality(Due(r, s2, a + 1, b)) = Later(r, s2, a, b) + once
      /\ Cardinality(Due(r, o2, a + 1, b)) = Later(r, o2, a, b) + once
  <2>1. /\ Later(r, s, a, b) \in Nat /\ Cardinality(Due(r, s, a, a)) = inS
        /\ Cardinality(Due(r, s, a, b)) = Later(r, s, a, b) + inS
    BY LaterIs
  <2>2. /\ Later(r, o, a, b) \in Nat /\ Cardinality(Due(r, o, a, a)) = inO
        /\ Cardinality(Due(r, o, a, b)) = Later(r, o, a, b) + inO
    BY LaterIs
  <2>3. Later(r, s2, a, b) \in Nat /\ Later(r, o2, a, b) \in Nat
    BY LaterIs
  <2>4. Cardinality(Due(r, s2, a + 1, b)) = Later(r, s2, a, b) + once
    BY LaterThen
  <2>5. Cardinality(Due(r, o2, a + 1, b)) = Later(r, o2, a, b) + once
    BY LaterThen
  <2> QED
    BY <2>1, <2>2, <2>3, <2>4, <2>5
<1>2. once \in 0 .. 1 /\ inS \in 0 .. 1 /\ inO \in 0 .. 1
  BY DEF Uses, Has
<1>3. SUFFICES Later(r, s2, a, b) - Later(r, o2, a, b) <= lead - inS + inO
  <2> HIDE DEF once, inS, inO
  <2> QED
    BY <1>1, <1>2 DEF inS, inO
<1> HIDE DEF once, inS, inO
(* The other has no page due later that it did not have before. *)
<1>4. Later(r, s2, a, b) <= Later(r, s, a, b)
  <2>1. IsFiniteSet(s \ {x})
    BY FS_RemoveElement
  <2>2. Due(r, s2 \ {x}, a + 1, b) \subseteq Due(r, s \ {x}, a + 1, b)
    BY DEF Due
  <2>3. IsFiniteSet(Due(r, s \ {x}, a + 1, b))
    BY <2>1, DueSize
  <2>4. Cardinality(Due(r, s2 \ {x}, a + 1, b)) <= Cardinality(Due(r, s \ {x}, a + 1, b))
    BY <2>2, <2>3, FS_Subset
  <2> QED
    BY <2>4 DEF Later
<1>5. Later(r, s2, a, b) <= n - 1
  <2>1. IsFiniteSet(s2 \ {x}) /\ Cardinality(s2 \ {x}) = Cardinality(s2) - 1 /\ Cardinality(s2) \in Nat
    BY FS_RemoveElement, FS_CardinalityType
  <2>2. Cardinality(Due(r, s2 \ {x}, a + 1, b)) <= Cardinality(s2 \ {x})
    BY <2>1, DueSize
  <2>3. Later(r, s2, a, b) <= Cardinality(s2) - 1
    BY <2>1, <2>2 DEF Later
  <2> QED
    BY <1>1, <2>1, <2>3
(* OPT loses none either, unless all it keeps are due. *)
<1>6. CASE Later(r, o2, a, b) = Later(r, o, a, b)
  BY <1>1, <1>2, <1>4, <1>6
<1>7. CASE r[a] \notin o /\ Later(r, o2, a, b) = n - 1
  <2>1. inO = 0 /\ lead >= inS
    BY <1>1, <1>2, <1>7 DEF Has, inS, inO
  <2> QED
    BY <1>1, <1>2, <1>5, <1>7, <2>1
<1>8. CASE o \ {r[a]} = o2 \ {r[a]}
  BY <1>6, <1>8 DEF Later
<1>9. CASE /\ r[a] \notin o /\ Cardinality(o) = n
           /\ \E v \in o : /\ o2 = (o \ {v}) \cup {r[a]}
                           /\ Used(r, v, a + 1, b) =>
                                \A p \in o : Used(r, p, a + 1, b)
  <2>1. PICK v \in o : /\ o2 = (o \ {v}) \cup {x}
                       /\ Used(r, v, a + 1, b) =>
                            \A p \in o : Used(r, p, a + 1, b)
    BY <1>9
  <2>2. o2 \ {x} = o \ {v} /\ o \ {x} = o
    BY <1>9, <2>1
  <2>3. CASE Used(r, v, a + 1, b)
    <3>1. Due(r, o \ {v}, a + 1, b) = o \ {v}
      BY <2>1, <2>3 DEF Due
    <3>2. Cardinality(o \ {v}) = n - 1
      BY <1>9, FS_RemoveElement
    <3> QED
      BY <1>7, <1>9, <2>2, <3>1, <3>2 DEF Later
  <2>4. CASE ~Used(r, v, a + 1, b)
    <3>1. Due(r, o \ {v}, a + 1, b) = Due(r, o, a + 1, b)
      BY <2>4 DEF Due
    <3> QED
      BY <1>6, <2>2, <3>1 DEF Later
  <2> QED
    BY <2>3, <2>4
<1> QED
  BY <1>8, <1>9

(* A page next used no later than v is used whenever v is. *)
LEMMA UsedSooner ==
  ASSUME RefsOK, i < ref_len, NEW p, NEW v, NextUse(p) <= NextUse(v),
         NEW b \in Int, b < ref_len, Used(ref_string, v, i + 1, b)
  PROVE  Used(ref_string, p, i + 1, b)
<1>1. ref_len \in Nat /\ i \in Nat /\ ref_len <= Infinity /\ Infinity \in Nat
  <2>1. PICK len \in 1 .. MaxRefs : ref_string \in [0 .. len - 1 -> Pages]
    BY DEF RefsOK
  <2>2. ref_len = len
    BY <2>1, RefLength
  <2> QED
    BY <2>2, RefFacts, PageAssumption, InfinityAssumption DEF Infinity
<1>2. \A q : UsesAhead(q) \in SUBSET Int /\ \A k \in UsesAhead(q) : 0 <= k
  BY <1>1 DEF UsesAhead
<1>3. \A q : UsesAhead(q) # {} => Min(UsesAhead(q)) \in UsesAhead(q)
                               /\ \A k \in UsesAhead(q) : Min(UsesAhead(q)) <= k
  BY <1>2, LeastOf
<1>4. PICK k \in i + 1 .. b : ref_string[k] = v
  BY DEF Used
<1>5. k \in UsesAhead(v) /\ k < Infinity
  BY <1>1, <1>4 DEF UsesAhead
<1>6. NextUse(v) \in Int /\ NextUse(v) <= k
  BY <1>2, <1>3, <1>5 DEF NextUse
<1>7. UsesAhead(p) # {}
  BY <1>1, <1>4, <1>5, <1>6 DEF NextUse
<1>8. Min(UsesAhead(p)) \in UsesAhead(p) /\ Min(UsesAhead(p)) <= NextUse(v)
  BY <1>3, <1>7 DEF NextUse
<1> QED
  BY <1>1, <1>2, <1>4, <1>6, <1>8 DEF UsesAhead, Used

(* The ways to serve from s keep to n pages and count a fault unless page  *)
(* was held.                                                               *)
LEMMA Served ==
  ASSUME NEW n \in Nat \ {0}, NEW page,
         NEW s, IsFiniteSet(s.held), Cardinality(s.held) <= n, s.faults \in Nat,
         NEW s2 \in Serve(s, page, n)
  PROVE  /\ IsFiniteSet(s2.held) /\ Cardinality(s2.held) <= n /\ s2.faults \in Nat
         /\ page \in s2.held /\ s2.held \ {page} \subseteq s.held
         /\ s2.faults = s.faults + 1 - Has(s.held, page)
<1>0. Cardinality(s.held) \in Nat
  BY FS_CardinalityType
<1>1. CASE page \in s.held
  <2>1. s2 = s /\ Has(s.held, page) = 1
    BY <1>1 DEF Serve, Has
  <2> QED
    BY <1>1, <2>1
<1>2. CASE page \notin s.held
  <2>1. \E h : /\ s2 = [held |-> h \cup {page}, faults |-> s.faults + 1]
               /\ \/ h = s.held /\ Cardinality(s.held) < n
                  \/ \E v \in s.held : h = s.held \ {v}
    <3>1. CASE Cardinality(s.held) < n
      BY <1>2, <3>1 DEF Serve
    <3>2. CASE ~(Cardinality(s.held) < n)
      BY <1>2, <3>2 DEF Serve
    <3> QED
      BY <3>1, <3>2
  <2>2. PICK h : /\ s2 = [held |-> h \cup {page}, faults |-> s.faults + 1]
                 /\ \/ h = s.held /\ Cardinality(s.held) < n
                    \/ \E v \in s.held : h = s.held \ {v}
    BY <2>1
  <2>3. IsFiniteSet(h) /\ Cardinality(h) \in Nat /\ Cardinality(h) < n /\ h \subseteq s.held
    <3>1. CASE h = s.held /\ Cardinality(s.held) < n
      BY <1>0, <3>1
    <3>2. CASE \E v \in s.held : h = s.held \ {v}
      <4>1. PICK v \in s.held : h = s.held \ {v}
        BY <3>2
      <4>2. IsFiniteSet(h) /\ Cardinality(h) = Cardinality(s.held) - 1
        BY <4>1, FS_RemoveElement
      <4> QED
        BY <1>0, <4>1, <4>2, FS_CardinalityType
    <3> QED
      BY <2>2, <3>1, <3>2
  <2>4. page \notin h
    BY <1>2, <2>3
  <2>5. IsFiniteSet(h \cup {page}) /\ Cardinality(h \cup {page}) = Cardinality(h) + 1
    BY <2>3, <2>4, FS_AddElement
  <2>6. s2.held = h \cup {page} /\ s2.faults = s.faults + 1
    BY <2>2
  <2>7. Has(s.held, page) = 0
    BY <1>2 DEF Has
  <2> QED
    BY <2>3, <2>5, <2>6, <2>7
<1> QED
  BY <1>1, <1>2

(* The pages in frames F. *)
Held(F) == {F[j] : j \in DOMAIN F} \ {Empty}

(* page in the place of x. *)
Swapped(S, x, page) == (S \ {x}) \cup {page}

(* What one more page in frame v makes of the resident pages. *)
LEMMA ResidentMore ==
  ASSUME NEW n \in Nat \ {0}, NEW F \in [Frames(n) -> Pages \cup {Empty}], Once(F),
         NEW v \in Frames(n), NEW page \in Pages
  PROVE  Held([F EXCEPT ![v] = page]) = Swapped(Held(F), F[v], page)
<1>g. PICK G : G = [F EXCEPT ![v] = page]
  OBVIOUS
<1>1. DOMAIN F = Frames(n) /\ DOMAIN G = Frames(n) /\ page # Empty
  BY <1>g, PageAssumption
<1>2. \A j \in Frames(n) : G[j] = IF j = v THEN page ELSE F[j]
  BY <1>g
<1>3. ASSUME NEW x \in Held(G) PROVE x \in (Held(F) \ {F[v]}) \cup {page}
  <2>1. PICK j \in Frames(n) : x = G[j] /\ x # Empty
    BY <1>1 DEF Held
  <2>2. CASE j = v
    BY <1>2, <2>1, <2>2
  <2>3. CASE j # v
    <3>1. x = F[j] /\ F[j] # F[v]
      BY <1>1, <1>2, <2>1, <2>3 DEF Once
    <3> QED
      BY <1>1, <2>1, <3>1 DEF Held
  <2> QED
    BY <2>2, <2>3
<1>4. ASSUME NEW x \in (Held(F) \ {F[v]}) \cup {page} PROVE x \in Held(G)
  <2>1. CASE x = page
    <3>1. x = G[v] /\ x # Empty
      BY <1>1, <1>2, <2>1
    <3> QED
      BY <1>1, <3>1 DEF Held
  <2>2. CASE x # page
    <3>1. PICK j \in Frames(n) : x = F[j] /\ x # Empty /\ x # F[v]
      BY <1>1, <1>4, <2>2 DEF Held
    <3>2. G[j] = x
      BY <1>2, <3>1
    <3> QED
      BY <1>1, <3>1, <3>2 DEF Held
  <2> QED
    BY <2>1, <2>2
<1>5. Held(G) = (Held(F) \ {F[v]}) \cup {page}
  BY <1>3, <1>4
<1> QED
  BY <1>5, <1>g DEF Swapped

(* While a frame is empty, fewer than n pages are resident. *)
LEMMA ResidentFewer ==
  ASSUME NEW n \in Nat \ {0}, NEW F \in [Frames(n) -> Pages \cup {Empty}],
         NEW o, o = {F[j] : j \in DOMAIN F} \ {Empty},
         NEW v \in Frames(n), F[v] = Empty
  PROVE  Cardinality(o) < n
<1>1. IsFiniteSet(Frames(n)) /\ Cardinality(Frames(n)) = n
  BY FS_Interval DEF Frames
<1> DEFINE S == Frames(n) \ {v}
           T == {F[j] : j \in S}
<1>2. IsFiniteSet(S) /\ Cardinality(S) = n - 1
  BY <1>1, FS_RemoveElement
<1>3. o \subseteq T
  OBVIOUS
<1>4. IsFiniteSet(T) /\ Cardinality(T) \in Nat /\ Cardinality(T) <= Cardinality(S)
  <2> HIDE DEF S
  <2> QED
    BY <1>2, ImageSmall
<1> HIDE DEF S, T
<1>5. Cardinality(o) <= Cardinality(T) /\ Cardinality(o) \in Nat
  BY <1>3, <1>4, FS_Subset, FS_CardinalityType
<1> QED
  BY <1>2, <1>4, <1>5

(* The victim: an empty frame, or a page used no sooner than any other.    *)
LEMMA OptVictimBest ==
  ASSUME RefsOK, i < ref_len, NEW n \in Nat \ {0}, NEW F, DOMAIN F = Frames(n)
  PROVE  \/ F[OptVictim(F)] = Empty
         \/ /\ \A j \in Frames(n) : F[j] # Empty
            /\ \A j \in Frames(n) : NextUse(F[j]) <= NextUse(F[OptVictim(F)])
<1>1. CASE Where(F, Empty) # {}
  <2>1. Where(F, Empty) \in SUBSET Frames(n)
    BY DEF Where
  <2>2. OptVictim(F) \in Where(F, Empty)
    BY <1>1, <2>1, LeastFrame DEF OptVictim
  <2> QED
    BY <2>2 DEF Where
<1>2. CASE Where(F, Empty) = {}
  <2> DEFINE V == {j \in Frames(n) : \A k \in Frames(n) : NextUse(F[k]) <= NextUse(F[j])}
             f == [j \in Frames(n) |-> NextUse(F[j])]
  <2>1. \A j \in Frames(n) : f[j] \in Int /\ f[j] <= Infinity + ref_len
    BY NextUseIs
  <2>2. Infinity + ref_len \in Int
    BY RefFacts DEF Infinity
  <2>3. \E j \in Frames(n) : \A k \in Frames(n) : f[k] <= f[j]
    <3> HIDE DEF f
    <3> QED
      BY <2>1, <2>2, GreatestAt
  <2>4. V # {} /\ V \in SUBSET Frames(n)
    BY <2>3
  <2>5. OptVictim(F) = Min(V)
    BY <1>2 DEF OptVictim
  <2>6. Min(V) \in V
    <3> HIDE DEF V
    <3> QED
      BY <2>4, LeastFrame
  <2>7. \A j \in Frames(n) : F[j] # Empty
    BY <1>2 DEF Where
  <2> QED
    BY <2>5, <2>6, <2>7
<1> QED
  BY <1>1, <1>2

(* What a reference does to OPT's pages, as a way to serve it. *)
LEMMA OptServes ==
  ASSUME RefsOK, Reference, NEW n \in NumFrames, OptOK(n),
         NEW page, page = ref_string[i],
         NEW o, o = Resident(opt[n]), NEW o2, o2 = Resident(opt'[n])
  PROVE  /\ opt[n].faults \in Nat /\ opt'[n].faults = opt[n].faults + 1 - Has(o, page)
         /\ IsFiniteSet(o) /\ Cardinality(o) <= n /\ IsFiniteSet(o2) /\ page \in o2
         /\ [held |-> o2, faults |-> opt'[n].faults]
              \in Serve([held |-> o, faults |-> opt[n].faults], page, n)
         /\ \/ o \ {page} = o2 \ {page}
            \/ /\ page \notin o /\ Cardinality(o) = n
               /\ \E v \in o : /\ o2 = (o \ {v}) \cup {page}
                               /\ \A p \in o : NextUse(p) <= NextUse(v)
<1>f. PICK F : F = opt[n].frames
  OBVIOUS
<1>v. PICK v : v = OptVictim(F)
  OBVIOUS
<1>0. /\ n \in Nat \ {0} /\ i \in Nat /\ page \in Pages /\ page # Empty /\ i < ref_len
      /\ opt'[n] = simulate_opt(opt[n], page)
  BY Turn, RefFacts, PageAssumption DEF NumFrames, Reference
<1>1. /\ F \in [Frames(n) -> Pages \cup {Empty}] /\ Once(F) /\ opt[n].faults \in Nat
      /\ opt[n] = [frames |-> F, faults |-> opt[n].faults]
      /\ o = {F[j] : j \in DOMAIN F} \ {Empty}
  BY <1>f DEF OptOK, Resident
<1>2. /\ IsFiniteSet(o) /\ Cardinality(o) \in Nat /\ Cardinality(o) <= n
      /\ (\A j \in Frames(n) : F[j] # Empty) => Cardinality(o) = n
  BY <1>0, <1>1, ResidentSize
<1>3. CASE Where(F, page) # {}
  <2>1. opt'[n] = opt[n] /\ o2 = o
    BY <1>0, <1>3, <1>f DEF simulate_opt
  <2>2. page \in o
    BY <1>0, <1>1, <1>3 DEF Where
  <2>3. [held |-> o2, faults |-> opt'[n].faults]
          \in Serve([held |-> o, faults |-> opt[n].faults], page, n)
    BY <2>1, <2>2 DEF Serve
  <2>4. opt'[n].faults = opt[n].faults + 1 - Has(o, page)
    <3>1. Has(o, page) = 1 /\ opt'[n].faults = opt[n].faults
      BY <2>1, <2>2 DEF Has
    <3> QED
      BY <1>1, <3>1
  <2> QED
    BY <1>1, <1>2, <2>1, <2>2, <2>3, <2>4, Zenon
<1>4. CASE Where(F, page) = {}
  <2>1. v \in Frames(n)
    BY <1>0, <1>1, <1>v, OptVictimIs
  <2>2. opt'[n] = [opt[n] EXCEPT !.frames[v] = page, !.faults = @ + 1]
    BY <1>0, <1>4, <1>f, <1>v DEF simulate_opt
  <2>g. PICK G : G = [F EXCEPT ![v] = page]
    OBVIOUS
  <2>3. opt'[n].frames = G /\ opt'[n].faults = opt[n].faults + 1
    <3>1. opt[n] \in [frames : [Frames(n) -> Pages \cup {Empty}], faults : Nat]
      BY <1>1
    <3>2. opt'[n] = [frames |-> [F EXCEPT ![v] = page], faults |-> opt[n].faults + 1]
      BY <1>f, <2>2, <3>1
    <3> QED
      BY <2>g, <3>2
  <2>4. o2 = (o \ {F[v]}) \cup {page}
    <3>1. o2 = Held(G) /\ o = Held(F)
      BY <1>1, <2>3 DEF Resident, Held
    <3>2. Held(G) = (Held(F) \ {F[v]}) \cup {page}
      <4>1. n \in Nat \ {0} /\ page \in Pages
        BY <1>0
      <4>2. F \in [Frames(n) -> Pages \cup {Empty}] /\ Once(F)
        BY <1>1
      <4>3. Held([F EXCEPT ![v] = page]) = Swapped(Held(F), F[v], page)
        BY <4>1, <4>2, <2>1, ResidentMore
      <4> QED
        BY <2>g, <4>3 DEF Swapped
    <3> QED
      BY <3>1, <3>2
  <2>5. page \notin o /\ Has(o, page) = 0
    BY <1>1, <1>4 DEF Where, Has
  <2>6. IsFiniteSet(o2)
    <3>1. IsFiniteSet(o \ {F[v]})
      BY <1>2, FS_Subset
    <3> QED
      BY <2>4, <3>1, FS_AddElement
  <2>9. opt'[n].faults = opt[n].faults + 1 - Has(o, page) /\ page \in o2
    BY <1>1, <2>3, <2>4, <2>5
  <2>7. CASE F[v] = Empty
    <3>1. Cardinality(o) < n
      BY <1>0, <1>1, <2>1, <2>7, ResidentFewer
    <3>2. o2 = o \cup {page}
      BY <1>1, <2>4, <2>7
    <3>3. [held |-> o2, faults |-> opt'[n].faults]
            \in Serve([held |-> o, faults |-> opt[n].faults], page, n)
      BY <2>3, <2>5, <3>1, <3>2 DEF Serve
    <3>4. o \ {page} = o2 \ {page}
      BY <2>5, <3>2
    <3> QED
      BY <1>1, <1>2, <2>4, <2>6, <2>9, <3>3, <3>4, Zenon
  <2>8. CASE F[v] # Empty
    <3>1. /\ \A j \in Frames(n) : F[j] # Empty
          /\ \A j \in Frames(n) : NextUse(F[j]) <= NextUse(F[v])
      BY <1>0, <1>1, <1>v, <2>8, OptVictimBest
    <3>2. F[v] \in o /\ Cardinality(o) = n /\ ~(Cardinality(o) < n)
      BY <1>0, <1>1, <1>2, <2>1, <2>8, <3>1
    <3>3. \A p \in o : NextUse(p) <= NextUse(F[v])
      BY <1>1, <3>1
    <3>4. [held |-> o2, faults |-> opt'[n].faults]
            \in Serve([held |-> o, faults |-> opt[n].faults], page, n)
      BY <2>3, <2>4, <2>5, <3>2 DEF Serve
    <3> QED
      BY <1>1, <1>2, <2>4, <2>5, <2>6, <2>9, <3>2, <3>3, <3>4, Zenon
  <2> QED
    BY <2>7, <2>8
<1> QED
  BY <1>3, <1>4

(* The ways to serve the first references, unfolded: all pairs of what is  *)
(* held and the faults so far.                                             *)
Nothing == {[held |-> {}, faults |-> 0]}
Ways(W, page, n) == UNION {Serve(s, page, n) : s \in W}

Reaches(r, n, m, f) ==
  f = [k \in 0 .. m |-> IF k = 0 THEN Nothing ELSE Ways(f[k - 1], r[k - 1], n)]

LEMMA ReachesExist ==
  ASSUME NEW r, NEW n, NEW m \in Nat PROVE \E f : Reaches(r, n, m, f)
<1> DEFINE Good == {l \in Nat : \E f : Reaches(r, n, l, f)}
<1>1. 0 \in Good
  <2> DEFINE f == [k \in 0 .. 0 |-> Nothing]
  <2>1. f = [k \in 0 .. 0 |-> IF k = 0 THEN Nothing ELSE Ways(f[k - 1], r[k - 1], n)]
    OBVIOUS
  <2> HIDE DEF f
  <2>2. Reaches(r, n, 0, f)
    BY <2>1 DEF Reaches
  <2> QED
    BY <2>2
<1>2. ASSUME NEW l \in Nat, l \in Good PROVE l + 1 \in Good
  <2>1. PICK f : Reaches(r, n, l, f)
    BY <1>2
  <2> DEFINE g == [k \in 0 .. l + 1 |-> IF k = l + 1 THEN Ways(f[l], r[l], n) ELSE f[k]]
  <2>2. ASSUME NEW k \in 0 .. l + 1
        PROVE  g[k] = IF k = 0 THEN Nothing ELSE Ways(g[k - 1], r[k - 1], n)
    <3>1. CASE k = l + 1
      <4>1. g[k] = Ways(f[l], r[l], n) /\ g[l] = f[l] /\ k - 1 = l /\ k # 0
        BY <3>1
      <4> HIDE DEF g
      <4> QED
        BY <4>1
    <3>2. CASE k # l + 1
      <4>1. k \in 0 .. l /\ g[k] = f[k] /\ (k # 0 => k - 1 \in 0 .. l /\ g[k - 1] = f[k - 1])
        BY <3>2
      <4> HIDE DEF g
      <4>2. f[k] = IF k = 0 THEN Nothing ELSE Ways(f[k - 1], r[k - 1], n)
        BY <2>1, <4>1 DEF Reaches
      <4> QED
        BY <4>1, <4>2
    <3> QED
      BY <3>1, <3>2
  <2>3. g = [k \in 0 .. l + 1 |-> g[k]]
    OBVIOUS
  <2> HIDE DEF g
  <2>4. Reaches(r, n, l + 1, g)
    BY <2>2, <2>3 DEF Reaches
  <2> QED
    BY <2>4
<1> HIDE DEF Good
<1>3. Nat \subseteq Good
  BY <1>1, <1>2, NatInduct
<1> QED
  BY <1>3 DEF Good


Reach(n) == CHOOSE f : Reaches(ref_string, n, ref_len, f)

LEMMA ReachIs ==
  ASSUME RefsOK, NEW n
  PROVE  /\ Reach(n)[0] = Nothing
         /\ \A k \in 0 .. ref_len - 1 : Reach(n)[k + 1] = Ways(Reach(n)[k], ref_string[k], n)
         /\ LeastFaults(n) = Min({s.faults : s \in Reach(n)[ref_len]})
<1>1. ref_len \in Nat
  BY RefFacts
<1>2. Reaches(ref_string, n, ref_len, Reach(n))
  BY <1>1, ReachesExist DEF Reach
<1>3. LeastFaults(n) = Min({s.faults : s \in Reach(n)[ref_len]})
  BY DEF LeastFaults, Reach, Reaches, Ways, Nothing
<1>4. PICK f : f = Reach(n)
  OBVIOUS
<1>5. \A k \in 0 .. ref_len : f[k] = IF k = 0 THEN Nothing ELSE Ways(f[k - 1], ref_string[k - 1], n)
  BY <1>2, <1>4 DEF Reaches
<1>6. f[0] = Nothing
  BY <1>1, <1>5
<1>7. ASSUME NEW k \in 0 .. ref_len - 1 PROVE f[k + 1] = Ways(f[k], ref_string[k], n)
  <2>1. k + 1 \in 0 .. ref_len /\ k + 1 # 0 /\ (k + 1) - 1 = k
    BY <1>1
  <2> QED
    BY <1>5, <2>1
<1> QED
  BY <1>3, <1>4, <1>6, <1>7

(* What is held in any of them, and OPT's lead over it in faults: it makes *)
(* up for every page more that is held and due, up to any later reference. *)
Lead(s, n) == s.faults - opt[n].faults
BestOK(n) ==
  /\ [held |-> Resident(opt[n]), faults |-> opt[n].faults] \in Reach(n)[i]
  /\ \A s \in Reach(n)[i] :
       /\ IsFiniteSet(s.held) /\ Cardinality(s.held) <= n /\ s.faults \in Nat
       /\ \A t \in i - 1 .. ref_len - 1 :
            Cardinality(Due(ref_string, s.held, i, t))
              - Cardinality(Due(ref_string, Resident(opt[n]), i, t)) <= Lead(s, n)

LEMMA BestInit == ASSUME Init, NEW n \in NumFrames PROVE BestOK(n)
<1>1. RefsOK /\ n \in Nat /\ i = 0 /\ opt[n].faults = 0 /\ Resident(opt[n]) = {}
  BY RefsInit, PageAssumption DEF Init, NumFrames, Resident
<1>2. Reach(n)[i] = Nothing
  BY <1>1, ReachIs
<1>3. Cardinality({}) = 0 /\ IsFiniteSet({})
  BY FS_EmptySet
<1>4. [held |-> Resident(opt[n]), faults |-> opt[n].faults] \in Reach(n)[i]
  BY <1>1, <1>2 DEF Nothing
<1>5. ASSUME NEW s \in Reach(n)[i] PROVE s.held = {} /\ s.faults = 0
  BY <1>2, <1>5 DEF Nothing
<1>6. \A t : Due(ref_string, {}, i, t) = {}
  BY DEF Due
<1>7. ASSUME NEW s \in Reach(n)[i]
      PROVE  /\ IsFiniteSet(s.held) /\ Cardinality(s.held) <= n /\ s.faults \in Nat
             /\ \A t : Cardinality(Due(ref_string, s.held, i, t))
                       - Cardinality(Due(ref_string, Resident(opt[n]), i, t)) <= Lead(s, n)
  <2>1. s.held = {} /\ s.faults = 0 /\ Lead(s, n) = 0
    BY <1>1, <1>5 DEF Lead
  <2>2. \A t : /\ Cardinality(Due(ref_string, s.held, i, t)) = 0
              /\ Cardinality(Due(ref_string, Resident(opt[n]), i, t)) = 0
    BY <1>1, <1>3, <1>6, <2>1
  <2> QED
    BY <1>1, <1>3, <2>1, <2>2
<1> QED
  BY <1>4, <1>7 DEF BestOK

LEMMA BestStep ==
  ASSUME RefsOK, Reference, NEW n \in NumFrames, OptOK(n), BestOK(n) PROVE BestOK(n)'
<1>r. PICK r : r = ref_string
  OBVIOUS
<1>a. PICK a : a = i
  OBVIOUS
<1>R. PICK R : R = Reach(n)
  OBVIOUS
<1>p. PICK page : page = ref_string[i]
  OBVIOUS
<1>o. PICK o : o = Resident(opt[n])
  OBVIOUS
<1>q. PICK o2 : o2 = Resident(opt'[n])
  OBVIOUS
<1>f. PICK f : f = opt[n].faults
  OBVIOUS
<1>g. PICK f2 : f2 = opt'[n].faults
  OBVIOUS
<1>1. /\ n \in Nat \ {0} /\ a \in Nat /\ ref_len \in Nat /\ a < ref_len /\ a \in 0 .. ref_len - 1
      /\ i' = a + 1 /\ ref_string' = r /\ ref_len' = ref_len /\ page = r[a]
  BY <1>r, <1>a, <1>p, Turn, RefFacts, PageAssumption DEF NumFrames, Reference
<1>2. Reach(n)' = R
  BY <1>1, <1>r, <1>R DEF Reach
<1>3. R[a + 1] = Ways(R[a], page, n)
  BY <1>1, <1>a, <1>p, <1>R, ReachIs
<1>4. /\ f \in Nat /\ f2 = f + 1 - Has(o, page)
      /\ IsFiniteSet(o) /\ Cardinality(o) <= n /\ IsFiniteSet(o2) /\ page \in o2
      /\ [held |-> o2, faults |-> f2] \in Serve([held |-> o, faults |-> f], page, n)
      /\ \/ o \ {page} = o2 \ {page}
         \/ /\ page \notin o /\ Cardinality(o) = n
            /\ \E v \in o : /\ o2 = (o \ {v}) \cup {page}
                            /\ \A p \in o : NextUse(p) <= NextUse(v)
  BY <1>p, <1>o, <1>q, <1>f, <1>g, OptServes
<1>5. /\ [held |-> o, faults |-> f] \in R[a]
      /\ \A s \in R[a] :
           /\ IsFiniteSet(s.held) /\ Cardinality(s.held) <= n /\ s.faults \in Nat
           /\ \A t \in a - 1 .. ref_len - 1 :
                Cardinality(Due(r, s.held, a, t)) - Cardinality(Due(r, o, a, t)) <= s.faults - f
  BY <1>r, <1>a, <1>R, <1>o, <1>f DEF BestOK, Lead
<1>6. [held |-> o2, faults |-> f2] \in R[a + 1]
  BY <1>3, <1>4, <1>5 DEF Ways
<1>7. ASSUME NEW t \in Int, a <= t, t < ref_len
      PROVE  \/ o \ {r[a]} = o2 \ {r[a]}
             \/ /\ r[a] \notin o /\ Cardinality(o) = n
                /\ \E v \in o : /\ o2 = (o \ {v}) \cup {r[a]}
                                /\ Used(r, v, a + 1, t) => \A p \in o : Used(r, p, a + 1, t)
  <2>1. CASE o \ {page} = o2 \ {page}
    BY <1>1, <2>1
  <2>2. CASE /\ page \notin o /\ Cardinality(o) = n
             /\ \E v \in o : /\ o2 = (o \ {v}) \cup {page}
                             /\ \A p \in o : NextUse(p) <= NextUse(v)
    <3>1. PICK v \in o : o2 = (o \ {v}) \cup {page} /\ \A p \in o : NextUse(p) <= NextUse(v)
      BY <2>2
    <3>2. ASSUME Used(r, v, a + 1, t), NEW p \in o PROVE Used(r, p, a + 1, t)
      BY <1>1, <1>7, <1>r, <1>a, <3>1, <3>2, UsedSooner
    <3> QED
      BY <1>1, <2>2, <3>1, <3>2
  <2> QED
    BY <1>4, <2>1, <2>2
<1>8. ASSUME NEW s2 \in R[a + 1]
      PROVE  /\ IsFiniteSet(s2.held) /\ Cardinality(s2.held) <= n /\ s2.faults \in Nat
             /\ \A t \in a .. ref_len - 1 :
                  Cardinality(Due(r, s2.held, a + 1, t)) - Cardinality(Due(r, o2, a + 1, t))
                    <= s2.faults - f2
  <2>1. PICK s \in R[a] : s2 \in Serve(s, page, n)
    BY <1>3 DEF Ways
  <2>2. IsFiniteSet(s.held) /\ Cardinality(s.held) <= n /\ s.faults \in Nat
    BY <1>5
  <2>3. /\ IsFiniteSet(s2.held) /\ Cardinality(s2.held) <= n /\ s2.faults \in Nat
        /\ page \in s2.held /\ s2.held \ {page} \subseteq s.held
        /\ s2.faults = s.faults + 1 - Has(s.held, page)
    BY <1>1, <2>1, <2>2, Served
  <2>4. ASSUME NEW t \in a .. ref_len - 1
        PROVE  Cardinality(Due(r, s2.held, a + 1, t)) - Cardinality(Due(r, o2, a + 1, t))
                 <= s2.faults - f2
    <3>b. PICK lead : lead = s.faults - f
      OBVIOUS
    <3>1. /\ t \in Int /\ a <= t /\ t < ref_len /\ lead \in Int
          /\ t \in a - 1 .. ref_len - 1 /\ a \in a - 1 .. ref_len - 1
      BY <1>1, <1>4, <2>2, <3>b
    <3>2. /\ Cardinality(Due(r, s.held, a, t)) - Cardinality(Due(r, o, a, t)) <= lead
          /\ Cardinality(Due(r, s.held, a, a)) - Cardinality(Due(r, o, a, a)) <= lead
      BY <1>5, <3>1, <3>b
    <3>h. PICK h : h = s.held
      OBVIOUS
    <3>k. PICK k : k = s2.held
      OBVIOUS
    <3>3. /\ IsFiniteSet(h) /\ IsFiniteSet(k) /\ Cardinality(k) <= n /\ r[a] \in k /\ k \ {r[a]} \subseteq h
          /\ Cardinality(Due(r, h, a, t)) - Cardinality(Due(r, o, a, t)) <= lead
          /\ Cardinality(Due(r, h, a, a)) - Cardinality(Due(r, o, a, a)) <= lead
      BY <1>1, <2>2, <2>3, <3>2, <3>h, <3>k
    <3>4. Cardinality(Due(r, k, a + 1, t)) - Cardinality(Due(r, o2, a + 1, t))
            <= lead - Has(h, r[a]) + Has(o, r[a])
      BY <1>1, <1>4, <1>7, <3>1, <3>3, LeadKept
    <3>5. Has(h, r[a]) \in Int /\ Has(o, r[a]) \in Int
      BY DEF Has
    <3>6. s2.faults - f2 = lead - Has(h, r[a]) + Has(o, r[a])
      BY <1>1, <1>4, <2>2, <2>3, <3>5, <3>b, <3>h
    <3> QED
      BY <3>4, <3>6, <3>k
  <2> QED
    BY <2>3, <2>4
<1>9. (a + 1) - 1 = a
  BY <1>1
<1> QED
  BY <1>1, <1>2, <1>6, <1>8, <1>9, <1>q, <1>g DEF BestOK, Lead

BestInv == PagesInv /\ \A n \in NumFrames : BestOK(n)

LEMMA BestInvariant == Spec => []BestInv
<1>1. Init => \A n \in NumFrames : BestOK(n)
  BY BestInit
<1>2. PagesInv /\ (\A n \in NumFrames : BestOK(n)) /\ [Next]_vars => (\A n \in NumFrames : BestOK(n))'
  <2> SUFFICES ASSUME PagesInv, \A n \in NumFrames : BestOK(n), [Next]_vars, NEW n \in NumFrames
               PROVE  BestOK(n)'
    BY DEF NumFrames
  <2>1. CASE Reference
    BY <2>1, BestStep DEF PagesInv
  <2>2. CASE UNCHANGED vars
    <3>1. UNCHANGED <<ref_string, i, opt>>
      BY <2>2 DEF vars
    <3>2. ref_len' = ref_len /\ Reach(n)' = Reach(n)
      BY <3>1 DEF ref_len, Reach
    <3> QED
      BY <3>1, <3>2 DEF BestOK, Lead
  <2> QED
    BY <2>1, <2>2 DEF Next
<1> QED
  BY <1>1, <1>2, PagesInvariant, PTL DEF Spec, BestInv

(* Whatever the reference string and the number of frames, no choice of    *)
(* victims has fewer faults than OPT, with its ties, its empty frames and  *)
(* its pages that are never used again (pagesim.c:139-198).                *)
THEOREM OptHasFewestFaults == Spec => []OptIsLeast
<1>1. ASSUME BestInv PROVE OptIsLeast
  <2> SUFFICES ASSUME i = ref_len, NEW n \in NumFrames PROVE opt[n].faults = LeastFaults(n)
    BY DEF OptIsLeast
  <2>R. PICK R : R = Reach(n)[ref_len]
    OBVIOUS
  <2>f. PICK f : f = opt[n].faults
    OBVIOUS
  <2>o. PICK o : o = Resident(opt[n])
    OBVIOUS
  <2>1. RefsOK /\ ref_len \in Nat /\ i \in Nat /\ BestOK(n)
    BY <1>1, RefFacts DEF BestInv, PagesInv
  <2>2. LeastFaults(n) = Min({s.faults : s \in R})
    BY <2>1, <2>R, ReachIs
  <2>3. [held |-> o, faults |-> f] \in R
    BY <2>1, <2>R, <2>f, <2>o DEF BestOK
  <2>4. ASSUME NEW s \in R PROVE s.faults \in Nat /\ (f \in Nat => f <= s.faults)
    <3>1. i - 1 \in i - 1 .. ref_len - 1
      BY <2>1
    <3>2. /\ s.faults \in Nat
          /\ Cardinality(Due(ref_string, s.held, i, i - 1)) - Cardinality(Due(ref_string, o, i, i - 1))
               <= s.faults - f
      BY <2>1, <2>R, <2>f, <2>o, <3>1 DEF BestOK, Lead
    <3>3. \A S : Due(ref_string, S, i, i - 1) = {}
      BY <2>1 DEF Due, Used
    <3>4. Cardinality({}) = 0
      BY FS_EmptySet
    <3> QED
      BY <3>2, <3>3, <3>4
  <2> DEFINE T == {s.faults : s \in R}
  <2>5. f \in T /\ f \in Nat
    <3>1. f \in T
      BY <2>3
    <3> QED
      BY <2>4, <3>1
  <2>6. T \in SUBSET Int /\ \A y \in T : f <= y
    BY <2>4, <2>5
  <2>7. Min(T) \in T /\ \A y \in T : Min(T) <= y
    <3> HIDE DEF T
    <3> QED
      BY <2>5, <2>6, LeastOf
  <2>8. Min(T) = f
    <3>1. Min(T) \in Int /\ f <= Min(T) /\ Min(T) <= f
      BY <2>5, <2>6, <2>7
    <3> QED
      BY <2>5, <3>1
  <2> QED
    BY <2>2, <2>8, <2>f
<1> QED
  BY <1>1, BestInvariant, PTL

=============================================================================
