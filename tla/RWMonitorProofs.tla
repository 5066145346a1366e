-------------------------- MODULE RWMonitorProofs --------------------------
(***************************************************************************)
(* Theorems about RWMonitor, for any number of readers and writers.  The   *)
(* heart of the invariant is Counted: whenever the mutex changes hands the *)
(* four counters are the sizes of the four groups of threads they stand    *)
(* for, so a test of a counter is a test of where the threads are.         *)
(***************************************************************************)
EXTENDS RWMonitor, FiniteSetTheorems, TLAPS

(* Types of everything but the counters, and who sleeps where. *)
Places ==
  /\ running \in BOOLEAN
  /\ lock \in Threads \cup {Nobody}
  /\ pc \in [Threads -> PCs]
  /\ ok_to_read \subseteq At(Readers, {"wait"})
  /\ ok_to_write \subseteq At(Writers, {"wait"})

(* mon.lock is held by exactly the threads between lock and unlock. *)
Locking == \A t \in Threads : lock = t <=> pc[t] \in {"test", "woken", "leave"}

MonitorInv ==
  /\ Places /\ Locking /\ Counted
  /\ Exclusion /\ ReaderHasAWaker /\ WriterHasAWaker

-----------------------------------------------------------------------------
(* Moving one thread. *)

LEMMA AtFinite ==
  ASSUME NEW P
  PROVE  /\ IsFiniteSet(At(Readers, P)) /\ Cardinality(At(Readers, P)) \in Nat
         /\ IsFiniteSet(At(Writers, P)) /\ Cardinality(At(Writers, P)) \in Nat
         /\ Cardinality(At(Readers, P)) <= Cardinality(Readers)
         /\ Cardinality(At(Writers, P)) <= Cardinality(Writers)
         /\ Cardinality(At(Readers, P)) = 0 <=> At(Readers, P) = {}
         /\ Cardinality(At(Writers, P)) = 0 <=> At(Writers, P) = {}
<1>1. At(Readers, P) \in SUBSET Readers /\ At(Writers, P) \in SUBSET Writers
  BY DEF At
<1>2. /\ IsFiniteSet(At(Readers, P)) /\ Cardinality(At(Readers, P)) <= Cardinality(Readers)
      /\ IsFiniteSet(At(Writers, P)) /\ Cardinality(At(Writers, P)) <= Cardinality(Writers)
  BY <1>1, MonitorAssumption, FS_Subset
<1> QED
  BY <1>2, FS_CardinalityType, FS_EmptySet

(* A thread that goes from one place to another joins the groups of the    *)
(* new place and leaves those of the old one.                              *)
LEMMA Moved ==
  ASSUME NEW T \in {Readers, Writers}, NEW P, NEW t \in Threads, NEW place,
         pc \in [Threads -> PCs], Goto(t, place)
  PROVE  At(T, P)' = IF t \in T /\ place \in P THEN At(T, P) \cup {t} ELSE At(T, P) \ {t}
BY DEF Goto, At, Threads

LEMMA Recounted ==
  ASSUME NEW T \in {Readers, Writers}, NEW P, NEW t \in Threads, NEW place,
         pc \in [Threads -> PCs], Goto(t, place)
  PROVE  Cardinality(At(T, P))' =
           IF t \in T /\ place \in P
           THEN IF pc[t] \in P THEN Cardinality(At(T, P)) ELSE Cardinality(At(T, P)) + 1
           ELSE IF t \in T /\ pc[t] \in P THEN Cardinality(At(T, P)) - 1 ELSE Cardinality(At(T, P))
<1>1. IsFiniteSet(At(T, P))
  BY AtFinite
<1>2. t \in At(T, P) <=> t \in T /\ pc[t] \in P
  BY DEF At
<1>3. /\ Cardinality(At(T, P) \cup {t}) =
           IF t \in At(T, P) THEN Cardinality(At(T, P)) ELSE Cardinality(At(T, P)) + 1
      /\ Cardinality(At(T, P) \ {t}) =
           IF t \in At(T, P) THEN Cardinality(At(T, P)) - 1 ELSE Cardinality(At(T, P))
  BY <1>1, FS_AddElement, FS_RemoveElement
<1>4. At(T, P)' = IF t \in T /\ place \in P THEN At(T, P) \cup {t} ELSE At(T, P) \ {t}
  BY Moved
<1> QED
  BY <1>2, <1>3, <1>4

LEMMA MonitorInit == Init => MonitorInv
<1> SUFFICES ASSUME Init PROVE MonitorInv
  OBVIOUS
<1>1. /\ At(Readers, Inside) = {} /\ At(Readers, Waiting) = {}
      /\ At(Writers, Inside) = {} /\ At(Writers, Waiting) = {}
  BY DEF Init, At, Inside, Waiting, Threads
<1>2. Counted
  BY <1>1, FS_EmptySet DEF Init, Counted
<1>3. Places /\ Locking
  BY MonitorAssumption DEF Init, Places, Locking, Threads, PCs, At
<1>4. Exclusion /\ ReaderHasAWaker /\ WriterHasAWaker
  BY <1>1 DEF Init, Exclusion, ReaderHasAWaker, WriterHasAWaker, Inside
<1> QED
  BY <1>2, <1>3, <1>4 DEF MonitorInv

-----------------------------------------------------------------------------
(* Preservation, one lemma for each part of the invariant. *)

LEMMA PlacesStep == Places /\ Locking /\ [Next]_vars => Places' /\ Locking'
<1> SUFFICES ASSUME Places, Locking, [Next]_vars PROVE Places' /\ Locking'
  OBVIOUS
<1> USE MonitorAssumption DEF Places, Locking, Threads, PCs, At, Goto, counters
<1>1. CASE timer_thread
  BY <1>1 DEF timer_thread
<1>2. CASE SpuriousWakeup
  BY <1>2 DEF SpuriousWakeup
<1>3. ASSUME NEW t \in Threads, Loop(t) PROVE Places' /\ Locking'
  BY <1>3 DEF Loop
<1>4. ASSUME NEW t \in Threads, Acquire(t) PROVE Places' /\ Locking'
  BY <1>4 DEF Acquire, WithMutex
<1>5. ASSUME NEW t \in Threads, read_lock(t) PROVE Places' /\ Locking'
  BY <1>5 DEF read_lock
<1>6. ASSUME NEW t \in Threads, write_lock(t) PROVE Places' /\ Locking'
  BY <1>6 DEF write_lock
<1>7. ASSUME NEW t \in Threads, read_unlock(t) PROVE Places' /\ Locking'
  <2>1. ok_to_write' \subseteq ok_to_write
    BY <1>7 DEF read_unlock, Signal
  <2> QED
    BY <1>7, <2>1 DEF read_unlock
<1>8. ASSUME NEW t \in Threads, write_unlock(t) PROVE Places' /\ Locking'
  <2>1. ok_to_write' \subseteq ok_to_write /\ ok_to_read' \subseteq ok_to_read
    BY <1>8 DEF write_unlock, Signal, Broadcast
  <2> QED
    BY <1>8, <2>1 DEF write_unlock
<1>9. CASE UNCHANGED vars
  BY <1>9 DEF vars
<1> QED
  BY <1>1, <1>2, <1>3, <1>4, <1>5, <1>6, <1>7, <1>8, <1>9 DEF Next, Step

(* What a step of thread t makes of the four groups. *)
LEMMA CountedMove ==
  ASSUME Places, Counted, NEW t \in Threads, NEW place, Goto(t, place)
  PROVE  /\ t \in Readers =>
              /\ UNCHANGED <<Cardinality(At(Writers, Inside)), Cardinality(At(Writers, Waiting))>>
              /\ Cardinality(At(Readers, Inside))' =
                   AR + (IF place \in Inside THEN 1 ELSE 0) - (IF pc[t] \in Inside THEN 1 ELSE 0)
              /\ Cardinality(At(Readers, Waiting))' =
                   WR + (IF place \in Waiting THEN 1 ELSE 0) - (IF pc[t] \in Waiting THEN 1 ELSE 0)
         /\ t \in Writers =>
              /\ UNCHANGED <<Cardinality(At(Readers, Inside)), Cardinality(At(Readers, Waiting))>>
              /\ Cardinality(At(Writers, Inside))' =
                   AW + (IF place \in Inside THEN 1 ELSE 0) - (IF pc[t] \in Inside THEN 1 ELSE 0)
              /\ Cardinality(At(Writers, Waiting))' =
                   WW + (IF place \in Waiting THEN 1 ELSE 0) - (IF pc[t] \in Waiting THEN 1 ELSE 0)
<1>1. pc \in [Threads -> PCs] /\ (t \in Readers <=> t \notin Writers)
  BY MonitorAssumption DEF Places, Threads
<1>2. /\ AR \in Nat /\ WR \in Nat /\ AW \in Nat /\ WW \in Nat
      /\ AR = Cardinality(At(Readers, Inside)) /\ WR = Cardinality(At(Readers, Waiting))
      /\ AW = Cardinality(At(Writers, Inside)) /\ WW = Cardinality(At(Writers, Waiting))
  BY AtFinite DEF Counted
<1>3. ASSUME NEW T \in {Readers, Writers}, NEW P
      PROVE  Cardinality(At(T, P))' =
               IF t \in T /\ place \in P
               THEN IF pc[t] \in P THEN Cardinality(At(T, P)) ELSE Cardinality(At(T, P)) + 1
               ELSE IF t \in T /\ pc[t] \in P THEN Cardinality(At(T, P)) - 1 ELSE Cardinality(At(T, P))
  BY <1>1, Recounted
<1>4. ASSUME t \in Readers
      PROVE  /\ UNCHANGED <<Cardinality(At(Writers, Inside)), Cardinality(At(Writers, Waiting))>>
             /\ Cardinality(At(Readers, Inside))' =
                  AR + (IF place \in Inside THEN 1 ELSE 0) - (IF pc[t] \in Inside THEN 1 ELSE 0)
             /\ Cardinality(At(Readers, Waiting))' =
                  WR + (IF place \in Waiting THEN 1 ELSE 0) - (IF pc[t] \in Waiting THEN 1 ELSE 0)
  BY <1>1, <1>2, <1>3, <1>4
<1>5. ASSUME t \in Writers
      PROVE  /\ UNCHANGED <<Cardinality(At(Readers, Inside)), Cardinality(At(Readers, Waiting))>>
             /\ Cardinality(At(Writers, Inside))' =
                  AW + (IF place \in Inside THEN 1 ELSE 0) - (IF pc[t] \in Inside THEN 1 ELSE 0)
             /\ Cardinality(At(Writers, Waiting))' =
                  WW + (IF place \in Waiting THEN 1 ELSE 0) - (IF pc[t] \in Waiting THEN 1 ELSE 0)
  BY <1>1, <1>2, <1>3, <1>5
<1> QED
  BY <1>4, <1>5

LEMMA CountedStep == Places /\ Locking /\ Counted /\ [Next]_vars => Counted'
<1> SUFFICES ASSUME Places, Locking, Counted, [Next]_vars PROVE Counted'
  OBVIOUS
<1>0. AR \in Nat /\ WR \in Nat /\ AW \in Nat /\ WW \in Nat
  BY AtFinite DEF Counted
<1>1. ASSUME UNCHANGED <<counters, pc>> PROVE Counted'
  BY <1>1 DEF Counted, counters, At
<1>2. ASSUME NEW t \in Threads, Loop(t) \/ Acquire(t) PROVE Counted'
  <2>1. PICK place : /\ Goto(t, place)
                     /\ place \in Inside <=> pc[t] \in Inside
                     /\ place \in Waiting <=> pc[t] \in Waiting
    BY <1>2 DEF Loop, Acquire, WithMutex, Inside, Waiting
  <2>2. UNCHANGED counters
    BY <1>2 DEF Loop, Acquire
  <2> QED
    BY <1>0, <2>1, <2>2, CountedMove DEF Counted, counters, Threads
<1>3. ASSUME NEW t \in Threads, read_lock(t) PROVE Counted'
  <2>1. PICK place \in {"wait", "in"} : Goto(t, place) /\ (place = "wait" <=> ReaderMustWait)
    BY <1>3 DEF read_lock
  <2>2. t \in Readers /\ pc[t] \in {"test", "woken"} /\ AW' = AW /\ WW' = WW
    BY <1>3 DEF read_lock
  <2>3. /\ AR' = AR + (IF place = "in" THEN 1 ELSE 0)
        /\ WR' = WR + (IF place = "wait" THEN 1 ELSE 0) - (IF pc[t] = "woken" THEN 1 ELSE 0)
    BY <1>0, <1>3, <2>1 DEF read_lock, BackFromWait
  <2> QED
    BY <1>0, <2>1, <2>2, <2>3, CountedMove DEF Counted, Inside, Waiting
<1>4. ASSUME NEW t \in Threads, write_lock(t) PROVE Counted'
  <2>1. PICK place \in {"wait", "in"} : Goto(t, place) /\ (place = "wait" <=> WriterMustWait)
    BY <1>4 DEF write_lock
  <2>2. t \in Writers /\ pc[t] \in {"test", "woken"} /\ AR' = AR /\ WR' = WR
    BY <1>4 DEF write_lock
  <2>3. /\ AW' = AW + (IF place = "in" THEN 1 ELSE 0)
        /\ WW' = WW + (IF place = "wait" THEN 1 ELSE 0) - (IF pc[t] = "woken" THEN 1 ELSE 0)
    BY <1>0, <1>4, <2>1 DEF write_lock, BackFromWait
  <2> QED
    BY <1>0, <2>1, <2>2, <2>3, CountedMove DEF Counted, Inside, Waiting
<1>5. ASSUME NEW t \in Threads, read_unlock(t) \/ write_unlock(t) PROVE Counted'
  <2>1. Goto(t, "loop") /\ pc[t] = "leave" /\ WR' = WR /\ WW' = WW
    BY <1>5 DEF read_unlock, write_unlock
  <2>2. \/ t \in Readers /\ AR' = AR - 1 /\ AW' = AW
        \/ t \in Writers /\ AW' = AW - 1 /\ AR' = AR
    BY <1>5 DEF read_unlock, write_unlock
  <2> QED
    BY <1>0, <2>1, <2>2, CountedMove DEF Counted, Inside, Waiting
<1> QED
  BY <1>1, <1>2, <1>3, <1>4, <1>5 DEF Next, Step, timer_thread, SpuriousWakeup, vars

(* A writer gets in only when nobody is, a reader only when no writer is   *)
(* in or waits.                                                            *)
LEMMA ExclusionStep ==
  Places /\ Locking /\ Counted /\ Exclusion /\ [Next]_vars => Exclusion'
<1> SUFFICES ASSUME Places, Locking, Counted, Exclusion, [Next]_vars PROVE Exclusion'
  OBVIOUS
<1>0. pc \in [Threads -> PCs]
  BY DEF Places
<1>1. ASSUME UNCHANGED pc PROVE Exclusion'
  BY <1>1 DEF Exclusion, At
<1>2. ASSUME NEW t \in Threads, NEW place \in PCs, Goto(t, place), place \in Inside => pc[t] \in Inside
      PROVE  Exclusion'
  BY <1>0, <1>2 DEF Exclusion, At, Goto, Inside, Threads
<1>3. ASSUME NEW t \in Threads, read_lock(t), pc'[t] = "in" PROVE Exclusion'
  <2>1. At(Writers, Inside) = {}
    <3>1. AW = 0
      BY <1>0, <1>3, AtFinite DEF read_lock, ReaderMustWait, Goto, Counted
    <3> QED
      BY <3>1, AtFinite DEF Counted
  <2>2. Goto(t, "in") /\ t \notin Writers
    BY <1>0, <1>3, MonitorAssumption DEF read_lock, Goto
  <2>3. At(Writers, Inside)' = {}
    BY <1>0, <2>1, <2>2 DEF At, Goto, Inside, Threads
  <2> QED
    BY <2>3 DEF Exclusion, Inside
<1>4. ASSUME NEW t \in Threads, write_lock(t), pc'[t] = "in" PROVE Exclusion'
  <2>1. At(Writers, Inside) = {} /\ At(Readers, Inside) = {}
    <3>1. AW = 0 /\ AR = 0
      BY <1>0, <1>4, AtFinite DEF write_lock, WriterMustWait, Goto, Counted
    <3> QED
      BY <3>1, AtFinite DEF Counted
  <2>2. Goto(t, "in")
    BY <1>0, <1>4 DEF write_lock, Goto
  <2>3. At(Threads, Inside)' = {t}
    BY <1>0, <2>1, <2>2 DEF At, Goto, Inside, Threads
  <2> QED
    BY <2>3 DEF Exclusion, Inside, At, Threads
<1>5. ASSUME NEW t \in Threads, Step(t), ~(read_lock(t) /\ pc'[t] = "in"), ~(write_lock(t) /\ pc'[t] = "in")
      PROVE  Exclusion'
  <2>1. PICK place \in PCs : Goto(t, place) /\ (place \in Inside => pc[t] \in Inside)
    BY <1>0, <1>5 DEF Step, Loop, Acquire, WithMutex, read_lock, write_lock, read_unlock,
       write_unlock, Goto, Inside, PCs
  <2> QED
    BY <1>2, <2>1
<1> QED
  BY <1>1, <1>3, <1>4, <1>5 DEF Next, timer_thread, SpuriousWakeup, vars

(* Signal releases one sleeper, if there is one. *)
LEMMA SignalReleases ==
  ASSUME NEW sleeping, NEW left \in Signal(sleeping)
  PROVE  /\ left \subseteq sleeping
         /\ sleeping # {} => \E t \in sleeping : left = sleeping \ {t}
BY DEF Signal

(* A reader goes to sleep on a writer; a writer that leaves without waking *)
(* the readers leaves another one waiting.                                 *)
LEMMA ReaderWakerStep ==
  Places /\ Locking /\ Counted /\ ReaderHasAWaker /\ [Next]_vars => ReaderHasAWaker'
<1> SUFFICES ASSUME Places, Locking, Counted, ReaderHasAWaker, [Next]_vars, ok_to_read' # {}
             PROVE  At(Writers, Inside \cup Waiting)' # {}
  BY DEF ReaderHasAWaker
<1>0. pc \in [Threads -> PCs] /\ Writers \subseteq Threads
  BY DEF Places, Threads
<1>a. /\ AR \in Nat /\ WR \in Nat /\ AW \in Nat /\ WW \in Nat
      /\ AW > 0 => At(Writers, Inside) # {}
      /\ WW > 0 => At(Writers, Waiting) # {}
      /\ WR = 0 => At(Readers, Waiting) = {}
  BY AtFinite DEF Counted
<1>b. ASSUME NEW t \in Threads, NEW place, Goto(t, place), t \in Writers => place \in Inside \cup Waiting
      PROVE  At(Writers, Inside \cup Waiting) # {}
               => At(Writers, Inside \cup Waiting)' # {}
  BY <1>0, <1>b DEF At, Goto, Inside, Waiting
<1>c. ASSUME ok_to_read # {}
      PROVE  At(Writers, Inside \cup Waiting) # {}
  BY <1>c DEF ReaderHasAWaker
<1>1. ASSUME ok_to_read' \subseteq ok_to_read, UNCHANGED pc
      PROVE  At(Writers, Inside \cup Waiting)' # {}
  BY <1>1, <1>c DEF At
<1>2. ASSUME NEW t \in Threads, Loop(t) \/ Acquire(t)
      PROVE  At(Writers, Inside \cup Waiting)' # {}
  <2>1. PICK v \in Writers : pc[v] \in Inside \cup Waiting
    BY <1>2, <1>c DEF Loop, Acquire, At
  <2>2. pc'[v] \in Inside \cup Waiting
    BY <1>0, <1>2, <2>1 DEF Loop, Acquire, WithMutex, Goto, Inside, Waiting
  <2> QED
    BY <2>1, <2>2 DEF At
<1>3. ASSUME NEW t \in Threads, read_lock(t)
      PROVE  At(Writers, Inside \cup Waiting)' # {}
  <2>1. (\E place : Goto(t, place)) /\ t \notin Writers
    BY <1>3, MonitorAssumption DEF read_lock
  <2>2. At(Writers, Inside \cup Waiting) # {}
    <3>1. CASE ReaderMustWait
      BY <1>a, <3>1 DEF ReaderMustWait, At, Inside, Waiting
    <3>2. CASE ~ReaderMustWait
      BY <1>3, <1>c, <3>2 DEF read_lock
    <3> QED
      BY <3>1, <3>2
  <2> QED
    BY <1>b, <2>1, <2>2
<1>4. ASSUME NEW t \in Threads, write_lock(t)
      PROVE  At(Writers, Inside \cup Waiting)' # {}
  <2>1. t \in Writers /\ pc'[t] \in {"in", "wait"}
    BY <1>0, <1>4 DEF write_lock, Goto
  <2> QED
    BY <2>1 DEF At, Inside, Waiting
<1>5. ASSUME NEW t \in Threads, read_unlock(t)
      PROVE  At(Writers, Inside \cup Waiting)' # {}
  BY <1>5, <1>b, <1>c, MonitorAssumption DEF read_unlock
<1>6. ASSUME NEW t \in Threads, write_unlock(t)
      PROVE  At(Writers, Inside \cup Waiting)' # {}
  <2>1. Goto(t, "loop") /\ pc[t] = "leave"
    BY <1>6 DEF write_unlock
  <2>2. CASE WW > 0
    <3>1. PICK v \in Writers : pc[v] \in Waiting
      BY <1>a, <2>2 DEF At
    <3>2. pc'[v] \in Waiting
      BY <1>0, <2>1, <3>1 DEF Goto, Waiting
    <3> QED
      BY <3>2 DEF At, Waiting
  <2>3. CASE ~(WW > 0)
    <3>1. CASE WR > 0
      BY <1>6, <2>3, <3>1 DEF write_unlock, Broadcast
    <3>2. CASE ~(WR > 0)
      <4>1. ok_to_read' = ok_to_read
        BY <1>6, <2>3, <3>2 DEF write_unlock
      <4>2. ok_to_read \subseteq At(Readers, Waiting)
        BY DEF Places, At, Waiting
      <4> QED
        BY <1>a, <3>2, <4>1, <4>2
    <3> QED
      BY <3>1, <3>2
  <2> QED
    BY <2>2, <2>3
<1> QED
  BY <1>1, <1>2, <1>3, <1>4, <1>5, <1>6 DEF Next, Step, timer_thread, SpuriousWakeup, vars

(* A writer goes to sleep on a thread that is inside; the last one out     *)
(* releases a writer or has none to release.                               *)
LEMMA WriterWakerStep ==
  Places /\ Places' /\ Locking /\ Counted /\ Exclusion /\ WriterHasAWaker /\ [Next]_vars
    => WriterHasAWaker'
<1> SUFFICES ASSUME Places, Places', Locking, Counted, Exclusion, WriterHasAWaker, [Next]_vars,
                    ok_to_write' # {}
             PROVE  \/ At(Threads, Inside)' # {}
                    \/ At(Writers, Waiting)' \ ok_to_write' # {}
  BY DEF WriterHasAWaker, Inside, Waiting
<1> DEFINE Awake == \/ At(Threads, Inside)' # {}
                   \/ At(Writers, Waiting)' \ ok_to_write' # {}
<1>0. /\ pc \in [Threads -> PCs] /\ Threads = Readers \cup Writers
      /\ Readers \cap Writers = {}
  BY MonitorAssumption DEF Places, Threads
<1>a. /\ AR \in Nat /\ WR \in Nat /\ AW \in Nat /\ WW \in Nat
      /\ AW > 0 => At(Writers, Inside) # {}
      /\ AR > 0 => At(Readers, Inside) # {}
      /\ WW = 0 => At(Writers, Waiting) = {}
  BY AtFinite DEF Counted
<1>b. ok_to_write \subseteq At(Writers, Waiting)
  BY DEF Places, At, Waiting
<1>c. ASSUME ok_to_write # {}
      PROVE  \/ At(Threads, Inside) # {}
             \/ At(Writers, Waiting) \ ok_to_write # {}
  BY <1>c DEF WriterHasAWaker, Inside, Waiting
<1>d. ASSUME NEW v \in ok_to_write, ok_to_write' = ok_to_write \ {v}, pc'[v] = pc[v] PROVE Awake
  BY <1>b, <1>d DEF At
<1>e. ASSUME ok_to_write' = ok_to_write,
             \A v \in Threads : pc[v] \in Inside => pc'[v] \in Inside,
             \A v \in Writers \ ok_to_write : pc[v] \in Waiting => pc'[v] \in Inside \cup Waiting
      PROVE  Awake
  <2>1. CASE At(Threads, Inside) # {}
    BY <1>e, <2>1 DEF At
  <2>2. CASE At(Writers, Waiting) \ ok_to_write # {}
    BY <1>0, <1>e, <2>2 DEF At
  <2> QED
    BY <1>c, <1>e, <2>1, <2>2
<1>1. CASE timer_thread \/ UNCHANGED vars
  BY <1>1, <1>e DEF timer_thread, vars, Waiting, Inside
<1>2. CASE SpuriousWakeup
  <2>1. ASSUME NEW w \in ok_to_write, ok_to_write' = ok_to_write \ {w} PROVE Awake
    BY <1>2, <1>d, <2>1 DEF SpuriousWakeup
  <2> QED
    BY <1>2, <1>e, <2>1 DEF SpuriousWakeup
<1>3. ASSUME NEW t \in Threads, Loop(t) \/ Acquire(t) PROVE Awake
  <2>1. /\ ok_to_write' = ok_to_write
        /\ \A v \in Threads : pc[v] \in Inside => pc'[v] \in Inside
        /\ \A v \in Threads : pc[v] \in Waiting => pc'[v] \in Waiting
    BY <1>0, <1>3 DEF Loop, Acquire, WithMutex, Goto, Inside, Waiting
  <2> QED
    BY <1>0, <1>e, <2>1
<1>4. ASSUME NEW t \in Threads, read_lock(t) PROVE Awake
  <2>1. /\ ok_to_write' = ok_to_write /\ t \in Readers
        /\ \A v \in Threads : pc[v] \in Inside => pc'[v] \in Inside
        /\ \A v \in Threads \ {t} : pc'[v] = pc[v]
    BY <1>0, <1>4 DEF read_lock, Goto, Inside
  <2> QED
    BY <1>0, <1>e, <2>1
<1>5. ASSUME NEW t \in Threads, write_lock(t) PROVE Awake
  <2>1. CASE WriterMustWait
    <3>1. At(Threads, Inside) # {}
      BY <1>0, <1>a, <2>1 DEF WriterMustWait, At
    <3>2. \A v \in Threads : pc[v] \in Inside => pc'[v] \in Inside
      BY <1>0, <1>5 DEF write_lock, Goto, Inside
    <3> QED
      BY <3>1, <3>2 DEF At
  <2>2. CASE ~WriterMustWait
    BY <1>0, <1>5, <2>2 DEF write_lock, Goto, At, Inside
  <2> QED
    BY <2>1, <2>2
<1>6. ASSUME NEW t \in Threads, NEW v \in ok_to_write, ok_to_write' = ok_to_write \ {v},
             Goto(t, "loop"), pc[t] = "leave"
      PROVE  Awake
  <2>1. pc'[v] = pc[v]
    BY <1>0, <1>6 DEF Goto, Places, At
  <2> QED
    BY <1>6, <1>d, <2>1
<1>7. ASSUME NEW t \in Threads, read_unlock(t) PROVE Awake
  <2>1. Goto(t, "loop") /\ pc[t] = "leave" /\ t \in Readers
    BY <1>7 DEF read_unlock
  <2>2. CASE WW > 0 /\ AR = 1 /\ ok_to_write # {}
    <3>1. ok_to_write' \in Signal(ok_to_write)
      BY <1>7, <2>2 DEF read_unlock, LastReaderOut
    <3> QED
      BY <1>6, <2>1, <2>2, <3>1, SignalReleases
  <2>3. CASE WW = 0
    <3>1. ok_to_write = {}
      BY <1>a, <1>b, <2>3
    <3> QED
      BY <1>7, <3>1 DEF read_unlock, Signal
  <2>4. CASE AR # 1
    <3>1. ok_to_write' = ok_to_write /\ Cardinality(At(Readers, Inside)) # 1
      BY <1>7, <2>4 DEF read_unlock, LastReaderOut, Counted
    <3>2. PICK v \in At(Readers, Inside) : v # t
      <4>1. t \in At(Readers, Inside)
        BY <2>1 DEF At, Inside
      <4>2. At(Readers, Inside) # {t}
        BY <3>1, FS_Singleton
      <4> QED
        BY <4>1, <4>2
    <3>3. v \in At(Threads, Inside)'
      BY <1>0, <2>1, <3>2 DEF Goto, At
    <3> QED
      BY <3>3
  <2>5. CASE ok_to_write = {}
    BY <1>7, <2>5 DEF read_unlock, Signal
  <2> QED
    BY <1>a, <2>2, <2>3, <2>4, <2>5
<1>8. ASSUME NEW t \in Threads, write_unlock(t) PROVE Awake
  <2>1. Goto(t, "loop") /\ pc[t] = "leave" /\ t \in Writers
    BY <1>8 DEF write_unlock
  <2>2. CASE WW > 0 /\ ok_to_write # {}
    <3>1. ok_to_write' \in Signal(ok_to_write)
      BY <1>8, <2>2 DEF write_unlock
    <3> QED
      BY <1>6, <2>1, <2>2, <3>1, SignalReleases
  <2>3. CASE WW = 0
    <3>1. ok_to_write = {}
      BY <1>a, <1>b, <2>3
    <3> QED
      BY <1>8, <2>3, <3>1 DEF write_unlock
  <2>4. CASE ok_to_write = {}
    BY <1>8, <2>4 DEF write_unlock, Signal
  <2> QED
    BY <1>a, <2>2, <2>3, <2>4
<1> QED
  BY <1>1, <1>2, <1>3, <1>4, <1>5, <1>7, <1>8 DEF Next, Step

-----------------------------------------------------------------------------
(* The theorems. *)

LEMMA MonitorInvariant == Spec => []MonitorInv
<1>1. MonitorInv /\ [Next]_vars => MonitorInv'
  <2> SUFFICES ASSUME MonitorInv, [Next]_vars PROVE MonitorInv'
    OBVIOUS
  <2>1. Places /\ Locking /\ Counted /\ Exclusion /\ ReaderHasAWaker /\ WriterHasAWaker
    BY DEF MonitorInv
  <2>2. Places' /\ Locking' /\ Counted' /\ Exclusion'
    BY <2>1, PlacesStep, CountedStep, ExclusionStep
  <2>3. ReaderHasAWaker' /\ WriterHasAWaker'
    BY <2>1, <2>2, ReaderWakerStep, WriterWakerStep
  <2> QED
    BY <2>2, <2>3 DEF MonitorInv
<1> QED
  BY <1>1, MonitorInit, PTL DEF Spec

(* Every variable of the monitor keeps its type, AR, WR, AW and WW are the *)
(* numbers of active and waiting readers and writers, and AW is 0 or 1     *)
(* (ex3_starving_writer.c:26-29).                                          *)
THEOREM TypeCorrect == Spec => []TypeOK
<1>1. MonitorInv => TypeOK
  <2> SUFFICES ASSUME MonitorInv PROVE TypeOK
    OBVIOUS
  <2>1. AW \in {0, 1}
    <3>1. CASE At(Writers, Inside) = {}
      BY <3>1, AtFinite DEF MonitorInv, Counted
    <3>2. ASSUME NEW w \in At(Writers, Inside) PROVE AW = 1
      <4>1. At(Writers, Inside) = {w}
        BY <3>2 DEF MonitorInv, Exclusion, At, Inside, Threads
      <4> QED
        BY <4>1, FS_Singleton DEF MonitorInv, Counted
    <3> QED
      BY <3>1, <3>2
  <2> QED
    BY <2>1 DEF MonitorInv, Places, TypeOK, At
<1> QED
  BY <1>1, MonitorInvariant, PTL

(* A writer inside the monitor is alone there (lines 70 and 90), whatever  *)
(* the order of signals, barging and spurious wakeups.                     *)
THEOREM WriterIsAlone == Spec => []Exclusion
<1>1. MonitorInv => Exclusion
  BY DEF MonitorInv
<1> QED
  BY <1>1, MonitorInvariant, PTL

(* No lost wakeup for readers: while one sleeps there is a writer whose    *)
(* unlock is still to come (lines 97-101).                                 *)
THEOREM ReadersAreWoken == Spec => []ReaderHasAWaker
<1>1. MonitorInv => ReaderHasAWaker
  BY DEF MonitorInv
<1> QED
  BY <1>1, MonitorInvariant, PTL

(* No lost wakeup for writers: the signals of lines 77 and 97 are enough.  *)
THEOREM WritersAreWoken == Spec => []WriterHasAWaker
<1>1. MonitorInv => WriterHasAWaker
  BY DEF MonitorInv
<1> QED
  BY <1>1, MonitorInvariant, PTL

(* Writers first (lines 12-13): while a writer waits no reader gets in.    *)
THEOREM WritersGoFirst == Spec => WritersFirst
<1>1. MonitorInv /\ [Next]_vars =>
        [At(Writers, Waiting) # {} => At(Readers, Inside)' \subseteq At(Readers, Inside)]_vars
  <2> SUFFICES ASSUME MonitorInv, [Next]_vars, At(Writers, Waiting) # {}
               PROVE  At(Readers, Inside)' \subseteq At(Readers, Inside)
    OBVIOUS
  <2>0. pc \in [Threads -> PCs]
    BY DEF MonitorInv, Places
  <2>1. WW \in Nat /\ WW > 0 /\ AW \in Nat
    BY AtFinite DEF MonitorInv, Counted
  <2>2. ASSUME NEW t \in Threads, Step(t) PROVE \E place : Goto(t, place) /\ (place \in Inside => pc[t] \in Inside \/ t \notin Readers)
    BY <2>1, <2>2, MonitorAssumption DEF Step, Loop, Acquire, WithMutex, read_lock, ReaderMustWait, write_lock,
       read_unlock, write_unlock, Inside
  <2>3. ASSUME NEW t \in Threads, NEW place, Goto(t, place),
               place \in Inside => pc[t] \in Inside \/ t \notin Readers
        PROVE  At(Readers, Inside)' \subseteq At(Readers, Inside)
    BY <2>0, <2>3 DEF Goto, At, Threads
  <2>4. ASSUME UNCHANGED pc PROVE At(Readers, Inside)' \subseteq At(Readers, Inside)
    BY <2>4 DEF At
  <2> QED
    BY <2>2, <2>3, <2>4 DEF Next, timer_thread, SpuriousWakeup, vars
<1> QED
  BY <1>1, MonitorInvariant, PTL DEF Spec, WritersFirst

=============================================================================
